------------------------------- MODULE Service -------------------------------
(***************************************************************************)
(* The replicated key-value service end to end: sessions that retry        *)
(* (internal/nemesis/workload.go), the KV service (internal/kvraft), the   *)
(* node layer that answers its calls (internal/raft/node.go: the waiters   *)
(* of proposals, the read barriers, the apply loop, compaction), and the   *)
(* replicated state machine with its session table and its snapshots.  The *)
(* harness's own verdict, Verify, is an operator.                          *)
(*                                                                         *)
(* Underneath is a coarse Raft, whose steps are whole exchanges: a won     *)
(* election, an accepted append, an installed snapshot, an advance of the  *)
(* leader's commit index.  Raft, RaftMembers and Catchup hold the detail.  *)
(* One step of a node is one dispatch and its afterStep.  The program's    *)
(* keys are independent; here is one of them.  A value is the session and  *)
(* the serial that wrote it, as the workload makes it.                     *)
(***************************************************************************)
EXTENDS Naturals, FiniteSets, SequencesExt

CONSTANTS
    Node, Client, None,
    Anonymous,    \* clients without a session (client id 0)
    Founder,      \* the leader of term 1
    Contacts,     \* nodes that clients call (Addrs)
    CanWin,       \* nodes that may win an election
    Crashable,    \* nodes that may crash and restart
    Plans,        \* workloads: script[c], the operations of client c; home[c], the
                  \* node it calls first; crashes, the bound on crashes meanwhile
    Tries,        \* Tries[c]: attempts of an operation of c before its deadline
    CompactAt,    \* Config.CompactAt: applied entries before a compaction
    MaxTerm,      \* bound: no election beyond this term
    MaxLog,       \* bound: no proposal on a log this long
    MaxFailures   \* bound: attempts that fail

ASSUME ServiceAssumption ==
    /\ Contacts \cup CanWin \cup Crashable \cup {Founder} \subseteq Node
    /\ Anonymous \subseteq Client
    /\ \A p \in Plans : /\ p.script \in [Client -> Seq({"put", "delete", "get"})]
                        /\ p.home \in [Client -> Contacts] /\ p.crashes \in Nat
    /\ Tries \in [Client -> Nat \ {0}]
    /\ CompactAt \in Nat \ {0}

VARIABLES
    term, leads, log, commitIndex,  \* the Raft core of every node
    sm,        \* sm[n]: the state machine: [index, data, sessions]
    snap,      \* snap[n]: the snapshot n has on disk
    inbox,     \* events in the queues of the nodes (msgc)
    waiters,   \* waiters[n]: proposals n owes an answer
    reads,     \* reads[n]: read barriers n has not resolved
    reply,     \* reply[c]: the answer to c's attempt, None until there is one
    call,      \* call[c]: the operation c is in, None between two
    serial,    \* serial[c]: c's last serial
    started,   \* started[c]: operations c has started
    cur,       \* cur[c]: the node c calls
    history,   \* the recorded operations
    keyState,  \* keyState[c]: what c's own acknowledgements allow
    chosen,    \* history: the committed entries
    told,      \* history: what the owners of proposals were told
    plan,      \* the workload of this run
    crashes, failures

coreVars   == <<term, leads, log, commitIndex, chosen>>
nodeVars   == <<sm, snap, waiters, reads, told>>
clientVars == <<call, serial, started, cur, history, keyState, failures>>
vars       == <<coreVars, nodeVars, clientVars, inbox, reply, plan, crashes>>

Command == [client : Client, serial : Nat \ {0}, kind : {"put", "delete"}]
Value   == Client \X (Nat \ {0})

Majority == Cardinality(Node) \div 2 + 1
Quorums  == {Q \in SUBSET Node : Cardinality(Q) = Majority}

Refused == [ok |-> FALSE, value |-> None]
-----------------------------------------------------------------------------
(* The replicated state machine.                                           *)

Fresh == [index |-> 0, data |-> None, sessions |-> [c \in Client |-> 0]]

\* applyEntry and stateMachine.Apply: a no-op only moves the cursor, and so
\* does a serial that the session has already applied.  A command without a
\* session is always applied.
Apply(s, e) ==
    LET c == e.cmd
        next == [s EXCEPT !.index = @ + 1]
    IN IF c = None \/ (c.client \notin Anonymous /\ c.serial <= s.sessions[c.client]) THEN next
       ELSE [next EXCEPT !.data = IF c.kind = "put" THEN <<c.client, c.serial>> ELSE None,
                         !.sessions[c.client] = IF c.client \in Anonymous THEN @ ELSE c.serial]

Applied(s, lg, k) == FoldLeft(Apply, s, SubSeq(lg, s.index + 1, k))

\* Faulty variant: the image leaves the session table out.
SnapshotDataOnly(s) == [s EXCEPT !.sessions = [c \in Client |-> 0]]

\* stateMachine.Snapshot: the image holds the map and the session table, and
\* compact stores with it the index it was taken at.
Snapshot(s) == [index |-> s.index, data |-> s.data, sessions |-> s.sessions]

\* stateMachine.Restore: the image replaces both, and the apply cursor.
Restore(img) == [Fresh EXCEPT !.index = img.index, !.data = img.data, !.sessions = img.sessions]

\* maybeCompact: what n has on disk after a step that leaves it in state s.
Compacted(n, s) == IF s.index < snap[n].index + CompactAt THEN snap[n] ELSE Snapshot(s)

\* Faulty variant: whatever landed on the index counts as the proposal.
OutcomeAnyTerm(w, e) == [index |-> w.index, term |-> w.term, ok |-> TRUE]

\* applyEntry: what the owner of w is told when e is applied at its index.
Outcome(w, e) == [index |-> w.index, term |-> w.term, ok |-> w.term = e.term]

\* afterStep on n once its core has committed the first k entries of lg and
\* left the barriers rs: entries are applied and their waiters answered, a
\* barrier of n that is gone was aborted, and the log may be compacted.
AfterStep(n, lg, k, rs) ==
    LET due  == {w \in waiters[n] : w.index \in sm[n].index + 1 .. k}
        out  == [w \in due |-> Outcome(w, lg[w.index])]
        lost == {r.client : r \in reads[n] \ rs[n]}
        s    == Applied(sm[n], lg, k)
    IN /\ sm' = [sm EXCEPT ![n] = s]
       /\ snap' = [snap EXCEPT ![n] = Compacted(n, s)]
       /\ waiters' = [waiters EXCEPT ![n] = @ \ due]
       /\ told' = told \cup Range(out)
       /\ reads' = rs
       /\ reply' = [c \in Client |->
             IF \E w \in due : w.client = c
             THEN [ok |-> \E w \in due : w.client = c /\ out[w].ok, value |-> None]
             ELSE IF c \in lost THEN Refused ELSE reply[c]]
-----------------------------------------------------------------------------
(* The coarse Raft core, with what each of its steps makes the node do.    *)

\* Founder has led term 1 since the start and its no-op is applied everywhere.
Init ==
    /\ term = [n \in Node |-> 1] /\ leads = [n \in Node |-> n = Founder]
    /\ log = [n \in Node |-> <<[term |-> 1, cmd |-> None]>>]
    /\ commitIndex = [n \in Node |-> 1] /\ chosen = log[Founder]
    /\ sm = [n \in Node |-> Applied(Fresh, chosen, 1)] /\ snap = [n \in Node |-> Fresh]
    /\ inbox = {} /\ waiters = [n \in Node |-> {}] /\ reads = [n \in Node |-> {}]
    /\ reply = [c \in Client |-> None] /\ call = [c \in Client |-> None]
    /\ serial = [c \in Client |-> 0] /\ started = [c \in Client |-> 0]
    /\ plan \in Plans /\ cur = plan.home
    /\ history = {} /\ told = {} /\ crashes = 0 /\ failures = 0
    /\ keyState = [c \in Client |-> [ackedSerial |-> 0, unknownLater |-> {}]]

UpToDate(a, b) ==
    \/ Last(a).term > Last(b).term
    \/ Last(a).term = Last(b).term /\ Len(a) >= Len(b)

\* n wins an election with the votes of Q.  A voter that still led steps
\* down, which aborts its barriers; the winner appends a no-op.
Elect(n, Q) ==
    LET t == 1 + Max({term[q] : q \in Q})
        lost == UNION {reads[q] : q \in Q}
    IN /\ ~leads[n] /\ n \in Q /\ t <= MaxTerm
       /\ \A q \in Q : UpToDate(log[n], log[q])
       /\ term' = [m \in Node |-> IF m \in Q THEN t ELSE term[m]]
       /\ leads' = [m \in Node |-> IF m \in Q THEN m = n ELSE leads[m]]
       /\ log' = [log EXCEPT ![n] = Append(@, [term |-> t, cmd |-> None])]
       /\ reads' = [m \in Node |-> IF m \in Q THEN {} ELSE reads[m]]
       /\ reply' = [c \in Client |-> IF \E r \in lost : r.client = c THEN Refused ELSE reply[c]]
       /\ UNCHANGED <<commitIndex, chosen, sm, snap, waiters, told, clientVars, inbox, crashes, plan>>

\* m accepts an append with everything l has.  Entries of m that l's
\* contradict are gone, and m stops leading if it led.  l hears of it for
\* the barriers it registered before.
Accept(m, l) ==
    LET lg == IF IsPrefix(log[l], log[m]) THEN log[m] ELSE log[l]
        k  == Max({commitIndex[m], commitIndex[l]})
    IN /\ m # l /\ leads[l] /\ term[m] <= term[l]
       /\ term' = [term EXCEPT ![m] = term[l]]
       /\ leads' = [leads EXCEPT ![m] = FALSE]
       /\ log' = [log EXCEPT ![m] = lg]
       /\ commitIndex' = [commitIndex EXCEPT ![m] = k]
       /\ AfterStep(m, lg, k, [reads EXCEPT ![m] = {},
                     ![l] = {[r EXCEPT !.heard = @ \cup {m}] : r \in @}])
       /\ UNCHANGED <<chosen, clientVars, inbox, crashes, plan>>

\* m installs l's snapshot, which covers more than m has committed.  If m
\* has the last entry it covers, m keeps its log behind that entry.  Waiters
\* of entries the snapshot covers are not answered.
Install(m, l) ==
    LET s == snap[l]
        coherent == s.index <= Len(log[m]) /\ log[m][s.index].term = log[l][s.index].term
    IN
    /\ m # l /\ leads[l] /\ term[m] <= term[l]
    /\ s.index > commitIndex[m]
    /\ term' = [term EXCEPT ![m] = term[l]]
    /\ leads' = [leads EXCEPT ![m] = FALSE]
    /\ log' = [log EXCEPT ![m] = IF coherent THEN @ ELSE SubSeq(log[l], 1, s.index)]
    /\ commitIndex' = [commitIndex EXCEPT ![m] = s.index]
    /\ sm' = [sm EXCEPT ![m] = Restore(s)] /\ snap' = [snap EXCEPT ![m] = s]
    /\ reads' = [reads EXCEPT ![m] = {}]
    /\ reply' = [c \in Client |-> IF \E r \in reads[m] : r.client = c THEN Refused ELSE reply[c]]
    /\ UNCHANGED <<chosen, waiters, told, clientVars, inbox, crashes, plan>>

\* maybeAdvanceCommit: the highest index of l's own term that a majority has.
Commit(l) ==
    LET held(k) == Cardinality({m \in Node : IsPrefix(SubSeq(log[l], 1, k), log[m])}) >= Majority
        ks == {k \in commitIndex[l] + 1 .. Len(log[l]) : log[l][k].term = term[l] /\ held(k)}
        k  == Max(ks)
    IN /\ leads[l] /\ ks # {}
       /\ commitIndex' = [commitIndex EXCEPT ![l] = k]
       /\ chosen' = IF k > Len(chosen) THEN SubSeq(log[l], 1, k) ELSE chosen
       /\ AfterStep(l, log[l], k, reads)
       /\ UNCHANGED <<term, leads, log, clientVars, inbox, crashes, plan>>

\* Faulty variant: the commit index survives, the state machine does not.
RestartKeepsCommit(n) ==
    /\ crashes < plan.crashes /\ crashes' = crashes + 1
    /\ leads' = [leads EXCEPT ![n] = FALSE]
    /\ sm' = [sm EXCEPT ![n] = Restore(snap[n])]
    /\ waiters' = [waiters EXCEPT ![n] = {}] /\ reads' = [reads EXCEPT ![n] = {}]
    /\ inbox' = {e \in inbox : e.node # n}
    /\ reply' = [c \in Client |-> IF call[c] # None /\ cur[c] = n /\ reply[c] = None
                                  THEN Refused ELSE reply[c]]
    /\ UNCHANGED <<commitIndex, term, log, chosen, snap, told, clientVars, plan>>

\* A node crashes and starts again from its files.  The attempts it was
\* serving fail, and so do the events in its queue.
Restart(n) ==
    /\ crashes < plan.crashes /\ crashes' = crashes + 1
    /\ leads' = [leads EXCEPT ![n] = FALSE]
    /\ commitIndex' = [commitIndex EXCEPT ![n] = snap[n].index]
    /\ sm' = [sm EXCEPT ![n] = Restore(snap[n])]
    /\ waiters' = [waiters EXCEPT ![n] = {}] /\ reads' = [reads EXCEPT ![n] = {}]
    /\ inbox' = {e \in inbox : e.node # n}
    /\ reply' = [c \in Client |-> IF call[c] # None /\ cur[c] = n /\ reply[c] = None
                                  THEN Refused ELSE reply[c]]
    /\ UNCHANGED <<term, log, chosen, snap, told, clientVars, plan>>
-----------------------------------------------------------------------------
(* The node's events: proposals and read barriers.                         *)

\* The goroutine that sent e still waits for its answer.
Awaited(e) ==
    /\ call[e.client] # None
    /\ call[e.client].kind = e.kind /\ call[e.client].try = e.try
    /\ e.kind # "get" => serial[e.client] = e.serial

\* dispatch answers the caller at once.
Answer(e, r) == reply' = IF Awaited(e) THEN [reply EXCEPT ![e.client] = r] ELSE reply

\* dispatch of an evPropose: a leader appends the command and files the
\* caller under its index, in the place of whoever waited there before.
Propose(e) ==
    LET n == e.node
        i == Len(log[n]) + 1
        w == [index |-> i, term |-> term[n], client |-> e.client]
        cmd == [client |-> e.client, serial |-> e.serial, kind |-> e.kind]
    IN /\ e \in inbox /\ e.kind # "get" /\ i <= MaxLog
       /\ inbox' = inbox \ {e}
       /\ IF leads[n]
          THEN /\ log' = [log EXCEPT ![n] = Append(@, [term |-> term[n], cmd |-> cmd])]
               /\ waiters' = [waiters EXCEPT ![n] = {x \in @ : x.index # i} \cup
                                                     (IF Awaited(e) THEN {w} ELSE {})]
               /\ UNCHANGED reply
          ELSE Answer(e, Refused) /\ UNCHANGED <<log, waiters>>
       /\ UNCHANGED <<term, leads, commitIndex, chosen, sm, snap, reads, told, clientVars, crashes, plan>>

\* Faulty variant: a leader that has committed nothing of its term registers.
RequestReadUnready(e) ==
    LET n == e.node
        r == [client |-> e.client, index |-> commitIndex[n], heard |-> {n}]
    IN /\ e \in inbox /\ e.kind = "get"
       /\ inbox' = inbox \ {e}
       /\ IF leads[n]
          THEN reads' = [reads EXCEPT ![n] = @ \cup {r}] /\ UNCHANGED reply
          ELSE Answer(e, Refused) /\ UNCHANGED reads
       /\ UNCHANGED <<coreVars, sm, snap, waiters, told, clientVars, crashes, plan>>

\* dispatch of an evRead: refused unless n leads and has committed an entry
\* of its own term.
RequestRead(e) ==
    LET n == e.node
        r == [client |-> e.client, index |-> commitIndex[n], heard |-> {n}]
    IN /\ e \in inbox /\ e.kind = "get"
       /\ inbox' = inbox \ {e}
       /\ IF leads[n] /\ commitIndex[n] > 0 /\ log[n][commitIndex[n]].term = term[n]
          THEN reads' = [reads EXCEPT ![n] = @ \cup {r}] /\ UNCHANGED reply
          ELSE Answer(e, Refused) /\ UNCHANGED reads
       /\ UNCHANGED <<coreVars, sm, snap, waiters, told, clientVars, crashes, plan>>

\* The acknowledgements reach a majority: ReadBarrier returns to the handler
\* of Get, once n has applied the entries up to the barrier.
ConfirmRead(n, r) ==
    /\ r \in reads[n] /\ Cardinality(r.heard) >= Majority /\ sm[n].index >= r.index
    /\ reads' = [reads EXCEPT ![n] = @ \ {r}]
    /\ call' = [call EXCEPT ![r.client].cleared = TRUE]
    /\ UNCHANGED <<coreVars, sm, snap, waiters, told, inbox, reply, crashes, plan,
                   serial, started, cur, history, keyState, failures>>

\* KVService.Get behind its barrier, on the handler's own goroutine.
Get(c) ==
    /\ call[c] # None /\ call[c].cleared /\ reply[c] = None
    /\ reply' = [reply EXCEPT ![c] = [ok |-> TRUE, value |-> sm[cur[c]].data]]
    /\ UNCHANGED <<coreVars, nodeVars, clientVars, inbox, crashes, plan>>
-----------------------------------------------------------------------------
(* The clients: sessions that number their writes and retry them.          *)

Event(c, n, kind, ser, try) ==
    [node |-> n, client |-> c, kind |-> kind, try |-> try,
     serial |-> IF kind = "get" THEN 0 ELSE ser]

\* Nobody listens to c's attempt any more.  An event that is in a queue
\* stays there; a read that nobody waits for has no effect.
Abandon(c) ==
    /\ waiters' = [n \in Node |-> {w \in waiters[n] : w.client # c}]
    /\ reads' = [n \in Node |-> {r \in reads[n] : r.client # c}]
    /\ reply' = [reply EXCEPT ![c] = None]

\* client and the first attempt of doPut, doDelete or doGet.
Start(c, kind) ==
    LET ser == IF kind = "get" THEN serial[c] ELSE serial[c] + 1 IN
    /\ call[c] = None /\ started[c] < Len(plan.script[c]) /\ kind = plan.script[c][started[c] + 1]
    /\ serial' = [serial EXCEPT ![c] = ser]
    /\ started' = [started EXCEPT ![c] = @ + 1]
    /\ call' = [call EXCEPT ![c] = [kind |-> kind, try |-> 1, cleared |-> FALSE,
                                   after |-> {o.id : o \in history}]]
    /\ inbox' = inbox \cup {Event(c, cur[c], kind, ser, 1)}
    /\ UNCHANGED <<coreVars, nodeVars, reply, cur, history, keyState, failures, crashes, plan>>

\* An attempt of c ends with an error: an answer, or its deadline.
Fails(c) ==
    /\ call[c] # None /\ reply[c] \in {None, Refused}
    /\ failures < MaxFailures /\ failures' = failures + 1

\* The attempt failed, or 500 ms went by without an answer: the same serial
\* goes to n, another node, by rotation or by the hint of the one that refused.
Retry(c, n) ==
    /\ Fails(c) /\ call[c].try < Tries[c] /\ n # cur[c]
    /\ call' = [call EXCEPT ![c].try = @ + 1, ![c].cleared = FALSE]
    /\ cur' = [cur EXCEPT ![c] = n]
    /\ inbox' = {e \in inbox : e.client = c => e.kind # "get"}
                \cup {Event(c, n, call[c].kind, serial[c], call[c].try + 1)}
    /\ Abandon(c)
    /\ UNCHANGED <<coreVars, sm, snap, told, serial, started, history, keyState, crashes, plan>>

\* The record of c's operation.  Of its two timestamps it keeps what they
\* are compared for: the operations that had returned when it was invoked.
Recorded(c, unknown, out) ==
    [id |-> <<c, started[c]>>, kind |-> call[c].kind, serial |-> serial[c],
     unknown |-> unknown, out |-> out, after |-> call[c].after]

\* noteAck: the acknowledged write supersedes what came before it.
NoteAck(k, ser) ==
    IF ser > k.ackedSerial
    THEN [ackedSerial |-> ser, unknownLater |-> {u \in k.unknownLater : u > ser}]
    ELSE k

\* Faulty variant: a write without an answer is taken for one that failed.
NoteUnknownIgnored(k, ser) == k

\* noteUnknown: the write may still take effect.
NoteUnknown(k, ser) ==
    IF ser > k.ackedSerial THEN [k EXCEPT !.unknownLater = @ \cup {ser}] ELSE k

\* The end of doPut, doDelete and doGet: only puts are tracked by keyState.
Finish(c, op, noted) ==
    /\ history' = history \cup {op}
    /\ keyState' = IF op.kind = "put" THEN [keyState EXCEPT ![c] = noted] ELSE keyState
    /\ call' = [call EXCEPT ![c] = None]
    /\ inbox' = {e \in inbox : e.client = c => e.kind # "get"}
    /\ Abandon(c)
    /\ UNCHANGED <<coreVars, sm, snap, told, serial, started, cur, crashes, plan>>

Return(c) ==
    /\ reply[c] # None /\ reply[c].ok /\ UNCHANGED failures
    /\ Finish(c, Recorded(c, FALSE, reply[c].value), NoteAck(keyState[c], serial[c]))

\* The deadline of the operation passes.
GiveUp(c) ==
    /\ Fails(c) /\ call[c].try = Tries[c]
    /\ Finish(c, Recorded(c, TRUE, None), NoteUnknown(keyState[c], serial[c]))

Next ==
    \/ \E n \in CanWin, Q \in Quorums : Elect(n, Q)
    \/ \E m, l \in Node : Accept(m, l) \/ Install(m, l)
    \/ \E l \in Node : Commit(l)
    \/ \E n \in Crashable : Restart(n)
    \/ \E e \in inbox : Propose(e) \/ RequestRead(e)
    \/ \E n \in Node : \E r \in reads[n] : ConfirmRead(n, r)
    \/ \E c \in Client : Get(c) \/ Return(c) \/ GiveUp(c) \/ \E kind \in {"put", "delete", "get"} : Start(c, kind)
    \/ \E c \in Client, n \in Contacts : Retry(c, n)

Spec == Init /\ [][Next]_vars
-----------------------------------------------------------------------------
(* The harness's verdicts: porcupine's search for an order, and Verify.    *)

\* kvModel.Step and a legal order: every get sees the write before it.
Legal(order) ==
    \A i \in DOMAIN order : order[i].kind = "get" =>
        LET before == {j \in 1 .. i - 1 : order[j].kind # "get"}
            w == order[Max(before)]
        IN order[i].out = IF before = {} \/ w.kind = "delete" THEN None ELSE <<w.id[1], w.serial>>

\* porcupine: some legal order puts no operation before one that returned
\* before it was invoked.
Linearizable(ops) ==
    \E order \in SetToSeqs(ops) :
        /\ \A i, j \in DOMAIN order : i < j => order[j].id \notin order[i].after
        /\ Legal(order)

\* Verify reads v from the key c has written alone.
Verify(c, v) ==
    LET k == keyState[c]
        legal == ({k.ackedSerial} \ {0}) \cup k.unknownLater
    IN IF v = None THEN k.ackedSerial = 0 ELSE legal = {} \/ v[2] \in legal
-----------------------------------------------------------------------------
(* Properties.                                                             *)

Reply == [ok : BOOLEAN, value : Value \cup {None}]
Image == [index : Nat, data : Value \cup {None}, sessions : [Client -> Nat]]

\* Types.  Between two steps of a node everything it has committed is applied
\* (afterStep drains takeCommitted), and its snapshot is behind that.
TypeOK ==
    /\ term \in [Node -> 1 .. MaxTerm] /\ leads \in [Node -> BOOLEAN]
    /\ \A n \in Node :
          /\ \A i \in DOMAIN log[n] : log[n][i].cmd \in Command \cup {None}
          /\ sm[n] \in Image /\ snap[n] \in Image
          /\ snap[n].index <= sm[n].index /\ sm[n].index = commitIndex[n]
          /\ commitIndex[n] <= Len(log[n])
          /\ \A w \in waiters[n] : w.index \in Nat /\ w.client \in Client
          /\ reads[n] \subseteq [client : Client, index : Nat, heard : SUBSET Node]
    /\ reply \in [Client -> Reply \cup {None}]
    /\ serial \in [Client -> Nat] /\ started \in [Client -> Nat]

\* The committed entries among the first k that may change the map: those
\* whose serial is above every serial of their session before them, and those
\* without a session.
Effective(k) ==
    {i \in 1 .. k : chosen[i].cmd # None /\
        \A j \in 1 .. i - 1 :
            /\ chosen[j].cmd # None /\ chosen[j].cmd.client = chosen[i].cmd.client
            /\ chosen[i].cmd.client \notin Anonymous
            => chosen[j].cmd.serial < chosen[i].cmd.serial}

ValueAt(k) ==
    LET c == chosen[Max(Effective(k))].cmd
    IN IF Effective(k) = {} \/ c.kind = "delete" THEN None ELSE <<c.client, c.serial>>

\* Exactly once (stateMachine.Apply, Snapshot, Restore): every replica holds
\* the last write of the log it applied in which no retried or late serial
\* counts again, whatever part of the log came to it as a snapshot.
ExactlyOnce ==
    \A n \in Node : sm[n].index <= Len(chosen) /\ sm[n].data = ValueAt(sm[n].index)

\* What Propose reports is true (applyEntry): nil only for an entry that is
\* committed, and ErrProposalLost only for one that never will be.
AnswersTrue ==
    \A t \in told : t.index <= Len(chosen) /\ (t.ok <=> chosen[t.index].term = t.term)

Quiet == \A c \in Client : call[c] = None

\* The write o of a client is in the committed log.
TookEffect(o) ==
    \E i \in DOMAIN chosen :
        chosen[i].cmd = [client |-> o.id[1], serial |-> o.serial, kind |-> o.kind]

\* The service is linearizable (KVService, ReadBarrier, the session table):
\* the operations that were answered, together with the unanswered writes
\* that took effect, have a legal order in which none comes before an
\* operation that had returned when it was invoked.  An unanswered write has
\* no end; it may take effect after everything else.
HistoryLinearizable ==
    LET kept  == {o \in history : o.unknown => o.kind # "get" /\ TookEffect(o)}
        ended == {o.id : o \in {x \in kept : ~x.unknown}}
    IN  Quiet => Linearizable({[o EXCEPT !.after = @ \cap ended] : o \in kept})

\* Verify never cries wolf and acknowledged writes are never lost: between
\* two operations of the one session that writes the key, with puts alone,
\* the replicated value is one that Verify allows.
VerifyAccepts ==
    \A c \in Client :
        /\ call[c] = None
        /\ \A d \in Client \ {c} : serial[d] = 0
        /\ \A o \in history : o.kind # "delete"
        => Verify(c, ValueAt(Len(chosen)))
=============================================================================
