------------------------------ MODULE Sharding ------------------------------
(***************************************************************************)
(* A process that hosts several Raft groups (internal/kvraft/sharding.go): *)
(* the pinned shard count and the routing of keys, the one ticker that all *)
(* groups share, the event queue and the loop of every group (node.go),    *)
(* and Stop, which waits for the ticker and then for one group after the   *)
(* other.  What a loop does with an event is the other modules' business:  *)
(* here it takes a while, and may end with an error that halts the group.  *)
(***************************************************************************)
EXTENDS Naturals, Sequences

CONSTANTS
    Key, Hash,    \* Hash[k]: the FNV-1a hash of a key
    Counts,       \* shard counts the operator may start the process with
    Cap,          \* the capacity of a group's queue (256 in the code)
    NoPin, Torn   \* no file "shards"; the file is there and has no number

ASSUME ShardingAssumption ==
    Hash \in [Key -> Nat] /\ Counts \subseteq Nat \ {0} /\ Counts # {} /\ Cap \in Nat \ {0}

GroupsOf(n) == 0 .. n - 1
AllGroups == UNION {GroupsOf(n) : n \in Counts}

VARIABLES
    pin,       \* the file "shards"
    booting,   \* the shard count of a process that is creating the file, else 0
    count,     \* the shard count of a process that serves, else 0
    queue,     \* queue[g]: msgc, the events group g has not taken
    loop,      \* loop[g]: "idle", "busy" with an event, or "done"
    closed,    \* closed[g]: the group's stopc is closed
    due,       \* the timer's channel holds a tick
    ticker,    \* tickLoop: "select", "fan" while it delivers, or "done"
    turn,      \* the group it delivers to
    stopper,   \* Stop: "no", "ticker" or "group", what it waits for, "returned"
    last,      \* the group Stop waits for
    homes      \* history: the groups in which keys were written

tickVars == <<due, ticker, turn>>
stopVars == <<stopper, last>>
loopVars == <<queue, loop, closed>>
vars == <<pin, booting, count, loopVars, tickVars, stopVars, homes>>
-----------------------------------------------------------------------------
(* Start-up and routing.                                                   *)

\* The state of the goroutines in a process with n groups, 0 when none runs.
Fresh(n) ==
    [queue |-> [g \in AllGroups |-> <<>>],
     loop |-> [g \in AllGroups |-> IF g < n THEN "idle" ELSE "done"],
     closed |-> [g \in AllGroups |-> g >= n],
     ticker |-> IF n > 0 THEN "select" ELSE "done"]

Runs(n) ==
    /\ count' = n
    /\ queue' = Fresh(n).queue /\ loop' = Fresh(n).loop /\ closed' = Fresh(n).closed
    /\ due' = FALSE /\ ticker' = Fresh(n).ticker /\ turn' = 0
    /\ stopper' = "no" /\ last' = 0

Init ==
    /\ pin = NoPin /\ booting = 0 /\ count = 0 /\ homes = {}
    /\ queue = Fresh(0).queue /\ loop = Fresh(0).loop /\ closed = Fresh(0).closed
    /\ due = FALSE /\ ticker = "done" /\ turn = 0 /\ stopper = "no" /\ last = 0

\* Faulty variant: any number in the file will do.
PinAcceptsAny(n) == pin \in Counts

\* pinShardCount: the file holds this very count.  A file without a number
\* or with another one refuses the start.
PinAccepts(n) == pin = n

\* NewSharded on a pinned directory.
Boot(n) ==
    /\ booting = 0 /\ count = 0 /\ PinAccepts(n)
    /\ Runs(n)
    /\ UNCHANGED <<pin, booting, homes>>

\* NewSharded on a new directory: os.WriteFile creates the file ...
CreatePin(n) ==
    /\ booting = 0 /\ count = 0 /\ pin = NoPin
    /\ pin' = Torn /\ booting' = n
    /\ UNCHANGED <<count, loopVars, tickVars, stopVars, homes>>

\* ... and then writes the number, and the groups start.
WritePin ==
    /\ booting # 0 /\ pin' = booting /\ booting' = 0
    /\ Runs(booting)
    /\ UNCHANGED homes

\* The process dies (kill -9), or a group fails to start.  The files stay as
\* they are; what a power loss does to the unsynced pin is left out.
Crash ==
    /\ booting # 0 \/ count # 0
    /\ booting' = 0 /\ Runs(0)
    /\ UNCHANGED <<pin, homes>>

ShardFor(k, n) == Hash[k] % n

\* ShardedKV.Put and Delete: the key goes to the log of its group.
Put(k) ==
    /\ count # 0 /\ ~closed[ShardFor(k, count)]
    /\ homes' = homes \cup {<<k, ShardFor(k, count)>>}
    /\ UNCHANGED <<pin, booting, count, loopVars, tickVars, stopVars>>
-----------------------------------------------------------------------------
(* A group: its queue and its loop.                                        *)

Unchanged == UNCHANGED <<pin, booting, count, homes>>

\* A handler or a goroutine of sendAsync sends an event to the loop: its
\* select may pick a queue with room even if stopc is closed.
Arrive(g) ==
    /\ g < count /\ Len(queue[g]) < Cap
    /\ queue' = [queue EXCEPT ![g] = Append(@, "rpc")]
    /\ Unchanged /\ UNCHANGED <<loop, closed, tickVars, stopVars>>

\* run takes an event.  select picks any case that is ready, so it may do so
\* when stopc is closed.
Take(g) ==
    /\ loop[g] = "idle" /\ queue[g] # <<>>
    /\ queue' = [queue EXCEPT ![g] = Tail(@)]
    /\ loop' = [loop EXCEPT ![g] = "busy"]
    /\ Unchanged /\ UNCHANGED <<closed, tickVars, stopVars>>

\* dispatch and afterStep end.
Finish(g) ==
    /\ loop[g] = "busy" /\ loop' = [loop EXCEPT ![g] = "idle"]
    /\ Unchanged /\ UNCHANGED <<queue, closed, tickVars, stopVars>>

\* dispatch ends with an error: run closes stopc and returns.
Fail(g) ==
    /\ loop[g] = "busy" /\ loop' = [loop EXCEPT ![g] = "done"]
    /\ closed' = [closed EXCEPT ![g] = TRUE]
    /\ Unchanged /\ UNCHANGED <<queue, tickVars, stopVars>>

\* Faulty variant: the loop empties its queue before it looks at stopc.
HaltDrained(g) ==
    /\ loop[g] = "idle" /\ closed[g] /\ queue[g] = <<>>
    /\ loop' = [loop EXCEPT ![g] = "done"]
    /\ Unchanged /\ UNCHANGED <<queue, closed, tickVars, stopVars>>

\* run sees that stopc is closed and returns, the log file closed.
Halt(g) ==
    /\ loop[g] = "idle" /\ closed[g]
    /\ loop' = [loop EXCEPT ![g] = "done"]
    /\ Unchanged /\ UNCHANGED <<queue, closed, tickVars, stopVars>>
-----------------------------------------------------------------------------
(* The shared ticker.                                                      *)

\* The timer fires; a tick nobody has taken yet is not doubled.
Fire ==
    /\ count # 0 /\ due' = TRUE
    /\ Unchanged /\ UNCHANGED <<loopVars, ticker, turn, stopVars>>

TickStart ==
    /\ ticker = "select" /\ due
    /\ due' = FALSE /\ ticker' = "fan" /\ turn' = 0
    /\ Unchanged /\ UNCHANGED <<loopVars, stopVars>>

\* The ticker goes on to the next group, or back to its select.
NextTurn ==
    /\ turn' = (turn + 1) % count
    /\ ticker' = IF turn + 1 = count THEN "select" ELSE "fan"

\* Faulty variant: the tick is queued whether there is room or not.
DeliverAnyway ==
    /\ ticker = "fan"
    /\ queue' = [queue EXCEPT ![turn] = Append(@, "tick")]
    /\ NextTurn
    /\ Unchanged /\ UNCHANGED <<loop, closed, due, stopVars>>

\* Node.Tick: enqueue sends the tick once there is room for it ...
Deliver ==
    /\ ticker = "fan" /\ Len(queue[turn]) < Cap
    /\ queue' = [queue EXCEPT ![turn] = Append(@, "tick")]
    /\ NextTurn
    /\ Unchanged /\ UNCHANGED <<loop, closed, due, stopVars>>

\* Faulty variant: only a group that Stop has reached is passed over.
PassOverStopped ==
    /\ ticker = "fan" /\ closed[turn] /\ stopper = "group"
    /\ NextTurn
    /\ Unchanged /\ UNCHANGED <<loopVars, due, stopVars>>

\* ... or gives it up if the group's stopc is closed.
PassOver ==
    /\ ticker = "fan" /\ closed[turn]
    /\ NextTurn
    /\ Unchanged /\ UNCHANGED <<loopVars, due, stopVars>>

\* The ticker finds the server's stopc closed.
TickStop ==
    /\ ticker = "select" /\ stopper # "no"
    /\ ticker' = "done"
    /\ Unchanged /\ UNCHANGED <<loopVars, due, turn, stopVars>>
-----------------------------------------------------------------------------
(* Stop.                                                                   *)

\* Stop closes the server's stopc and waits for the ticker.
Stop ==
    /\ count # 0 /\ stopper = "no"
    /\ stopper' = "ticker"
    /\ Unchanged /\ UNCHANGED <<loopVars, tickVars, last>>

\* Node.Stop of group g: stopc is closed (once).
CloseGroup(g) == closed' = [closed EXCEPT ![g] = TRUE] /\ stopper' = "group" /\ last' = g

\* The ticker is gone: the first group is stopped.
StopFirst ==
    /\ stopper = "ticker" /\ ticker = "done"
    /\ CloseGroup(0)
    /\ Unchanged /\ UNCHANGED <<queue, loop, tickVars>>

\* Faulty variant: Stop does not wait for donec.
StopNextAtOnce ==
    /\ stopper = "group"
    /\ IF last + 1 < count THEN CloseGroup(last + 1)
       ELSE stopper' = "returned" /\ UNCHANGED <<closed, last>>
    /\ Unchanged /\ UNCHANGED <<queue, loop, tickVars>>

\* The loop of the group is done: the next one is stopped, if any.
StopNext ==
    /\ stopper = "group" /\ loop[last] = "done"
    /\ IF last + 1 < count THEN CloseGroup(last + 1)
       ELSE stopper' = "returned" /\ UNCHANGED <<closed, last>>
    /\ Unchanged /\ UNCHANGED <<queue, loop, tickVars>>

\* The process ends after Stop, and may be started again.
Exit ==
    /\ stopper = "returned"
    /\ Runs(0)
    /\ UNCHANGED <<pin, booting, homes>>

Next ==
    \/ \E n \in Counts : Boot(n) \/ CreatePin(n)
    \/ WritePin \/ Crash \/ Exit \/ Stop \/ StopFirst \/ StopNext
    \/ \E k \in Key : Put(k)
    \/ \E g \in AllGroups : Arrive(g) \/ Take(g) \/ Finish(g) \/ Fail(g) \/ Halt(g)
    \/ Fire \/ TickStart \/ Deliver \/ PassOver \/ TickStop

\* Goroutines that can go on do.  A select with several cases ready picks at
\* random, and senders blocked on a channel are served in order, so neither
\* a case nor the blocked ticker is passed over for ever.
Fairness ==
    /\ WF_vars(Fire) /\ SF_vars(TickStart) /\ SF_vars(Deliver) /\ WF_vars(PassOver)
    /\ SF_vars(TickStop) /\ WF_vars(StopFirst) /\ WF_vars(StopNext)
    /\ \A g \in AllGroups : WF_vars(Take(g)) /\ WF_vars(Finish(g) \/ Fail(g)) /\ SF_vars(Halt(g))

Spec == Init /\ [][Next]_vars /\ Fairness
-----------------------------------------------------------------------------
(* Properties.                                                             *)

\* Types; a queue never holds more than its capacity.
TypeOK ==
    /\ pin \in Counts \cup {NoPin, Torn} /\ booting \in Counts \cup {0} /\ count \in Counts \cup {0}
    /\ \A g \in AllGroups : queue[g] \in Seq({"rpc", "tick"}) /\ Len(queue[g]) <= Cap
    /\ loop \in [AllGroups -> {"idle", "busy", "done"}] /\ closed \in [AllGroups -> BOOLEAN]
    /\ due \in BOOLEAN /\ ticker \in {"select", "fan", "done"} /\ turn \in AllGroups
    /\ stopper \in {"no", "ticker", "group", "returned"} /\ last \in AllGroups

\* A key stays in its group (pinShardCount, ShardFor): whatever counts the
\* process is started with and wherever it is killed, a serving process looks
\* for a key where it was written; and once something is written the pin is
\* whole, so that the same count can be started again.
KeysStayHome ==
    /\ \A h \in homes : count # 0 => ShardFor(h[1], count) = h[2]
    /\ homes # {} => pin \in Counts

\* When Stop returns, no goroutine of the process is left that could write
\* to a log: the ticker and every loop are done.
StopIsFinal == stopper = "returned" => ticker = "done" /\ \A g \in AllGroups : loop[g] = "done"

Healthy(g) == g < count /\ ~closed[g] /\ stopper = "no"

TakesTick(g) == Take(g) /\ Head(queue[g]) = "tick"

\* No group starves another (tickLoop, enqueue): a group that stays up gets
\* ticks for ever, even if other groups halt with full queues.
EveryGroupTicks == \A g \in AllGroups : <>[]Healthy(g) => []<><<TakesTick(g)>>_vars

\* Stop comes to its end unless the process dies first.
StopReturns == stopper = "ticker" ~> stopper \in {"returned", "no"}
=============================================================================
