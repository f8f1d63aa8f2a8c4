-------------------------- MODULE SchedulingProofs --------------------------
(***************************************************************************)
(* Proofs that flow executions do not overlap, for any flows, workers and  *)
(* timer chains and any number of starts and stops; and about the firing   *)
(* of cron entries, for any expression and any start of the clock.         *)
(***************************************************************************)
EXTENDS MCScheduling, TLAPS

Holding(t) == tick[t].pc \in {"check", "submit"}

\* Whoever holds a claim is accounted for in _running_flows.
ClaimsRecorded ==
  /\ \A t \in Chains : Holding(t) => tick[t].entry.flow \in running
  /\ \A i \in DOMAIN queue : queue[i] \in running
  /\ \A w \in Workers : worker[w] # None => worker[w] \in running

\* A tick that holds a claim on a flow is the only holder.
TicksExclusive ==
  \A t \in Chains : Holding(t) =>
    /\ \A u \in Chains : Holding(u) /\ tick[u].entry.flow = tick[t].entry.flow => u = t
    /\ \A i \in DOMAIN queue : queue[i] # tick[t].entry.flow
    /\ \A w \in Workers : worker[w] # tick[t].entry.flow

IInv == TypeOK /\ ClaimsRecorded /\ TicksExclusive /\ NoOverlap

-----------------------------------------------------------------------------
\* A claiming tick is about some flow.
LEMMA HolderHasFlow ==
  ASSUME TypeOK, NEW t \in Chains, tick[t].pc \in {"judge", "claim", "check", "submit"}
  PROVE  tick[t].entry \in Entry /\ tick[t].entry.flow \in Flows
BY DEF TypeOK, Tick, Entry

\* What a tick record looks like after a step of its thread.
LEMMA TickMoves ==
  ASSUME NEW k \in Tick
  PROVE  /\ k.pc \in TickPC /\ k.todo \subseteq Entry /\ k.entry \in Entry \cup {None}
         /\ \A pc \in TickPC : [k EXCEPT !.pc = pc] \in Tick
         /\ \A pc \in TickPC : [k EXCEPT !.pc = pc].pc = pc
         /\ \A pc \in TickPC : [k EXCEPT !.pc = pc].entry = k.entry
         /\ [k EXCEPT !.pc = "loop", !.entry = None] \in Tick
         /\ [k EXCEPT !.pc = "loop", !.entry = None].pc = "loop"
         /\ [k EXCEPT !.pc = "rearm", !.todo = {}] \in Tick
         /\ [k EXCEPT !.pc = "rearm", !.todo = {}].pc = "rearm"
BY DEF Tick, TickPC

LEMMA NoTickTyped ==
  /\ NoTick \in Tick /\ NoTick.pc = "none"
  /\ Armed \in Tick /\ Armed.pc = "armed"
BY DEF NoTick, Armed, Tick, TickPC

\* The part of the invariant that depends on claims survives a step that leaves
\* _running_flows, the queue and the workers alone and lets no tick gain a claim.
LEMMA ClaimsKept ==
  ASSUME IInv, UNCHANGED <<running, queue, worker>>,
         \A t \in Chains : Holding(t)' => Holding(t) /\ tick'[t].entry = tick[t].entry
  PROVE  ClaimsRecorded' /\ TicksExclusive' /\ NoOverlap'
<1>1. ClaimsRecorded'
  BY DEF IInv, ClaimsRecorded
<1>2. TicksExclusive'
  <2> SUFFICES ASSUME NEW t \in Chains, Holding(t)'
               PROVE  (/\ \A u \in Chains : Holding(u) /\ tick[u].entry.flow = tick[t].entry.flow => u = t
                       /\ \A i \in DOMAIN queue : queue[i] # tick[t].entry.flow
                       /\ \A w \in Workers : worker[w] # tick[t].entry.flow)'
    BY DEF TicksExclusive
  <2>1. Holding(t) /\ tick'[t].entry = tick[t].entry
    OBVIOUS
  <2>2. QED BY <2>1 DEF IInv, TicksExclusive
<1>3. NoOverlap'
  BY DEF IInv, NoOverlap, QueueHolds, WorkerHolds
<1>4. QED BY <1>1, <1>2, <1>3

\* A step that gives one tick a new record without a claim, or lets it keep its own.
LEMMA TickSteps ==
  ASSUME IInv, NEW t \in Chains, NEW k \in Tick,
         Becomes(t, k),
         k.pc \in {"judge", "claim", "check", "submit"} => k.entry # None,
         k.pc \in {"check", "submit"} => Holding(t) /\ k.entry = tick[t].entry,
         UNCHANGED <<entries, running, queue, worker, stopped, executor>>,
         due' \subseteq Entry,
         timer' \in Chains \cup {None}, control' \in ControlPC, starts' = starts
  PROVE  IInv'
<1>1. TypeOK'
  BY DEF IInv, TypeOK, Becomes
<1>2. \A u \in Chains : Holding(u)' => Holding(u) /\ tick'[u].entry = tick[u].entry
  BY DEF IInv, TypeOK, Holding, Becomes
<1>3. QED BY <1>1, <1>2, ClaimsKept DEF IInv

-----------------------------------------------------------------------------
(* The controller and the table.                                           *)

\* Changing the table, or telling time, does not touch a claim.
LEMMA TableStep ==
  ASSUME IInv, Table PROVE IInv'
<1>1. UNCHANGED <<running, tick, timer, pool, life>>
  BY DEF Table, Register, Unregister, BecomeDue, MinuteEnds
<1>2. ClaimsRecorded' /\ TicksExclusive' /\ NoOverlap'
  BY <1>1, ClaimsKept DEF pool, Holding
<1>3. /\ entries' \in [Flows -> Entry \cup {None}]
      /\ \A f \in Flows : entries'[f] # None => entries'[f].flow = f
      /\ due' \subseteq Entry
  <2>1. ASSUME NEW e \in Entry, Register(e) PROVE <1>3!1 /\ <1>3!2 /\ <1>3!3
    <3>1. e.flow \in Flows
      BY DEF Entry
    <3>2. QED BY <2>1, <3>1 DEF Register, IInv, TypeOK
  <2>2. ASSUME NEW f \in Flows, Unregister(f) PROVE <1>3!1 /\ <1>3!2 /\ <1>3!3
    BY <2>2 DEF Unregister, IInv, TypeOK
  <2>3. ASSUME NEW e \in Entry, BecomeDue(e) \/ MinuteEnds(e)
        PROVE <1>3!1 /\ <1>3!2 /\ <1>3!3
    BY <2>3 DEF BecomeDue, MinuteEnds, IInv, TypeOK
  <2>4. QED BY <2>1, <2>2, <2>3 DEF Table
<1>4. TypeOK'
  BY <1>1, <1>3 DEF IInv, TypeOK, pool, life
<1>5. QED BY <1>2, <1>4 DEF IInv

\* Starting and stopping change only who may submit; a cancelled timer held no
\* claim, and stop() leaves the pool only when it is drained.
LEMMA ControllerStep ==
  ASSUME IInv, Controller PROVE IInv'
<1>1. CASE Start \/ Stop \/ Shutdown \/ Drain
  <2>1. UNCHANGED <<table, running, tick, timer, queue, worker>>
    BY <1>1 DEF Start, Stop, Shutdown, Drain, pool
  <2>2. ClaimsRecorded' /\ TicksExclusive' /\ NoOverlap'
    BY <2>1, ClaimsKept DEF Holding
  <2>3. /\ stopped' \in BOOLEAN /\ executor' \in {"none", "open", "shut"}
        /\ control' \in ControlPC /\ starts' \in 0..MaxStarts
    <3>1. MaxStarts \in Nat /\ starts \in 0..MaxStarts
      BY SchedulerAssumption DEF IInv, TypeOK
    <3>2. starts < MaxStarts => starts + 1 \in 0..MaxStarts
      BY <3>1
    <3>3. CASE Start
      BY <3>2, <3>3 DEF Start, ControlPC
    <3>4. CASE Stop
      BY <3>4 DEF Stop, pool, ControlPC, IInv, TypeOK
    <3>5. CASE Shutdown
      BY <3>5 DEF Shutdown, ControlPC, IInv, TypeOK
    <3>6. CASE Drain
      BY <3>6 DEF Drain, ControlPC, IInv, TypeOK
    <3>7. QED BY <1>1, <3>3, <3>4, <3>5, <3>6
  <2>4. TypeOK'
    BY <2>1, <2>3 DEF IInv, TypeOK, table
  <2>5. QED BY <2>2, <2>4 DEF IInv
<1>2. ASSUME NEW t \in Chains, StartTimer(t) PROVE IInv'
  BY <1>2, TickSteps, NoTickTyped DEF StartTimer, Becomes, table, pool, ControlPC, IInv, TypeOK
<1>3. CASE CancelTimer
  <2>1. \A t \in Chains : tick'[t] = tick[t] \/ tick'[t] = NoTick
    BY <1>3 DEF CancelTimer
  <2>2. UNCHANGED <<table, running, pool, stopped, starts>> /\ timer' = None /\ control' \in ControlPC
    BY <1>3 DEF CancelTimer, ControlPC
  <2>3. ClaimsRecorded' /\ TicksExclusive' /\ NoOverlap'
    BY <2>1, <2>2, ClaimsKept, NoTickTyped DEF pool, Holding
  <2>4. tick' \in [Chains -> Tick]
    BY <1>3, NoTickTyped DEF CancelTimer, IInv, TypeOK
  <2>5. TypeOK'
    BY <2>1, <2>2, <2>4, NoTickTyped DEF IInv, TypeOK, table, pool
  <2>6. QED BY <2>3, <2>5 DEF IInv
<1>4. QED BY <1>1, <1>2, <1>3 DEF Controller

-----------------------------------------------------------------------------
(* Ticks.                                                                  *)

\* Up to its claim a tick moves without holding anything.
LEMMA SearchStep ==
  ASSUME IInv, NEW t \in Chains,
         Fire(t) \/ EndLoop(t) \/ (\E e \in Entry : PickEntry(t, e)) \/ Judge(t)
           \/ CheckExecutor(t) \/ Rearm(t) \/ Arm(t)
  PROVE  IInv'
<1> USE DEF IInv, TypeOK, Holding
<1>1. tick[t] \in Tick
  OBVIOUS
<1>2. {entries[f] : f \in Flows} \ {None} \subseteq Entry
  OBVIOUS
<1>3. CASE Fire(t)
  <2>1. [pc |-> "loop", todo |-> {entries[f] : f \in Flows} \ {None}, entry |-> None] \in Tick
    BY <1>2 DEF Tick, TickPC
  <2>2. QED BY <1>3, <2>1, TickSteps, NoTickTyped DEF Fire, Dies, table, pool, life
<1>4. CASE EndLoop(t)
  BY <1>1, <1>4, TickSteps, TickMoves DEF EndLoop, table, pool, life
<1>5. ASSUME NEW e \in Entry, PickEntry(t, e) PROVE IInv'
  <2>1. CASE e.flow \in running
    <3> DEFINE k == [tick[t] EXCEPT !.todo = @ \ {e}]
    <3>1. k \in Tick /\ k.pc = "loop"
      BY <1>1, <1>5, <2>1 DEF PickEntry, Tick
    <3>2. Becomes(t, k)
      BY <1>5, <2>1 DEF PickEntry
    <3>3. UNCHANGED <<table, running, timer, pool, life>>
      BY <1>5 DEF PickEntry
    <3>4. QED BY <3>1, <3>2, <3>3, TickSteps DEF table, pool, life
  <2>2. CASE e.flow \notin running
    <3> DEFINE k == [pc |-> "judge", todo |-> tick[t].todo \ {e}, entry |-> e]
    <3>1. k \in Tick /\ k.pc = "judge" /\ k.entry # None
      BY <1>1, SchedulerAssumption DEF Tick, TickPC
    <3>2. Becomes(t, k)
      BY <1>5, <2>2 DEF PickEntry
    <3>3. UNCHANGED <<table, running, timer, pool, life>>
      BY <1>5 DEF PickEntry
    <3>4. QED BY <3>1, <3>2, <3>3, TickSteps DEF table, pool, life
  <2>3. QED BY <2>1, <2>2
<1>6. CASE Judge(t)
  <2>1. UNCHANGED <<entries, running, timer, pool, life>> /\ due' \subseteq Entry
    BY <1>6 DEF Judge
  <2>2. CASE Goto(t, "claim")
    <3> DEFINE k == [tick[t] EXCEPT !.pc = "claim"]
    <3>1. "claim" \in TickPC /\ tick[t].entry # None
      BY <1>6 DEF Judge, TickPC
    <3>2. k \in Tick /\ k.pc = "claim" /\ k.entry # None
      BY <1>1, <3>1, TickMoves
    <3>3. QED BY <2>1, <2>2, <3>2, TickSteps DEF Goto, pool, life
  <2>3. CASE NextEntry(t)
    BY <1>1, <2>1, <2>3, TickSteps, TickMoves DEF NextEntry, pool, life
  <2>4. QED BY <1>6, <2>2, <2>3 DEF Judge
<1>7. CASE CheckExecutor(t)
  <2>1. UNCHANGED <<table, running, timer, pool, life>>
    BY <1>7 DEF CheckExecutor
  <2>2. CASE Goto(t, "submit")
    <3> DEFINE k == [tick[t] EXCEPT !.pc = "submit"]
    <3>1. "submit" \in TickPC /\ tick[t].entry # None
      BY <1>7 DEF CheckExecutor, TickPC
    <3>2. k \in Tick /\ k.pc = "submit" /\ k.entry = tick[t].entry /\ k.entry # None
      BY <1>1, <3>1, TickMoves
    <3>3. QED BY <1>7, <2>1, <2>2, <3>2, TickSteps DEF CheckExecutor, Goto, table, pool, life
  <2>3. CASE NextEntry(t)
    BY <1>1, <2>1, <2>3, TickSteps, TickMoves DEF NextEntry, table, pool, life
  <2>4. QED BY <1>7, <2>2, <2>3 DEF CheckExecutor
<1>8. CASE Rearm(t)
  <2> DEFINE k == [tick[t] EXCEPT !.pc = "arm"]
  <2>1. "arm" \in TickPC
    BY DEF TickPC
  <2>2. k \in Tick /\ k.pc = "arm"
    BY <1>1, <2>1, TickMoves
  <2>3. Becomes(t, k) \/ Becomes(t, NoTick)
    BY <1>8 DEF Rearm, Dies, Goto
  <2>4. UNCHANGED <<table, running, timer, pool, life>>
    BY <1>8 DEF Rearm
  <2>5. QED BY <2>2, <2>3, <2>4, TickSteps, NoTickTyped DEF table, pool, life
<1>9. CASE Arm(t)
  BY <1>9, TickSteps, NoTickTyped DEF Arm, table, pool, life
<1>10. QED BY <1>3, <1>4, <1>5, <1>6, <1>7, <1>8, <1>9

\* A claim is made under the lock and only for a flow nobody holds: whoever
\* holds one is in _running_flows.
LEMMA ClaimStep ==
  ASSUME IInv, NEW t \in Chains, Claim(t) PROVE IInv'
<1> DEFINE e == tick[t].entry
<1>1. e \in Entry /\ e.flow \in Flows /\ tick[t] \in Tick
  BY HolderHasFlow DEF Claim, IInv, TypeOK
<1>2. UNCHANGED <<entries, timer, pool, life>>
  BY DEF Claim
<1>3. CASE e.flow \in running
  BY <1>1, <1>2, <1>3, TickSteps, TickMoves DEF Claim, NextEntry, pool, life, IInv, TypeOK
<1>4. CASE e.flow \notin running
  <2>1. /\ running' = running \cup {e.flow}
        /\ due' \subseteq due
        /\ Becomes(t, [tick[t] EXCEPT !.pc = "check"])
    BY <1>4 DEF Claim, Goto
  <2>2. tick'[t].pc = "check" /\ tick'[t].entry = e /\ tick'[t] \in Tick
    <3>1. "check" \in TickPC
      BY DEF TickPC
    <3>2. tick'[t] = [tick[t] EXCEPT !.pc = "check"]
      BY <2>1 DEF IInv, TypeOK, Becomes
    <3> DEFINE k == [tick[t] EXCEPT !.pc = "check"]
    <3>3. k.pc = "check" /\ k.entry = tick[t].entry /\ k \in Tick
      BY <1>1, <3>1, TickMoves
    <3>4. QED BY <3>2, <3>3
  <2>3. \A u \in Chains : u # t => tick'[u] = tick[u]
    BY <2>1 DEF IInv, TypeOK, Becomes
  <2>4. \A u \in Chains : Holding(u)' => u = t \/ (Holding(u) /\ tick'[u].entry = tick[u].entry)
    BY <2>3 DEF Holding
  <2>5. TypeOK'
    BY <1>1, <1>2, <2>1, <2>2, <2>3, SchedulerAssumption DEF IInv, TypeOK, Becomes, pool, life
  <2>6. ClaimsRecorded'
    BY <1>2, <2>1, <2>2, <2>4 DEF IInv, ClaimsRecorded, pool
  <2>7. \A i \in DOMAIN queue : queue[i] # e.flow
    BY <1>4 DEF IInv, ClaimsRecorded
  <2>8. \A w \in Workers : worker[w] # e.flow
    BY <1>1, <1>4, SchedulerAssumption DEF IInv, ClaimsRecorded
  <2>9. \A u \in Chains : Holding(u) => tick[u].entry.flow # e.flow
    BY <1>4 DEF IInv, ClaimsRecorded
  <2>10. TicksExclusive'
    BY <1>2, <2>2, <2>4, <2>7, <2>8, <2>9 DEF IInv, TicksExclusive, pool
  <2>11. NoOverlap'
    BY <1>2 DEF IInv, NoOverlap, QueueHolds, WorkerHolds, pool
  <2>12. QED BY <2>5, <2>6, <2>10, <2>11 DEF IInv
<1>5. QED BY <1>3, <1>4

-----------------------------------------------------------------------------
(* The pool.                                                               *)

\* Submitting hands the claim over to the queue; a refused submission only
\* ends the thread.
LEMMA SubmitStep ==
  ASSUME IInv, NEW t \in Chains, Submit(t) PROVE IInv'
<1> DEFINE f == tick[t].entry.flow
           k == [tick[t] EXCEPT !.pc = "loop", !.entry = None]
<1>1. f \in Flows /\ tick[t] \in Tick /\ Holding(t)
  BY HolderHasFlow DEF Submit, IInv, TypeOK, Holding
<1>2. UNCHANGED <<table, running, timer, executor, worker, life>>
  BY DEF Submit
<1>3. k \in Tick /\ k.pc = "loop"
  BY <1>1, TickMoves
<1>4. CASE executor # "open"
  BY <1>2, <1>4, TickSteps, NoTickTyped
     DEF Submit, Dies, table, life, IInv, TypeOK
<1>5. CASE executor = "open"
  <2>1. queue' = Append(queue, f) /\ Becomes(t, k)
    BY <1>5 DEF Submit, NextEntry
  <2>2. /\ queue \in Seq(Flows) /\ Len(queue) \in Nat
        /\ queue' \in Seq(Flows)
        /\ DOMAIN queue = 1..Len(queue)
        /\ DOMAIN queue' = 1..(Len(queue) + 1)
        /\ \A i \in DOMAIN queue : queue'[i] = queue[i]
        /\ queue'[Len(queue) + 1] = f
    BY <1>1, <2>1 DEF IInv, TypeOK
  <2>3. \A i \in DOMAIN queue' : (i \in DOMAIN queue /\ queue'[i] = queue[i])
                                   \/ (i = Len(queue) + 1 /\ queue'[i] = f)
    BY <2>2
  <2>4. tick'[t] = k /\ \A u \in Chains : u # t => tick'[u] = tick[u]
    BY <2>1 DEF Becomes, IInv, TypeOK
  <2>5. \A u \in Chains : Holding(u)' => u # t /\ Holding(u) /\ tick'[u] = tick[u]
    BY <1>3, <2>4 DEF Holding
  <2>6. TypeOK'
    <3>1. tick' \in [Chains -> Tick]
      BY <1>3, <2>1 DEF Becomes, IInv, TypeOK
    <3>2. \A u \in Chains : tick'[u].pc \in {"judge", "claim", "check", "submit"}
                              => tick'[u].entry # None
      BY <1>3, <2>4 DEF IInv, TypeOK
    <3>3. QED BY <1>2, <2>2, <3>1, <3>2 DEF IInv, TypeOK, table, life
  <2>7. ClaimsRecorded'
    BY <1>1, <1>2, <2>3, <2>5 DEF IInv, ClaimsRecorded, table, life
  <2>8. \A u \in Chains : u # t /\ Holding(u) => tick[u].entry.flow # f
    BY <1>1 DEF IInv, TicksExclusive
  <2>9. TicksExclusive'
    <3> SUFFICES ASSUME NEW u \in Chains, Holding(u)'
                 PROVE  (/\ \A v \in Chains : Holding(v) /\ tick[v].entry.flow = tick[u].entry.flow => v = u
                         /\ \A i \in DOMAIN queue : queue[i] # tick[u].entry.flow
                         /\ \A w \in Workers : worker[w] # tick[u].entry.flow)'
      BY DEF TicksExclusive
    <3>1. u # t /\ Holding(u) /\ tick'[u] = tick[u]
      BY <2>5
    <3>2. \A i \in DOMAIN queue' : queue'[i] # tick'[u].entry.flow
      BY <2>3, <2>8, <3>1 DEF IInv, TicksExclusive
    <3>3. QED BY <1>2, <2>5, <3>1, <3>2 DEF IInv, TicksExclusive
  <2>10. /\ \A i \in DOMAIN queue : queue[i] # f
         /\ \A w \in Workers : worker[w] # f
    BY <1>1 DEF IInv, TicksExclusive
  <2>11. NoOverlap'
    BY <1>2, <2>2, <2>3, <2>10 DEF IInv, NoOverlap, QueueHolds, WorkerHolds
  <2>12. QED BY <2>6, <2>7, <2>9, <2>11 DEF IInv
<1>6. QED BY <1>4, <1>5

\* A worker takes over the claim of the head of the queue.
LEMMA ExecuteStep ==
  ASSUME IInv, NEW w \in Workers, Execute(w) PROVE IInv'
<1> DEFINE f == Head(queue)
<1>1. UNCHANGED <<table, running, tick, timer, executor, life>>
  BY DEF Execute
<1>2. /\ queue \in Seq(Flows) /\ queue # <<>> /\ Len(queue) \in Nat \ {0}
      /\ queue' = Tail(queue) /\ queue' \in Seq(Flows)
      /\ DOMAIN queue = 1..Len(queue)
      /\ DOMAIN queue' = 1..(Len(queue) - 1)
      /\ \A i \in DOMAIN queue' : queue'[i] = queue[i + 1] /\ i + 1 \in DOMAIN queue
      /\ f = queue[1] /\ 1 \in DOMAIN queue /\ f \in Flows
  BY DEF Execute, IInv, TypeOK
<1>3. worker' = [worker EXCEPT ![w] = f] /\ worker[w] = None
  BY DEF Execute
<1>4. worker'[w] = f /\ \A v \in Workers : v # w => worker'[v] = worker[v]
  BY <1>3 DEF IInv, TypeOK
<1>5. f \in running
  BY <1>2 DEF IInv, ClaimsRecorded
<1>6. TypeOK'
  BY <1>1, <1>2, <1>3 DEF IInv, TypeOK, table, life
<1>7. ClaimsRecorded'
  BY <1>1, <1>2, <1>4, <1>5 DEF IInv, ClaimsRecorded, Holding
<1>8. TicksExclusive'
  <2>1. \A t \in Chains : Holding(t) => tick[t].entry.flow # f
    BY <1>2 DEF IInv, TicksExclusive
  <2>2. QED BY <1>1, <1>2, <1>4, <2>1 DEF IInv, TicksExclusive, Holding
<1>9. NoOverlap'
  <2>1. \A i \in DOMAIN queue' : queue'[i] # f
    <3> SUFFICES ASSUME NEW i \in DOMAIN queue', queue'[i] = f PROVE FALSE
      OBVIOUS
    <3>1. queue[i + 1] = queue[1] /\ i + 1 \in DOMAIN queue
      BY <1>2
    <3>2. i + 1 = 1
      BY <1>2, <3>1 DEF IInv, NoOverlap, QueueHolds
    <3>3. i \in Nat \ {0}
      BY <1>2
    <3>4. QED BY <3>2, <3>3
  <2>2. \A v \in Workers : worker[v] # f
    BY <1>2 DEF IInv, NoOverlap, QueueHolds, WorkerHolds
  <2> SUFFICES ASSUME NEW g \in Flows
               PROVE  (/\ \A v, x \in Workers : WorkerHolds(v, g) /\ WorkerHolds(x, g) => v = x
                       /\ \A i, j \in DOMAIN queue : QueueHolds(i, g) /\ QueueHolds(j, g) => i = j
                       /\ \A i \in DOMAIN queue, v \in Workers : ~(QueueHolds(i, g) /\ WorkerHolds(v, g)))'
    BY DEF NoOverlap
  <2>3. \A v, x \in Workers : worker'[v] = g /\ worker'[x] = g => v = x
    BY <1>4, <2>2 DEF IInv, NoOverlap, WorkerHolds
  <2>4. \A i, j \in DOMAIN queue' : queue'[i] = g /\ queue'[j] = g => i = j
    <3> SUFFICES ASSUME NEW i \in DOMAIN queue', NEW j \in DOMAIN queue', queue'[i] = g, queue'[j] = g
                 PROVE  i = j
      OBVIOUS
    <3>1. i + 1 = j + 1
      BY <1>2 DEF IInv, NoOverlap, QueueHolds
    <3>2. i \in Nat /\ j \in Nat
      BY <1>2
    <3>3. QED BY <3>1, <3>2
  <2>5. \A i \in DOMAIN queue', v \in Workers : ~(queue'[i] = g /\ worker'[v] = g)
    BY <1>2, <1>4, <2>1 DEF IInv, NoOverlap, QueueHolds, WorkerHolds
  <2>6. QED BY <2>3, <2>4, <2>5 DEF QueueHolds, WorkerHolds
<1>10. QED BY <1>6, <1>7, <1>8, <1>9 DEF IInv

\* The claim that ends was the only one on its flow, so the others stay recorded.
LEMMA FinishStep ==
  ASSUME IInv, NEW w \in Workers, Finish(w) PROVE IInv'
<1> DEFINE f == worker[w]
<1>1. UNCHANGED <<table, tick, timer, executor, queue, life>>
  BY DEF Finish
<1>2. /\ f \in Flows /\ running' = running \ {f}
      /\ worker' = [worker EXCEPT ![w] = None]
  BY DEF Finish, IInv, TypeOK
<1>3. worker'[w] = None /\ \A v \in Workers : v # w => worker'[v] = worker[v]
  BY <1>2 DEF IInv, TypeOK
<1>4. /\ \A v \in Workers : v # w => worker[v] # f
      /\ \A i \in DOMAIN queue : queue[i] # f
      /\ \A t \in Chains : Holding(t) => tick[t].entry.flow # f
  BY <1>2 DEF IInv, NoOverlap, TicksExclusive, QueueHolds, WorkerHolds
<1>5. TypeOK'
  BY <1>1, <1>2 DEF IInv, TypeOK, table, life
<1>6. ClaimsRecorded'
  BY <1>1, <1>2, <1>3, <1>4 DEF IInv, ClaimsRecorded, Holding
<1>7. TicksExclusive'
  <2>1. None \notin Flows
    BY SchedulerAssumption
  <2>2. \A t \in Chains : Holding(t) => tick[t].entry.flow \in Flows
    BY HolderHasFlow DEF IInv, Holding
  <2>3. QED BY <1>1, <1>3, <2>1, <2>2 DEF IInv, TicksExclusive, Holding
<1>8. NoOverlap'
  <2>1. None \notin Flows
    BY SchedulerAssumption
  <2>2. QED BY <1>1, <1>3, <2>1 DEF IInv, NoOverlap, QueueHolds, WorkerHolds
<1>9. QED BY <1>5, <1>6, <1>7, <1>8 DEF IInv

-----------------------------------------------------------------------------
\* A new scheduler object holds no claims.
LEMMA InitIInv == Init => IInv
<1> SUFFICES ASSUME Init PROVE IInv
  OBVIOUS
<1>1. \A t \in Chains : tick[t].pc = "none"
  BY DEF Init, NoTick
<1>2. TypeOK
  BY <1>1, NoTickTyped, SchedulerAssumption DEF Init, TypeOK, ControlPC
<1>3. ClaimsRecorded /\ TicksExclusive
  BY <1>1 DEF Init, ClaimsRecorded, TicksExclusive, Holding
<1>4. NoOverlap
  <2>1. \A w \in Workers : worker[w] = None
    BY DEF Init
  <2>2. DOMAIN queue = {} /\ None \notin Flows
    BY SchedulerAssumption DEF Init
  <2>3. QED BY <2>1, <2>2 DEF NoOverlap, QueueHolds, WorkerHolds
<1>5. QED BY <1>2, <1>3, <1>4 DEF IInv

\* Every step of a caller, a timer thread or a worker preserves the invariant.
LEMMA NextIInv == IInv /\ [Next]_vars => IInv'
<1> SUFFICES ASSUME IInv, [Next]_vars PROVE IInv'
  OBVIOUS
<1>1. CASE UNCHANGED vars
  <2>1. ClaimsRecorded' /\ TicksExclusive' /\ NoOverlap'
    BY <1>1, ClaimsKept DEF vars, Holding
  <2>2. TypeOK'
    BY <1>1 DEF vars, IInv, TypeOK
  <2>3. QED BY <2>1, <2>2 DEF IInv
<1>2. CASE Table
  BY <1>2, TableStep
<1>3. CASE Controller
  BY <1>3, ControllerStep
<1>4. ASSUME NEW t \in Chains, TickStep(t) PROVE IInv'
  BY <1>4, SearchStep, ClaimStep, SubmitStep DEF TickStep
<1>5. ASSUME NEW w \in Workers, Execute(w) \/ Finish(w) PROVE IInv'
  BY <1>5, ExecuteStep, FinishStep
<1>6. QED BY <1>1, <1>2, <1>3, <1>4, <1>5 DEF Next

THEOREM Invariance == Spec => []IInv
BY InitIInv, NextIInv, PTL DEF Spec

\* The variables of the scheduler stay within their types.
THEOREM TypeCorrect == Spec => []TypeOK
<1>1. IInv => TypeOK
  BY DEF IInv
<1>2. QED BY <1>1, Invariance, PTL

\* However ticks, workers, registrations, starts and stops interleave - also
\* when a restart leaves two timer chains - no two executions of a flow overlap.
THEOREM NoOverlapAlways == Spec => []NoOverlap
<1>1. IInv => NoOverlap
  BY DEF IInv
<1>2. QED BY <1>1, Invariance, PTL

-----------------------------------------------------------------------------
(* What stop() leaves behind.                                              *)

\* The pool exists from start() to the end of stop(), and is empty when it does not.
PoolInv ==
  /\ executor = "none" => Drained
  /\ executor = "shut" <=> control = "drain"
  /\ control \in {"cancel", "shutdown", "drain"} => stopped
  /\ control \in {"idle", "arm"} => (stopped <=> executor = "none")

LEMMA InitPool == Init => PoolInv
BY DEF Init, PoolInv, Drained

LEMMA NextPool == IInv /\ PoolInv /\ [Next]_vars => PoolInv'
<1> SUFFICES ASSUME IInv, PoolInv, [Next]_vars PROVE PoolInv'
  OBVIOUS
<1> USE DEF PoolInv, Drained
<1>1. CASE UNCHANGED vars
  BY <1>1 DEF vars
<1>2. CASE Table
  BY <1>2 DEF Table, Register, Unregister, BecomeDue, MinuteEnds, pool, life
<1>3. CASE Controller
  <2>1. CASE Start
    BY <2>1 DEF Start
  <2>2. CASE Stop
    BY <2>2 DEF Stop, pool
  <2>3. ASSUME NEW t \in Chains, StartTimer(t) PROVE PoolInv'
    BY <2>3 DEF StartTimer, pool
  <2>4. CASE CancelTimer
    BY <2>4 DEF CancelTimer, pool
  <2>5. CASE Shutdown
    BY <2>5 DEF Shutdown, IInv, TypeOK
  <2>6. CASE Drain
    BY <2>6 DEF Drain
  <2>7. QED BY <1>3, <2>1, <2>2, <2>3, <2>4, <2>5, <2>6 DEF Controller
<1>4. ASSUME NEW t \in Chains, TickStep(t) PROVE PoolInv'
  <2>1. UNCHANGED <<executor, worker, life>>
    BY <1>4 DEF TickStep, Fire, EndLoop, PickEntry, Judge, Claim, CheckExecutor, Submit,
                Rearm, Arm, pool
  <2>2. executor = "none" => UNCHANGED queue
    BY <1>4 DEF TickStep, Fire, EndLoop, PickEntry, Judge, Claim, CheckExecutor, Submit,
                Rearm, Arm, pool
  <2>3. QED BY <2>1, <2>2 DEF life
<1>5. ASSUME NEW w \in Workers, Execute(w) PROVE PoolInv'
  BY <1>5 DEF Execute, life
<1>6. ASSUME NEW w \in Workers, Finish(w) PROVE PoolInv'
  BY <1>6 DEF Finish, life, IInv, TypeOK
<1>7. QED BY <1>1, <1>2, <1>3, <1>4, <1>5, <1>6 DEF Next

\* When stop() has returned no worker runs a flow and none is queued, whatever
\* the ticks that stop() overtook still do.
THEOREM StoppedIsQuietAlways == Spec => []StoppedIsQuiet
<1>1. PoolInv => StoppedIsQuiet
  BY DEF PoolInv, StoppedIsQuiet
<1>2. QED BY <1>1, InitPool, NextPool, Invariance, PTL DEF Spec

-----------------------------------------------------------------------------
(* Claims are lost only to a stop.                                         *)

LostInv ==
  /\ starts = 0 => stopped /\ running = {}
  /\ starts = 0 => \A t \in Chains : tick[t].pc = "none"
  /\ starts = 0 => control # "arm" /\ executor = "none"
  /\ ClaimLostOnlyByStop

LEMMA InitLost == Init => LostInv
BY DEF Init, LostInv, ClaimLostOnlyByStop, NoTick

\* A step after which every claim that was held is held still.
LEMMA HeldKept ==
  ASSUME LostInv, starts' = starts, stopped => stopped',
         \A f \in running' : ~stopped' /\ (f \in running => Held(f)) => Held(f)'
  PROVE  ClaimLostOnlyByStop'
BY DEF LostInv, ClaimLostOnlyByStop

\* Holders keep their claims when queue, workers and claiming ticks are unchanged.
LEMMA SameHolders ==
  ASSUME NEW f, Held(f), UNCHANGED <<queue, worker>>,
         \A t \in Chains : Holding(t) => Holding(t)' /\ tick'[t].entry = tick[t].entry
  PROVE  Held(f)'
BY DEF Held, Holding, TickHolds, QueueHolds, WorkerHolds

LEMMA NextLost == IInv /\ PoolInv /\ LostInv /\ [Next]_vars => LostInv'
<1> SUFFICES ASSUME IInv, PoolInv, LostInv, [Next]_vars PROVE LostInv'
  OBVIOUS
<1>1. CASE UNCHANGED vars
  <2>1. \A f : Held(f) => Held(f)'
    BY <1>1, SameHolders DEF vars, Holding
  <2>2. QED BY <1>1, <2>1, HeldKept DEF vars, LostInv
<1>2. CASE Table
  <2>1. UNCHANGED <<running, tick, timer, pool, life>>
    BY <1>2 DEF Table, Register, Unregister, BecomeDue, MinuteEnds
  <2>2. \A f : Held(f) => Held(f)'
    BY <2>1, SameHolders DEF pool, Holding
  <2>3. QED BY <2>1, <2>2, HeldKept DEF life, pool, LostInv
<1>3. CASE Controller
  <2>1. CASE Start
    <3>1. starts \in Nat
      BY SchedulerAssumption DEF IInv, TypeOK
    <3>2. starts' # 0 /\ (starts = 0 => running' = {}) /\ (starts # 0 => starts' > 1)
      BY <2>1, <3>1 DEF Start, LostInv
    <3>3. QED BY <3>2 DEF LostInv, ClaimLostOnlyByStop
  <2>2. CASE Stop \/ Shutdown \/ Drain
    <3>1. UNCHANGED <<running, tick, queue, worker, starts>> /\ (stopped => stopped')
      BY <2>2 DEF Stop, Shutdown, Drain, pool
    <3>2. \A f : Held(f) => Held(f)'
      BY <3>1, SameHolders DEF Holding
    <3>3. starts = 0 => stopped' /\ control' # "arm" /\ executor' = "none"
      BY <2>2 DEF Stop, Shutdown, Drain, pool, LostInv
    <3>4. QED BY <3>1, <3>2, <3>3, HeldKept DEF LostInv
  <2>3. ASSUME NEW t \in Chains, StartTimer(t) PROVE LostInv'
    <3>1. UNCHANGED <<running, queue, worker, stopped, starts>> /\ starts # 0
      BY <2>3 DEF StartTimer, pool, LostInv
    <3>2. \A u \in Chains : Holding(u) => Holding(u)' /\ tick'[u].entry = tick[u].entry
      BY <2>3 DEF StartTimer, Holding, IInv, TypeOK
    <3>3. \A f : Held(f) => Held(f)'
      BY <3>1, <3>2, SameHolders
    <3>4. QED BY <3>1, <3>3, HeldKept DEF LostInv
  <2>4. CASE CancelTimer
    <3>1. UNCHANGED <<running, queue, worker, executor, stopped, starts>> /\ control' = "shutdown"
      BY <2>4 DEF CancelTimer, pool
    <3>2. \A u \in Chains : tick'[u] = tick[u] \/ (tick[u] = Armed /\ tick'[u] = NoTick)
      BY <2>4 DEF CancelTimer
    <3>3. \A u \in Chains : Holding(u) => Holding(u)' /\ tick'[u].entry = tick[u].entry
      BY <3>2, NoTickTyped DEF Holding
    <3>4. \A f : Held(f) => Held(f)'
      BY <3>1, <3>3, SameHolders
    <3>5. \A u \in Chains : tick[u].pc = "none" => tick'[u].pc = "none"
      BY <3>2, NoTickTyped
    <3>6. QED BY <3>1, <3>4, <3>5, HeldKept DEF LostInv
  <2>5. QED BY <1>3, <2>1, <2>2, <2>3, <2>4 DEF Controller
<1>4. ASSUME NEW t \in Chains, TickStep(t) PROVE LostInv'
  <2>1. starts # 0
    BY <1>4 DEF TickStep, Fire, EndLoop, PickEntry, Judge, Claim, CheckExecutor, Submit,
                Rearm, Arm, LostInv
  <2>2. UNCHANGED <<executor, worker, life>>
    BY <1>4 DEF TickStep, Fire, EndLoop, PickEntry, Judge, Claim, CheckExecutor, Submit,
                Rearm, Arm, pool
  <2>3. \A u \in Chains : u # t => tick'[u] = tick[u]
    BY <1>4 DEF TickStep, Fire, EndLoop, PickEntry, Judge, Claim, CheckExecutor, Submit,
                Rearm, Arm, Becomes, Goto, NextEntry, Dies, IInv, TypeOK
  <2>4. ~stopped => executor = "open"
    BY DEF PoolInv, IInv, TypeOK, ControlPC
  <2> SUFFICES ASSUME NEW f \in running', ~stopped', f \in running => Held(f) PROVE Held(f)'
    BY <2>1, <2>2, HeldKept DEF LostInv, life
  <2>5. CASE ~Holding(t) /\ UNCHANGED <<running, queue>>
    <3>1. \A u \in Chains : Holding(u) => Holding(u)' /\ tick'[u].entry = tick[u].entry
      BY <2>3, <2>5 DEF Holding
    <3>2. QED BY <2>2, <2>5, <3>1, SameHolders
  <2>6. CASE Claim(t) /\ ~UNCHANGED running
    <3>1. Becomes(t, [tick[t] EXCEPT !.pc = "check"]) /\ running' = running \cup {tick[t].entry.flow}
      BY <2>6 DEF Claim, Goto
    <3>2. UNCHANGED <<queue, worker>> /\ ~Holding(t)
      BY <2>6 DEF Claim, pool, Holding
    <3>3. tick[t] \in Tick /\ tick'[t] = [tick[t] EXCEPT !.pc = "check"]
      BY <3>1 DEF Becomes, IInv, TypeOK
    <3>4. tick'[t].pc = "check" /\ tick'[t].entry = tick[t].entry
      <4> DEFINE k == [tick[t] EXCEPT !.pc = "check"]
      <4>1. "check" \in TickPC
        BY DEF TickPC
      <4>2. k.pc = "check" /\ k.entry = tick[t].entry
        BY <3>3, <4>1, TickMoves
      <4>3. QED BY <3>3, <4>2
    <3>5. f = tick[t].entry.flow => TickHolds(t, f)'
      BY <3>4 DEF TickHolds
    <3>6. \A u \in Chains : Holding(u) => Holding(u)' /\ tick'[u].entry = tick[u].entry
      BY <2>3, <3>2 DEF Holding
    <3>7. CASE f \in running
      BY <3>2, <3>6, <3>7, SameHolders
    <3>8. CASE f = tick[t].entry.flow
      BY <3>5, <3>8 DEF Held
    <3>9. QED BY <3>1, <3>7, <3>8
  <2>7. CASE CheckExecutor(t)
    <3>1. Becomes(t, [tick[t] EXCEPT !.pc = "submit"]) /\ UNCHANGED <<running, queue>>
      BY <2>2, <2>4, <2>7 DEF CheckExecutor, Goto, pool, life
    <3>2. tick[t] \in Tick /\ tick'[t] = [tick[t] EXCEPT !.pc = "submit"]
      BY <3>1 DEF Becomes, IInv, TypeOK
    <3>3. Holding(t)' /\ tick'[t].entry = tick[t].entry
      <4> DEFINE k == [tick[t] EXCEPT !.pc = "submit"]
      <4>1. "submit" \in TickPC
        BY DEF TickPC
      <4>2. k.pc = "submit" /\ k.entry = tick[t].entry
        BY <3>2, <4>1, TickMoves
      <4>3. QED BY <3>2, <4>2 DEF Holding
    <3>4. \A u \in Chains : Holding(u) => Holding(u)' /\ tick'[u].entry = tick[u].entry
      BY <2>3, <3>3 DEF Holding
    <3>5. QED BY <2>2, <3>1, <3>4, SameHolders
  <2>8. CASE Submit(t)
    <3>1. queue' = Append(queue, tick[t].entry.flow) /\ UNCHANGED running
      BY <2>2, <2>4, <2>8 DEF Submit, life
    <3>2. tick[t].entry.flow \in Flows
      BY <2>8, HolderHasFlow DEF Submit, IInv
    <3>3. /\ Len(queue) + 1 \in DOMAIN queue' /\ queue'[Len(queue) + 1] = tick[t].entry.flow
          /\ \A i \in DOMAIN queue : i \in DOMAIN queue' /\ queue'[i] = queue[i]
      BY <3>1, <3>2 DEF IInv, TypeOK
    <3>4. CASE f = tick[t].entry.flow
      BY <3>3, <3>4 DEF Held, QueueHolds
    <3>5. CASE f # tick[t].entry.flow
      BY <2>2, <2>3, <3>1, <3>3, <3>5 DEF Held, TickHolds, QueueHolds, WorkerHolds
    <3>6. QED BY <3>4, <3>5
  <2>9. QED BY <1>4, <2>5, <2>6, <2>7, <2>8
            DEF TickStep, Fire, EndLoop, PickEntry, Judge, Claim, Rearm, Arm, pool, Holding
<1>5. ASSUME NEW w \in Workers, Execute(w) PROVE LostInv'
  <2>1. UNCHANGED <<running, tick, life, executor>> /\ worker[w] = None
    BY <1>5 DEF Execute
  <2>2. worker' = [worker EXCEPT ![w] = queue[1]] /\ queue' = Tail(queue)
    BY <1>5 DEF Execute, IInv, TypeOK
  <2>3. starts # 0
    BY <1>5 DEF Execute, LostInv, PoolInv, Drained
  <2>4. ASSUME NEW f \in running, Held(f) PROVE Held(f)'
    <3>1. f # None
      BY SchedulerAssumption DEF IInv, TypeOK
    <3>2. ASSUME NEW t \in Chains, TickHolds(t, f) PROVE Held(f)'
      BY <2>1, <3>2 DEF Held, TickHolds
    <3>3. ASSUME NEW v \in Workers, WorkerHolds(v, f) PROVE Held(f)'
      <4>1. v # w /\ worker'[v] = f
        BY <2>1, <2>2, <3>1, <3>3 DEF WorkerHolds, IInv, TypeOK
      <4>2. QED BY <4>1 DEF Held, WorkerHolds
    <3>4. ASSUME NEW i \in DOMAIN queue, queue[i] = f PROVE Held(f)'
      <4>1. CASE i = 1
        <5>1. worker'[w] = f
          BY <2>2, <3>4, <4>1 DEF IInv, TypeOK
        <5>2. QED BY <5>1 DEF Held, WorkerHolds
      <4>2. CASE i # 1
        <5>1. queue \in Seq(Flows) /\ queue # <<>>
          BY <1>5 DEF Execute, IInv, TypeOK
        <5>2. i - 1 \in DOMAIN queue' /\ queue'[i - 1] = f
          BY <2>2, <3>4, <4>2, <5>1
        <5>3. QED BY <5>2 DEF Held, QueueHolds
      <4>3. QED BY <4>1, <4>2
    <3>5. QED BY <2>4, <3>2, <3>3, <3>4 DEF Held, QueueHolds
  <2>5. QED BY <2>1, <2>3, <2>4, HeldKept DEF LostInv, life
<1>6. ASSUME NEW w \in Workers, Finish(w) PROVE LostInv'
  <2>1. UNCHANGED <<tick, queue, life, executor>> /\ running' = running \ {worker[w]}
    BY <1>6 DEF Finish
  <2>2. \A v \in Workers : v # w => worker'[v] = worker[v]
    BY <1>6 DEF Finish, IInv, TypeOK
  <2>3. starts # 0
    BY <1>6 DEF Finish, LostInv, PoolInv, Drained
  <2>4. ASSUME NEW f \in running', Held(f) PROVE Held(f)'
    BY <2>1, <2>2, <2>4 DEF Held, TickHolds, QueueHolds, WorkerHolds
  <2>5. QED BY <2>1, <2>3, <2>4, HeldKept DEF LostInv, life
<1>7. QED BY <1>1, <1>2, <1>3, <1>4, <1>5, <1>6 DEF Next

\* Until its first stop a scheduler never locks a flow out: every flow counted
\* as running has a tick, a queue place or a worker that will drop the claim.
THEOREM ClaimLostOnlyByStopAlways == Spec => []ClaimLostOnlyByStop
<1>1. LostInv => ClaimLostOnlyByStop
  BY DEF LostInv
<1>2. QED BY <1>1, InitLost, NextLost, InitPool, NextPool, Invariance, PTL DEF Spec

-----------------------------------------------------------------------------
(***************************************************************************)
(* The cron entries, and the types of the scheduler and of an entry.       *)
(***************************************************************************)
LEMMA Fields ==
  ASSUME NEW d \in DateTime
  PROVE  /\ d.year \in Nat /\ d.month \in 1..12 /\ d.day \in 1..31 /\ d.weekday \in 0..6
         /\ d.hour \in 0..23 /\ d.minute \in 0..59
BY DEF DateTime

\* Within one month the number kept for a minute identifies it: the entry is
\* never kept from firing by an earlier firing in the same month.
THEOREM MinuteCodeInjective ==
  ASSUME NEW d \in DateTime, NEW e \in DateTime,
         d.year = e.year, d.month = e.month, MinuteCode(d) = MinuteCode(e)
  PROVE  d.day = e.day /\ d.hour = e.hour /\ d.minute = e.minute
<1>1. PICK y \in Nat, mo \in 1..12, d1 \in 1..31, h1 \in 0..23, m1 \in 0..59 :
        d.year = y /\ d.month = mo /\ d.day = d1 /\ d.hour = h1 /\ d.minute = m1
  BY Fields
<1>2. PICK d2 \in 1..31, h2 \in 0..23, m2 \in 0..59 :
        e.day = d2 /\ e.hour = h2 /\ e.minute = m2
  BY Fields
<1>3. y * 525960 + mo * 43800 + d1 * 1440 + h1 * 60 + m1
        = y * 525960 + mo * 43800 + d2 * 1440 + h2 * 60 + m2
  BY <1>1, <1>2, SMT DEF MinuteCode
<1>4. d1 = d2 /\ h1 = h2 /\ m1 = m2
  BY <1>3, SMT
<1>5. QED BY <1>1, <1>2, <1>4

\* The number is shared by minutes of different months: ten o'clock on the last
\* day of a 31-day month and midnight of the day after it.
THEOREM MinuteCodeCollides ==
  ASSUME NEW d \in DateTime, NEW e \in DateTime, d.year = e.year,
         e.month = d.month + 1, e.day = 1, e.hour = 0, e.minute = 0,
         d.day = 31, d.hour = 10, d.minute = 0
  PROVE  MinuteCode(d) = MinuteCode(e)
<1> DEFINE z == d.year * 525960
<1>1. z \in Int /\ d.month \in Int
  BY Fields, SMT
<1>2. MinuteCode(d) = z + d.month * 43800 + 31 * 1440 + 10 * 60 + 0
  BY SMT DEF MinuteCode
<1>3. MinuteCode(e) = z + (d.month + 1) * 43800 + 1 * 1440 + 0 * 60 + 0
  BY SMT DEF MinuteCode
<1> HIDE DEF z
<1>4. QED BY <1>1, <1>2, <1>3, SMT

-----------------------------------------------------------------------------
\* The clock keeps showing dates and times.
LEMMA NextDayTyped ==
  ASSUME NEW d \in DateTime PROVE NextDay(d) \in DateTime
<1> DEFINE n == DaysIn(d.year, d.month)
<1>1. n \in 28..31 /\ (n # 31 => n < 31)
  BY DEF DaysIn
<1>2. (d.weekday + 1) % 7 \in 0..6
  BY Fields
<1>3. ~(d.day >= n) => d.day + 1 \in 1..31
  BY <1>1, Fields
<1>4. d.month # 12 => d.month + 1 \in 1..12
  BY Fields
<1>5. d.year + 1 \in Nat
  BY Fields
<1>6. QED BY <1>2, <1>3, <1>4, <1>5, Fields DEF NextDay, DateTime

LEMMA NextMinuteTyped ==
  ASSUME NEW d \in DateTime PROVE NextMinute(d) \in DateTime
<1>1. CASE d.minute < 59
  <2>1. d.minute + 1 \in 0..59
    BY <1>1, Fields
  <2>2. NextMinute(d) = At(d, d.hour, d.minute + 1)
    BY <1>1, Fields DEF NextMinute
  <2>3. QED BY <2>1, <2>2, Fields DEF At, DateTime
<1>2. CASE d.minute = 59 /\ d.hour < 23
  <2>1. d.hour + 1 \in 0..23
    BY <1>2, Fields
  <2>2. NextMinute(d) = At(d, d.hour + 1, 0)
    BY <1>2, Fields DEF NextMinute
  <2>3. QED BY <2>1, <2>2, Fields DEF At, DateTime
<1>3. CASE d.minute = 59 /\ ~(d.hour < 23)
  BY <1>3, NextDayTyped, Fields DEF NextMinute
<1>4. QED BY <1>1, <1>2, <1>3, Fields

LEMMA MinuteCodeTyped ==
  ASSUME NEW d \in DateTime PROVE MinuteCode(d) \in Int
<1>1. /\ d.year \in Int /\ d.month \in Int /\ d.day \in Int /\ d.hour \in Int
      /\ d.minute \in Int
  BY Fields
<1> HIDE DEF DateTime
<1>2. QED BY <1>1, SMT DEF MinuteCode

\* What parsing accepts, datetime can match.
LEMMA ExpressionTyped == ExpressionOk
<1>1. \A v \in 0..6 : PythonWeekday(v) \in 0..6
  BY DEF PythonWeekday
<1>2. Expression.weekday \subseteq 0..6
  BY <1>1, CronAssumption DEF Expression, FieldOk
<1>3. /\ Expression.minute \subseteq 0..59 /\ Expression.hour \subseteq 0..23
      /\ Expression.day \subseteq 1..31 /\ Expression.month \subseteq 1..12
  BY CronAssumption DEF Expression, FieldOk
<1>4. QED BY <1>2, <1>3 DEF ExpressionOk, Expression

\* A fire is remembered as long as its minute lasts, and was for a match.
CronInv ==
  /\ CronTypeOK
  /\ OncePerMinute
  /\ fires > 0 => last = MinuteCode(now) /\ Matches(now)

LEMMA CronBegins == CronInit => CronInv
<1>1. Horizon \in Nat /\ FirstMinute \in DateTime
  BY CronAssumption
<1> SUFFICES ASSUME CronInit PROVE CronInv
  OBVIOUS
<1>2. CronTypeOK
  <2>1. 0 \in 0..Horizon /\ 0 \in Nat /\ -1 \in Int /\ FALSE \in BOOLEAN
    BY <1>1
  <2>2. QED BY <1>1, <2>1, ExpressionTyped, Zenon DEF CronInit, CronTypeOK
<1>3. fires = 0
  BY DEF CronInit
<1>4. OncePerMinute /\ ~(fires > 0)
  BY <1>3 DEF OncePerMinute
<1>5. QED BY <1>2, <1>4 DEF CronInv

LEMMA CronSteps == CronInv /\ [CronNext]_cronVars => CronInv'
<1> SUFFICES ASSUME CronInv, [CronNext]_cronVars PROVE CronInv'
  OBVIOUS
<1> USE DEF CronInv, CronTypeOK, OncePerMinute
<1>0. ExpressionOk'
  BY ExpressionTyped DEF ExpressionOk, Expression
<1>1. CASE Advance
  <2>1. elapsed' \in 0..Horizon
    <3>1. Horizon \in Nat
      BY CronAssumption
    <3>2. QED BY <1>1, <3>1 DEF Advance
  <2>2. now' \in DateTime
    BY <1>1, NextMinuteTyped DEF Advance
  <2>3. fires' = 0 /\ judged' = FALSE /\ last' = last
    BY <1>1 DEF Advance
  <2>4. fires' \in Nat /\ fires' <= 1 /\ ~(fires' > 0)
    BY <2>3
  <2>5. QED BY <1>0, <2>1, <2>2, <2>3, <2>4
<1>2. CASE CronTick
  <2>1. MinuteCode(now) \in Int
    BY MinuteCodeTyped
  <2>2. CASE Fires
    <3>1. fires = 0
      BY <2>2 DEF Fires
    <3>2. last' = MinuteCode(now) /\ fires' = 1 /\ Matches(now)
      BY <1>2, <2>2, <3>1 DEF CronTick, Fires
    <3>3. now' = now /\ elapsed' = elapsed /\ judged' = TRUE
      BY <1>2 DEF CronTick
    <3>4. MinuteCode(now') = MinuteCode(now) /\ Matches(now')
      BY <3>2, <3>3
    <3>5. QED BY <1>0, <2>1, <3>2, <3>3, <3>4
  <2>3. CASE ~Fires
    <3>1. UNCHANGED <<now, last, fires, elapsed>> /\ judged' = TRUE
      BY <1>2, <2>3 DEF CronTick
    <3>2. QED BY <1>0, <3>1, SMT DEF MinuteCode, Matches, Expression
  <2>4. QED BY <2>2, <2>3
<1>3. CASE UNCHANGED cronVars
  BY <1>0, <1>3, SMT DEF cronVars, MinuteCode, Matches, Expression
<1>4. QED BY <1>1, <1>2, <1>3 DEF CronNext

THEOREM CronInvariance == CronSpec => []CronInv
BY CronBegins, CronSteps, PTL DEF CronSpec

\* An entry fires at most once in a minute, whatever the expression.
THEOREM OncePerMinuteAlways == CronSpec => []OncePerMinute
<1>1. CronInv => OncePerMinute
  BY DEF CronInv
<1>2. QED BY <1>1, CronInvariance, PTL

\* The two ways of counting weekdays agree: an entry fires only on named days.
THEOREM FiresOnNamedDaysAlways == CronSpec => []FiresOnNamedDays
<1>1. CronInv => FiresOnNamedDays
  <2> SUFFICES ASSUME CronInv, fires > 0
               PROVE  (now.weekday + 1) % 7 \in FieldValues(Cron.weekday, 0, 6)
    BY DEF FiresOnNamedDays
  <2>1. now.weekday \in Expression.weekday
    BY DEF CronInv, Matches
  <2>2. PICK v \in FieldValues(Cron.weekday, 0, 6) : now.weekday = PythonWeekday(v)
    BY <2>1 DEF Expression
  <2>3. v \in 0..6
    BY CronAssumption DEF FieldOk
  <2>4. (((v - 1) % 7) + 1) % 7 = v
    BY <2>3
  <2>5. QED BY <2>2, <2>4 DEF PythonWeekday
<1>2. QED BY <1>1, CronInvariance, PTL

\* What an entry is made of keeps its types, and the parsed expression holds only
\* what datetime can have.
THEOREM CronTypeCorrect == CronSpec => []CronTypeOK
<1>1. CronInv => CronTypeOK
  BY DEF CronInv
<1>2. QED BY <1>1, CronInvariance, PTL

-----------------------------------------------------------------------------
\* No month comes back: the clock is in the month it started in, or after it.
InStartMonth == now.year = FirstMinute.year /\ now.month = FirstMinute.month
MonthsPass == now.year > FirstMinute.year \/ (now.year = FirstMinute.year /\ now.month >= FirstMinute.month)

\* Until the month is over the remembered number is that of an earlier minute, or
\* of this one, and then the entry fired in it; a tick leaves no match unfired.
NothingMissed == InStartMonth =>
  /\ last <= MinuteCode(now)
  /\ last = MinuteCode(now) => fires > 0
  /\ MatchingMinuteFires

MonthInv == CronInv /\ MonthsPass /\ NothingMissed

\* Within a month the number goes up by one from minute to minute.
LEMMA NextMinuteCode ==
  ASSUME NEW d \in DateTime
  PROVE  /\ NextMinute(d).year \in {d.year, d.year + 1}
         /\ NextMinute(d).year = d.year => NextMinute(d).month \in {d.month, d.month + 1}
         /\ NextMinute(d).year = d.year /\ NextMinute(d).month = d.month =>
               MinuteCode(NextMinute(d)) = MinuteCode(d) + 1
<1>1. PICK y \in Nat, mo \in 1..12, dy \in 1..31, h \in 0..23, m \in 0..59 :
        d.year = y /\ d.month = mo /\ d.day = dy /\ d.hour = h /\ d.minute = m
  BY Fields
<1>2. CASE m < 59
  <2>1. NextMinute(d) = At(d, h, m + 1)
    BY <1>1, <1>2 DEF NextMinute
  <2>2. /\ At(d, h, m + 1).year = y /\ At(d, h, m + 1).month = mo /\ At(d, h, m + 1).day = dy
        /\ At(d, h, m + 1).hour = h /\ At(d, h, m + 1).minute = m + 1
    BY <1>1 DEF At
  <2>3. y * 525960 + mo * 43800 + dy * 1440 + h * 60 + (m + 1)
          = y * 525960 + mo * 43800 + dy * 1440 + h * 60 + m + 1
    OBVIOUS
  <2>4. MinuteCode(At(d, h, m + 1)) = y * 525960 + mo * 43800 + dy * 1440 + h * 60 + (m + 1)
    BY <2>2 DEF MinuteCode
  <2>5. MinuteCode(d) = y * 525960 + mo * 43800 + dy * 1440 + h * 60 + m
    BY <1>1 DEF MinuteCode
  <2>6. QED BY <1>1, <2>1, <2>2, <2>3, <2>4, <2>5
<1>3. CASE m = 59 /\ h < 23
  <2>1. NextMinute(d) = At(d, h + 1, 0)
    BY <1>1, <1>3 DEF NextMinute
  <2>2. /\ At(d, h + 1, 0).year = y /\ At(d, h + 1, 0).month = mo /\ At(d, h + 1, 0).day = dy
        /\ At(d, h + 1, 0).hour = h + 1 /\ At(d, h + 1, 0).minute = 0
    BY <1>1 DEF At
  <2>3. MinuteCode(At(d, h + 1, 0)) = y * 525960 + mo * 43800 + dy * 1440 + (h + 1) * 60 + 0
    BY <2>2 DEF MinuteCode
  <2>4. MinuteCode(d) = y * 525960 + mo * 43800 + dy * 1440 + h * 60 + m
    BY <1>1 DEF MinuteCode
  <2>5. y * 525960 + mo * 43800 + dy * 1440 + (h + 1) * 60 + 0
          = y * 525960 + mo * 43800 + dy * 1440 + h * 60 + 59 + 1
    OBVIOUS
  <2>6. QED BY <1>1, <1>3, <2>1, <2>2, <2>3, <2>4, <2>5
<1>4. CASE m = 59 /\ h = 23
  <2> DEFINE n == NextDay(d)
             ends == dy >= DaysIn(y, mo)
  <2>1. NextMinute(d) = n
    BY <1>1, <1>4 DEF NextMinute
  <2>2. /\ n.year = IF ends /\ mo = 12 THEN y + 1 ELSE y
        /\ n.month = IF ends /\ mo = 12 THEN 1 ELSE IF ends THEN mo + 1 ELSE mo
        /\ n.day = IF ends THEN 1 ELSE dy + 1
        /\ n.hour = 0 /\ n.minute = 0
    BY <1>1 DEF NextDay
  <2>3. MinuteCode(d) = y * 525960 + mo * 43800 + dy * 1440 + h * 60 + m
    BY <1>1 DEF MinuteCode
  <2>4. MinuteCode(n) = n.year * 525960 + n.month * 43800 + n.day * 1440 + n.hour * 60 + n.minute
    BY DEF MinuteCode
  <2> HIDE DEF n, ends
  <2>5. n.year = y /\ n.month = mo => ~ends
    BY <2>2
  <2>6. n.year = y /\ n.month = mo => n.day = dy + 1
    BY <2>2, <2>5
  <2>7. y * 525960 + mo * 43800 + (dy + 1) * 1440 + 0 * 60 + 0
          = y * 525960 + mo * 43800 + dy * 1440 + 23 * 60 + 59 + 1
    OBVIOUS
  <2>8. n.year = y /\ n.month = mo => MinuteCode(n) = MinuteCode(d) + 1
    BY <1>4, <2>2, <2>3, <2>4, <2>6, <2>7
  <2>9. n.year \in {y, y + 1} /\ (n.year = y => n.month \in {mo, mo + 1})
    BY <2>2
  <2>10. QED BY <1>1, <2>1, <2>8, <2>9
<1>5. QED BY <1>2, <1>3, <1>4

LEMMA MonthBegins == CronInit => MonthInv
<1>1. SUFFICES ASSUME CronInit PROVE MonthInv
  OBVIOUS
<1>2. now \in DateTime /\ FirstMinute \in DateTime /\ now = FirstMinute /\ last = -1 /\ judged = FALSE
  BY <1>1, CronAssumption DEF CronInit
<1>3. PICK y \in Nat, mo \in 1..12, dy \in 1..31, h \in 0..23, m \in 0..59 :
        now.year = y /\ now.month = mo /\ now.day = dy /\ now.hour = h /\ now.minute = m
  BY <1>2, Fields
<1>4. MinuteCode(now) = y * 525960 + mo * 43800 + dy * 1440 + h * 60 + m
  BY <1>3 DEF MinuteCode
<1>5. MinuteCode(now) > -1
  BY <1>4
<1>6. MinuteCode(now) \in Int
  BY <1>4
<1>7. NothingMissed
  BY <1>2, <1>5, <1>6 DEF NothingMissed, MatchingMinuteFires
<1>8. MonthsPass
  BY <1>2, <1>3 DEF MonthsPass
<1>9. QED BY <1>1, <1>7, <1>8, CronBegins DEF MonthInv

LEMMA MonthSteps == MonthInv /\ [CronNext]_cronVars => MonthInv'
<1>1. SUFFICES ASSUME MonthInv, [CronNext]_cronVars PROVE MonthInv'
  OBVIOUS
<1>2. /\ CronInv /\ CronInv' /\ MonthsPass /\ NothingMissed
      /\ now \in DateTime /\ now' \in DateTime /\ FirstMinute \in DateTime
      /\ last \in Int /\ fires \in Nat /\ MinuteCode(now) \in Int /\ MinuteCode(now)' \in Int
  BY <1>1, CronSteps, MinuteCodeTyped, CronAssumption DEF MonthInv, CronInv, CronTypeOK
<1>3. CASE Advance
  <2>1. now' = NextMinute(now) /\ last' = last /\ fires' = 0 /\ judged' = FALSE
    BY <1>3 DEF Advance
  <2>2. /\ now'.year \in {now.year, now.year + 1}
        /\ now'.year = now.year => now'.month \in {now.month, now.month + 1}
    BY <1>2, <2>1, NextMinuteCode
  <2>3. /\ now.year \in Nat /\ now.month \in Nat /\ FirstMinute.year \in Nat /\ FirstMinute.month \in Nat
        /\ now'.year \in Nat /\ now'.month \in Nat
    BY <1>2, Fields
  <2>4. MonthsPass'
    BY <1>2, <2>2, <2>3 DEF MonthsPass
  <2>5. ASSUME InStartMonth' PROVE now'.year = now.year /\ now'.month = now.month /\ InStartMonth
    BY <1>2, <2>2, <2>3, <2>5 DEF MonthsPass, InStartMonth
  <2>6. ASSUME InStartMonth' PROVE last' < MinuteCode(now)'
    <3>1. MinuteCode(now') = MinuteCode(now) + 1
      BY <1>2, <2>1, <2>5, <2>6, NextMinuteCode
    <3>2. last <= MinuteCode(now)
      BY <1>2, <2>5, <2>6 DEF NothingMissed
    <3>3. QED BY <1>2, <2>1, <3>1, <3>2
  <2>7. NothingMissed'
    BY <1>2, <2>1, <2>6 DEF NothingMissed, MatchingMinuteFires
  <2>8. QED BY <1>2, <2>4, <2>7 DEF MonthInv
<1>4. CASE CronTick
  <2>1. /\ now' = now /\ judged' = TRUE
        /\ IF Fires THEN last' = MinuteCode(now) /\ fires' = fires + 1 ELSE UNCHANGED <<last, fires>>
    BY <1>4 DEF CronTick
  <2>2. MonthsPass' /\ (InStartMonth' <=> InStartMonth) /\ MinuteCode(now)' = MinuteCode(now)
    BY <1>2, <2>1 DEF MonthsPass, InStartMonth
  <2>3. Matches(now)' <=> Matches(now)
    BY <2>1 DEF Matches, Expression
  <2>4. CASE Fires
    <3>1. last' = MinuteCode(now)' /\ fires' > 0
      BY <1>2, <2>1, <2>2, <2>4
    <3>2. QED BY <1>2, <2>2, <3>1 DEF MonthInv, NothingMissed, MatchingMinuteFires
  <2>5. CASE ~Fires
    <3>1. UNCHANGED <<last, fires>> /\ (Matches(now) => last = MinuteCode(now))
      BY <2>1, <2>5 DEF Fires
    <3>2. NothingMissed'
      BY <1>2, <2>2, <2>3, <3>1 DEF NothingMissed, MatchingMinuteFires
    <3>3. QED BY <1>2, <2>2, <3>2 DEF MonthInv
  <2>6. QED BY <2>4, <2>5
<1>5. CASE UNCHANGED cronVars
  <2>1. UNCHANGED <<now, last, fires, judged>>
    BY <1>5 DEF cronVars
  <2>2. MinuteCode(now)' = MinuteCode(now) /\ (Matches(now)' <=> Matches(now))
    BY <2>1 DEF Matches, Expression
  <2>3. MonthsPass' /\ NothingMissed'
    BY <1>2, <2>1, <2>2 DEF MonthsPass, InStartMonth, NothingMissed, MatchingMinuteFires
  <2>4. QED BY <1>2, <2>3 DEF MonthInv
<1>6. QED BY <1>1, <1>3, <1>4, <1>5 DEF CronNext

\* Until the month is over an entry fires in every minute that it matches and a
\* tick looks at.  Beyond it it need not, as MinuteCodeCollides shows.
THEOREM MatchesFireInAMonth == CronSpec => [](InStartMonth => MatchingMinuteFires)
<1>1. MonthInv => (InStartMonth => MatchingMinuteFires)
  BY DEF MonthInv, NothingMissed
<1>2. QED BY <1>1, MonthBegins, MonthSteps, PTL DEF CronSpec

-----------------------------------------------------------------------------
\* A run with the scheduler in focus is one of the scheduler, and one with a cron
\* entry in focus is one of the entry; the other one stands still.
LEMMA FocusOnOne == SchedulingSpec => Spec /\ CronSpec
<1>1. SchedulingInit => Init /\ CronInit
  BY DEF SchedulingInit
<1>2. [SchedulingNext]_<<focus, vars, cronVars>> => [Next]_vars /\ [CronNext]_cronVars
  BY DEF SchedulingNext
<1>3. QED BY <1>1, <1>2, PTL DEF SchedulingSpec, Spec, CronSpec

\* The variables of the scheduler and of a cron entry keep their types.
THEOREM SchedulingTypeCorrect == SchedulingSpec => []SchedulingTypeOK
<1>1. TypeOK /\ CronTypeOK => SchedulingTypeOK
  BY DEF SchedulingTypeOK
<1>2. QED BY <1>1, FocusOnOne, TypeCorrect, CronTypeCorrect, PTL
=============================================================================
