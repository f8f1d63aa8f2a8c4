--------------------------- MODULE FlowScheduler ---------------------------
(***************************************************************************)
(* The tick-based flow scheduler: class FlowScheduler of                   *)
(* core_runtime/flow_scheduler.py.                                         *)
(*                                                                         *)
(* Four kinds of thread share one scheduler object: the controller, which  *)
(* calls register, unregister, start and stop one after the other; the     *)
(* timer threads, each of which runs one tick and then arms its successor, *)
(* so that a chain of timer threads is one element of Chains; and the      *)
(* workers of the thread pool, which execute flows.  The lock covers only  *)
(* the table and _running_flows: the stop flag, the timer, the pool and an *)
(* entry's last minute are read and written outside it.                    *)
(*                                                                         *)
(* Time is what it does to an entry: an entry is in "due" while the next   *)
(* should_run() of it would say yes.  Times only reach the model through   *)
(* it, so a tick that evaluates late is one whose entry goes out of due    *)
(* late.  CronSchedule models how should_run() decides.                    *)
(***************************************************************************)
EXTENDS Naturals, Sequences

CONSTANTS
  Flows,      \* flow ids with a schedule
  Schedules,  \* the ScheduleEntry objects that register() may be asked to create
  Chains,     \* chains of timer threads
  Workers,    \* max_workers = 2 threads of the pool
  MaxStarts,  \* bound: how often start() starts this object
  Endless,    \* the flows whose execution may never end
  None        \* no entry, no timer, no flow

\* An entry with both a cron expression and an interval is of kind "cron", which
\* should_run() looks at first.
Kind  == {"cron", "interval"}
Entry == [flow : Flows, kind : Kind]

ASSUME SchedulerAssumption ==
  /\ Schedules \subseteq Entry
  /\ MaxStarts \in Nat
  /\ Endless \subseteq Flows
  /\ None \notin Flows \cup Chains \cup Entry

TickPC   == {"none", "armed", "loop", "judge", "claim", "check", "submit", "rearm", "arm"}
Tick     == [pc : TickPC, todo : SUBSET Entry, entry : Entry \cup {None}]
NoTick   == [pc |-> "none", todo |-> {}, entry |-> None]
Armed    == [NoTick EXCEPT !.pc = "armed"]
ControlPC == {"idle", "arm", "cancel", "shutdown", "drain"}

VARIABLES
  entries,    \* _entries: flow id -> registered entry
  due,        \* entries for which should_run() would say yes
  running,    \* _running_flows
  tick,       \* what the timer thread of each chain is doing
  timer,      \* _timer: the chain whose timer thread was created last
  stopped,    \* the _stopped event
  executor,   \* _executor: none, open, or shutting down
  queue,      \* the pool's work queue
  worker,     \* the flow a worker executes
  control,    \* where the controller is in start() or stop()
  starts      \* how often the object was started

vars == <<entries, due, running, tick, timer, stopped, executor, queue, worker, control, starts>>
table == <<entries, due>>
pool  == <<executor, queue, worker>>
life  == <<stopped, control, starts>>

Init ==
  /\ entries = [f \in Flows |-> None]
  /\ due = {}
  /\ running = {}
  /\ tick = [t \in Chains |-> NoTick]
  /\ timer = None
  /\ stopped = TRUE
  /\ executor = "none"
  /\ queue = <<>>
  /\ worker = [w \in Workers |-> None]
  /\ control = "idle"
  /\ starts = 0

-----------------------------------------------------------------------------
(* The table.                                                              *)

\* A tick works on a snapshot, so an entry outlives its place in the table.
InUse(e) ==
  \/ e = entries[e.flow]
  \/ \E t \in Chains : e = tick[t].entry \/ e \in tick[t].todo

\* register() puts a new object into the table; an interval entry is first due
\* one interval later.
Register(e) ==
  /\ control = "idle"
  /\ e \in Schedules
  /\ ~InUse(e)
  /\ entries' = [entries EXCEPT ![e.flow] = e]
  /\ due' = due \ {e}
  /\ UNCHANGED <<running, tick, timer, pool, life>>

Unregister(f) ==
  /\ control = "idle"
  /\ entries[f] # None
  /\ entries' = [entries EXCEPT ![f] = None]
  /\ UNCHANGED <<due, running, tick, timer, pool, life>>

\* The interval has passed, or a minute that matches the cron expression begins.
BecomeDue(e) ==
  /\ InUse(e)
  /\ e \notin due
  /\ due' = due \cup {e}
  /\ UNCHANGED <<entries, running, tick, timer, pool, life>>

\* The minute of a cron entry ends without a tick having taken it.
MinuteEnds(e) ==
  /\ e \in due
  /\ e.kind = "cron"
  /\ due' = due \ {e}
  /\ UNCHANGED <<entries, running, tick, timer, pool, life>>

-----------------------------------------------------------------------------
(* start() and stop(), on the controller.                                  *)

\* A new pool, then the stop flag is cleared.
Start ==
  /\ control = "idle"
  /\ stopped
  /\ starts < MaxStarts
  /\ executor' = "open"
  /\ stopped' = FALSE
  /\ control' = "arm"
  /\ starts' = starts + 1
  /\ UNCHANGED <<table, running, tick, timer, queue, worker>>

\* _schedule_next_tick() of start().
StartTimer(t) ==
  /\ control = "arm"
  /\ tick[t].pc = "none"
  /\ tick' = [tick EXCEPT ![t] = Armed]
  /\ timer' = t
  /\ control' = "idle"
  /\ UNCHANGED <<table, running, pool, stopped, starts>>

Stop ==
  /\ control = "idle"
  /\ stopped' = TRUE
  /\ control' = "cancel"
  /\ UNCHANGED <<table, running, tick, timer, pool, starts>>

\* Cancelling a timer has no effect once its function runs.
CancelTimer ==
  /\ control = "cancel"
  /\ tick' = [t \in Chains |-> IF t = timer /\ tick[t] = Armed THEN NoTick ELSE tick[t]]
  /\ timer' = None
  /\ control' = "shutdown"
  /\ UNCHANGED <<table, running, pool, stopped, starts>>

\* shutdown(wait=True, cancel_futures=False): nothing new is accepted ...
Shutdown ==
  /\ control = "shutdown"
  /\ IF executor = "open"
       THEN executor' = "shut" /\ control' = "drain"
       ELSE control' = "idle" /\ UNCHANGED executor
  /\ UNCHANGED <<table, running, tick, timer, queue, worker, stopped, starts>>

\* ... and the call returns when the queue is empty and every worker has ended.
Drained == queue = <<>> /\ \A w \in Workers : worker[w] = None

\* Mutant: shutdown(wait=False).
DrainUnwaited ==
  /\ control = "drain"
  /\ executor' = "none"
  /\ control' = "idle"
  /\ UNCHANGED <<table, running, tick, timer, queue, worker, stopped, starts>>

\* Mutant: stop() waits for _running_flows to become empty.
DrainForClaims ==
  /\ control = "drain"
  /\ Drained /\ running = {}
  /\ executor' = "none"
  /\ control' = "idle"
  /\ UNCHANGED <<table, running, tick, timer, queue, worker, stopped, starts>>

Drain ==
  /\ control = "drain"
  /\ Drained
  /\ executor' = "none"
  /\ control' = "idle"
  /\ UNCHANGED <<table, running, tick, timer, queue, worker, stopped, starts>>

-----------------------------------------------------------------------------
(* One tick, on a timer thread.                                            *)

Becomes(t, k) == tick' = [tick EXCEPT ![t] = k]
Goto(t, pc)   == Becomes(t, [tick[t] EXCEPT !.pc = pc])
NextEntry(t)  == Becomes(t, [tick[t] EXCEPT !.pc = "loop", !.entry = None])
Dies(t)       == Becomes(t, NoTick)

\* Mutant: the snapshot keeps the places of unregistered flows.
FireUnfiltered(t) ==
  /\ tick[t].pc = "armed"
  /\ IF stopped
       THEN Dies(t)
       ELSE Becomes(t, [pc |-> "loop", entry |-> None, todo |-> {entries[f] : f \in Flows}])
  /\ UNCHANGED <<table, running, timer, pool, life>>

\* The timer fires: the tick takes its snapshot of the table.
Fire(t) ==
  /\ tick[t].pc = "armed"
  /\ IF stopped
       THEN Dies(t)
       ELSE Becomes(t, [pc |-> "loop", entry |-> None,
                        todo |-> {entries[f] : f \in Flows} \ {None}])
  /\ UNCHANGED <<table, running, timer, pool, life>>

\* The loop ends with the snapshot or when the scheduler has been stopped.
EndLoop(t) ==
  /\ tick[t].pc = "loop"
  /\ stopped \/ tick[t].todo = {}
  /\ Becomes(t, [tick[t] EXCEPT !.pc = "rearm", !.todo = {}])
  /\ UNCHANGED <<table, running, timer, pool, life>>

\* Mutant: any running flow makes the tick pass over an entry.
PickEntryWhenQuiet(t, e) ==
  /\ tick[t].pc = "loop"
  /\ ~stopped
  /\ e \in tick[t].todo
  /\ IF running # {}
       THEN Becomes(t, [tick[t] EXCEPT !.todo = @ \ {e}])
       ELSE Becomes(t, [pc |-> "judge", todo |-> tick[t].todo \ {e}, entry |-> e])
  /\ UNCHANGED <<table, running, timer, pool, life>>

\* The first look at _running_flows: a running flow is not even judged.
PickEntry(t, e) ==
  /\ tick[t].pc = "loop"
  /\ ~stopped
  /\ e \in tick[t].todo
  /\ IF e.flow \in running
       THEN Becomes(t, [tick[t] EXCEPT !.todo = @ \ {e}])
       ELSE Becomes(t, [pc |-> "judge", todo |-> tick[t].todo \ {e}, entry |-> e])
  /\ UNCHANGED <<table, running, timer, pool, life>>

\* should_run() remembers the minute of a cron entry, outside the lock.
Judge(t) ==
  LET e == tick[t].entry IN
  /\ tick[t].pc = "judge"
  /\ IF e \in due THEN Goto(t, "claim") ELSE NextEntry(t)
  /\ due' = IF e.kind = "cron" THEN due \ {e} ELSE due
  /\ UNCHANGED <<entries, running, timer, pool, life>>

\* Mutant: without the second look.
ClaimUnchecked(t) ==
  LET e == tick[t].entry IN
  /\ tick[t].pc = "claim"
  /\ running' = running \cup {e.flow}
  /\ due' = IF e.kind = "interval" THEN due \ {e} ELSE due
  /\ Goto(t, "check")
  /\ UNCHANGED <<entries, timer, pool, life>>

\* The second look, and the claim, in one section under the lock.
Claim(t) ==
  LET e == tick[t].entry IN
  /\ tick[t].pc = "claim"
  /\ IF e.flow \in running
       THEN NextEntry(t) /\ UNCHANGED <<running, due>>
       ELSE /\ running' = running \cup {e.flow}
            /\ due' = IF e.kind = "interval" THEN due \ {e} ELSE due
            /\ Goto(t, "check")
  /\ UNCHANGED <<entries, timer, pool, life>>

\* A claim that meets no pool stays in _running_flows.
CheckExecutor(t) ==
  /\ tick[t].pc = "check"
  /\ IF executor = "none" THEN NextEntry(t) ELSE Goto(t, "submit")
  /\ UNCHANGED <<table, running, timer, pool, life>>

\* submit() raises on a pool that shuts down, and on no pool: the thread ends
\* and the claim stays.
Submit(t) ==
  /\ tick[t].pc = "submit"
  /\ IF executor = "open"
       THEN queue' = Append(queue, tick[t].entry.flow) /\ NextEntry(t)
       ELSE Dies(t) /\ UNCHANGED queue
  /\ UNCHANGED <<table, running, timer, executor, worker, life>>

\* _schedule_next_tick(): the stop flag is read ...
Rearm(t) ==
  /\ tick[t].pc = "rearm"
  /\ IF stopped THEN Dies(t) ELSE Goto(t, "arm")
  /\ UNCHANGED <<table, running, timer, pool, life>>

\* ... and a new timer is created and started, which a stop may have overtaken.
Arm(t) ==
  /\ tick[t].pc = "arm"
  /\ Becomes(t, Armed)
  /\ timer' = t
  /\ UNCHANGED <<table, running, pool, life>>

-----------------------------------------------------------------------------
(* _execute_flow, on a worker of the pool.                                 *)

Execute(w) ==
  /\ worker[w] = None
  /\ queue # <<>>
  /\ worker' = [worker EXCEPT ![w] = Head(queue)]
  /\ queue' = Tail(queue)
  /\ UNCHANGED <<table, running, tick, timer, executor, life>>

\* Mutant: a flow that raises keeps its claim.
FinishKeepsClaim(w) ==
  /\ worker[w] # None
  /\ running' \in {running, running \ {worker[w]}}
  /\ worker' = [worker EXCEPT ![w] = None]
  /\ UNCHANGED <<table, tick, timer, executor, queue, life>>

\* The callback returned or raised; the claim is dropped in either case.
Finish(w) ==
  /\ worker[w] # None
  /\ running' = running \ {worker[w]}
  /\ worker' = [worker EXCEPT ![w] = None]
  /\ UNCHANGED <<table, tick, timer, executor, queue, life>>

-----------------------------------------------------------------------------
Table ==
  \/ \E e \in Entry : Register(e) \/ BecomeDue(e) \/ MinuteEnds(e)
  \/ \E f \in Flows : Unregister(f)

Controller ==
  \/ Start \/ Stop
  \/ \E t \in Chains : StartTimer(t)
  \/ CancelTimer \/ Shutdown \/ Drain

TickStep(t) ==
  \/ Fire(t) \/ EndLoop(t) \/ Judge(t) \/ Claim(t)
  \/ \E e \in Entry : PickEntry(t, e)
  \/ CheckExecutor(t) \/ Submit(t) \/ Rearm(t) \/ Arm(t)

Next ==
  \/ Table
  \/ Controller
  \/ \E t \in Chains : TickStep(t)
  \/ \E w \in Workers : Execute(w) \/ Finish(w)

Spec == Init /\ [][Next]_vars

\* Threads that can run do run; a flow that is not in Endless ends.  Nothing is
\* assumed of callers: nobody need register, start or stop.
Fairness ==
  /\ \A t \in Chains : WF_vars(TickStep(t))
  /\ \A w \in Workers : WF_vars(Execute(w)) /\ WF_vars(worker[w] \notin Endless /\ Finish(w))
  /\ WF_vars((\E t \in Chains : StartTimer(t)) \/ CancelTimer \/ Shutdown \/ Drain)

FairSpec == Spec /\ Fairness
-----------------------------------------------------------------------------
(* Properties.                                                             *)

TypeOK ==
  /\ entries \in [Flows -> Entry \cup {None}]
  /\ \A f \in Flows : entries[f] # None => entries[f].flow = f
  /\ due \subseteq Entry
  /\ running \subseteq Flows
  /\ tick \in [Chains -> Tick]
  /\ \A t \in Chains : tick[t].pc \in {"judge", "claim", "check", "submit"} => tick[t].entry # None
  /\ timer \in Chains \cup {None}
  /\ stopped \in BOOLEAN
  /\ executor \in {"none", "open", "shut"}
  /\ queue \in Seq(Flows)
  /\ worker \in [Workers -> Flows \cup {None}]
  /\ control \in ControlPC
  /\ starts \in 0..MaxStarts

\* Who holds the claim on flow f: a tick on its way to submit it, a place in
\* the queue, or a worker.
TickHolds(t, f)  == tick[t].pc \in {"check", "submit"} /\ tick[t].entry.flow = f
QueueHolds(i, f) == i \in DOMAIN queue /\ queue[i] = f
WorkerHolds(w, f) == worker[w] = f

Held(f) == \/ \E t \in Chains : TickHolds(t, f)
           \/ \E i \in DOMAIN queue : QueueHolds(i, f)
           \/ \E w \in Workers : WorkerHolds(w, f)

\* A flow is never executed twice at the same time, nor queued while it is
\* queued or executed: "executions of one flow do not overlap".
NoOverlap ==
  \A f \in Flows :
    /\ \A v, w \in Workers : WorkerHolds(v, f) /\ WorkerHolds(w, f) => v = w
    /\ \A i, j \in DOMAIN queue : QueueHolds(i, f) /\ QueueHolds(j, f) => i = j
    /\ \A i \in DOMAIN queue, w \in Workers : ~(QueueHolds(i, f) /\ WorkerHolds(w, f))

\* A flow that counts as running really is on its way, unless a stop caught
\* the tick between its claim and its submission: while the scheduler has not
\* been stopped no flow is locked out of its schedule.
ClaimLostOnlyByStop ==
  \A f \in running : Held(f) \/ stopped \/ starts > 1

\* Once stop() has returned nothing is queued or executed until the next start.
StoppedIsQuiet ==
  control = "idle" /\ stopped => Drained

\* An interval flow that is due is executed, unless it is replaced or
\* unregistered or the scheduler is stopped - also while other flows, fewer
\* than there are workers, never end.
Stays(e) == control = "idle" /\ ~stopped /\ entries[e.flow] = e

DueFlowExecutes ==
  \A e \in Entry :
    e.kind = "interval" /\ Stays(e) /\ e \in due ~>
      \/ \E w \in Workers : worker[w] = e.flow
      \/ ~Stays(e)

\* stop() returns unless an endless flow keeps a worker busy.
StopReturns ==
  control = "cancel" ~>
    control = "idle" \/ \E w \in Workers : worker[w] \in Endless
=============================================================================
