------------------------- MODULE KernelSupervisor -------------------------
(***************************************************************************)
(* The launcher's supervision of the kernel process: KernelManager in      *)
(* rumi_launcher/src/kernel_manager.rs and the event loop of main.rs.      *)
(*                                                                         *)
(* The launcher is one thread; the kernel may exit at any point of it, and *)
(* the user may choose a menu entry whenever the loop looks at the menu.   *)
(***************************************************************************)
EXTENDS Naturals

CONSTANTS
  Pids,             \* process ids, which the system uses again
  MaxAutoRestarts,  \* MAX_AUTO_RESTARTS
  None              \* no child

ASSUME SupervisorAssumption == MaxAutoRestarts \in Nat /\ None \notin Pids

\* How a process ended: code 0, code 42, another code, or by a signal, in which
\* case ExitStatus::code() has none.
Exits == {"ok", "restart", "failure", "signal"}

VARIABLES
  process,       \* each process id: free, alive, or ended but not waited for
  child,         \* child
  restartCount,  \* restart_count
  pc,            \* where the launcher is
  goal           \* what stop() was called for

supervisorVars == <<process, child, restartCount, pc, goal>>

PC == {"boot", "health", "loop", "spawn", "stop", "done"}

SupervisorInit ==
  /\ process = [p \in Pids |-> "free"]
  /\ child = None
  /\ restartCount = 0
  /\ pc = "boot"
  /\ goal = "none"

Exited == child # None /\ process[child] \in Exits

\* start(), which may fail before a process exists.
Started ==
  \E p \in Pids :
    /\ process[p] = "free"
    /\ process' = [process EXCEPT ![p] = "alive"]
    /\ child' = p
NotStarted == UNCHANGED <<process, child>>

\* The child is waited for and its handle given up.
Reaped ==
  /\ process' = [process EXCEPT ![child] = "free"]
  /\ child' = None

\* Steps 3 and 4 of run(): the first start, and the wait for the kernel's health.
Boot ==
  /\ pc = "boot"
  /\ \/ Started /\ pc' = "health"
     \/ NotStarted /\ pc' = "done"
  /\ UNCHANGED <<restartCount, goal>>

Healthy ==
  /\ pc = "health"
  /\ pc' = "loop"
  /\ UNCHANGED <<process, child, restartCount, goal>>

\* The launcher gives up; drop() stops a kernel that is running.
Unhealthy ==
  /\ pc = "health"
  /\ IF Exited
     THEN Reaped /\ pc' = "done" /\ UNCHANGED goal
     ELSE pc' = "stop" /\ goal' = "quit" /\ UNCHANGED <<process, child>>
  /\ UNCHANGED restartCount

\* Mutants: no limit; one restart too few; failures are not counted.
Unlimited(count) == TRUE
OneTooFew(count) == count < MaxAutoRestarts
SameCount == restartCount

MayRestart(count) == count <= MaxAutoRestarts
NextCount == restartCount + 1

\* is_running() finds that the child has ended and wait_and_handle_restart()
\* decides.  An exit by a signal leaves last_exit_code empty, as code 0 would.
CheckKernel ==
  /\ pc = "loop"
  /\ Exited
  /\ Reaped
  /\ \/ /\ process[child] = "restart"
        /\ restartCount' = 0
        /\ pc' = "spawn"
     \/ /\ process[child] = "failure"
        /\ restartCount' = NextCount
        /\ pc' = IF MayRestart(restartCount') THEN "spawn" ELSE "loop"
     \/ /\ process[child] \in {"ok", "signal"}
        /\ UNCHANGED <<restartCount, pc>>
  /\ UNCHANGED goal

\* start() after a decision to restart or a stop; its failure is only logged.
Spawn ==
  /\ pc = "spawn"
  /\ Started \/ NotStarted
  /\ pc' = "loop"
  /\ UNCHANGED <<restartCount, goal>>

\* Mutant: restart() without the stop.
RestartWithoutStop ==
  /\ pc = "loop"
  /\ restartCount' = 0
  /\ pc' = "spawn"
  /\ UNCHANGED <<process, child, goal>>

\* The menu entries; both call stop().
MenuRestart ==
  /\ pc = "loop"
  /\ pc' = "stop"
  /\ goal' = "restart"
  /\ UNCHANGED <<process, child, restartCount>>

MenuQuit ==
  /\ pc = "loop"
  /\ pc' = "stop"
  /\ goal' = "quit"
  /\ UNCHANGED <<process, child, restartCount>>

\* The end of stop(), which waits for five seconds after SIGTERM and then kills:
\* the child has ended by itself, by SIGTERM or by SIGKILL, and is waited for.
Stopped ==
  /\ pc = "stop"
  /\ IF child = None THEN UNCHANGED <<process, child>> ELSE Reaped
  /\ \/ goal = "restart" /\ restartCount' = 0 /\ pc' = "spawn"
     \/ goal = "quit" /\ UNCHANGED restartCount /\ pc' = "done"
  /\ goal' = "none"

KernelExits ==
  \E p \in Pids, how \in Exits :
    /\ process[p] = "alive"
    /\ process' = [process EXCEPT ![p] = how]
    /\ UNCHANGED <<child, restartCount, pc, goal>>

Launcher == Boot \/ Healthy \/ Unhealthy \/ CheckKernel \/ Spawn \/ Stopped

\* The launcher has ended.
Ended == pc = "done" /\ UNCHANGED supervisorVars

SupervisorNext == Launcher \/ MenuRestart \/ MenuQuit \/ KernelExits \/ Ended

\* The loop comes round; nothing is assumed about the kernel or the user.
SupervisorFairness == WF_supervisorVars(Launcher)
SupervisorSpec == SupervisorInit /\ [][SupervisorNext]_supervisorVars /\ SupervisorFairness
-----------------------------------------------------------------------------

\* The state has its types; the failures counted never exceed the limit by more
\* than the one that ends the restarting.
SupervisorTypeOK ==
  /\ process \in [Pids -> {"free", "alive"} \cup Exits]
  /\ child \in Pids \cup {None}
  /\ restartCount \in 0..(MaxAutoRestarts + 1)
  /\ pc \in PC
  /\ goal \in {"none", "restart", "quit"}
  /\ pc = "stop" => goal \in {"restart", "quit"}

\* There is never a second kernel, nor one the launcher has no handle of, and the
\* launcher leaves none behind, whatever the order of exits, restarts and quits.
NoOtherKernel ==
  /\ \A p \in Pids : process[p] # "free" => child = p
  /\ pc = "done" => \A p \in Pids : process[p] = "free"

\* A kernel that ended with code 42, or failed while restarts are left, is
\* started again, unless the user quits.
RestartDue ==
  /\ pc = "loop" /\ Exited
  /\ \/ process[child] = "restart"
     \/ process[child] = "failure" /\ restartCount < MaxAutoRestarts
RestartHappens == RestartDue ~> pc \in {"spawn", "done"}

\* A kernel that fails again and again is not started for ever: endless starts need
\* endless requests, by the user or by exits with code 42.
CrashLoopEnds ==
  []<><<Spawn>>_supervisorVars =>
    []<>(goal = "restart" \/ \E p \in Pids : process[p] = "restart")

\* Restarting neither stops too early nor goes on for ever.
KernelRestarts == RestartHappens /\ CrashLoopEnds
=============================================================================
