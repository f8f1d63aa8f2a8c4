---------------------------- MODULE CodeExecution ----------------------------
(***************************************************************************)
(* How code of a pack is run: PythonFileExecutor (python_file_executor.py) *)
(* for a file of a flow, SecureExecutor (secure_executor.py) for a         *)
(* component phase and for a lib, in a container or, in permissive mode    *)
(* without Docker, in a thread of this process.  They differ in how they   *)
(* wait: a file's container is waited for by reading its output to the     *)
(* end, which no timeout interrupts; the other containers by a timed wait  *)
(* followed by "docker kill"; a thread by a timed wait, after which the    *)
(* pool is left only when the thread has ended.                            *)
(***************************************************************************)
EXTENDS Naturals, FiniteSets

CONSTANTS
    Calls,          \* executions, from several threads of the kernel
    Ways,           \* of {"file", "phase", "lib"} the executors that are used
    MaxKillFails    \* bound: "docker kill" that does not reach the daemon

ASSUME CodeConstants == Ways # {} /\ Ways \subseteq {"file", "phase", "lib"} /\ MaxKillFails \in Nat

VARIABLES
    docker,         \* what PythonFileExecutor's check for Docker last said
    dockerOnce,     \* what SecureExecutor's only check said
    call,           \* [Calls -> Execution]
    socketEnv,      \* the variable RUMI_CAPABILITY_SOCKET of this process
    injected,       \* whether code in threads can import rumi_capability
    overlap,        \* history: two executions in threads were under way at once
    killFails

execVars == <<docker, dockerOnce, call, socketEnv, injected, overlap, killFails>>

NoCaller == "none"
Execution == [pc: {"idle", "files", "waiting", "killing", "answered"}, way: Ways, host: BOOLEAN,
              files: BOOLEAN, code: {"none", "running", "blocked", "ended"},
              prev: Calls \cup {NoCaller}, answer: {"none", "result", "error", "timeout", "too large", "unwritten"}]
NotCalled == [pc |-> "idle", way |-> CHOOSE w \in Ways : TRUE, host |-> FALSE, files |-> FALSE,
              code |-> "none", prev |-> NoCaller, answer |-> "none"]
Alive(c) == call[c].code \in {"running", "blocked"}

ExecTypeOK ==
    /\ docker \in BOOLEAN /\ dockerOnce \in BOOLEAN /\ overlap \in BOOLEAN /\ injected \in BOOLEAN /\ killFails \in 0..MaxKillFails
    /\ call \in [Calls -> Execution]
    /\ socketEnv \in Calls \cup {NoCaller}

ExecInit ==
    /\ docker \in BOOLEAN /\ dockerOnce \in BOOLEAN /\ overlap = FALSE /\ injected = FALSE /\ killFails = 0
    /\ call = [c \in Calls |-> NotCalled]
    /\ socketEnv = NoCaller

Becomes(c, r) == call' = [call EXCEPT ![c] = r]
Same == UNCHANGED <<docker, dockerOnce, socketEnv, injected, overlap, killFails>>

\* The check is repeated when its answer is old.
CheckDocker == docker' \in BOOLEAN /\ UNCHANGED <<dockerOnce, call, socketEnv, injected, overlap, killFails>>

\* Each executor refuses before anything runs, for reasons of its own.
Reject(c) == call[c].pc = "idle" /\ Becomes(c, [NotCalled EXCEPT !.pc = "answered", !.answer = "error"]) /\ Same

\* Not approved, modified, not a path of the pack, or in strict mode no Docker
\* or no egress socket.
RejectFile(c) == "file" \in Ways /\ Reject(c)

\* A bad id, no file, no data directory, or no Docker in strict mode.
RejectPhase(c) == "phase" \in Ways /\ Reject(c)
RejectLib(c) == "lib" \in Ways /\ Reject(c)

Docker(w) == IF w = "file" THEN docker ELSE dockerOnce

\* Input, context, script and secrets go to temporary files.
Prepare(c, w) ==
    /\ w \in Ways /\ call[c].pc = "idle" /\ Docker(w)
    /\ Becomes(c, [NotCalled EXCEPT !.pc = "files", !.way = w, !.files = TRUE]) /\ Same

PrepareFile(c) == Prepare(c, "file")
PreparePhase(c) == Prepare(c, "phase")
PrepareLib(c) == Prepare(c, "lib")

\* The name of a file is noted when it is written: one whose writing fails, as of
\* an input that is not JSON, stays.  The secrets have not been written then.
PrepareFails(c, w) ==
    /\ w \in Ways /\ call[c].pc = "idle" /\ Docker(w)
    /\ Becomes(c, [NotCalled EXCEPT !.pc = "answered", !.way = w, !.files = TRUE, !.answer = "unwritten"]) /\ Same

Launch(c) ==
    /\ call[c].pc = "files"
    /\ Becomes(c, [call[c] EXCEPT !.pc = "waiting", !.code = "running"]) /\ Same

\* Mutant: they are removed only after a result.
AnsweredUncleaned(r, answer) ==
    [r EXCEPT !.pc = "answered", !.files = @ /\ answer # "result", !.answer = answer]

\* finally: the files are removed whatever happened.
Answered(r, answer) == [r EXCEPT !.pc = "answered", !.files = FALSE, !.answer = answer]

LaunchFails(c) == call[c].pc = "files" /\ Becomes(c, Answered(call[c], "error")) /\ Same

\* A thread of this process.
RunOnHost(c, w) ==
    /\ w \in Ways /\ call[c].pc = "idle" /\ ~Docker(w)
    /\ Becomes(c, [NotCalled EXCEPT !.pc = "waiting", !.way = w, !.host = TRUE, !.code = "running",
                                    !.prev = IF w = "file" THEN socketEnv ELSE NoCaller])
    /\ overlap' = (overlap \/ \E d \in Calls \ {c} : call[d].host /\ call[d].pc = "waiting")
    /\ UNCHANGED <<docker, dockerOnce, killFails>>

\* A file's execution sets the capability socket and the module to use it with.
FileOnHost(c) == RunOnHost(c, "file") /\ socketEnv' = c /\ injected' = TRUE
PhaseOnHost(c) == RunOnHost(c, "phase") /\ UNCHANGED <<socketEnv, injected>>
LibOnHost(c) == RunOnHost(c, "lib") /\ UNCHANGED <<socketEnv, injected>>

\* The code of the pack: it ends, or its errors fill a pipe that nobody reads yet.
CodeEnds(c) == call[c].code = "running" /\ Becomes(c, [call[c] EXCEPT !.code = "ended"]) /\ Same
CodeBlocks(c) ==
    /\ call[c].code = "running" /\ call[c].way = "file" /\ ~call[c].host
    /\ Becomes(c, [call[c] EXCEPT !.code = "blocked"]) /\ Same

Outcomes == {"result", "error"}
CollectContainer(c) ==
    /\ call[c].pc = "waiting" /\ ~call[c].host /\ call[c].code = "ended"
    /\ \E o \in Outcomes : Becomes(c, Answered(call[c], o))
    /\ Same

\* Too much on stdout: the client is killed, the container is not.
CutOff(c) ==
    /\ call[c].pc = "waiting" /\ ~call[c].host /\ call[c].way = "file" /\ Alive(c)
    /\ Becomes(c, Answered(call[c], "too large")) /\ Same

\* subprocess.run gives up and kills the client ...
TimedOut(c) ==
    /\ call[c].pc = "waiting" /\ ~call[c].host /\ call[c].way # "file" /\ Alive(c)
    /\ Becomes(c, [call[c] EXCEPT !.pc = "killing"]) /\ Same

\* ... and the container is killed before the answer is given.
KillContainer(c) ==
    /\ call[c].pc = "killing"
    /\ \/ /\ Becomes(c, Answered([call[c] EXCEPT !.code = "ended"], "timeout"))
          /\ UNCHANGED killFails
       \/ /\ killFails < MaxKillFails /\ killFails' = killFails + 1
          /\ Becomes(c, Answered(call[c], "timeout"))
    /\ UNCHANGED <<docker, dockerOnce, socketEnv, injected, overlap>>

\* With or without a timeout, the pool is left when its thread has ended.
CollectThread(c) ==
    /\ call[c].pc = "waiting" /\ call[c].host /\ call[c].code = "ended"
    /\ \E o \in Outcomes \cup {"timeout"} : Becomes(c, Answered(call[c], o))
    /\ IF call[c].way = "file"
       THEN socketEnv' = call[c].prev /\ injected' = FALSE
       ELSE UNCHANGED <<socketEnv, injected>>
    /\ UNCHANGED <<docker, dockerOnce, overlap, killFails>>

CallAgain(c) == call[c].pc = "answered" /\ ~Alive(c) /\ Becomes(c, NotCalled) /\ Same

ExecutorStep(c) == Launch(c) \/ CollectContainer(c) \/ TimedOut(c) \/ KillContainer(c) \/ CollectThread(c)

ExecNext ==
    \/ CheckDocker
    \/ \E c \in Calls :
         \/ RejectFile(c) \/ RejectPhase(c) \/ RejectLib(c)
         \/ PrepareFile(c) \/ PreparePhase(c) \/ PrepareLib(c)
         \/ \E w \in Ways : PrepareFails(c, w)
         \/ FileOnHost(c) \/ PhaseOnHost(c) \/ LibOnHost(c)
         \/ LaunchFails(c) \/ CodeEnds(c) \/ CodeBlocks(c) \/ CutOff(c) \/ CallAgain(c)
         \/ ExecutorStep(c)

\* Threads run and timeouts expire; nothing is assumed of the code of packs.
ExecFairness == \A c \in Calls : WF_execVars(ExecutorStep(c))
ExecSpec == ExecInit /\ [][ExecNext]_execVars /\ ExecFairness

\* An answered execution has left nothing behind: no temporary file but an input
\* whose writing failed, and no code still running unless its output was cut off
\* or "docker kill" failed; and threads that never overlap have their socket while they run and leave no trace.
NothingLeft ==
    /\ \A c \in Calls : call[c].pc = "answered" =>
          /\ call[c].files => call[c].answer = "unwritten"
          /\ Alive(c) => call[c].answer = "too large" \/ (killFails > 0 /\ call[c].answer = "timeout")
    /\ ~overlap => \/ socketEnv = NoCaller /\ ~injected
                   \/ \E c \in Calls : call[c].pc = "waiting" /\ call[c].host /\ socketEnv = c /\ injected

\* A phase or a lib in a container is answered whatever its code does.
InContainer(c) == call[c].pc \in {"waiting", "killing"} /\ ~call[c].host /\ call[c].way # "file"
ContainerAnswered(c) == InContainer(c) ~> call[c].pc = "answered"
=============================================================================
