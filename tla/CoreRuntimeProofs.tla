-------------------------- MODULE CoreRuntimeProofs --------------------------
(***************************************************************************)
(* Proofs about components that MCCoreRuntime checks: executions of code,  *)
(* chains of flows, pipelines and capability requests, each for any number *)
(* of calls, chains, steps or principals; and about the run, whose steps   *)
(* are those of its components, these and the ones of PackContentProofs.   *)
(* What is assumed of their constants is said in the modules that declare  *)
(* them and holds of the instances checked.                                *)
(***************************************************************************)
EXTENDS MCCoreRuntime, PackContentProofs, SequenceTheorems, TLAPS

-----------------------------------------------------------------------------
(***************************************************************************)
(* CodeExecution.  Executions in threads that never overlap come one after *)
(* the other: the one under way found no socket set, and is the only one   *)
(* to have set it.                                                         *)
(***************************************************************************)
OnHost(c) == call[c].pc = "waiting" /\ call[c].host

\* Code is there only from its launch on, and what needs files is a container.
CodeLaunched == \A c \in Calls : call[c].pc \in {"idle", "files"} => call[c].code = "none" /\ ~call[c].host

\* An answer leaves neither files, but one that could not be written, nor, but for
\* the two exceptions, code.
AnswersClean == \A c \in Calls : call[c].pc = "answered" =>
    /\ call[c].files => call[c].answer = "unwritten"
    /\ Alive(c) => call[c].answer = "too large" \/ (killFails > 0 /\ call[c].answer = "timeout")

SocketOf(c) ==
    IF call[c].way = "file" THEN socketEnv = c /\ injected /\ call[c].prev = NoCaller
                            ELSE socketEnv = NoCaller /\ ~injected

OneOnHost == ~overlap =>
    /\ \A c, d \in Calls : OnHost(c) /\ OnHost(d) => c = d
    /\ \A c \in Calls : OnHost(c) => SocketOf(c)
    /\ (\A c \in Calls : ~OnHost(c)) => socketEnv = NoCaller /\ ~injected

ExecInv == ExecTypeOK /\ CodeLaunched /\ AnswersClean /\ OneOnHost

LEMMA StaysPositive ==
  ASSUME NEW m \in Nat, NEW n \in Nat, m <= n
  PROVE  m > 0 => n > 0
  OBVIOUS

LEMMA NotCalledType ==
    NotCalled \in Execution /\ NotCalled.pc = "idle" /\ NotCalled.code = "none" /\ ~NotCalled.host
  BY CodeConstants DEF NotCalled, Execution

\* What a call may become for CodeLaunched and AnswersClean to hold of it ...
Tidy(r, kills) ==
    /\ r.pc \in {"idle", "files"} => r.code = "none" /\ ~r.host
    /\ r.pc = "answered" =>
          /\ r.files => r.answer = "unwritten"
          /\ r.code \in {"running", "blocked"} => r.answer = "too large" \/ (kills /\ r.answer = "timeout")

\* ... and without a start or an end in a thread.
KeepsHost(c, r) ==
    IF OnHost(c) THEN r.pc = "waiting" /\ r.host /\ r.way = call[c].way /\ r.prev = call[c].prev
                 ELSE ~(r.pc = "waiting" /\ r.host)

\* The counter of failed kills only grows.
KillsGrow == killFails' \in 0..MaxKillFails /\ killFails <= killFails'

LEMMA KillsKept == ASSUME ExecTypeOK, KillsGrow PROVE killFails > 0 => killFails' > 0
<1>1. killFails \in Nat /\ killFails' \in Nat /\ killFails <= killFails'
  BY CodeConstants DEF ExecTypeOK, KillsGrow
<1>2. QED BY <1>1, StaysPositive

\* When one call changes, the others stay as tidy as they were.
LEMMA TidyKept ==
  ASSUME ExecInv, KillsGrow, NEW c \in Calls, NEW r \in Execution, Becomes(c, r),
         Tidy(r, killFails' > 0)
  PROVE  CodeLaunched' /\ AnswersClean'
<1>1. \A d \in Calls : call'[d] = IF d = c THEN r ELSE call[d]
  BY DEF Becomes, ExecInv, ExecTypeOK
<1>2. killFails > 0 => killFails' > 0
  BY KillsKept DEF ExecInv
<1>3. ASSUME NEW d \in Calls PROVE Tidy(call'[d], killFails' > 0)
  <2>1. CASE d = c
    BY <1>1, <2>1
  <2>2. CASE d # c
    BY <1>1, <1>2, <2>2 DEF ExecInv, CodeLaunched, AnswersClean, Tidy, Alive
  <2>3. QED BY <2>1, <2>2
<1>4. QED BY <1>3 DEF CodeLaunched, AnswersClean, Tidy, Alive

\* A step that changes one call, is no start in a thread and no end of one.
LEMMA OneCallMoves ==
  ASSUME ExecInv, KillsGrow, NEW c \in Calls, NEW r \in Execution, Becomes(c, r),
         UNCHANGED <<docker, dockerOnce, socketEnv, injected, overlap>>,
         Tidy(r, killFails' > 0), KeepsHost(c, r)
  PROVE  ExecInv'
<1>1. \A d \in Calls : call'[d] = IF d = c THEN r ELSE call[d]
  BY DEF Becomes, ExecInv, ExecTypeOK
<1>2. ExecTypeOK'
  BY DEF Becomes, ExecInv, ExecTypeOK, KillsGrow
<1>3. CodeLaunched' /\ AnswersClean'
  BY TidyKept
<1>4. OneOnHost'
  <2>1. \A d \in Calls : OnHost(d)' <=> OnHost(d)
    BY <1>1 DEF OnHost, KeepsHost
  <2>2. \A d \in Calls : OnHost(d) => call'[d].way = call[d].way /\ call'[d].prev = call[d].prev
    BY <1>1 DEF KeepsHost
  <2>3. QED BY <2>1, <2>2 DEF ExecInv, OneOnHost, SocketOf
<1>5. QED BY <1>2, <1>3, <1>4 DEF ExecInv

\* Same, for the steps that change nothing else.
LEMMA SameMoves ==
  ASSUME ExecInv, NEW c \in Calls, NEW r \in Execution, Becomes(c, r), Same,
         Tidy(r, FALSE), KeepsHost(c, r)
  PROVE  ExecInv'
<1>1. KillsGrow
  BY CodeConstants DEF Same, ExecInv, ExecTypeOK, KillsGrow
<1>2. Tidy(r, killFails' > 0)
  BY DEF Tidy
<1>3. UNCHANGED <<docker, dockerOnce, socketEnv, injected, overlap>>
  BY DEF Same
<1>4. QED BY <1>1, <1>2, <1>3, OneCallMoves

\* The starts in containers, and what calls in containers go through.
LEMMA ContainersMove ==
  ASSUME ExecInv, NEW c \in Calls,
         Reject(c) \/ (\E w \in Ways : Prepare(c, w) \/ PrepareFails(c, w)) \/ Launch(c) \/ LaunchFails(c)
           \/ CollectContainer(c) \/ CutOff(c) \/ TimedOut(c) \/ CallAgain(c)
  PROVE  ExecInv'
<1> USE NotCalledType
<1>0. call[c] \in Execution /\ (call[c].pc \in {"idle", "files"} => call[c].code = "none" /\ ~call[c].host)
  BY DEF ExecInv, ExecTypeOK, CodeLaunched
<1>1. CASE Reject(c)
  <2>1. [NotCalled EXCEPT !.pc = "answered", !.answer = "error"] \in Execution
    BY DEF Execution
  <2>2. QED BY <1>1, <2>1, SameMoves DEF Reject, Tidy, KeepsHost, OnHost, NotCalled
<1>2. ASSUME NEW w \in Ways, Prepare(c, w) PROVE ExecInv'
  <2>1. [NotCalled EXCEPT !.pc = "files", !.way = w, !.files = TRUE] \in Execution
    BY DEF Execution
  <2>2. QED BY <1>2, <2>1, SameMoves DEF Prepare, Tidy, KeepsHost, OnHost, NotCalled
<1>unwritten. ASSUME NEW w \in Ways, PrepareFails(c, w) PROVE ExecInv'
  <2>1. [NotCalled EXCEPT !.pc = "answered", !.way = w, !.files = TRUE, !.answer = "unwritten"] \in Execution
    BY DEF Execution
  <2>2. QED BY <1>unwritten, <2>1, SameMoves DEF PrepareFails, Tidy, KeepsHost, OnHost, NotCalled
<1>3. CASE Launch(c)
  <2> DEFINE r == [call[c] EXCEPT !.pc = "waiting", !.code = "running"]
  <2>1. r \in Execution /\ r.pc = "waiting" /\ r.host = call[c].host
    BY <1>0 DEF Execution
  <2>2. call[c].pc = "files" /\ ~call[c].host /\ Becomes(c, r) /\ Same
    BY <1>0, <1>3 DEF Launch
  <2> HIDE DEF r
  <2>3. Tidy(r, FALSE) /\ KeepsHost(c, r)
    BY <2>1, <2>2 DEF Tidy, KeepsHost, OnHost
  <2>4. QED BY <2>1, <2>2, <2>3, SameMoves
<1>given. ASSUME NEW o \in {"result", "error", "timeout", "too large"}, ~OnHost(c), Same,
             Becomes(c, Answered(call[c], o)), Alive(c) => o = "too large"
      PROVE  ExecInv'
  <2> DEFINE r == Answered(call[c], o)
  <2>1. r \in Execution /\ r.pc = "answered" /\ ~r.files /\ r.code = call[c].code /\ r.answer = o
    BY <1>0 DEF Answered, Execution
  <2>2. Becomes(c, r)
    BY <1>given
  <2> HIDE DEF r
  <2>3. Tidy(r, FALSE) /\ KeepsHost(c, r)
    BY <1>given, <2>1 DEF Tidy, KeepsHost, Alive
  <2>4. QED BY <1>given, <2>1, <2>2, <2>3, SameMoves
<1>4. CASE LaunchFails(c)
  BY <1>0, <1>4, <1>given DEF LaunchFails, OnHost, Alive
<1>5. CASE CollectContainer(c)
  BY <1>5, <1>given DEF CollectContainer, Outcomes, OnHost, Alive
<1>6. CASE CutOff(c)
  BY <1>6, <1>given DEF CutOff, OnHost
<1>7. CASE TimedOut(c)
  <2> DEFINE r == [call[c] EXCEPT !.pc = "killing"]
  <2>1. r \in Execution /\ r.pc = "killing"
    BY <1>0 DEF Execution
  <2>2. Becomes(c, r) /\ Same /\ ~OnHost(c)
    BY <1>7 DEF TimedOut, OnHost
  <2> HIDE DEF r
  <2>3. Tidy(r, FALSE) /\ KeepsHost(c, r)
    BY <2>1, <2>2 DEF Tidy, KeepsHost
  <2>4. QED BY <2>1, <2>2, <2>3, SameMoves
<1>8. CASE CallAgain(c)
  <2>1. ~(NotCalled.pc = "waiting" /\ NotCalled.host) /\ Tidy(NotCalled, FALSE)
    BY DEF Tidy
  <2>2. QED BY <1>8, <2>1, SameMoves DEF CallAgain, KeepsHost, OnHost
<1>9. QED BY <1>1, <1>2, <1>unwritten, <1>3, <1>4, <1>5, <1>6, <1>7, <1>8

\* "docker kill", and the code of the pack.
LEMMA KillsMove ==
  ASSUME ExecInv, NEW c \in Calls, KillContainer(c) \/ CodeEnds(c) \/ CodeBlocks(c)
  PROVE  ExecInv'
<1>0. call[c] \in Execution /\ (call[c].pc \in {"idle", "files"} => call[c].code = "none")
  BY DEF ExecInv, ExecTypeOK, CodeLaunched
<1>1. CASE KillContainer(c)
  <2> DEFINE killed == Answered([call[c] EXCEPT !.code = "ended"], "timeout")
             alive == Answered(call[c], "timeout")
  <2>0. ~OnHost(c) /\ UNCHANGED <<docker, dockerOnce, socketEnv, injected, overlap>>
    BY <1>1 DEF KillContainer, OnHost
  <2>1. killed \in Execution /\ killed.pc = "answered" /\ ~killed.files /\ killed.code = "ended"
    BY <1>0 DEF Answered, Execution
  <2>2. alive \in Execution /\ alive.pc = "answered" /\ ~alive.files /\ alive.answer = "timeout"
    BY <1>0 DEF Answered, Execution
  <2>3. \/ Becomes(c, killed) /\ UNCHANGED killFails
        \/ killFails < MaxKillFails /\ killFails' = killFails + 1 /\ Becomes(c, alive)
    BY <1>1 DEF KillContainer
  <2>4. killFails \in 0..MaxKillFails
    BY DEF ExecInv, ExecTypeOK
  <2> HIDE DEF killed, alive
  <2>5. CASE Becomes(c, killed) /\ UNCHANGED killFails
    <3>1. KillsGrow
      BY <2>4, <2>5, CodeConstants DEF KillsGrow
    <3>2. Tidy(killed, killFails' > 0) /\ KeepsHost(c, killed)
      BY <2>0, <2>1 DEF Tidy, KeepsHost
    <3>3. QED BY <2>0, <2>1, <2>5, <3>1, <3>2, OneCallMoves
  <2>6. CASE killFails < MaxKillFails /\ killFails' = killFails + 1 /\ Becomes(c, alive)
    <3>1. KillsGrow /\ killFails' > 0
      BY <2>4, <2>6, CodeConstants DEF KillsGrow
    <3>2. Tidy(alive, killFails' > 0) /\ KeepsHost(c, alive)
      BY <2>0, <2>2, <3>1 DEF Tidy, KeepsHost
    <3>3. QED BY <2>0, <2>2, <2>6, <3>1, <3>2, OneCallMoves
  <2>7. QED BY <2>3, <2>5, <2>6
<1>2. ASSUME NEW k \in {"blocked", "ended"}, call[c].code = "running", Same,
             Becomes(c, [call[c] EXCEPT !.code = k]), k = "blocked" => ~OnHost(c)
      PROVE  ExecInv'
  <2> DEFINE r == [call[c] EXCEPT !.code = k]
  <2>1. /\ r \in Execution /\ r.pc = call[c].pc /\ r.host = call[c].host /\ r.way = call[c].way
        /\ r.files = call[c].files /\ r.prev = call[c].prev /\ r.code = k /\ r.answer = call[c].answer
    BY <1>0 DEF Execution
  <2>2. Becomes(c, r)
    BY <1>2
  <2> HIDE DEF r
  <2>3. call[c].pc \notin {"idle", "files"}
    BY <1>0, <1>2
  <2>4. KillsGrow /\ UNCHANGED <<docker, dockerOnce, socketEnv, injected, overlap, killFails>>
    BY <1>2, CodeConstants DEF Same, ExecInv, ExecTypeOK, KillsGrow
  <2>5. Tidy(r, killFails' > 0)
    BY <1>2, <2>1, <2>3, <2>4 DEF Tidy, ExecInv, AnswersClean, Alive
  <2>6. KeepsHost(c, r)
    BY <2>1 DEF KeepsHost, OnHost
  <2>7. QED BY <2>1, <2>2, <2>4, <2>5, <2>6, OneCallMoves
<1>3. CASE CodeEnds(c)
  BY <1>2, <1>3 DEF CodeEnds
<1>4. CASE CodeBlocks(c)
  BY <1>2, <1>4 DEF CodeBlocks, OnHost
<1>5. QED BY <1>1, <1>3, <1>4

\* A start in a thread: either it overlaps with another one, or it is alone and
\* found no socket set.
LEMMA ThreadStarts ==
  ASSUME ExecInv, NEW c \in Calls, FileOnHost(c) \/ PhaseOnHost(c) \/ LibOnHost(c)
  PROVE  ExecInv'
<1>1. PICK w \in Ways : /\ RunOnHost(c, w)
                        /\ IF w = "file" THEN socketEnv' = c /\ injected' = TRUE
                                         ELSE UNCHANGED <<socketEnv, injected>>
  BY DEF FileOnHost, PhaseOnHost, LibOnHost, RunOnHost
<1> DEFINE r == [NotCalled EXCEPT !.pc = "waiting", !.way = w, !.host = TRUE, !.code = "running",
                                  !.prev = IF w = "file" THEN socketEnv ELSE NoCaller]
<1>2. /\ r \in Execution /\ r.pc = "waiting" /\ r.way = w /\ r.host /\ r.code = "running"
      /\ r.prev = IF w = "file" THEN socketEnv ELSE NoCaller
  BY NotCalledType DEF Execution, ExecInv, ExecTypeOK, NotCalled
<1>3. /\ Becomes(c, r) /\ call[c].pc = "idle" /\ UNCHANGED <<docker, dockerOnce, killFails>>
      /\ overlap' = (overlap \/ \E d \in Calls \ {c} : call[d].host /\ call[d].pc = "waiting")
  BY <1>1 DEF RunOnHost
<1> HIDE DEF r
<1>4. \A d \in Calls : call'[d] = IF d = c THEN r ELSE call[d]
  BY <1>3 DEF Becomes, ExecInv, ExecTypeOK
<1>5. KillsGrow /\ Tidy(r, killFails' > 0)
  BY <1>2, <1>3, CodeConstants DEF KillsGrow, Tidy, ExecInv, ExecTypeOK
<1>6. CodeLaunched' /\ AnswersClean'
  BY <1>2, <1>3, <1>5, TidyKept
<1>7. ExecTypeOK'
  BY <1>1, <1>2, <1>3 DEF Becomes, ExecInv, ExecTypeOK
<1>8. OneOnHost'
  <2> SUFFICES ASSUME ~overlap' PROVE OneOnHost'
    BY DEF OneOnHost
  <2>1. ~overlap /\ \A d \in Calls \ {c} : ~OnHost(d)
    BY <1>3 DEF OnHost
  <2>2. \A d \in Calls : ~OnHost(d)
    BY <1>3, <2>1 DEF OnHost
  <2>3. socketEnv = NoCaller /\ ~injected
    BY <2>1, <2>2 DEF ExecInv, OneOnHost
  <2>4. \A d \in Calls : OnHost(d)' <=> d = c
    BY <1>2, <1>4, <2>2 DEF OnHost
  <2>5. SocketOf(c)'
    BY <1>1, <1>2, <1>4, <2>3 DEF SocketOf
  <2>6. QED BY <2>4, <2>5 DEF OneOnHost
<1>9. QED BY <1>6, <1>7, <1>8 DEF ExecInv

\* The end of one puts back what it found.
LEMMA ThreadEnds ==
  ASSUME ExecInv, NEW c \in Calls, CollectThread(c)
  PROVE  ExecInv'
<1>0. call[c] \in Execution /\ OnHost(c) /\ call[c].code = "ended"
  BY DEF ExecInv, ExecTypeOK, CollectThread, OnHost
<1>1. PICK o \in {"result", "error", "timeout"} : Becomes(c, Answered(call[c], o))
  BY DEF CollectThread, Outcomes
<1> DEFINE r == Answered(call[c], o)
<1>2. r \in Execution /\ r.pc = "answered" /\ ~r.files /\ r.code = "ended"
  BY <1>0 DEF Answered, Execution
<1>3. Becomes(c, r) /\ UNCHANGED <<docker, dockerOnce, overlap, killFails>>
  BY <1>1 DEF CollectThread
<1> HIDE DEF r
<1>4. \A d \in Calls : call'[d] = IF d = c THEN r ELSE call[d]
  BY <1>3 DEF Becomes, ExecInv, ExecTypeOK
<1>5. KillsGrow /\ Tidy(r, killFails' > 0)
  BY <1>2, <1>3, CodeConstants DEF KillsGrow, Tidy, ExecInv, ExecTypeOK
<1>6. CodeLaunched' /\ AnswersClean'
  BY <1>2, <1>3, <1>5, TidyKept
<1>7. IF call[c].way = "file" THEN socketEnv' = call[c].prev /\ injected' = FALSE
                              ELSE UNCHANGED <<socketEnv, injected>>
  BY DEF CollectThread
<1>8. call[c].prev \in Calls \cup {NoCaller}
  BY <1>0 DEF Execution
<1>9. ExecTypeOK'
  BY <1>2, <1>3, <1>7, <1>8 DEF Becomes, ExecInv, ExecTypeOK
<1>10. OneOnHost'
  <2> SUFFICES ASSUME ~overlap' PROVE OneOnHost'
    BY DEF OneOnHost
  <2>1. SocketOf(c) /\ \A d \in Calls : OnHost(d) => d = c
    BY <1>0, <1>3 DEF ExecInv, OneOnHost
  <2>2. socketEnv' = NoCaller /\ ~injected'
    BY <1>7, <2>1 DEF SocketOf
  <2>3. \A d \in Calls : ~OnHost(d)'
    BY <1>2, <1>4, <2>1 DEF OnHost
  <2>4. QED BY <2>2, <2>3 DEF OneOnHost
<1>11. QED BY <1>6, <1>9, <1>10 DEF ExecInv

LEMMA ExecInvInit == ASSUME ExecInit PROVE ExecInv
<1>1. call = [c \in Calls |-> NotCalled] /\ \A c \in Calls : call[c] = NotCalled
  BY DEF ExecInit
<1>2. ExecTypeOK
  <2>1. call \in [Calls -> Execution]
    BY <1>1, NotCalledType
  <2>2. 0 \in 0..MaxKillFails
    BY CodeConstants
  <2>3. QED BY <2>1, <2>2 DEF ExecInit, ExecTypeOK
<1>3. \A c \in Calls : call[c].pc = "idle" /\ call[c].code = "none" /\ ~call[c].host
  BY <1>1, NotCalledType
<1>4. CodeLaunched /\ AnswersClean
  BY <1>3 DEF CodeLaunched, AnswersClean
<1>5. OneOnHost
  BY <1>3 DEF ExecInit, OneOnHost, OnHost
<1>6. QED BY <1>2, <1>4, <1>5 DEF ExecInv

LEMMA ExecInvNext == ASSUME ExecInv, [ExecNext]_execVars PROVE ExecInv'
<1>1. CASE UNCHANGED execVars
  BY <1>1 DEF execVars, ExecInv, ExecTypeOK, CodeLaunched, AnswersClean, OneOnHost, OnHost, SocketOf, Alive
<1>2. CASE CheckDocker
  BY <1>2 DEF CheckDocker, ExecInv, ExecTypeOK, CodeLaunched, AnswersClean, OneOnHost, OnHost, SocketOf, Alive
<1>3. ASSUME NEW c \in Calls, RejectFile(c) \/ RejectPhase(c) \/ RejectLib(c)
                                \/ PrepareFile(c) \/ PreparePhase(c) \/ PrepareLib(c)
                                \/ (\E w \in Ways : PrepareFails(c, w))
                                \/ LaunchFails(c) \/ CutOff(c) \/ CallAgain(c)
                                \/ Launch(c) \/ CollectContainer(c) \/ TimedOut(c)
      PROVE  ExecInv'
  BY <1>3, ContainersMove DEF RejectFile, RejectPhase, RejectLib, PrepareFile, PreparePhase, PrepareLib, Prepare
<1>4. QED BY <1>1, <1>2, <1>3, KillsMove, ThreadStarts, ThreadEnds DEF ExecNext, ExecutorStep

\* Every execution has one of the states of Execution, and what it leaves in the
\* process is a call or nothing: python_file_executor.py, secure_executor.py.
THEOREM CodeTyped == ExecSpec => []ExecTypeOK
<1>1. ExecSpec => []ExecInv
  BY ExecInvInit, ExecInvNext, PTL DEF ExecSpec
<1>2. QED BY <1>1, PTL DEF ExecInv

\* An answered execution has left no file but one that could not be written, and no running code unless its output
\* was cut off or "docker kill" failed; threads that never overlap restore the
\* socket and the module they set: the finally blocks of both executors.
THEOREM ExecutionsLeaveNothing == ExecSpec => []NothingLeft
<1>1. ExecSpec => []ExecInv
  BY ExecInvInit, ExecInvNext, PTL DEF ExecSpec
<1>2. ExecInv => NothingLeft
  <2> SUFFICES ASSUME ExecInv PROVE NothingLeft
    OBVIOUS
  <2>1. \A c \in Calls : OnHost(c) /\ SocketOf(c) =>
           \/ socketEnv = NoCaller /\ ~injected
           \/ call[c].pc = "waiting" /\ call[c].host /\ socketEnv = c /\ injected
    BY DEF OnHost, SocketOf
  <2>2. QED BY <2>1 DEF ExecInv, AnswersClean, OneOnHost, NothingLeft
<1>3. QED BY <1>1, <1>2, PTL

-----------------------------------------------------------------------------
(***************************************************************************)
(* FlowExecution.  The list of flows at a context names the frames of its  *)
(* chain, one by one, until the outer flow is answered while its thread    *)
(* goes on; from then on it is one name short.                             *)
(***************************************************************************)
LastOf(s) == s[Len(s)]

\* Only the frame on top runs, and a step in the queue is a step of its flow.
Stacked(fs) ==
    /\ fs \in Seq(Frame)
    /\ \A i \in 1..(Len(fs) - 1) : fs[i].on = "nested"
    /\ fs # << >> /\ LastOf(fs).on = "queue" => LastOf(fs).at \in DOMAIN Steps[LastOf(fs).flow]

Shallow(st) == st \in Seq(Flows) /\ Len(st) <= MaxDepth

Listed(fs, st) ==
    /\ Len(st) = Len(fs)
    /\ \A i \in 1..Len(fs) : st[i] = fs[i].flow
    /\ \A i, j \in 1..Len(fs) : fs[i].flow = fs[j].flow => i = j

OneShort(fs, st) == Len(fs) = Len(st) + 1

ChainOK(fs, st, leaving) == Stacked(fs) /\ Shallow(st) /\ IF leaving THEN OneShort(fs, st) ELSE Listed(fs, st)

FlowInv ==
    /\ FlowTypeOK
    /\ \A c \in Chains : ChainOK(frames[c], stack[c], c \in answered)

LEMMA AdvanceType ==
  ASSUME NEW fr \in Frame, NEW executed \in BOOLEAN
  PROVE  /\ Advance(fr, executed) \in Frame
         /\ Advance(fr, executed).flow = fr.flow
         /\ Advance(fr, executed).on = "loop"
<1> DEFINE done == IF executed THEN fr.done \cup {fr.at} ELSE fr.done
<1>1. fr.at + 1 \in Nat /\ done \in SUBSET Nat
  BY DEF Frame
<1>2. Advance(fr, executed) = [fr EXCEPT !.at = fr.at + 1, !.on = "loop", !.done = done]
  BY DEF Advance, Frame
<1> HIDE DEF done
<1>3. QED BY <1>1, <1>2 DEF Frame

LEMMA NewFrameType ==
  ASSUME NEW f \in Flows
  PROVE  NewFrame(f) \in Frame /\ NewFrame(f).flow = f /\ NewFrame(f).on = "loop"
  BY DEF NewFrame, Frame

\* The sequence with another last element, with one more, and without its last.
LEMMA LastSet ==
  ASSUME NEW S, NEW s \in Seq(S), s # << >>, NEW r \in S
  PROVE  LET t == [s EXCEPT ![Len(s)] = r] IN
         /\ t \in Seq(S) /\ Len(t) = Len(s) /\ t # << >> /\ LastOf(t) = r
         /\ \A i \in 1..(Len(s) - 1) : t[i] = s[i]
  BY DEF LastOf

LEMMA OneMore ==
  ASSUME NEW S, NEW s \in Seq(S), NEW r \in S
  PROVE  LET t == Append(s, r) IN
         /\ t \in Seq(S) /\ Len(t) = Len(s) + 1 /\ t # << >> /\ LastOf(t) = r
         /\ \A i \in 1..Len(s) : t[i] = s[i]
  BY DEF LastOf

LEMMA OneLess ==
  ASSUME NEW S, NEW s \in Seq(S)
  PROVE  LET t == SubSeq(s, 1, Len(s) - 1) IN
         /\ t \in Seq(S)
         /\ IF s = << >> THEN t = << >> ELSE Len(t) = Len(s) - 1
         /\ \A i \in 1..(Len(s) - 1) : t[i] = s[i]
<1>1. CASE s = << >>
  <2>1. Len(s) = 0
    BY <1>1
  <2>2. SubSeq(s, 1, Len(s) - 1) = << >>
    BY <2>1
  <2>3. QED BY <1>1, <2>1, <2>2
<1>2. CASE s # << >>
  <2>1. Len(s) \in Nat /\ Len(s) > 0
    BY <1>2
  <2>2. PICK n \in Nat : Len(s) = n + 1
    BY <2>1
  <2>3. SubSeq(s, 1, n) \in Seq(S)
    BY <2>2
  <2>4. Len(SubSeq(s, 1, n)) = n
    BY <2>2
  <2>5. \A i \in 1..n : SubSeq(s, 1, n)[i] = s[i]
    BY <2>2
  <2>6. Len(s) - 1 = n
    BY <2>2
  <2>7. QED BY <1>2, <2>3, <2>4, <2>5, <2>6
<1>3. QED BY <1>1, <1>2

LEMMA ChainEnds == ASSUME FlowConstants PROVE ChainOK(<< >>, << >>, FALSE)
<1>1. Len(<< >>) = 0 /\ << >> \in Seq(Frame) /\ << >> \in Seq(Flows)
  OBVIOUS
<1>2. Stacked(<< >>)
  BY <1>1 DEF Stacked
<1>3. Shallow(<< >>)
  BY <1>1 DEF Shallow, FlowConstants
<1>4. Listed(<< >>, << >>)
  BY <1>1 DEF Listed
<1>5. QED BY <1>2, <1>3, <1>4 DEF ChainOK

\* The top frame moves and stays in its flow.
LEMMA TopChanges ==
  ASSUME NEW fs \in Seq(Frame), NEW st \in Seq(Flows), NEW leaving \in BOOLEAN, ChainOK(fs, st, leaving),
         fs # << >>, NEW r \in Frame, r.flow = LastOf(fs).flow,
         r.on = "queue" => r.at \in DOMAIN Steps[r.flow]
  PROVE  ChainOK([fs EXCEPT ![Len(fs)] = r], st, leaving)
<1> DEFINE t == [fs EXCEPT ![Len(fs)] = r]
<1>1. /\ t \in Seq(Frame) /\ Len(t) = Len(fs) /\ LastOf(t) = r
      /\ \A i \in 1..(Len(fs) - 1) : t[i] = fs[i]
  BY LastSet
<1>2. Len(fs) \in Nat
  OBVIOUS
<1> HIDE DEF t
<1>3. Stacked(t)
  BY <1>1 DEF ChainOK, Stacked
<1>4. \A i \in 1..Len(fs) : t[i].flow = fs[i].flow
  BY <1>1, <1>2 DEF LastOf
<1>5. Listed(fs, st) => Listed(t, st)
  BY <1>1, <1>4 DEF Listed
<1>6. OneShort(fs, st) => OneShort(t, st)
  BY <1>1 DEF OneShort
<1>7. QED BY <1>3, <1>5, <1>6 DEF ChainOK, t

\* A flow is entered when the frame on top waits for it.
LEMMA FlowEntered ==
  ASSUME NEW fs \in Seq(Frame), NEW st \in Seq(Flows), NEW leaving \in BOOLEAN, ChainOK(fs, st, leaving),
         fs # << >> => LastOf(fs).on = "nested", FlowConstants,
         NEW f \in Flows, Len(st) < MaxDepth, \A i \in 1..Len(st) : st[i] # f
  PROVE  ChainOK(Append(fs, NewFrame(f)), Append(st, f), leaving)
<1> DEFINE t == Append(fs, NewFrame(f))  u == Append(st, f)
<1>1. /\ t \in Seq(Frame) /\ Len(t) = Len(fs) + 1 /\ LastOf(t) = NewFrame(f)
      /\ \A i \in 1..Len(fs) : t[i] = fs[i]
  BY NewFrameType, OneMore
<1>2. /\ u \in Seq(Flows) /\ Len(u) = Len(st) + 1 /\ LastOf(u) = f
      /\ \A i \in 1..Len(st) : u[i] = st[i]
  BY OneMore
<1>3. Len(fs) \in Nat /\ Len(st) \in Nat /\ MaxDepth \in Nat
  BY DEF FlowConstants
<1> HIDE DEF t, u
<1>4. Stacked(t)
  <2>1. \A i \in 1..(Len(t) - 1) : t[i].on = "nested"
    <3>1. ASSUME NEW i \in 1..Len(fs) PROVE fs[i].on = "nested"
      <4>1. CASE i = Len(fs)
        BY <4>1, <1>3 DEF LastOf
      <4>2. CASE i # Len(fs)
        BY <4>2, <1>3 DEF ChainOK, Stacked
      <4>3. QED BY <4>1, <4>2
    <3>2. Len(t) - 1 = Len(fs)
      BY <1>1, <1>3
    <3>3. QED BY <1>1, <3>1, <3>2
  <2>2. LastOf(t).on = "loop"
    BY <1>1, NewFrameType
  <2>3. QED BY <1>1, <2>1, <2>2 DEF Stacked
<1>5. Shallow(u)
  BY <1>2, <1>3 DEF Shallow
<1>6. OneShort(fs, st) => OneShort(t, u)
  BY <1>1, <1>2, <1>3 DEF OneShort
<1>7. ASSUME Listed(fs, st) PROVE Listed(t, u)
  <2>1. Len(fs) = Len(st) /\ Len(t) = Len(u) /\ Len(t) = Len(fs) + 1
    BY <1>1, <1>2, <1>7 DEF Listed
  <2>2. t[Len(fs) + 1].flow = f /\ u[Len(fs) + 1] = f
    BY <1>1, <1>2, <2>1, NewFrameType DEF LastOf
  <2>3. \A i \in 1..Len(fs) : t[i].flow = fs[i].flow /\ u[i] = fs[i].flow /\ fs[i].flow # f
    BY <1>1, <1>2, <1>7, <2>1 DEF Listed
  <2>4. \A i \in 1..Len(t) : i \in 1..Len(fs) \/ i = Len(fs) + 1
    BY <1>3, <2>1
  <2>5. \A i \in 1..Len(t) : u[i] = t[i].flow
    BY <2>2, <2>3, <2>4
  <2>6. ASSUME NEW i \in 1..Len(t), NEW j \in 1..Len(t), t[i].flow = t[j].flow PROVE i = j
    BY <1>7, <2>2, <2>3, <2>4, <2>6 DEF Listed
  <2>7. QED BY <2>1, <2>5, <2>6 DEF Listed
<1>8. QED BY <1>4, <1>5, <1>6, <1>7 DEF ChainOK, t, u

\* The flow on top is over and another one is below.
LEMMA FlowLeft ==
  ASSUME NEW fs \in Seq(Frame), NEW st \in Seq(Flows), NEW leaving \in BOOLEAN, ChainOK(fs, st, leaving),
         Len(fs) > 1, FlowConstants
  PROVE  /\ ChainOK(SubSeq(fs, 1, Len(fs) - 1), SubSeq(st, 1, Len(st) - 1), leaving)
         /\ SubSeq(fs, 1, Len(fs) - 1) \in Seq(Frame) \ {<< >>}
         /\ SubSeq(st, 1, Len(st) - 1) \in Seq(Flows)
<1> DEFINE t == SubSeq(fs, 1, Len(fs) - 1)  u == SubSeq(st, 1, Len(st) - 1)
<1>1. Len(fs) \in Nat /\ Len(st) \in Nat /\ fs # << >> /\ (st = << >> <=> Len(st) = 0)
  OBVIOUS
<1>2. t \in Seq(Frame) /\ Len(t) = Len(fs) - 1 /\ \A i \in 1..(Len(fs) - 1) : t[i] = fs[i]
  BY <1>1, OneLess
<1>3. /\ u \in Seq(Flows) /\ (IF Len(st) = 0 THEN Len(u) = 0 ELSE Len(u) = Len(st) - 1)
      /\ \A i \in 1..(Len(st) - 1) : u[i] = st[i]
  BY <1>1, OneLess
<1> HIDE DEF t, u
<1>4. Len(t) > 0 /\ t # << >>
  BY <1>1, <1>2
<1>5. Stacked(t)
  <2>1. \A i \in 1..Len(t) : t[i].on = "nested"
    BY <1>1, <1>2 DEF ChainOK, Stacked
  <2>2. LastOf(t).on = "nested" /\ \A i \in 1..(Len(t) - 1) : t[i].on = "nested"
    BY <1>1, <1>2, <2>1 DEF LastOf
  <2>3. QED BY <1>2, <2>2 DEF Stacked
<1>6. Shallow(u)
  <2>1. Len(u) \in Nat /\ Len(u) <= Len(st)
    BY <1>1, <1>3
  <2>2. MaxDepth \in Nat /\ Len(st) <= MaxDepth
    BY DEF ChainOK, Shallow, FlowConstants
  <2>3. QED BY <1>1, <1>3, <2>1, <2>2 DEF Shallow
<1>7. OneShort(fs, st) => OneShort(t, u)
  BY <1>1, <1>2, <1>3 DEF OneShort
<1>8. ASSUME Listed(fs, st) PROVE Listed(t, u)
  <2>1. Len(st) = Len(fs) /\ Len(u) = Len(t)
    BY <1>1, <1>2, <1>3, <1>8 DEF Listed
  <2>2. \A i \in 1..Len(t) : i \in 1..Len(fs) /\ i \in 1..(Len(fs) - 1) /\ i \in 1..(Len(st) - 1)
    BY <1>1, <1>2, <2>1
  <2>3. \A i \in 1..Len(t) : t[i] = fs[i] /\ u[i] = st[i]
    BY <1>2, <1>3, <2>2
  <2>4. QED BY <1>8, <2>1, <2>2, <2>3 DEF Listed
<1>9. QED BY <1>2, <1>3, <1>4, <1>5, <1>6, <1>7, <1>8 DEF ChainOK, t, u

\* A step changes one chain.
LEMMA OneChainMoves ==
  ASSUME FlowInv, NEW c \in Chains, NEW t \in Seq(Frame), NEW u \in Seq(Flows),
         frames' = [frames EXCEPT ![c] = t], stack' = [stack EXCEPT ![c] = u],
         answered' \subseteq Chains, \A d \in Chains \ {c} : d \in answered' <=> d \in answered,
         ChainOK(t, u, c \in answered'), raised' \in [Chains -> SUBSET Nat]
  PROVE  FlowInv'
<1>1. FlowTypeOK'
  BY DEF FlowInv, FlowTypeOK
<1>2. ASSUME NEW d \in Chains PROVE ChainOK(frames'[d], stack'[d], d \in answered')
  <2>1. CASE d = c
    BY <2>1 DEF FlowInv, FlowTypeOK
  <2>2. CASE d # c
    <3>1. frames'[d] = frames[d] /\ stack'[d] = stack[d] /\ (d \in answered' <=> d \in answered)
      BY <2>2 DEF FlowInv, FlowTypeOK
    <3>2. ChainOK(frames[d], stack[d], d \in answered)
      BY DEF FlowInv
    <3>3. QED BY <3>1, <3>2 DEF ChainOK
  <2>3. QED BY <2>1, <2>2
<1>3. QED BY <1>1, <1>2 DEF FlowInv

\* What FlowInv says of one chain.
LEMMA ChainParts ==
  ASSUME FlowInv, NEW c \in Chains
  PROVE  /\ frames[c] \in Seq(Frame) /\ stack[c] \in Seq(Flows) /\ raised[c] \in SUBSET Nat
         /\ ChainOK(frames[c], stack[c], c \in answered) /\ (c \in answered) \in BOOLEAN
         /\ frames[c] # << >> => Frm(c) \in Frame /\ Frm(c) = LastOf(frames[c])
  BY DEF FlowInv, FlowTypeOK, Frm, Top, LastOf

\* The frame on top changes and stays in its flow.
LEMMA TopMoves ==
  ASSUME FlowInv, NEW c \in Chains, frames[c] # << >>, NEW r \in Frame, r.flow = Frm(c).flow,
         r.on = "queue" => r.at \in DOMAIN Steps[r.flow],
         frames' = [frames EXCEPT ![c][Top(c)] = r], UNCHANGED <<stack, answered>>,
         raised' \in [Chains -> SUBSET Nat]
  PROVE  FlowInv'
<1> DEFINE t == [frames[c] EXCEPT ![Top(c)] = r]
<1>1. t \in Seq(Frame) /\ ChainOK(t, stack[c], c \in answered)
  <2>1. /\ frames[c] \in Seq(Frame) /\ stack[c] \in Seq(Flows) /\ (c \in answered) \in BOOLEAN
        /\ ChainOK(frames[c], stack[c], c \in answered) /\ r.flow = LastOf(frames[c]).flow
    BY ChainParts
  <2>2. t = [frames[c] EXCEPT ![Len(frames[c])] = r]
    BY DEF Top
  <2>3. t \in Seq(Frame)
    BY <2>1, <2>2, LastSet
  <2> HIDE DEF t
  <2>4. ChainOK([frames[c] EXCEPT ![Len(frames[c])] = r], stack[c], c \in answered)
    BY <2>1, TopChanges
  <2>5. QED BY <2>2, <2>3, <2>4
<1>2. frames' = [frames EXCEPT ![c] = t]
  OBVIOUS
<1>3. stack' = [stack EXCEPT ![c] = stack[c]]
  BY DEF FlowInv, FlowTypeOK
<1>4. answered' \subseteq Chains
  BY DEF FlowInv, FlowTypeOK
<1> HIDE DEF t
<1>5. QED BY <1>1, <1>2, <1>3, <1>4, ChainParts, OneChainMoves

LEMMA LeaveMoves ==
  ASSUME FlowInv, NEW c \in Chains, frames[c] # << >>, NEW executed \in BOOLEAN, Leave(c, executed),
         raised' \in [Chains -> SUBSET Nat]
  PROVE  FlowInv'
<1> DEFINE r == Advance(Frm(c), executed)
<1>1. r \in Frame /\ r.flow = Frm(c).flow /\ r.on = "loop"
  BY ChainParts, AdvanceType
<1>2. frames' = [frames EXCEPT ![c][Top(c)] = r] /\ UNCHANGED <<stack, answered>>
  BY DEF Leave, Frm, FlowInv, FlowTypeOK
<1> HIDE DEF r
<1>3. QED BY <1>1, <1>2, TopMoves

LEMMA RaiseMoves ==
  ASSUME FlowInv, NEW c \in Chains, frames[c] # << >>, Raise(c)
  PROVE  FlowInv'
<1>1. raised \in [Chains -> SUBSET Nat] /\ Frm(c).at \in Nat
  BY ChainParts DEF FlowInv, FlowTypeOK, Frame
<1>2. raised' \in [Chains -> SUBSET Nat]
  BY <1>1 DEF Raise
<1>3. QED BY <1>2, LeaveMoves DEF Raise

\* The flow on top is over.  A chain of one flow, or of one that returns to a
\* flow that was answered, is over with it.
LEMMA EndMoves ==
  ASSUME FlowInv, FlowConstants, NEW c \in Chains, frames[c] # << >>, EndFrame(c)
  PROVE  FlowInv'
<1> DEFINE u == SubSeq(stack[c], 1, Len(stack[c]) - 1)
<1>1. /\ frames[c] \in Seq(Frame) /\ stack[c] \in Seq(Flows) /\ (c \in answered) \in BOOLEAN
      /\ ChainOK(frames[c], stack[c], c \in answered)
  BY ChainParts
<1>2. Len(frames[c]) \in Nat /\ Len(frames[c]) > 0 /\ Len(stack[c]) \in Nat
  BY <1>1
<1>3. u \in Seq(Flows) /\ (Len(stack[c]) <= 1 => u = << >>)
  <2>1. u \in Seq(Flows) /\ IF stack[c] = << >> THEN u = << >> ELSE Len(u) = Len(stack[c]) - 1
    BY <1>1, OneLess
  <2> HIDE DEF u
  <2>2. Len(stack[c]) <= 1 => u = << >>
    BY <1>1, <1>2, <2>1
  <2>3. QED BY <2>1, <2>2
<1>4. stack' = [stack EXCEPT ![c] = u] /\ raised' \in [Chains -> SUBSET Nat]
  BY DEF EndFrame, PopStack, FlowInv, FlowTypeOK
<1>5. /\ frames' = [frames EXCEPT ![c] = Unwound(c, Top(c))]
      /\ answered' = IF Unwound(c, Top(c)) = << >> THEN answered \ {c} ELSE answered
      /\ answered \subseteq Chains
  BY DEF EndFrame, FlowInv, FlowTypeOK
<1> HIDE DEF u
<1>6. CASE Top(c) = 1 \/ (Top(c) = 2 /\ c \in answered)
  <2>1. Unwound(c, Top(c)) = << >>
    BY <1>6 DEF Unwound
  <2>2. u = << >>
    BY <1>1, <1>2, <1>3, <1>6 DEF Top, ChainOK, Listed, OneShort
  <2>3. << >> \in Seq(Frame) /\ c \notin answered'
    BY <1>5, <2>1
  <2>4. ChainOK(<< >>, u, c \in answered')
    BY <2>2, <2>3, ChainEnds DEF ChainOK
  <2>5. frames' = [frames EXCEPT ![c] = << >>]
    BY <1>5, <2>1
  <2>6. answered' \subseteq Chains /\ \A d \in Chains \ {c} : d \in answered' <=> d \in answered
    BY <1>5
  <2>7. QED BY <1>3, <1>4, <2>3, <2>4, <2>5, <2>6, OneChainMoves
<1>7. CASE ~(Top(c) = 1 \/ (Top(c) = 2 /\ c \in answered))
  <2> DEFINE t == SubSeq(frames[c], 1, Len(frames[c]) - 1)  r == Advance(LastOf(t), TRUE)
  <2>1. Len(frames[c]) > 1
    <3>1. Len(frames[c]) # 1
      BY <1>7 DEF Top
    <3>2. \A n \in Nat : n > 0 /\ n # 1 => n > 1
      OBVIOUS
    <3>3. QED BY <1>2, <3>1, <3>2
  <2>2. /\ ChainOK(t, SubSeq(stack[c], 1, Len(stack[c]) - 1), c \in answered)
        /\ t \in Seq(Frame) \ {<< >>}
    BY <1>1, <2>1, FlowLeft
  <2>3. ChainOK(t, u, c \in answered)
    BY <2>2 DEF u
  <2>4. Len(t) = Len(frames[c]) - 1
    BY <1>1, <2>1, OneLess
  <2>5. Unwound(c, Top(c)) = [t EXCEPT ![Len(t)] = r]
    <3>1. Unwound(c, Top(c)) = [t EXCEPT ![Top(c) - 1] = Advance(@, TRUE)]
      BY <1>7 DEF Unwound, Top
    <3>2. Top(c) - 1 = Len(t)
      BY <2>4 DEF Top
    <3> HIDE DEF t
    <3>3. QED BY <3>1, <3>2 DEF LastOf
  <2> HIDE DEF t
  <2>6. LastOf(t) \in Frame
    BY <2>2 DEF LastOf
  <2>7. r \in Frame /\ r.flow = LastOf(t).flow /\ r.on = "loop"
    BY <2>6, AdvanceType
  <2> HIDE DEF r
  <2>8. /\ [t EXCEPT ![Len(t)] = r] \in Seq(Frame) \ {<< >>}
        /\ ChainOK([t EXCEPT ![Len(t)] = r], u, c \in answered)
    <3>1. [t EXCEPT ![Len(t)] = r] \in Seq(Frame) \ {<< >>}
      BY <2>2, <2>7, LastSet
    <3>2. ChainOK([t EXCEPT ![Len(t)] = r], u, c \in answered)
      BY <1>1, <1>3, <2>2, <2>3, <2>7, TopChanges
    <3>3. QED BY <3>1, <3>2
  <2>9. answered' = answered
    BY <1>5, <2>5, <2>8
  <2>10. ChainOK(Unwound(c, Top(c)), u, c \in answered') /\ Unwound(c, Top(c)) \in Seq(Frame)
    BY <2>5, <2>8, <2>9
  <2>11. QED BY <1>3, <1>4, <1>5, <2>9, <2>10, OneChainMoves
<1>8. QED BY <1>6, <1>7

\* A request, and a flow that a thread starts.
LEMMA StartMoves ==
  ASSUME FlowInv, FlowConstants, NEW c \in Chains, NEW f \in Flows, RunFlow(c, f)
  PROVE  FlowInv'
<1>1. /\ frames[c] \in Seq(Frame) /\ stack[c] \in Seq(Flows) /\ (c \in answered) \in BOOLEAN
      /\ ChainOK(frames[c], stack[c], c \in answered) /\ frames[c] = << >>
  BY ChainParts DEF RunFlow
<1>2. Len(stack[c]) = 0 /\ 0 < MaxDepth
  <2>1. Len(frames[c]) = 0 /\ Len(stack[c]) \in Nat /\ MaxDepth \in Nat \ {0}
    BY <1>1 DEF FlowConstants
  <2>2. QED BY <1>1, <2>1 DEF ChainOK, Listed, OneShort
<1> DEFINE t == Append(frames[c], NewFrame(f))  u == Append(stack[c], f)
<1>3. ChainOK(t, u, c \in answered)
  <2>1. Len(stack[c]) < MaxDepth /\ \A i \in 1..Len(stack[c]) : stack[c][i] # f
    BY <1>2
  <2>2. frames[c] # << >> => LastOf(frames[c]).on = "nested"
    BY <1>1
  <2>3. QED BY <1>1, <2>1, <2>2, FlowEntered
<1>4. t \in Seq(Frame) /\ u \in Seq(Flows)
  BY <1>1, NewFrameType
<1>5. frames' = [frames EXCEPT ![c] = t] /\ stack' = [stack EXCEPT ![c] = u]
  BY DEF RunFlow, Enter
<1>6. answered' = answered /\ answered \subseteq Chains /\ raised' \in [Chains -> SUBSET Nat]
  BY DEF RunFlow, FlowInv, FlowTypeOK
<1> HIDE DEF t, u
<1>7. QED BY <1>3, <1>4, <1>5, <1>6, OneChainMoves

LEMMA TakeMoves ==
  ASSUME FlowInv, FlowConstants, NEW c \in Chains, TakeStep(c)
  PROVE  FlowInv'
<1>1. /\ frames[c] \in Seq(Frame) /\ stack[c] \in Seq(Flows) /\ (c \in answered) \in BOOLEAN
      /\ ChainOK(frames[c], stack[c], c \in answered)
      /\ frames[c] # << >> /\ Frm(c) = LastOf(frames[c]) /\ Frm(c) \in Frame /\ Frm(c).on = "queue"
  BY ChainParts DEF TakeStep
<1>2. answered' = answered /\ answered \subseteq Chains /\ raised' \in [Chains -> SUBSET Nat]
  BY DEF TakeStep, FlowInv, FlowTypeOK
<1> DEFINE g == StepOf(Frm(c)).flow
<1>3. CASE StepOf(Frm(c)).kind = "call" /\ ~Refused(c, g)
  <2> DEFINE r == [Frm(c) EXCEPT !.on = "nested"]
             s == [frames[c] EXCEPT ![Len(frames[c])] = r]
             t == Append(s, NewFrame(g))
             u == Append(stack[c], g)
  <2>1. r \in Frame /\ r.flow = LastOf(frames[c]).flow /\ r.on = "nested"
    BY <1>1 DEF Frame
  <2>2. frames' = [frames EXCEPT ![c] = t] /\ stack' = [stack EXCEPT ![c] = u]
    BY <1>1, <1>3 DEF TakeStep, Frm, Top
  <2>3. g \in Flows
    <3>1. Frm(c).flow \in Flows /\ Frm(c).at \in DOMAIN Steps[Frm(c).flow]
      BY <1>1 DEF ChainOK, Stacked, Frame
    <3>2. Steps[Frm(c).flow] \in Seq(Step)
      BY <3>1 DEF FlowConstants
    <3>3. StepOf(Frm(c)) \in Step
      BY <3>1, <3>2 DEF StepOf
    <3>4. QED BY <3>3 DEF Step
  <2>4. Len(stack[c]) < MaxDepth /\ \A i \in 1..Len(stack[c]) : stack[c][i] # g
    <3>1. Len(stack[c]) \in Nat /\ MaxDepth \in Nat /\ DOMAIN stack[c] = 1..Len(stack[c])
      BY <1>1 DEF FlowConstants
    <3>2. QED BY <1>3, <3>1 DEF Refused
  <2> HIDE DEF g, r
  <2>5. s \in Seq(Frame) /\ LastOf(s) = r /\ ChainOK(s, stack[c], c \in answered)
    <3>1. s \in Seq(Frame) /\ LastOf(s) = r
      BY <1>1, <2>1, LastSet
    <3>2. ChainOK(s, stack[c], c \in answered)
      BY <1>1, <2>1, TopChanges
    <3>3. QED BY <3>1, <3>2
  <2> HIDE DEF s
  <2>6. ChainOK(t, u, c \in answered)
    BY <1>1, <2>1, <2>3, <2>4, <2>5, FlowEntered
  <2>7. t \in Seq(Frame) /\ u \in Seq(Flows)
    BY <1>1, <2>3, <2>5, NewFrameType
  <2> HIDE DEF t, u
  <2>8. QED BY <1>2, <2>2, <2>6, <2>7, OneChainMoves
<1>4. CASE ~(StepOf(Frm(c)).kind = "call" /\ ~Refused(c, g))
  <2> DEFINE r == [Frm(c) EXCEPT !.on = "worker"]
  <2>1. r \in Frame /\ r.flow = Frm(c).flow /\ r.on = "worker"
    BY <1>1 DEF Frame
  <2>2. frames' = [frames EXCEPT ![c][Top(c)] = r] /\ UNCHANGED <<stack, answered>>
    BY <1>1, <1>4 DEF TakeStep, Frm
  <2> HIDE DEF r
  <2>3. QED BY <1>1, <1>2, <2>1, <2>2, TopMoves
<1>5. QED BY <1>3, <1>4

LEMMA FinishMoves ==
  ASSUME FlowInv, FlowConstants, NEW c \in Chains, FinishHandler(c)
  PROVE  FlowInv'
<1>1. /\ frames[c] \in Seq(Frame) /\ stack[c] \in Seq(Flows)
      /\ ChainOK(frames[c], stack[c], c \in answered) /\ frames[c] # << >>
  BY ChainParts DEF FinishHandler
<1>2. CASE Top(c) = 1 /\ c \in answered
  <2>1. /\ frames' = [frames EXCEPT ![c] = << >>] /\ answered' = answered \ {c}
        /\ UNCHANGED <<stack, raised>>
    BY <1>2 DEF FinishHandler
  <2>2. stack[c] = << >>
    <3>1. Len(stack[c]) = 0
      BY <1>1, <1>2 DEF Top, ChainOK, OneShort
    <3>2. QED BY <1>1, <3>1
  <2>3. ChainOK(<< >>, stack[c], c \in answered')
    BY <2>1, <2>2, ChainEnds DEF ChainOK
  <2>4. /\ stack' = [stack EXCEPT ![c] = stack[c]] /\ answered' \subseteq Chains
        /\ raised' \in [Chains -> SUBSET Nat] /\ \A d \in Chains \ {c} : d \in answered' <=> d \in answered
    BY <2>1 DEF FlowInv, FlowTypeOK
  <2>5. << >> \in Seq(Frame)
    OBVIOUS
  <2>6. QED BY <1>1, <2>1, <2>3, <2>4, <2>5, OneChainMoves
<1>3. CASE ~(Top(c) = 1 /\ c \in answered)
  <2>1. \/ Leave(c, TRUE) /\ UNCHANGED raised
        \/ Raise(c)
        \/ EndFrame(c)
    BY <1>3 DEF FinishHandler
  <2>2. raised \in [Chains -> SUBSET Nat]
    BY DEF FlowInv, FlowTypeOK
  <2>3. QED BY <1>1, <2>1, <2>2, LeaveMoves, RaiseMoves, EndMoves
<1>4. QED BY <1>2, <1>3

\* The outer flow is given up: its list loses one name, and where no thread
\* runs for it the frames go with it.
LEMMA TimeoutMoves ==
  ASSUME FlowInv, FlowConstants, NEW c \in Chains, Timeout(c)
  PROVE  FlowInv'
<1> DEFINE u == SubSeq(stack[c], 1, Len(stack[c]) - 1)
<1>1. /\ frames[c] \in Seq(Frame) /\ stack[c] \in Seq(Flows) /\ Stacked(frames[c]) /\ Shallow(stack[c])
      /\ Listed(frames[c], stack[c]) /\ frames[c] # << >> /\ c \notin answered
  BY ChainParts DEF Timeout, ChainOK
<1>2. Len(frames[c]) \in Nat /\ Len(frames[c]) > 0 /\ Len(stack[c]) = Len(frames[c]) /\ stack[c] # << >>
  BY <1>1 DEF Listed
<1>3. u \in Seq(Flows) /\ Len(u) = Len(stack[c]) - 1
  BY <1>1, <1>2, OneLess
<1>4. stack' = [stack EXCEPT ![c] = u] /\ answered \subseteq Chains /\ raised' \in [Chains -> SUBSET Nat]
  BY DEF Timeout, PopStack, FlowInv, FlowTypeOK
<1> HIDE DEF u
<1>5. CASE frames[c][1].on \in {"worker", "nested"}
  <2>1. answered' = answered \cup {c} /\ frames' = frames
    BY <1>5 DEF Timeout
  <2>2. Shallow(u)
    <3>1. Len(u) <= Len(stack[c]) /\ Len(u) \in Nat /\ Len(stack[c]) \in Nat
      BY <1>2, <1>3
    <3>2. Len(stack[c]) <= MaxDepth /\ MaxDepth \in Nat
      BY <1>1 DEF Shallow, FlowConstants
    <3>3. QED BY <1>3, <3>1, <3>2 DEF Shallow
  <2>3. OneShort(frames[c], u)
    BY <1>2, <1>3 DEF OneShort
  <2>4. ChainOK(frames[c], u, c \in answered')
    BY <1>1, <2>1, <2>2, <2>3 DEF ChainOK
  <2>5. frames' = [frames EXCEPT ![c] = frames[c]]
    BY <2>1 DEF FlowInv, FlowTypeOK
  <2>6. answered' \subseteq Chains /\ \A d \in Chains \ {c} : d \in answered' <=> d \in answered
    BY <1>4, <2>1
  <2>7. QED BY <1>1, <1>3, <1>4, <2>4, <2>5, <2>6, OneChainMoves
<1>6. CASE frames[c][1].on \notin {"worker", "nested"}
  <2>1. answered' = answered /\ frames' = [frames EXCEPT ![c] = << >>]
    BY <1>6 DEF Timeout
  <2>2. Len(frames[c]) = 1
    <3>1. ~(1 \in 1..(Len(frames[c]) - 1))
      BY <1>1, <1>6 DEF Stacked
    <3>2. \A n \in Nat : n > 0 /\ ~(1 \in 1..(n - 1)) => n = 1
      OBVIOUS
    <3>3. QED BY <1>2, <3>1, <3>2
  <2>3. u = << >>
    BY <1>2, <1>3, <2>2
  <2>4. ChainOK(<< >>, u, c \in answered')
    BY <1>1, <2>1, <2>3, ChainEnds DEF ChainOK
  <2>5. << >> \in Seq(Frame)
    OBVIOUS
  <2>6. QED BY <1>3, <1>4, <2>1, <2>4, <2>5, OneChainMoves
<1>7. QED BY <1>5, <1>6

LEMMA SubmitMoves ==
  ASSUME FlowInv, NEW c \in Chains, SubmitStep(c)
  PROVE  FlowInv'
<1> DEFINE r == [Frm(c) EXCEPT !.on = "queue"]
<1>1. /\ frames[c] \in Seq(Frame) /\ frames[c] # << >> /\ Frm(c) \in Frame
      /\ Frm(c).at \in DOMAIN Steps[Frm(c).flow]
  BY ChainParts DEF SubmitStep, AtStep
<1>2. r \in Frame /\ r.flow = Frm(c).flow /\ r.at = Frm(c).at
  BY <1>1 DEF Frame
<1>3. /\ frames' = [frames EXCEPT ![c][Top(c)] = r] /\ UNCHANGED <<stack, answered>>
      /\ raised' \in [Chains -> SUBSET Nat]
  BY <1>1 DEF SubmitStep, Frm, FlowInv, FlowTypeOK
<1> HIDE DEF r
<1>4. QED BY <1>1, <1>2, <1>3, TopMoves

LEMMA FlowInvInit == ASSUME FlowConstants, FlowInit PROVE FlowInv
<1>1. << >> \in Seq(Frame) /\ << >> \in Seq(Flows)
  OBVIOUS
<1>2. FlowTypeOK
  BY <1>1 DEF FlowInit, FlowTypeOK
<1>3. \A c \in Chains : frames[c] = << >> /\ stack[c] = << >> /\ c \notin answered
  BY DEF FlowInit
<1>4. ASSUME NEW c \in Chains PROVE ChainOK(frames[c], stack[c], c \in answered)
  BY <1>3, ChainEnds DEF ChainOK
<1>5. QED BY <1>2, <1>4 DEF FlowInv

LEMMA FlowInvNext == ASSUME FlowConstants, FlowInv, [FlowNext]_flowVars PROVE FlowInv'
<1>1. CASE UNCHANGED flowVars
  BY <1>1 DEF flowVars, FlowInv, FlowTypeOK, ChainOK
<1>2. ASSUME NEW c \in Chains, SkipStep(c) \/ MissingHandler(c) \/ FunctionRefused(c)
               \/ (\E raises \in BOOLEAN : AsyncStep(c, raises)) \/ SubFlowStep(c)
      PROVE  FlowInv'
  <2>1. raised \in [Chains -> SUBSET Nat]
    BY DEF FlowInv, FlowTypeOK
  <2>2. /\ frames[c] # << >>
        /\ Raise(c) \/ (\E executed \in BOOLEAN : Leave(c, executed) /\ UNCHANGED raised)
    BY <1>2 DEF SkipStep, MissingHandler, FunctionRefused, AsyncStep, SubFlowStep, AtStep
  <2>3. QED BY <2>1, <2>2, LeaveMoves, RaiseMoves
<1>3. ASSUME NEW c \in Chains, ReturnFlow(c) \/ AbortFlow(c) PROVE FlowInv'
  BY <1>3, EndMoves DEF ReturnFlow, AbortFlow, AtStep
<1>4. QED BY <1>1, <1>2, <1>3, StartMoves, SubmitMoves, TakeMoves, FinishMoves, TimeoutMoves DEF FlowNext

\* The frames, the list and the answers of chains stay what they are.
THEOREM FlowsTyped == ASSUME FlowConstants PROVE FlowSpec => []FlowTypeOK
<1>1. FlowSpec => []FlowInv
  BY FlowInvInit, FlowInvNext, PTL DEF FlowSpec
<1>2. QED BY <1>1, PTL DEF FlowInv

\* _execute_flow_internal refuses a flow that is in its chain or one too deep by
\* the list at the context; the finally blocks of a flow that is answered take a
\* name from it too early, and still no other chain runs a flow inside itself.
THEOREM FlowChainsAreSimple == ASSUME FlowConstants PROVE FlowSpec => []ChainsAreSimple
<1>1. FlowSpec => []FlowInv
  BY FlowInvInit, FlowInvNext, PTL DEF FlowSpec
<1>2. FlowInv => ChainsAreSimple
  <2> SUFFICES ASSUME FlowInv, NEW c \in Chains
      PROVE  /\ Len(frames[c]) <= MaxDepth + 1
             /\ c \notin answered =>
                   /\ Len(frames[c]) <= MaxDepth
                   /\ \A i, j \in DOMAIN frames[c] : frames[c][i].flow = frames[c][j].flow => i = j
    BY DEF ChainsAreSimple
  <2>1. frames[c] \in Seq(Frame) /\ stack[c] \in Seq(Flows) /\ ChainOK(frames[c], stack[c], c \in answered)
    BY ChainParts
  <2>2. Len(stack[c]) \in Nat /\ Len(frames[c]) \in Nat /\ MaxDepth \in Nat /\ Len(stack[c]) <= MaxDepth
    BY <2>1 DEF FlowConstants, ChainOK, Shallow
  <2>3. Len(frames[c]) = Len(stack[c]) \/ (c \in answered /\ Len(frames[c]) = Len(stack[c]) + 1)
    BY <2>1 DEF ChainOK, Listed, OneShort
  <2>4. Len(frames[c]) <= MaxDepth + 1 /\ (c \notin answered => Len(frames[c]) <= MaxDepth)
    BY <2>2, <2>3
  <2>5. c \notin answered =>
           \A i, j \in DOMAIN frames[c] : frames[c][i].flow = frames[c][j].flow => i = j
    BY <2>1 DEF ChainOK, Listed
  <2>6. QED BY <2>4, <2>5
<1>3. QED BY <1>1, <1>2, PTL

-----------------------------------------------------------------------------
(***************************************************************************)
(* CapabilityExecution.  What was withdrawn is gone from the grant in      *)
(* memory and from the file the next start reads it back from; a request   *)
(* is barred from nothing that was not withdrawn.                          *)
(***************************************************************************)
Gone(g, x) == g = NoGrant \/ IF x = All THEN ~g.on ELSE g.perms[x] # "on"

GoneFrom(f, q, x) == f.is = "signed" /\ f.owner = q => Gone(f.grant, x)

WithdrawalsHold == \A w \in withdrawn : Gone(grants[w[1]], w[2]) /\ GoneFrom(files[FileOf[w[1]]], w[1], w[2])

Stages == {"idle", "limit", "trust", "grant", "call", "run"}
RequestTypes == {"none", "permission", "function.call"}
Denials == {"none", "rate_limited", "trust_denied", "grant_denied", "call_denied"}
Failures == {"invalid_calling_convention", "unknown_core_function", "host_execution_disabled",
             "invalid_config", "invalid_json_output", "timeout", "response_too_large", "error"}
AnyReply == Denials \cup Failures \cup {"ok"}

Requests == [pc: Stages, type: RequestTypes, reply: AnyReply,
             principal: Principals \cup {"nobody"}, entry: Permissions \cup {"none"},
             barred: SUBSET withdrawn]

RequestsBarred ==
    /\ request \in Requests /\ (request.pc = "call" => request.type = "function.call")
    /\ \A w \in request.barred : w[1] \in Chain(request.principal) /\ w[2] \in {request.entry, All}

CapInv == CapTypeOK /\ WithdrawalsHold /\ RequestsBarred /\ DeniedStaysDenied

FileNames == {FileOf[p] : p \in Principals}
FileContents == {NoFile} \cup Damaged \cup {Signed(p, g) : p \in Principals, g \in Grants}

LEMMA SignedFacts ==
  ASSUME NEW p \in Principals, NEW g \in Grants
  PROVE  /\ Signed(p, g) \in FileContents
         /\ Signed(p, g).is = "signed" /\ Signed(p, g).owner = p /\ Signed(p, g).grant = g
  BY DEF Signed, FileContents

LEMMA UnsignedFacts ==
    /\ NoFile \in FileContents /\ NoFile.is # "signed"
    /\ [is |-> "garbage"] \in Damaged
    /\ \A d \in Damaged : d \in FileContents /\ d.is # "signed"
  BY DEF NoFile, Damaged, FileContents

LEMMA SignedGrant ==
  ASSUME NEW f \in FileContents, f.is = "signed"
  PROVE  f.grant \in Grants
<1>1. PICK p \in Principals, g \in Grants : f = Signed(p, g)
  BY UnsignedFacts DEF FileContents
<1>2. QED BY <1>1, SignedFacts

LEMMA GrantTypes ==
  ASSUME NEW g \in Grants, g # NoGrant
  PROVE  g \in [on: BOOLEAN, perms: [Permissions -> {"none", "off", "on"}]]
  BY DEF Grants

\* The grant of one principal changes, and its file does, or does not.
LEMMA OneGrantMoves ==
  ASSUME CapInv, NEW p \in Principals, NEW g \in Grants, grants' = [grants EXCEPT ![p] = g],
         NEW f \in {Signed(p, g), files[FileOf[p]], NoFile, [is |-> "garbage"]},
         files' = [files EXCEPT ![FileOf[p]] = f],
         withdrawn' \subseteq Principals \X (Permissions \cup {All}),
         \A w \in withdrawn' : IF w[1] = p THEN Gone(g, w[2]) /\ (w \in withdrawn \/ Settled(p))
                                           ELSE w \in withdrawn
  PROVE  /\ grants' \in [Principals -> Grants] /\ files' \in [FileNames -> FileContents]
         /\ WithdrawalsHold'
<1>1. grants \in [Principals -> Grants] /\ files \in [FileNames -> FileContents]
  BY DEF CapInv, CapTypeOK, FileNames, FileContents
<1>2. \A q \in Principals : FileOf[q] \in FileNames
  BY DEF FileNames
<1>3. f \in FileContents
  BY <1>1, <1>2, SignedFacts, UnsignedFacts
<1>4. grants' \in [Principals -> Grants] /\ files' \in [FileNames -> FileContents]
  BY <1>1, <1>3
<1>5. ASSUME NEW w \in withdrawn'
      PROVE  Gone(grants'[w[1]], w[2]) /\ GoneFrom(files'[FileOf[w[1]]], w[1], w[2])
  <2>1. w[1] \in Principals /\ FileOf[w[1]] \in FileNames
    BY <1>2
  <2>2. w \in withdrawn => Gone(grants[w[1]], w[2]) /\ GoneFrom(files[FileOf[w[1]]], w[1], w[2])
    BY DEF CapInv, WithdrawalsHold
  <2>3. Gone(grants'[w[1]], w[2])
    BY <1>1, <2>1, <2>2
  <2>4. CASE FileOf[w[1]] # FileOf[p]
    BY <1>1, <2>1, <2>2, <2>3, <2>4
  <2>5. CASE FileOf[w[1]] = FileOf[p]
    <3>1. files'[FileOf[w[1]]] = f
      BY <1>1, <2>1, <2>5
    <3> SUFFICES GoneFrom(f, w[1], w[2])
      BY <2>3, <3>1
    <3>2. CASE f = Signed(p, g)
      <4>1. f.owner = p /\ f.grant = g
        BY <3>2, SignedFacts
      <4>2. w[1] = p => Gone(g, w[2])
        OBVIOUS
      <4>3. QED BY <4>1, <4>2 DEF GoneFrom
    <3>3. CASE f = NoFile \/ f = [is |-> "garbage"]
      <4>1. f.is # "signed"
        BY <3>3, UnsignedFacts
      <4>2. QED BY <4>1 DEF GoneFrom
    <3>4. CASE f = files[FileOf[p]] /\ w \in withdrawn
      BY <2>2, <2>5, <3>4
    <3>5. CASE w \notin withdrawn
      <4>1. w[1] = p /\ Gone(g, w[2]) /\ Settled(p)
        BY <3>5
      <4>2. f.is = "signed" /\ f.owner = p => f.grant = g
        <5>1. files'[FileOf[p]] = f /\ grants'[p] = g
          BY <1>1, <2>5, <3>1
        <5>2. QED BY <4>1, <5>1 DEF Settled
      <4>3. QED BY <4>1, <4>2 DEF GoneFrom
    <3>6. QED BY <3>2, <3>3, <3>4, <3>5
  <2>6. QED BY <2>3, <2>4, <2>5
<1>6. QED BY <1>4, <1>5 DEF WithdrawalsHold

\* What a save leaves in the file.
LEMMA SavedFile ==
  ASSUME CapInv, CapabilityConstants, NEW p \in Principals, NEW g \in Grants, Saved(p, g)
  PROVE  /\ \E f \in {Signed(p, g), files[FileOf[p]], NoFile, [is |-> "garbage"]} :
               files' = [files EXCEPT ![FileOf[p]] = f]
         /\ faults' \in 0..MaxFaults
<1>1. faults \in 0..MaxFaults /\ MaxFaults \in Nat
  BY DEF CapInv, CapTypeOK, CapabilityConstants
<1>2. faults' = faults \/ (faults < MaxFaults /\ faults' = faults + 1)
  BY DEF Saved
<1>3. faults' \in 0..MaxFaults
  BY <1>1, <1>2
<1>4. QED BY <1>3 DEF Saved

\* A request that only stops being barred stays as it is.
LEMMA RequestKept ==
  ASSUME CapInv, NEW b \in SUBSET request.barred, b \subseteq withdrawn',
         request' = [request EXCEPT !.barred = b]
  PROVE  RequestsBarred' /\ DeniedStaysDenied' /\ request'.pc \in Stages
<1>1. request \in Requests
  BY DEF CapInv, RequestsBarred
<1>2. /\ request'.pc = request.pc /\ request'.reply = request.reply /\ request'.barred = b
      /\ request'.principal = request.principal /\ request'.entry = request.entry /\ request'.type = request.type
      /\ request' = [pc |-> request.pc, type |-> request.type, reply |-> request.reply, principal |-> request.principal,
                     entry |-> request.entry, barred |-> b]
  BY <1>1 DEF Requests
<1>3. request' \in [pc: Stages, type: RequestTypes, reply: AnyReply,
                    principal: Principals \cup {"nobody"}, entry: Permissions \cup {"none"},
                    barred: SUBSET withdrawn']
  <2>1. /\ request.pc \in Stages /\ request.type \in RequestTypes /\ request.reply \in AnyReply
        /\ request.principal \in Principals \cup {"nobody"} /\ request.entry \in Permissions \cup {"none"}
        /\ b \in SUBSET withdrawn'
    BY <1>1 DEF Requests
  <2>2. QED BY <1>2, <2>1
<1>4. RequestsBarred'
  BY <1>2, <1>3 DEF RequestsBarred, Requests, CapInv
<1>5. DeniedStaysDenied'
  BY <1>2 DEF CapInv, DeniedStaysDenied
<1>6. QED BY <1>1, <1>2, <1>4, <1>5 DEF Requests

\* Granting a permission ends what was withdrawn of it, and no more.
LEMMA GrantMoves ==
  ASSUME CapInv, CapabilityConstants, NEW p \in Principals, NEW e \in Permissions, GrantPermission(p, e)
  PROVE  CapInv'
<1> DEFINE old == IF grants[p] = NoGrant THEN Fresh ELSE grants[p]
           given == [on |-> TRUE, perms |-> [old.perms EXCEPT ![e] = "on"]]
<1>1. grants \in [Principals -> Grants] /\ withdrawn \subseteq Principals \X (Permissions \cup {All})
      /\ tampered \subseteq Names
  BY DEF CapInv, CapTypeOK
<1>2. old.perms \in [Permissions -> {"none", "off", "on"}]
  <2>1. CASE grants[p] = NoGrant
    BY <2>1 DEF Fresh
  <2>2. CASE grants[p] # NoGrant
    BY <1>1, <2>2, GrantTypes
  <2>3. QED BY <2>1, <2>2
<1>3. \A x \in Permissions : Gone(grants[p], x) => old.perms[x] # "on"
  <2>1. CASE grants[p] = NoGrant
    BY <2>1 DEF Fresh
  <2>2. CASE grants[p] # NoGrant
    BY <2>2 DEF Gone, CapabilityConstants
  <2>3. QED BY <2>1, <2>2
<1>4. /\ grants' = [grants EXCEPT ![p] = given] /\ Saved(p, given)
      /\ tampered' = tampered \ {p, FileOf[p]} /\ withdrawn' = withdrawn \ {<<p, e>>, <<p, All>>}
      /\ request' = [request EXCEPT !.barred = request.barred \ {<<p, e>>, <<p, All>>}]
  BY DEF GrantPermission
<1> HIDE DEF old
<1>5. given \in Grants
  BY <1>2 DEF Grants
<1>6. \A x \in Permissions : x # e /\ Gone(grants[p], x) => Gone(given, x)
  BY <1>2, <1>3 DEF Gone, CapabilityConstants
<1> HIDE DEF given
<1>7. PICK f \in {Signed(p, given), files[FileOf[p]], NoFile, [is |-> "garbage"]} :
         files' = [files EXCEPT ![FileOf[p]] = f]
  BY <1>4, <1>5, SavedFile
<1>8. withdrawn' \subseteq Principals \X (Permissions \cup {All}) /\ tampered' \subseteq Names
  BY <1>1, <1>4
<1>9. \A w \in withdrawn' : IF w[1] = p THEN Gone(given, w[2]) /\ (w \in withdrawn \/ Settled(p))
                                        ELSE w \in withdrawn
  <2>1. ASSUME NEW w \in withdrawn', w[1] = p PROVE Gone(given, w[2])
    <3>1. w = <<p, w[2]>> /\ w[2] \in Permissions \cup {All} /\ w \in withdrawn
      BY <1>1, <1>4, <2>1
    <3>2. w[2] \in Permissions /\ w[2] # e
      BY <1>4, <3>1
    <3>3. Gone(grants[p], w[2])
      BY <2>1, <3>1 DEF CapInv, WithdrawalsHold
    <3>4. QED BY <1>6, <3>2, <3>3
  <2>2. QED BY <1>4, <2>1
<1>10. grants' \in [Principals -> Grants] /\ files' \in [FileNames -> FileContents] /\ WithdrawalsHold'
  BY <1>4, <1>5, <1>7, <1>8, <1>9, OneGrantMoves
<1>11. RequestsBarred' /\ DeniedStaysDenied' /\ request'.pc \in Stages
  <2>1. request.barred \subseteq withdrawn
    BY DEF CapInv, RequestsBarred, Requests
  <2> DEFINE b == request.barred \ {<<p, e>>, <<p, All>>}
  <2>2. b \in SUBSET request.barred /\ b \subseteq withdrawn'
    BY <1>4, <2>1
  <2>3. request' = [request EXCEPT !.barred = b]
    BY <1>4
  <2> HIDE DEF b
  <2>4. QED BY <2>2, <2>3, RequestKept
<1>12. faults' \in 0..MaxFaults
  BY <1>4, <1>5, SavedFile
<1>13. CapTypeOK'
  BY <1>8, <1>10, <1>11, <1>12 DEF CapTypeOK, FileNames, FileContents, Stages
<1>14. QED BY <1>10, <1>11, <1>13 DEF CapInv

\* The request goes on whatever is withdrawn meanwhile.
LEMMA RequestUnmoved ==
  ASSUME CapInv, UNCHANGED request, withdrawn \subseteq withdrawn'
  PROVE  RequestsBarred' /\ DeniedStaysDenied' /\ request'.pc \in Stages
  BY DEF CapInv, RequestsBarred, Requests, DeniedStaysDenied

LEMMA WithdrawMoves ==
  ASSUME CapInv, NEW p \in Principals, NEW g \in Grants, NEW x \in Permissions \cup {All},
         NEW f \in {Signed(p, g), files[FileOf[p]], NoFile, [is |-> "garbage"]},
         grants' = [grants EXCEPT ![p] = g], files' = [files EXCEPT ![FileOf[p]] = f],
         withdrawn' = IF Settled(p) THEN withdrawn \cup {<<p, x>>} ELSE withdrawn,
         UNCHANGED <<tampered, request>>, faults' \in 0..MaxFaults,
         Gone(g, x), \A y \in Permissions \cup {All} : Gone(grants[p], y) => Gone(g, y)
  PROVE  CapInv'
<1>1. withdrawn \subseteq Principals \X (Permissions \cup {All}) /\ tampered \subseteq Names
  BY DEF CapInv, CapTypeOK
<1>2. withdrawn' \subseteq Principals \X (Permissions \cup {All}) /\ withdrawn \subseteq withdrawn'
  BY <1>1
<1>3. ASSUME NEW w \in withdrawn'
      PROVE  IF w[1] = p THEN Gone(g, w[2]) /\ (w \in withdrawn \/ Settled(p)) ELSE w \in withdrawn
  <2>1. CASE w \in withdrawn
    <3>1. w[2] \in Permissions \cup {All} /\ Gone(grants[w[1]], w[2])
      BY <1>1, <2>1 DEF CapInv, WithdrawalsHold
    <3>2. QED BY <2>1, <3>1
  <2>2. CASE w \notin withdrawn
    <3>1. w = <<p, x>> /\ Settled(p)
      BY <2>2
    <3>2. QED BY <3>1
  <2>3. QED BY <2>1, <2>2
<1>4. grants' \in [Principals -> Grants] /\ files' \in [FileNames -> FileContents] /\ WithdrawalsHold'
  BY <1>2, <1>3, OneGrantMoves
<1>5. RequestsBarred' /\ DeniedStaysDenied' /\ request'.pc \in Stages
  BY <1>2, RequestUnmoved
<1>6. CapTypeOK'
  BY <1>1, <1>2, <1>4, <1>5 DEF CapTypeOK, FileNames, FileContents, Stages
<1>7. QED BY <1>4, <1>5, <1>6 DEF CapInv

LEMMA RevokeMoves ==
  ASSUME CapInv, CapabilityConstants, NEW p \in Principals,
         (\E e \in Permissions : RevokePermission(p, e)) \/ RevokeAll(p)
  PROVE  CapInv'
<1>1. grants[p] \in [on: BOOLEAN, perms: [Permissions -> {"none", "off", "on"}]] /\ grants[p] # NoGrant
  <2>1. grants[p] # NoGrant
    BY DEF RevokePermission, RevokeAll
  <2>2. grants[p] \in Grants
    BY DEF CapInv, CapTypeOK
  <2>3. QED BY <2>1, <2>2, GrantTypes
<1>2. \A g \in Grants, x \in Permissions \cup {All} :
         /\ Withdraw(p, g, x) /\ Gone(g, x)
         /\ \A y \in Permissions \cup {All} : Gone(grants[p], y) => Gone(g, y)
         => CapInv'
  BY SavedFile, WithdrawMoves DEF Withdraw
<1>3. ASSUME NEW e \in Permissions, RevokePermission(p, e) PROVE CapInv'
  <2> DEFINE g == [grants[p] EXCEPT !.perms = [@ EXCEPT ![e] = "off"]]
  <2>1. g \in Grants /\ g.on = grants[p].on /\ g.perms = [grants[p].perms EXCEPT ![e] = "off"]
    BY <1>1 DEF Grants
  <2>2. Withdraw(p, g, e)
    BY <1>3 DEF RevokePermission
  <2> HIDE DEF g
  <2>3. g.perms[e] = "off" /\ \A y \in Permissions : grants[p].perms[y] # "on" => g.perms[y] # "on"
    BY <1>1, <2>1
  <2>4. Gone(g, e) /\ \A y \in Permissions \cup {All} : Gone(grants[p], y) => Gone(g, y)
    BY <1>1, <2>1, <2>3 DEF Gone, CapabilityConstants
  <2>5. QED BY <1>2, <2>1, <2>2, <2>4
<1>4. ASSUME RevokeAll(p) PROVE CapInv'
  <2> DEFINE g == [grants[p] EXCEPT !.on = FALSE]
  <2>1. g \in Grants /\ ~g.on /\ g.perms = grants[p].perms
    BY <1>1 DEF Grants
  <2>2. Withdraw(p, g, All)
    BY <1>4 DEF RevokeAll
  <2> HIDE DEF g
  <2>3. Gone(g, All) /\ \A y \in Permissions \cup {All} : Gone(grants[p], y) => Gone(g, y)
    BY <1>1, <2>1 DEF Gone, CapabilityConstants
  <2>4. QED BY <1>2, <2>1, <2>2, <2>3
<1>5. QED BY <1>3, <1>4

LEMMA DeleteMoves ==
  ASSUME CapInv, CapabilityConstants, NEW p \in Principals, DeleteGrant(p)
  PROVE  CapInv'
<1>1. NoGrant \in Grants /\ \A y \in Permissions \cup {All} : Gone(NoGrant, y)
  BY DEF Grants, Gone
<1>2. faults \in 0..MaxFaults /\ MaxFaults \in Nat /\ files \in [FileNames -> FileContents] /\ FileOf[p] \in FileNames
  BY DEF CapInv, CapTypeOK, CapabilityConstants, FileNames, FileContents
<1>3. faults' \in 0..MaxFaults
  <2>1. faults' = faults \/ (faults < MaxFaults /\ faults' = faults + 1)
    BY DEF DeleteGrant
  <2>2. QED BY <1>2, <2>1
<1>4. PICK f \in {files[FileOf[p]], NoFile} : files' = [files EXCEPT ![FileOf[p]] = f]
  <2>1. files' = [files EXCEPT ![FileOf[p]] = NoFile] \/ files' = files
    BY DEF DeleteGrant
  <2>2. files = [files EXCEPT ![FileOf[p]] = files[FileOf[p]]]
    BY <1>2
  <2>3. QED BY <2>1, <2>2
<1>5. /\ grants' = [grants EXCEPT ![p] = NoGrant] /\ UNCHANGED <<tampered, request>>
      /\ withdrawn' = IF Settled(p) THEN withdrawn \cup {<<p, All>>} ELSE withdrawn
  BY DEF DeleteGrant
<1>6. QED BY <1>1, <1>3, <1>4, <1>5, WithdrawMoves

\* The start reads back the files, of which none has what was withdrawn.
LEMMA RestartMoves ==
  ASSUME CapInv, Restart
  PROVE  CapInv'
<1> DEFINE read(q) == IF files[FileOf[q]].is = "signed" /\ files[FileOf[q]].owner = q
                      THEN files[FileOf[q]].grant ELSE NoGrant
<1>1. /\ files \in [FileNames -> FileContents] /\ withdrawn \subseteq Principals \X (Permissions \cup {All})
      /\ \A q \in Principals : FileOf[q] \in FileNames
  BY DEF CapInv, CapTypeOK, FileNames, FileContents
<1>2. grants' = [q \in Principals |-> read(q)] /\ UNCHANGED <<files, withdrawn, faults>> /\ request' = Idle
  BY DEF Restart
<1>3. \A q \in Principals : read(q) \in Grants
  <2>1. NoGrant \in Grants
    BY DEF Grants
  <2>2. QED BY <1>1, <2>1, SignedGrant
<1>4. ASSUME NEW w \in withdrawn
      PROVE  Gone(grants'[w[1]], w[2]) /\ GoneFrom(files'[FileOf[w[1]]], w[1], w[2])
  <2>1. w[1] \in Principals /\ GoneFrom(files[FileOf[w[1]]], w[1], w[2])
    BY <1>1 DEF CapInv, WithdrawalsHold
  <2>2. grants'[w[1]] = read(w[1])
    BY <1>2, <2>1
  <2>3. Gone(read(w[1]), w[2])
    BY <2>1 DEF GoneFrom, Gone
  <2>4. QED BY <1>2, <2>1, <2>2, <2>3
<1>5. WithdrawalsHold'
  BY <1>2, <1>4 DEF WithdrawalsHold
<1>6. RequestsBarred' /\ DeniedStaysDenied' /\ request'.pc = "idle"
  <2>1. /\ Idle.pc = "idle" /\ Idle.reply = "none" /\ Idle.barred = {}
    BY DEF Idle
  <2> HIDE DEF read
  <2>2. Idle \in [pc: Stages, type: RequestTypes, reply: AnyReply,
                  principal: Principals \cup {"nobody"}, entry: Permissions \cup {"none"},
                  barred: SUBSET withdrawn']
    BY DEF Idle, AnyReply, Denials, Stages, RequestTypes
  <2>3. QED BY <1>2, <2>1, <2>2 DEF RequestsBarred, Requests, DeniedStaysDenied
<1>7. tampered' \subseteq Names
  BY DEF Restart, Names
<1>8. CapTypeOK'
  <2>1. grants' \in [Principals -> Grants]
    BY <1>2, <1>3
  <2>2. QED BY <1>2, <1>6, <1>7, <2>1 DEF CapInv, CapTypeOK
<1>9. QED BY <1>5, <1>6, <1>8 DEF CapInv

LEMMA DamageMoves ==
  ASSUME CapInv, CapabilityConstants, NEW n \in DOMAIN files, NEW d \in Damaged, Damage(n, d)
  PROVE  CapInv'
<1>1. /\ files \in [FileNames -> FileContents] /\ \A q \in Principals : FileOf[q] \in FileNames
      /\ faults \in 0..MaxFaults /\ MaxFaults \in Nat /\ withdrawn \subseteq Principals \X (Permissions \cup {All})
  BY DEF CapInv, CapTypeOK, FileNames, FileContents, CapabilityConstants
<1>2. /\ files' = [files EXCEPT ![n] = d] /\ UNCHANGED <<grants, tampered, request, withdrawn>>
      /\ faults < MaxFaults /\ faults' = faults + 1
  BY DEF Damage
<1>3. faults' \in 0..MaxFaults
  BY <1>1, <1>2
<1>4. files' \in [FileNames -> FileContents]
  BY <1>1, <1>2, UnsignedFacts
<1>5. ASSUME NEW w \in withdrawn
      PROVE  Gone(grants'[w[1]], w[2]) /\ GoneFrom(files'[FileOf[w[1]]], w[1], w[2])
  <2>1. /\ w[1] \in Principals /\ Gone(grants[w[1]], w[2])
        /\ GoneFrom(files[FileOf[w[1]]], w[1], w[2])
    BY <1>1 DEF CapInv, WithdrawalsHold
  <2>2. files'[FileOf[w[1]]] = IF FileOf[w[1]] = n THEN d ELSE files[FileOf[w[1]]]
    BY <1>1, <1>2, <2>1
  <2>3. GoneFrom(d, w[1], w[2])
    BY UnsignedFacts DEF GoneFrom
  <2>4. QED BY <1>2, <2>1, <2>2, <2>3
<1>6. WithdrawalsHold'
  BY <1>2, <1>5 DEF WithdrawalsHold
<1>7. RequestsBarred' /\ DeniedStaysDenied' /\ request'.pc \in Stages
  BY <1>2, RequestUnmoved
<1>8. CapTypeOK'
  BY <1>2, <1>3, <1>4, <1>7 DEF CapInv, CapTypeOK, FileNames, FileContents
<1>9. QED BY <1>6, <1>7, <1>8 DEF CapInv

\* A step of the request itself: its answer is "ok" only when its code has run,
\* which a grant that was withdrawn before does not let it reach.
LEMMA RequestMoves ==
  ASSUME CapInv, NEW to \in Stages \ {"call"}, NEW reply \in AnyReply,
         request' = [request EXCEPT !.pc = to, !.reply = reply], Elsewhere,
         (to = "run" \/ reply = "ok") /\ request.type = "permission" /\ request.entry \in OptIn => request.barred = {}
  PROVE  CapInv'
<1>1. request \in Requests
  BY DEF CapInv, RequestsBarred
<1>2. /\ request'.pc = to /\ request'.reply = reply /\ request'.barred = request.barred
      /\ request'.principal = request.principal /\ request'.entry = request.entry /\ request'.type = request.type
      /\ request' \in Requests
  BY <1>1 DEF Requests
<1>3. UNCHANGED <<grants, files, tampered, withdrawn, faults>>
  BY DEF Elsewhere
<1>4. CapTypeOK'
  BY <1>2, <1>3 DEF CapInv, CapTypeOK, Stages
<1>5. WithdrawalsHold'
  BY <1>3 DEF CapInv, WithdrawalsHold
<1>6. RequestsBarred'
  BY <1>2, <1>3 DEF CapInv, RequestsBarred, Requests
<1>7. DeniedStaysDenied'
  BY <1>2 DEF DeniedStaysDenied
<1>8. QED BY <1>4, <1>5, <1>6, <1>7 DEF CapInv

\* The grant a request needs is there at the check, so none of it was withdrawn.
LEMMA CheckedNotBarred ==
  ASSUME CapInv, CapabilityConstants, Check(request.principal, request.entry)
  PROVE  request.barred = {}
<1> SUFFICES ASSUME NEW w \in request.barred PROVE FALSE
  OBVIOUS
<1>1. w[1] \in Chain(request.principal) /\ w[2] \in {request.entry, All} /\ w \in withdrawn
  BY DEF CapInv, RequestsBarred, Requests
<1>2. LevelOK(w[1], request.entry)
  BY <1>1 DEF Check
<1>3. Gone(grants[w[1]], w[2])
  BY <1>1 DEF CapInv, WithdrawalsHold
<1>4. QED BY <1>1, <1>2, <1>3 DEF LevelOK, Gone

LEMMA SubmitRequest ==
  ASSUME CapInv, NEW p \in Principals, NEW e \in Permissions, NEW type \in {"permission", "function.call"},
         Submit(p, e, type)
  PROVE  CapInv'
<1> DEFINE b == IF type = "permission" THEN withdrawn \cap (Chain(p) \X {e, All}) ELSE {}
           first == IF type = "function.call" THEN "call" ELSE "limit"
<1>1. request' = [pc |-> first, type |-> type, reply |-> "none", principal |-> p, entry |-> e, barred |-> b]
  BY DEF Submit
<1>2. UNCHANGED <<grants, files, tampered, withdrawn, faults>>
  BY DEF Submit, Elsewhere
<1>3. b \in SUBSET withdrawn /\ \A w \in b : w[1] \in Chain(p) /\ w[2] \in {e, All}
  OBVIOUS
<1>pc. first \in {"limit", "call"}
  OBVIOUS
<1> HIDE DEF b, first
<1>4. /\ request'.pc = first /\ request'.reply = "none" /\ request'.barred = b
      /\ request'.principal = p /\ request'.entry = e
  BY <1>1
<1>5. request' \in Requests
  <2>1. first \in Stages /\ type \in RequestTypes /\ "none" \in AnyReply /\ b \in SUBSET withdrawn
    BY <1>3, <1>pc DEF Stages, RequestTypes, AnyReply, Denials
  <2>2. QED BY <1>1, <2>1 DEF Requests
<1>6. CapTypeOK'
  BY <1>2, <1>4, <1>pc DEF CapInv, CapTypeOK
<1>7. WithdrawalsHold'
  BY <1>2 DEF CapInv, WithdrawalsHold
<1>8. RequestsBarred'
  <2>1. request'.type = type /\ (first = "call" => type = "function.call")
    BY <1>1 DEF first
  <2>2. \A w \in request'.barred : w[1] \in Chain(request'.principal) /\ w[2] \in {request'.entry, All}
    BY <1>3, <1>4
  <2>3. QED BY <1>2, <1>4, <1>5, <2>1, <2>2 DEF RequestsBarred, Requests
<1>9. DeniedStaysDenied'
  BY <1>4, <1>pc DEF DeniedStaysDenied
<1>10. QED BY <1>6, <1>7, <1>8, <1>9 DEF CapInv

LEMMA AnswerMoves ==
  ASSUME CapInv, CapabilityConstants, CheckRateLimit \/ TrustCheck \/ GrantCheck \/ FunctionCall \/ Finish
  PROVE  CapInv'
<1>1. request \in Requests
  BY DEF CapInv, RequestsBarred
<1>2. /\ request.reply \in AnyReply
      /\ (request.pc = "run" \/ request.reply = "ok") /\ request.type = "permission" /\ request.entry \in OptIn
            => request.barred = {}
  BY <1>1 DEF Requests, CapInv, DeniedStaysDenied
<1>3. ASSUME NEW r \in AnyReply, Answer(r), Elsewhere, r = "ok" => request.pc = "run" PROVE CapInv'
  BY <1>2, <1>3, RequestMoves DEF Answer, Stages
<1>4. ASSUME NEW to \in {"trust", "grant", "run"}, Goto(to), Elsewhere,
             to = "run" /\ request.type = "permission" /\ request.entry \in OptIn => request.barred = {}
      PROVE  CapInv'
  <2>1. request' = [request EXCEPT !.pc = to, !.reply = request.reply]
    BY <1>1, <1>4 DEF Goto, Requests
  <2>2. QED BY <1>2, <1>4, <2>1, RequestMoves DEF Stages
<1>5. CASE CheckRateLimit
  BY <1>3, <1>4, <1>5 DEF CheckRateLimit, AnyReply, Denials
<1>6. CASE TrustCheck
  BY <1>3, <1>4, <1>6 DEF TrustCheck, AnyReply, Denials
<1>7. CASE GrantCheck
  <2>1. (Goto("run") /\ (request.entry \in OptIn => Check(request.principal, request.entry)))
        \/ Answer("grant_denied")
    BY <1>7 DEF GrantCheck
  <2>2. Elsewhere
    BY <1>7 DEF GrantCheck
  <2>3. "grant_denied" \in AnyReply
    BY DEF AnyReply, Denials
  <2>4. QED BY <1>3, <1>4, <2>1, <2>2, <2>3, CheckedNotBarred
<1>called. CASE FunctionCall
  <2>1. request.pc = "call" /\ Elsewhere /\ (Goto("run") \/ Answer("call_denied"))
    BY <1>called DEF FunctionCall
  <2>2. "call_denied" \in AnyReply
    BY DEF AnyReply, Denials
  <2>3. request.type = "function.call"
    BY <2>1 DEF CapInv, RequestsBarred
  <2>4. QED BY <1>3, <1>4, <2>1, <2>2, <2>3
<1>8. CASE Finish
  <2>1. request.pc = "run" /\ Elsewhere
    BY <1>8 DEF Finish
  <2>2. PICK r \in Replies(request.entry) \cup CallReplies(request.entry) : Answer(r)
    BY <1>8 DEF Finish
  <2>3. r \in AnyReply
    BY DEF Replies, CallReplies, ProcessReplies, FunctionReplies, HostReplies, CommandReplies, BlockReplies,
           AnyReply, Denials, Failures
  <2>4. QED BY <1>3, <2>1, <2>2, <2>3
<1>9. QED BY <1>5, <1>6, <1>7, <1>8, <1>called

LEMMA CapInvInit == ASSUME CapabilityConstants, CapInit PROVE CapInv
<1>1. CapTypeOK
  BY DEF CapInit, CapTypeOK, CapabilityConstants, Grants, Idle
<1>2. WithdrawalsHold
  BY DEF CapInit, WithdrawalsHold
<1>3. /\ Idle.pc = "idle" /\ Idle.reply = "none" /\ Idle.barred = {} /\ Idle \in Requests
  BY DEF Idle, Requests, AnyReply, Denials, Stages, RequestTypes
<1>4. RequestsBarred /\ DeniedStaysDenied
  BY <1>3 DEF CapInit, RequestsBarred, DeniedStaysDenied
<1>5. QED BY <1>1, <1>2, <1>4 DEF CapInv

LEMMA CapInvNext == ASSUME CapabilityConstants, CapInv, [CapNext]_capVars PROVE CapInv'
<1>1. CASE UNCHANGED capVars
  BY <1>1 DEF capVars, CapInv, CapTypeOK, WithdrawalsHold, RequestsBarred, Requests, DeniedStaysDenied
<1>2. ASSUME NEW p \in Principals, BatchGrant({p} \X Permissions) PROVE CapInv'
  BY <1>2, GrantMoves DEF BatchGrant
<1>3. QED BY <1>1, <1>2, GrantMoves, RevokeMoves, SubmitRequest, DeleteMoves, DamageMoves,
             AnswerMoves, RestartMoves DEF CapNext

\* The grants, the files and what was withdrawn stay what they are.
THEOREM CapabilitiesTyped == ASSUME CapabilityConstants PROVE CapSpec => []CapTypeOK
<1>1. CapSpec => []CapInv
  BY CapInvInit, CapInvNext, PTL DEF CapSpec
<1>2. QED BY <1>1, PTL DEF CapInv

\* A revocation that reached the file bars every later request for a permission of
\* the principal and of those below it, across restarts and damaged files, until a
\* new grant: capability_grant_manager.py, hierarchical_grant.py.  A function.call
\* (capability_executor.py) asks for no grant, and nothing is said of it.
THEOREM WithdrawnStaysDenied == ASSUME CapabilityConstants PROVE CapSpec => []DeniedStaysDenied
<1>1. CapSpec => []CapInv
  BY CapInvInit, CapInvNext, PTL DEF CapSpec
<1>2. QED BY <1>1, PTL DEF CapInv

-----------------------------------------------------------------------------
(***************************************************************************)
(* KernelSupervisor, for any process ids and any limit.                    *)
(***************************************************************************)
\* Where the launcher starts a process it has no child, and once it has counted one
\* failure too many it has none either, so that it cannot count another.
SupervisorInv ==
  /\ SupervisorTypeOK
  /\ NoOtherKernel
  /\ pc \in {"boot", "spawn", "done"} => child = None
  /\ restartCount > MaxAutoRestarts => child = None /\ pc \in {"loop", "stop", "done"}

LEMMA SupervisorBegins == SupervisorInit => SupervisorInv
BY SupervisorAssumption DEF SupervisorInit, SupervisorInv, SupervisorTypeOK, NoOtherKernel, PC

\* Starting a process where there is none, and waiting for the only one.
LEMMA StartOwned ==
  ASSUME SupervisorTypeOK, NoOtherKernel, child = None, Started \/ NotStarted
  PROVE  /\ process' \in [Pids -> {"free", "alive"} \cup Exits]
         /\ child' \in Pids \cup {None}
         /\ \A p \in Pids : process'[p] # "free" => child' = p
BY SupervisorAssumption DEF Started, NotStarted, SupervisorTypeOK, NoOtherKernel

LEMMA ReapOwned ==
  ASSUME SupervisorTypeOK, NoOtherKernel, child # None, Reaped
  PROVE  /\ process' \in [Pids -> {"free", "alive"} \cup Exits] /\ child' = None
         /\ \A p \in Pids : process'[p] = "free"
BY DEF Reaped, SupervisorTypeOK, NoOtherKernel

LEMMA SupervisorSteps == SupervisorInv /\ [SupervisorNext]_supervisorVars => SupervisorInv'
<1> SUFFICES ASSUME SupervisorInv, [SupervisorNext]_supervisorVars PROVE SupervisorInv'
  OBVIOUS
<1> USE SupervisorAssumption DEF SupervisorInv
<1>1. CASE Boot \/ Spawn
  <2>1. child = None /\ (Started \/ NotStarted)
    BY <1>1 DEF Boot, Spawn
  <2>2. CASE Boot
    <3>1. restartCount' = restartCount /\ goal' = goal /\ pc = "boot"
          /\ (pc' = "health" \/ (pc' = "done" /\ child' = None))
      BY <2>1, <2>2 DEF Boot, NotStarted
    <3>2. QED BY <2>1, <3>1, StartOwned DEF SupervisorTypeOK, NoOtherKernel, PC
  <2>3. CASE Spawn
    <3>1. restartCount' = restartCount /\ goal' = goal /\ pc = "spawn" /\ pc' = "loop"
      BY <2>3 DEF Spawn
    <3>2. QED BY <2>1, <3>1, StartOwned DEF SupervisorTypeOK, NoOtherKernel, PC
  <2>4. QED BY <1>1, <2>2, <2>3
<1>2. CASE Healthy \/ MenuRestart \/ MenuQuit
  BY <1>2 DEF Healthy, MenuRestart, MenuQuit, SupervisorTypeOK, NoOtherKernel, PC
<1>3. CASE Unhealthy
  <2>1. CASE Exited
    <3>1. child # None /\ Reaped /\ pc' = "done" /\ UNCHANGED <<restartCount, goal>>
      BY <1>3, <2>1 DEF Unhealthy, Exited
    <3>2. QED BY <3>1, ReapOwned DEF SupervisorTypeOK, NoOtherKernel, PC
  <2>2. CASE ~Exited
    BY <1>3, <2>2 DEF Unhealthy, SupervisorTypeOK, NoOtherKernel, PC
  <2>3. QED BY <2>1, <2>2
<1>4. CASE CheckKernel
  <2>1. child # None /\ Reaped /\ pc = "loop" /\ goal' = goal /\ restartCount <= MaxAutoRestarts
    BY <1>4 DEF CheckKernel, Exited, SupervisorTypeOK
  <2>2. /\ restartCount' \in 0..(MaxAutoRestarts + 1)
        /\ pc' \in {"loop", "spawn"}
        /\ restartCount' > MaxAutoRestarts => pc' = "loop"
    BY <1>4, <2>1 DEF CheckKernel, NextCount, MayRestart, SupervisorTypeOK
  <2>3. QED BY <2>1, <2>2, ReapOwned DEF SupervisorTypeOK, NoOtherKernel, PC
<1>5. CASE Stopped
  <2>1. /\ process' \in [Pids -> {"free", "alive"} \cup Exits] /\ child' = None
        /\ \A p \in Pids : process'[p] = "free"
    <3>1. CASE child = None
      BY <1>5, <3>1 DEF Stopped, SupervisorTypeOK, NoOtherKernel
    <3>2. CASE child # None
      BY <1>5, <3>2, ReapOwned DEF Stopped
    <3>3. QED BY <3>1, <3>2
  <2>2. /\ goal' = "none"
        /\ \/ restartCount' = 0 /\ pc' = "spawn"
           \/ restartCount' = restartCount /\ pc' = "done"
    BY <1>5 DEF Stopped
  <2>3. QED BY <2>1, <2>2 DEF SupervisorTypeOK, NoOtherKernel, PC
<1>6. CASE KernelExits
  <2>1. PICK p \in Pids, how \in Exits :
          process[p] = "alive" /\ process' = [process EXCEPT ![p] = how]
    BY <1>6 DEF KernelExits
  <2>2. child = p /\ UNCHANGED <<child, restartCount, pc, goal>>
    BY <1>6, <2>1 DEF KernelExits, NoOtherKernel
  <2>3. QED BY <2>1, <2>2 DEF SupervisorTypeOK, NoOtherKernel
<1>7. CASE UNCHANGED supervisorVars
  BY <1>7 DEF supervisorVars, SupervisorTypeOK, NoOtherKernel
<1>8. QED BY <1>1, <1>2, <1>3, <1>4, <1>5, <1>6, <1>7 DEF SupervisorNext, Launcher, Ended

LEMMA SupervisorInvariance == SupervisorSpec => []SupervisorInv
BY SupervisorBegins, SupervisorSteps, PTL DEF SupervisorSpec

\* The variables keep their types, and the count of failures its bound.
THEOREM SupervisorTyped == SupervisorSpec => []SupervisorTypeOK
<1>1. SupervisorInv => SupervisorTypeOK
  BY DEF SupervisorInv
<1>2. QED BY <1>1, SupervisorInvariance, PTL

\* There is never a kernel that the launcher has no handle of, and none when it has
\* ended.
THEOREM NoOtherKernelAlways == SupervisorSpec => []NoOtherKernel
<1>1. SupervisorInv => NoOtherKernel
  BY DEF SupervisorInv
<1>2. QED BY <1>1, SupervisorInvariance, PTL

-----------------------------------------------------------------------------
(***************************************************************************)
(* Pipelines.  The steps tried lie before the one that is next, and of     *)
(* those that were passed over each waits for one that was not executed.   *)
(***************************************************************************)
Results == {"answered", "raised", "refused", "missing", "internal"}
Tries == [at : Nat, result : Results]
BrokeInside(d) == \E i \in DOMAIN tried : tried[i].at = d /\ tried[i].result = "internal"

\* What was tried, and what counts as executed.
TriedInOrder ==
    /\ tried \in Seq(Tries)
    /\ \A i \in DOMAIN tried : tried[i].at <= pipe.at /\ (pipe.state = "running" => tried[i].at < pipe.at)
    /\ \A i, j \in DOMAIN tried : i < j => tried[i].at < tried[j].at
    /\ \A d \in pipe.executed : WasTried(d)
    /\ \A i \in DOMAIN tried : \A d \in pipe.steps[tried[i].at].deps : WasTried(d) /\ d < tried[i].at

StrictSoFar == ~pipe.soft =>
    /\ \A i \in DOMAIN tried : tried[i].at = i /\ (i < Len(tried) => Allowed(i))
    /\ pipe.state = "running" => Len(tried) = pipe.at - 1 /\ \A i \in DOMAIN tried : Allowed(i)

\* A step passed over has a dependency that was not executed before it.
Excused(n) == \E d \in pipe.steps[n].deps : ~WasTried(d) \/ d >= n \/ BrokeInside(d)
SoftSoFar == pipe.soft /\ NothingAborts =>
    /\ pipe.state # "aborted"
    /\ pipe.state = "running" => \A i \in DOMAIN tried : tried[i].at \in pipe.executed \/ tried[i].result = "internal"
    /\ \A n \in DOMAIN pipe.steps : n < pipe.at => WasTried(n) \/ Excused(n)
    /\ pipe.state = "ended" => pipe.at \notin DOMAIN pipe.steps

PipeInv == PipeTypeOK /\ TriedInOrder /\ StrictSoFar /\ SoftSoFar

LEMMA PipeBegins == ASSUME PipelineConstants PROVE PipeInit => PipeInv
<1>1. SUFFICES ASSUME PipeInit PROVE PipeInv
  OBVIOUS
<1>2. tried = <<>> /\ tried \in Seq(Tries) /\ DOMAIN tried = {} /\ Len(tried) = 0
  BY <1>1 DEF PipeInit
<1>3. PipeTypeOK
  BY <1>1, <1>2 DEF PipeInit, PipeTypeOK
<1>4. TriedInOrder
  BY <1>1, <1>2 DEF PipeInit, TriedInOrder
<1>5. StrictSoFar
  BY <1>1, <1>2 DEF PipeInit, StrictSoFar
<1>6. SoftSoFar
  BY <1>1, <1>2 DEF PipeInit, SoftSoFar
<1>7. QED BY <1>3, <1>4, <1>5, <1>6 DEF PipeInv

\* The steps of the pipeline that runs.
LEMMA PipeIs ==
  ASSUME PipelineConstants, PipeInv
  PROVE  /\ pipe.steps \in Seq(PipelineStep) /\ Len(pipe.steps) \in Nat /\ DOMAIN pipe.steps = 1..Len(pipe.steps)
         /\ pipe.at \in 1..(Len(pipe.steps) + 1) /\ pipe.at \in Nat
         /\ \A n \in DOMAIN pipe.steps : pipe.steps[n] \in PipelineStep /\ \A d \in pipe.steps[n].deps : d \in Nat
         /\ \A i \in DOMAIN tried : tried[i] \in Tries /\ tried[i].at \in Nat /\ tried[i].result \in Results
         /\ tried \in Seq(Tries) /\ Len(tried) \in Nat /\ DOMAIN tried = 1..Len(tried)
         /\ \A d \in pipe.executed : d \in Nat /\ d < pipe.at
<1>1. pipe.steps \in Seq(PipelineStep)
  <2>1. pipe.steps \in Pipelines \cup {<<>>}
    BY DEF PipeInv, PipeTypeOK
  <2>2. <<>> \in Seq(PipelineStep)
    OBVIOUS
  <2>3. QED BY <2>1, <2>2 DEF PipelineConstants
<1>2. tried \in Seq(Tries)
  BY DEF PipeInv, TriedInOrder
<1>3. pipe.at \in 1..(Len(pipe.steps) + 1) /\ pipe.executed \subseteq 1..(pipe.at - 1)
  BY DEF PipeInv, PipeTypeOK
<1>4. PICK s : s = pipe.steps
  OBVIOUS
<1>5. PICK t : t = tried
  OBVIOUS
<1>6. Len(s) \in Nat /\ DOMAIN s = 1..Len(s) /\ \A n \in DOMAIN s : s[n] \in PipelineStep
  BY <1>1, <1>4
<1>7. Len(t) \in Nat /\ DOMAIN t = 1..Len(t) /\ \A i \in DOMAIN t : t[i] \in Tries
  BY <1>2, <1>5
<1>8. \A n \in DOMAIN s : \A d \in s[n].deps : d \in Nat
  BY <1>6 DEF PipelineStep
<1>9. \A i \in DOMAIN t : t[i] \in Tries /\ t[i].at \in Nat /\ t[i].result \in Results
  BY <1>7 DEF Tries
<1>10. QED BY <1>1, <1>2, <1>3, <1>4, <1>5, <1>6, <1>7, <1>8, <1>9

\* One more step is tried.
LEMMA OneMoreTried ==
  ASSUME PipelineConstants, PipeInv, AtPipeStep, PipeStep.deps \subseteq pipe.executed, NEW r \in Results,
         tried' = Append(tried, [at |-> pipe.at, result |-> r]),
         pipe'.steps = pipe.steps, pipe'.soft = pipe.soft, pipe'.missing = pipe.missing,
         \/ pipe'.at = pipe.at /\ pipe'.state # "running" /\ pipe'.executed = pipe.executed
         \/ pipe'.at = pipe.at + 1 /\ pipe'.executed \in {pipe.executed, pipe.executed \cup {pipe.at}}
  PROVE  /\ TriedInOrder' /\ DOMAIN tried' = 1..(Len(tried) + 1) /\ Len(tried') = Len(tried) + 1
         /\ \A i \in DOMAIN tried : i \in DOMAIN tried' /\ tried'[i] = tried[i]
         /\ tried'[Len(tried) + 1] = [at |-> pipe.at, result |-> r]
         /\ \A d : WasTried(d)' <=> (WasTried(d) \/ d = pipe.at)
         /\ \A d : BrokeInside(d) => BrokeInside(d)'
<1>0. /\ TriedInOrder /\ Len(tried) \in Nat /\ DOMAIN tried = 1..Len(tried) /\ pipe.at \in Nat /\ tried \in Seq(Tries)
      /\ pipe.state = "running"
  BY PipeIs DEF PipeInv, AtPipeStep
<1>1. PICK e : e = [at |-> pipe.at, result |-> r]
  OBVIOUS
<1>2. PICK s : s = tried
  OBVIOUS
<1>3. e \in Tries /\ e.at = pipe.at /\ e.result = r
  BY <1>0, <1>1 DEF Tries
<1>4. /\ Append(s, e) \in Seq(Tries) /\ Len(Append(s, e)) = Len(s) + 1 /\ DOMAIN Append(s, e) = 1..(Len(s) + 1)
      /\ Append(s, e)[Len(s) + 1] = e /\ \A i \in 1..Len(s) : Append(s, e)[i] = s[i]
  <2>1. PICK u : u = Append(s, e)
    OBVIOUS
  <2>2. u \in Seq(Tries) /\ Len(u) = Len(s) + 1 /\ u[Len(s) + 1] = e /\ \A i \in 1..Len(s) : u[i] = s[i]
    BY <1>0, <1>2, <1>3, <2>1, AppendProperties
  <2>3. QED BY <2>1, <2>2
<1>5. /\ tried' \in Seq(Tries) /\ Len(tried') = Len(tried) + 1 /\ DOMAIN tried' = 1..(Len(tried) + 1)
      /\ tried'[Len(tried) + 1] = e /\ \A i \in DOMAIN tried : i \in DOMAIN tried' /\ tried'[i] = tried[i]
  BY <1>0, <1>1, <1>2, <1>4
<1>6. ASSUME NEW i \in DOMAIN tried' PROVE (i \in DOMAIN tried /\ i < Len(tried) + 1) \/ i = Len(tried) + 1
  BY <1>0, <1>5
<1>7. \A d : WasTried(d)' <=> (WasTried(d) \/ d = pipe.at)
  <2>1. ASSUME NEW d, WasTried(d)' PROVE WasTried(d) \/ d = pipe.at
    BY <1>3, <1>5, <1>6, <2>1 DEF WasTried
  <2>2. ASSUME NEW d, WasTried(d) PROVE WasTried(d)'
    BY <1>5, <2>2 DEF WasTried
  <2>3. ASSUME NEW d, d = pipe.at PROVE WasTried(d)'
    <3>1. Len(tried) + 1 \in DOMAIN tried' /\ tried'[Len(tried) + 1].at = d
      BY <1>0, <1>3, <1>5, <2>3
    <3>2. QED BY <3>1 DEF WasTried
  <2>4. QED BY <2>1, <2>2, <2>3
<1>8. \A d : BrokeInside(d) => BrokeInside(d)'
  BY <1>5 DEF BrokeInside
<1>9. TriedInOrder'
  <2>1. ASSUME NEW i \in DOMAIN tried'
        PROVE  tried'[i].at <= pipe'.at /\ (pipe'.state = "running" => tried'[i].at < pipe'.at)
    BY <1>0, <1>3, <1>5, <1>6, PipeIs DEF TriedInOrder
  <2>2. ASSUME NEW i \in DOMAIN tried', NEW j \in DOMAIN tried', i < j PROVE tried'[i].at < tried'[j].at
    <3>1. i \in DOMAIN tried
      BY <1>0, <1>5, <2>2
    <3>2. CASE j \in DOMAIN tried
      BY <1>0, <1>5, <2>2, <3>1, <3>2 DEF TriedInOrder
    <3>3. CASE j = Len(tried) + 1
      BY <1>0, <1>3, <1>5, <3>1, <3>3 DEF TriedInOrder
    <3>4. QED BY <1>6, <3>2, <3>3
  <2>3. \A d \in pipe'.executed : WasTried(d)'
    BY <1>0, <1>7 DEF TriedInOrder
  <2>4. ASSUME NEW i \in DOMAIN tried', NEW d \in pipe'.steps[tried'[i].at].deps PROVE WasTried(d)' /\ d < tried'[i].at
    <3>1. CASE i \in DOMAIN tried
      BY <1>0, <1>5, <1>7, <2>4, <3>1 DEF TriedInOrder
    <3>2. CASE i = Len(tried) + 1
      <4>1. d \in PipeStep.deps /\ tried'[i].at = pipe.at
        BY <1>3, <1>5, <2>4, <3>2 DEF PipeStep
      <4>2. d \in pipe.executed
        BY <4>1
      <4>3. QED BY <1>0, <1>7, <4>1, <4>2, PipeIs DEF TriedInOrder
    <3>3. QED BY <1>6, <3>1, <3>2
  <2>5. QED BY <1>5, <2>1, <2>2, <2>3, <2>4 DEF TriedInOrder
<1>10. QED BY <1>1, <1>5, <1>7, <1>8, <1>9

LEMMA PipeSteps == ASSUME PipelineConstants, PipeInv, [PipeNext]_pipeVars PROVE PipeInv'
<1>0. /\ PipeTypeOK /\ TriedInOrder /\ StrictSoFar /\ SoftSoFar
      /\ Len(pipe.steps) \in Nat /\ DOMAIN pipe.steps = 1..Len(pipe.steps) /\ pipe.at \in Nat
      /\ Len(tried) \in Nat /\ DOMAIN tried = 1..Len(tried)
  BY PipeIs DEF PipeInv
<1>1. CASE UNCHANGED pipeVars
  <2>1. pipe' = pipe /\ tried' = tried
    BY <1>1 DEF pipeVars
  <2>2. PipeTypeOK'
    BY <1>0, <2>1 DEF PipeTypeOK
  <2>3. TriedInOrder'
    BY <1>0, <2>1 DEF TriedInOrder, WasTried
  <2>4. StrictSoFar'
    BY <1>0, <2>1 DEF StrictSoFar, Allowed, MayBeMissing
  <2>5. SoftSoFar'
    BY <1>0, <2>1 DEF SoftSoFar, NothingAborts, MayBeMissing, Excused, BrokeInside, WasTried
  <2>6. QED BY <2>2, <2>3, <2>4, <2>5 DEF PipeInv
<1>2. ASSUME NEW todo \in Pipelines, NEW soft \in BOOLEAN, NEW missing \in {"skip", "error"},
             RunPipeline(todo, soft, missing)
      PROVE  PipeInv'
  <2>1. /\ pipe' = [steps |-> todo, soft |-> soft, missing |-> missing, at |-> 1, executed |-> {}, state |-> "running"]
        /\ tried' = <<>>
    BY <1>2 DEF RunPipeline
  <2>2. tried' \in Seq(Tries) /\ DOMAIN tried' = {} /\ Len(tried') = 0
    BY <2>1
  <2>3. todo \in Seq(PipelineStep) /\ Len(todo) \in Nat /\ DOMAIN todo = 1..Len(todo)
    BY DEF PipelineConstants
  <2>4. PipeTypeOK'
    BY <2>1, <2>2, <2>3 DEF PipeTypeOK
  <2>5. TriedInOrder'
    BY <2>1, <2>2 DEF TriedInOrder
  <2>6. StrictSoFar' /\ SoftSoFar'
    BY <2>1, <2>2, <2>3 DEF StrictSoFar, SoftSoFar
  <2>7. QED BY <2>4, <2>5, <2>6 DEF PipeInv
<1>3. CASE PipeDependsOn
  <2>1. /\ pipe.state = "running" /\ pipe.at \in DOMAIN pipe.steps /\ ~(PipeStep.deps \subseteq pipe.executed)
        /\ pipe' = IF pipe.soft THEN [pipe EXCEPT !.at = @ + 1] ELSE [pipe EXCEPT !.state = "aborted"]
        /\ tried' = tried
    BY <1>3 DEF PipeDependsOn, AtPipeStep
  <2>2. /\ pipe'.steps = pipe.steps /\ pipe'.soft = pipe.soft /\ pipe'.missing = pipe.missing /\ pipe'.executed = pipe.executed
        /\ pipe'.at = IF pipe.soft THEN pipe.at + 1 ELSE pipe.at
        /\ pipe'.state = IF pipe.soft THEN "running" ELSE "aborted"
    BY <1>0, <2>1 DEF PipeTypeOK
  <2>3. PipeTypeOK'
    BY <1>0, <2>1, <2>2 DEF PipeTypeOK
  <2>4. TriedInOrder'
    <3>1. \A i \in DOMAIN tried : tried[i].at <= pipe'.at /\ (pipe'.state = "running" => tried[i].at < pipe'.at)
      BY <1>0, <2>1, <2>2, PipeIs DEF TriedInOrder
    <3>2. QED BY <1>0, <2>1, <2>2, <3>1 DEF TriedInOrder, WasTried
  <2>5. StrictSoFar'
    BY <1>0, <2>1, <2>2 DEF StrictSoFar, Allowed, MayBeMissing
  <2>6. SoftSoFar'
    <3>1. SUFFICES ASSUME pipe.soft, NothingAborts
                   PROVE  /\ \A i \in DOMAIN tried : tried[i].at \in pipe.executed \/ tried[i].result = "internal"
                          /\ \A n \in DOMAIN pipe.steps : n < pipe.at + 1 => WasTried(n) \/ Excused(n)
      BY <2>1, <2>2 DEF SoftSoFar, NothingAborts, MayBeMissing, Excused, BrokeInside, WasTried
    <3>2. \A i \in DOMAIN tried : tried[i].at \in pipe.executed \/ tried[i].result = "internal"
      BY <1>0, <2>1, <3>1 DEF SoftSoFar
    <3>3. Excused(pipe.at)
      <4>1. PICK d \in PipeStep.deps : d \notin pipe.executed
        BY <2>1
      <4>2. ASSUME WasTried(d) PROVE BrokeInside(d)
        BY <3>2, <4>1, <4>2 DEF WasTried, BrokeInside
      <4>3. QED BY <4>1, <4>2 DEF Excused, PipeStep
    <3>4. \A n \in DOMAIN pipe.steps : n < pipe.at + 1 => n < pipe.at \/ n = pipe.at
      BY <1>0
    <3>5. QED BY <1>0, <3>1, <3>2, <3>3, <3>4 DEF SoftSoFar
  <2>7. QED BY <2>3, <2>4, <2>5, <2>6 DEF PipeInv
<1>4. ASSUME NEW r \in Results, NEW stop \in BOOLEAN, AtPipeStep, PipeStep.deps \subseteq pipe.executed,
             tried' = Append(tried, [at |-> pipe.at, result |-> r]),
             IF stop THEN /\ pipe' = [pipe EXCEPT !.state = IF r = "internal" THEN "ended" ELSE "aborted"]
                          /\ pipe.soft => ~NothingAborts
             ELSE /\ pipe' = IF r = "internal" THEN [pipe EXCEPT !.at = @ + 1]
                             ELSE [pipe EXCEPT !.at = @ + 1, !.executed = @ \cup {pipe.at}]
                  /\ pipe.soft \/ r = "answered" \/ (r = "raised" /\ PipeStep.onError = "continue")
                       \/ (r = "missing" /\ MayBeMissing(PipeStep))
      PROVE  PipeInv'
  <2>1. /\ pipe'.steps = pipe.steps /\ pipe'.soft = pipe.soft /\ pipe'.missing = pipe.missing
        /\ IF stop THEN pipe'.at = pipe.at /\ pipe'.state # "running" /\ pipe'.executed = pipe.executed
           ELSE /\ pipe'.at = pipe.at + 1 /\ pipe'.state = "running"
                /\ pipe'.executed = IF r = "internal" THEN pipe.executed ELSE pipe.executed \cup {pipe.at}
        /\ pipe.state = "running" /\ pipe.at \in DOMAIN pipe.steps
    BY <1>0, <1>4 DEF PipeTypeOK, AtPipeStep
  <2>2. PipeTypeOK'
    <3>1. \A i \in DOMAIN tried' : tried'[i].at \in DOMAIN pipe.steps
      <4>1. /\ DOMAIN tried' = 1..(Len(tried) + 1) /\ \A i \in DOMAIN tried : tried'[i] = tried[i]
            /\ tried'[Len(tried) + 1] = [at |-> pipe.at, result |-> r]
        BY <1>4, <2>1, OneMoreTried
      <4>2. \A i \in 1..(Len(tried) + 1) : i \in DOMAIN tried \/ i = Len(tried) + 1
        BY <1>0
      <4>3. QED BY <1>0, <2>1, <4>1, <4>2 DEF PipeTypeOK
    <3>2. /\ pipe' \in [steps : Pipelines \cup {<<>>}, soft : BOOLEAN, missing : {"skip", "error"}, at : Nat,
                         executed : SUBSET Nat, state : {"ready", "running", "aborted", "ended"}]
      <4>1. pipe.executed \cup {pipe.at} \in SUBSET Nat /\ pipe.at + 1 \in Nat
        BY <1>0 DEF PipeTypeOK
      <4>2. CASE stop
        BY <1>0, <1>4, <4>2 DEF PipeTypeOK
      <4>3. CASE ~stop /\ r = "internal"
        BY <1>0, <1>4, <4>1, <4>3 DEF PipeTypeOK
      <4>4. CASE ~stop /\ r # "internal"
        BY <1>0, <1>4, <4>1, <4>4 DEF PipeTypeOK
      <4>5. QED BY <4>2, <4>3, <4>4
    <3>3. pipe'.at \in 1..(Len(pipe.steps) + 1) /\ pipe'.executed \subseteq 1..(pipe'.at - 1)
      BY <1>0, <2>1 DEF PipeTypeOK
    <3>4. QED BY <2>1, <3>1, <3>2, <3>3 DEF PipeTypeOK
  <2>3. TriedInOrder'
    BY <1>4, <2>1, OneMoreTried
  <2> DEFINE l == Len(tried) + 1
  <2>4. /\ DOMAIN tried' = 1..l /\ Len(tried') = l /\ tried'[l].at = pipe.at /\ tried'[l].result = r
        /\ \A i \in DOMAIN tried : i \in DOMAIN tried' /\ tried'[i] = tried[i]
        /\ \A d : WasTried(d)' <=> (WasTried(d) \/ d = pipe.at)
        /\ \A d : BrokeInside(d) => BrokeInside(d)'
    BY <1>4, <2>1, OneMoreTried
  <2>5. \A i \in DOMAIN tried' : (i \in DOMAIN tried /\ i < l) \/ i = l
    BY <1>0, <2>4
  <2>6. l \in Nat /\ \A i \in DOMAIN tried : Allowed(i)' <=> Allowed(i)
    BY <1>0, <2>1, <2>4 DEF Allowed, MayBeMissing
  <2>7. StrictSoFar'
    <3>1. SUFFICES ASSUME ~pipe.soft
                   PROVE  /\ \A i \in DOMAIN tried' : tried'[i].at = i /\ (i < l => Allowed(i)')
                          /\ ~stop => l = pipe'.at - 1 /\ \A i \in DOMAIN tried' : Allowed(i)'
      BY <2>1, <2>4 DEF StrictSoFar
    <3>2. Len(tried) = pipe.at - 1 /\ \A i \in DOMAIN tried : tried[i].at = i /\ Allowed(i)
      BY <1>0, <2>1, <3>1 DEF StrictSoFar
    <3>3. l = pipe.at
      BY <1>0, <3>2
    <3>4. \A i \in DOMAIN tried' : tried'[i].at = i /\ (i < l => Allowed(i)')
      <4>1. ~(l < l)
        BY <2>6
      <4>2. QED BY <2>4, <2>5, <2>6, <3>2, <3>3, <4>1
    <3>5. ASSUME ~stop PROVE l = pipe'.at - 1 /\ \A i \in DOMAIN tried' : Allowed(i)'
      <4>1. r = "answered" \/ (r = "raised" /\ PipeStep.onError = "continue") \/ (r = "missing" /\ MayBeMissing(PipeStep))
        BY <1>4, <3>1, <3>5
      <4>2. pipe'.steps[pipe.at] = PipeStep /\ pipe'.missing = pipe.missing
        BY <2>1 DEF PipeStep
      <4>3. ASSUME NEW i \in DOMAIN tried', i = l PROVE Allowed(i)'
        BY <2>4, <4>1, <4>2, <4>3 DEF Allowed, MayBeMissing
      <4>4. QED BY <1>0, <2>1, <2>4, <2>5, <2>6, <3>2, <3>3, <3>5, <4>3
    <3>6. QED BY <3>4, <3>5
  <2>8. SoftSoFar'
    <3>1. SUFFICES ASSUME pipe.soft, NothingAborts, ~stop
                   PROVE  /\ \A i \in DOMAIN tried' : tried'[i].at \in pipe'.executed \/ tried'[i].result = "internal"
                          /\ \A n \in DOMAIN pipe.steps : n < pipe.at + 1 => WasTried(n)' \/ Excused(n)'
      BY <1>4, <2>1 DEF SoftSoFar, NothingAborts, MayBeMissing
    <3>2. \A i \in DOMAIN tried' : tried'[i].at \in pipe'.executed \/ tried'[i].result = "internal"
      BY <1>0, <2>1, <2>4, <2>5, <3>1 DEF SoftSoFar
    <3>3. ASSUME NEW n \in DOMAIN pipe.steps, n < pipe.at, Excused(n) PROVE Excused(n)'
      <4>1. PICK d \in pipe.steps[n].deps : ~WasTried(d) \/ d >= n \/ BrokeInside(d)
        BY <3>3 DEF Excused
      <4>2. CASE d = pipe.at
        BY <1>0, <2>1, <3>3, <4>1, <4>2 DEF Excused
      <4>3. CASE d # pipe.at
        BY <2>1, <2>4, <4>1, <4>3 DEF Excused
      <4>4. QED BY <4>2, <4>3
    <3>4. \A n \in DOMAIN pipe.steps : n < pipe.at + 1 => n < pipe.at \/ n = pipe.at
      BY <1>0
    <3>5. QED BY <1>0, <2>4, <3>1, <3>2, <3>3, <3>4 DEF SoftSoFar
  <2>9. QED BY <2>2, <2>3, <2>7, <2>8 DEF PipeInv
<1>5. CASE ExecuteFlowStep
  <2>1. PICK e \in Ends(PipeStep) :
          /\ tried' = Append(tried, [at |-> pipe.at, result |-> e[1]])
          /\ pipe' = IF e[2] THEN [pipe EXCEPT !.state = "aborted"]
                     ELSE [pipe EXCEPT !.at = @ + 1, !.executed = @ \cup {pipe.at}]
    BY <1>5 DEF ExecuteFlowStep
  <2>2. AtPipeStep /\ PipeStep.deps \subseteq pipe.executed /\ PipeStep \in PipelineStep /\ pipe.missing \in {"skip", "error"}
    BY <1>0, <1>5, PipeIs DEF ExecuteFlowStep, AtPipeStep, PipeStep, PipeTypeOK
  <2>3. /\ PipeStep.kind \in {"handler", "function", "absent"} /\ PipeStep.onError \in {"none", "abort", "continue"}
        /\ PipeStep.optional \in BOOLEAN
    BY <2>2 DEF PipelineStep
  <2>4. /\ e[1] \in Results \ {"internal"} /\ e[2] \in BOOLEAN
        /\ e[1] = "answered" => ~e[2]
        /\ e[1] = "raised" => e[2] = Aborts(PipeStep)
        /\ e[1] = "refused" => e[2] = ~pipe.soft
        /\ e[1] = "missing" => e[2] = (pipe.missing = "error" /\ ~PipeStep.optional) /\ PipeStep.kind = "absent"
    <3>1. pipe.soft \in BOOLEAN /\ Aborts(PipeStep) \in BOOLEAN
      BY <1>0 DEF PipeTypeOK, Aborts
    <3>2. CASE PipeStep.kind = "function"
      <4>1. e = <<"answered", FALSE>> \/ e = <<"raised", Aborts(PipeStep)>> \/ e = <<"refused", ~pipe.soft>>
        BY <2>1, <3>2 DEF Ends, FunctionEnds
      <4>2. CASE e = <<"answered", FALSE>>
        <5>1. e[1] = "answered" /\ e[2] = (FALSE)
          BY <4>2
        <5>2. QED BY <3>1, <3>2, <5>1 DEF Results
      <4>3. CASE e = <<"raised", Aborts(PipeStep)>>
        <5>1. e[1] = "raised" /\ e[2] = (Aborts(PipeStep))
          BY <4>3
        <5>2. QED BY <3>1, <3>2, <5>1 DEF Results
      <4>4. CASE e = <<"refused", ~pipe.soft>>
        <5>1. e[1] = "refused" /\ e[2] = (~pipe.soft)
          BY <4>4
        <5>2. QED BY <3>1, <3>2, <5>1 DEF Results
      <4>5. QED BY <4>1, <4>2, <4>3, <4>4
    <3>3. CASE PipeStep.kind = "handler"
      <4>1. e = <<"answered", FALSE>> \/ e = <<"raised", Aborts(PipeStep)>>
        BY <2>1, <3>3 DEF Ends, HandlerEnds
      <4>2. CASE e = <<"answered", FALSE>>
        <5>1. e[1] = "answered" /\ e[2] = (FALSE)
          BY <4>2
        <5>2. QED BY <3>1, <3>3, <5>1 DEF Results
      <4>3. CASE e = <<"raised", Aborts(PipeStep)>>
        <5>1. e[1] = "raised" /\ e[2] = (Aborts(PipeStep))
          BY <4>3
        <5>2. QED BY <3>1, <3>3, <5>1 DEF Results
      <4>4. QED BY <4>1, <4>2, <4>3
    <3>4. CASE PipeStep.kind = "absent"
      <4>1. e = <<"missing", pipe.missing = "error" /\ ~PipeStep.optional>>
        BY <2>1, <3>4 DEF Ends, MissingEnds
      <4>2. CASE e = <<"missing", pipe.missing = "error" /\ ~PipeStep.optional>>
        <5>1. e[1] = "missing" /\ e[2] = (pipe.missing = "error" /\ ~PipeStep.optional)
          BY <4>2
        <5>2. QED BY <3>1, <3>4, <5>1 DEF Results
      <4>3. QED BY <4>1, <4>2
    <3>5. QED BY <2>3, <3>2, <3>3, <3>4
  <2>5. CASE e[2]
    <3>1. pipe.soft => ~NothingAborts
      <4>1. SUFFICES ASSUME pipe.soft, NothingAborts PROVE FALSE
        OBVIOUS
      <4>2. PipeStep.onError # "abort" /\ (PipeStep.kind = "absent" => MayBeMissing(PipeStep))
        BY <2>2, <4>1 DEF NothingAborts, AtPipeStep, PipeStep
      <4>3. e[1] # "raised" /\ e[1] # "answered" /\ e[1] # "refused"
        BY <2>4, <2>5, <4>1, <4>2 DEF Aborts
      <4>4. e[1] = "missing"
        BY <2>4, <4>3 DEF Results
      <4>5. QED BY <2>4, <2>5, <4>2, <4>4 DEF MayBeMissing
    <3>2. QED BY <1>4, <2>1, <2>2, <2>4, <2>5, <3>1
  <2>6. CASE ~e[2]
    <3>1. pipe.soft \/ e[1] = "answered" \/ (e[1] = "raised" /\ PipeStep.onError = "continue")
                       \/ (e[1] = "missing" /\ MayBeMissing(PipeStep))
      <4>1. SUFFICES ASSUME ~pipe.soft, e[1] # "answered"
                     PROVE  (e[1] = "raised" /\ PipeStep.onError = "continue") \/ (e[1] = "missing" /\ MayBeMissing(PipeStep))
        OBVIOUS
      <4>2. e[1] # "refused"
        BY <2>4, <2>6, <4>1
      <4>3. e[1] = "raised" => PipeStep.onError = "continue"
        BY <2>3, <2>4, <2>6, <4>1 DEF Aborts
      <4>4. e[1] = "missing" => MayBeMissing(PipeStep)
        BY <2>2, <2>3, <2>4, <2>6 DEF MayBeMissing
      <4>5. QED BY <2>4, <4>1, <4>2, <4>3, <4>4 DEF Results
    <3>2. QED BY <1>4, <2>1, <2>2, <2>4, <2>6, <3>1
  <2>7. QED BY <2>4, <2>5, <2>6
<1>6. CASE InternalError
  <2>1. /\ AtPipeStep /\ PipeStep.deps \subseteq pipe.executed
        /\ tried' = Append(tried, [at |-> pipe.at, result |-> "internal"])
        /\ pipe' = IF pipe.soft THEN [pipe EXCEPT !.at = @ + 1] ELSE [pipe EXCEPT !.state = "ended"]
    BY <1>6 DEF InternalError
  <2>2. "internal" \in Results
    BY DEF Results
  <2>3. QED BY <1>0, <1>4, <2>1, <2>2 DEF PipeTypeOK
<1>7. CASE EndPipeline
  <2>1. /\ pipe.state = "running" /\ pipe.at \notin DOMAIN pipe.steps /\ tried' = tried
        /\ pipe' = [pipe EXCEPT !.state = "ended"]
    BY <1>7 DEF EndPipeline
  <2>2. /\ pipe'.steps = pipe.steps /\ pipe'.soft = pipe.soft /\ pipe'.missing = pipe.missing /\ pipe'.executed = pipe.executed
        /\ pipe'.at = pipe.at /\ pipe'.state = "ended"
    BY <1>0, <2>1 DEF PipeTypeOK
  <2>3. PipeTypeOK'
    BY <1>0, <2>1, <2>2 DEF PipeTypeOK
  <2>4. TriedInOrder'
    BY <1>0, <2>1, <2>2 DEF TriedInOrder, WasTried
  <2>5. StrictSoFar'
    BY <1>0, <2>1, <2>2 DEF StrictSoFar, Allowed, MayBeMissing
  <2>6. SoftSoFar'
    BY <1>0, <2>1, <2>2 DEF SoftSoFar, NothingAborts, MayBeMissing, Excused, BrokeInside, WasTried
  <2>7. QED BY <2>3, <2>4, <2>5, <2>6 DEF PipeInv
<1>8. QED BY <1>1, <1>2, <1>3, <1>5, <1>6, <1>7 DEF PipeNext

LEMMA PipeMeans == ASSUME PipelineConstants PROVE PipeInv => PipelinesOrdered
<1>1. SUFFICES ASSUME PipeInv PROVE PipelinesOrdered
  OBVIOUS
<1>2. ASSUME pipe.soft, pipe.state \in {"aborted", "ended"}, NothingAborts, NEW n \in DOMAIN pipe.steps
      PROVE  \/ WasTried(n)
             \/ \E d \in pipe.steps[n].deps : \/ ~WasTried(d) \/ d >= n
                                             \/ \E i \in DOMAIN tried : tried[i] = [at |-> d, result |-> "internal"]
  <2>1. n < pipe.at
    BY <1>1, <1>2, PipeIs DEF PipeInv, SoftSoFar
  <2>2. \A d : BrokeInside(d) => \E i \in DOMAIN tried : tried[i] = [at |-> d, result |-> "internal"]
    BY <1>1, PipeIs DEF BrokeInside, Tries
  <2>3. QED BY <1>1, <1>2, <2>1, <2>2 DEF PipeInv, SoftSoFar, Excused
<1>3. QED BY <1>1, <1>2 DEF PipeInv, TriedInOrder, StrictSoFar, PipelinesOrdered

\* PipelinesOrdered (kernel_flow_execution.py): a pipeline tries its steps in their
\* order, each after all it depends on, and passes over only what it may, for any
\* pipelines and whatever their steps answer.
THEOREM PipelinesAreOrdered == ASSUME PipelineConstants PROVE PipeSpec => []PipelinesOrdered
BY PipeMeans, PipeBegins, PipeSteps, PTL DEF PipeSpec

-----------------------------------------------------------------------------
(***************************************************************************)
(* The run.  Its steps are steps of the component in focus, so what is     *)
(* proved of each component holds of the run.                              *)
(***************************************************************************)
LEMMA SortTyped == ASSUME SortInv PROVE SortTypeOK
<1>1. topo \in Seq(StepIds) /\ ToSet(steps) = PlacedBefore(at)
  BY DEF SortInv, TopoUpTo, StepsUpTo
<1>2. PICK a : a = topo
  OBVIOUS
<1>3. \A i \in DOMAIN a : a[i] \in StepIds
  BY <1>1, <1>2
<1>4. ToSet(topo) \subseteq StepIds /\ ToSet(steps) \subseteq Placements
  BY <1>1, <1>2, <1>3 DEF ToSet, PlacedBefore
<1>5. QED BY <1>4 DEF SortInv, SortTypeOK, ParsedFlows

LEMMA VocabTyped == ASSUME VocabInv PROVE VocabTypeOK
BY DEF VocabInv, GroupInv, GroupsMatch, LoaderInv, VocabTypeOK, VocabGroup, NoGroup

LEMMA RegistryTyped == ASSUME RegistryInv PROVE RegistryTypeOK
<1>1. RegistryShape
  BY DEF RegistryInv
<1>2. ASSUME NEW t \in Types PROVE ToSet(typeIndex[t]) \subseteq EntryPairs
  <2>1. PICK s : s = typeIndex[t]
    OBVIOUS
  <2>2. s \in Seq(EntryPairs)
    BY <1>1, <2>1 DEF RegistryShape
  <2>3. \A i \in DOMAIN s : s[i] \in EntryPairs
    BY <2>2
  <2>4. QED BY <2>1, <2>3 DEF ToSet
<1>3. QED BY <1>1, <1>2 DEF RegistryShape, RegistryTypeOK, EntryPairs

LEMMA OrderTyped == ASSUME OrderInv PROVE OrderTypeOK
<1>1. PICK a, b, c : a = heaped /\ b = queued /\ c = queue
  OBVIOUS
<1>2. a \in Seq(OrderPacks) /\ b \in Seq(OrderPacks) /\ c \in Seq(OrderPacks)
  BY <1>1 DEF OrderInv
<1>3. /\ \A i \in DOMAIN a : a[i] \in OrderPacks
      /\ \A i \in DOMAIN b : b[i] \in OrderPacks
      /\ \A i \in DOMAIN c : c[i] \in OrderPacks
  BY <1>2
<1>4. ToSet(a) \subseteq OrderPacks /\ ToSet(b) \subseteq OrderPacks /\ ToSet(c) \subseteq OrderPacks
  BY <1>3 DEF ToSet
<1>5. QED BY <1>1, <1>4 DEF OrderInv, OrderTypeOK

LEMMA RuntimeStepAlone ==
  /\ [Next]_vars => [FlowNext]_flowVars /\ [PipeNext]_pipeVars /\ [ExecNext]_execVars
  /\ [Next]_vars => [CapNext]_capVars /\ [SupervisorNext]_supervisorVars
  /\ [Next]_vars => [LoadNext]_loadVars /\ [SortNext]_sortVars /\ [ModNext]_modVars /\ [ComposerNext]_composerVars
  /\ [Next]_vars => [ImpNext]_impVars /\ [FunctionNext]_<<vocabVars, functionVars>>
  /\ [Next]_vars => [RegistryNext]_registryVars /\ [OrderNext]_orderVars /\ [AddonNext]_addonVars
BY Zenon DEF Next, vars, InRuns, InBuilds, InPacks, runVars, buildVars, packVars

\* A step of the functions is one of the vocabularies or leaves them.
LEMMA VocabStepAlone == [FunctionNext]_<<vocabVars, functionVars>> => [VocabNext]_vocabVars
BY Zenon DEF FunctionNext, VocabStep, ClearFunctions, RegisterFunction, UnregisterPack

LEMMA RuntimeBegins ==
  Init => /\ FlowInit /\ PipeInit /\ ExecInit /\ CapInit /\ SupervisorInit
          /\ LoadInit /\ SortInit /\ ModInit /\ ComposerInit
          /\ ImpInit /\ VocabInit /\ FunctionInit /\ RegistryInit /\ OrderInit /\ AddonInit
BY DEF Init

\* The invariant of each component is one of the run.
LEMMA RunsOfFlows == Spec => []FlowInv /\ []PipeInv /\ []ExecInv /\ []CapInv /\ []SupervisorInv
<1>1. FlowConstants /\ PipelineConstants /\ CapabilityConstants
  BY Instances
<1>2. Spec => []FlowInv
  BY <1>1, RuntimeBegins, RuntimeStepAlone, FlowInvInit, FlowInvNext, PTL DEF Spec
<1>3. Spec => []PipeInv
  BY <1>1, RuntimeBegins, RuntimeStepAlone, PipeBegins, PipeSteps, PTL DEF Spec
<1>4. Spec => []ExecInv
  BY RuntimeBegins, RuntimeStepAlone, ExecInvInit, ExecInvNext, PTL DEF Spec
<1>5. Spec => []CapInv
  BY <1>1, RuntimeBegins, RuntimeStepAlone, CapInvInit, CapInvNext, PTL DEF Spec
<1>6. Spec => []SupervisorInv
  BY RuntimeBegins, RuntimeStepAlone, SupervisorBegins, SupervisorSteps, PTL DEF Spec
<1>7. QED BY <1>2, <1>3, <1>4, <1>5, <1>6, PTL

LEMMA RunsOfBuilds == Spec => []LoadInv /\ []SortInv /\ []ModInv /\ []ComposerInv
<1>1. LoadConstants /\ SortConstants /\ ModConstants /\ ComposerConstants
  BY Instances
<1>2. Spec => []LoadInv
  BY <1>1, RuntimeBegins, RuntimeStepAlone, LoadBegins, LoadSteps, PTL DEF Spec
<1>3. Spec => []SortInv
  BY <1>1, RuntimeBegins, RuntimeStepAlone, SortBegins, SortSteps, PTL DEF Spec
<1>4. Spec => []ModInv
  BY <1>1, RuntimeBegins, RuntimeStepAlone, ModBegins, ModSteps, PTL DEF Spec
<1>5. Spec => []ComposerInv
  BY <1>1, RuntimeBegins, RuntimeStepAlone, ComposerBegins, ComposerSteps, PTL DEF Spec
<1>6. QED BY <1>2, <1>3, <1>4, <1>5, PTL

LEMMA RunsOfPacks ==
  Spec => []ImpInv /\ []VocabInv /\ []FunctionInv /\ []RegistryInv /\ []OrderInv /\ []AddonInv
<1>1. ImpConstants /\ VocabConstants /\ FunctionConstants /\ RegistryConstants /\ OrderConstants /\ AddonConstants
  BY Instances
<1>2. Spec => []ImpInv
  BY <1>1, RuntimeBegins, RuntimeStepAlone, ImpBegins, ImpSteps, PTL DEF Spec
<1>3. Spec => []VocabInv
  BY <1>1, RuntimeBegins, RuntimeStepAlone, VocabStepAlone, VocabBegins, VocabSteps, PTL DEF Spec
<1>4. Spec => []FunctionInv
  BY <1>1, RuntimeBegins, RuntimeStepAlone, FunctionBegins, FunctionSteps, PTL DEF Spec
<1>5. Spec => []RegistryInv
  BY <1>1, RuntimeBegins, RuntimeStepAlone, RegistryBegins, RegistrySteps, PTL DEF Spec
<1>6. Spec => []OrderInv
  BY <1>1, RuntimeBegins, RuntimeStepAlone, OrderBegins, OrderSteps, PTL DEF Spec
<1>7. Spec => []AddonInv
  BY <1>1, RuntimeBegins, RuntimeStepAlone, AddonBegins, AddonSteps, PTL DEF Spec
<1>8. QED BY <1>2, <1>3, <1>4, <1>5, <1>6, <1>7, PTL

\* RegistriesSound (vocab_registry.py, function_registry.py,
\* backend_core/ecosystem/registry.py): whatever packs are loaded, registered and
\* set up, the registries answer from what is there, and agree.
THEOREM RegistriesAreSound == Spec => []RegistriesSound
<1>1. VocabConstants /\ FunctionConstants /\ RegistryConstants /\ OrderConstants
  BY Instances
<1>2. VocabInv /\ FunctionInv /\ RegistryInv /\ OrderInv => RegistriesSound
  BY <1>1, VocabMeans, RegistryMeans, OrderMeans DEF FunctionInv, RegistriesSound
<1>3. QED BY <1>2, RunsOfPacks, PTL

\* PacksKept (pack_applier.py, active_ecosystem.py, json_patch.py): importing packs
\* and choosing and patching their components loses no content and no choice,
\* for any packs, addons and faults.
THEOREM PacksAreKept == Spec => []PacksKept
<1>1. ImpInv /\ AddonInv => PacksKept
  BY ImportMeans DEF AddonInv, ChoicesHold, PacksKept
<1>2. QED BY <1>1, RunsOfPacks, PTL

\* FlowsBuilt (flow_loader.py, flow_modifier.py, flow_composer.py,
\* kernel_flow_execution.py): a flow has the steps that its files and modifiers
\* declare, in their order, those of a phase once each time it is listed, and a
\* pipeline runs its own in theirs.
THEOREM FlowsAreBuilt == Spec => []FlowsBuilt
<1>1. LoadConstants /\ SortConstants /\ ModConstants /\ ComposerConstants /\ PipelineConstants
  BY Instances
<1>2. PipeInv /\ LoadInv /\ SortInv /\ ModInv /\ ComposerInv => FlowsBuilt
  BY <1>1, PipeMeans, LoadMeans, SortMeans, ModMeans, ComposerMeans DEF FlowsBuilt
<1>3. QED BY <1>2, RunsOfFlows, RunsOfBuilds, PTL

\* The state of each component has the shape that its module declares.
THEOREM RuntimeTyped == Spec => []CoreTypeOK
<1>1. ModConstants
  BY Instances
<1>2. FlowInv /\ PipeInv /\ ExecInv /\ CapInv /\ SupervisorInv
        => CapTypeOK /\ FlowTypeOK /\ PipeTypeOK /\ ExecTypeOK /\ SupervisorTypeOK
  BY DEF FlowInv, PipeInv, ExecInv, CapInv, SupervisorInv
<1>3. LoadInv /\ SortInv /\ ModInv /\ ComposerInv => LoadTypeOK /\ SortTypeOK /\ ModTypeOK /\ ComposerTypeOK
  BY <1>1, SortTyped, ModMeans DEF LoadInv, ComposerInv
<1>4. ImpInv /\ VocabInv /\ FunctionInv /\ RegistryInv /\ OrderInv /\ AddonInv
        => ImpTypeOK /\ VocabTypeOK /\ FunctionTypeOK /\ RegistryTypeOK /\ OrderTypeOK /\ AddonTypeOK
  BY VocabTyped, RegistryTyped, OrderTyped DEF ImpInv, FunctionInv, AddonInv
<1>5. FlowInv /\ PipeInv /\ ExecInv /\ CapInv /\ SupervisorInv /\ LoadInv /\ SortInv /\ ModInv /\ ComposerInv
        /\ ImpInv /\ VocabInv /\ FunctionInv /\ RegistryInv /\ OrderInv /\ AddonInv => CoreTypeOK
  BY <1>2, <1>3, <1>4 DEF CoreTypeOK
<1>6. QED BY <1>5, RunsOfFlows, RunsOfBuilds, RunsOfPacks, PTL
=============================================================================
