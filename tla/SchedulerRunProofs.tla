------------------------- MODULE SchedulerRunProofs -------------------------
(***************************************************************************)
(* For every scheduler built on SchedulerRun: where the steps of start(),  *)
(* stop(), schedule(), tickle() and run() take a thread, that they         *)
(* preserve CoInv, and what CoInv says about the wake-ups.  The steps that *)
(* move no task and those of schedule() come first, then the ones that     *)
(* take and use the token that will resume a coroutine: the scan of the    *)
(* list and resume() in run(), and the steps of a running coroutine.       *)
(***************************************************************************)
EXTENDS SchedulerInv, TLAPS

LEMMA RunnerFacts == Runners \subseteq Threads /\ AnyThread \notin Runners /\ Main \in Threads
  BY Zenon, SchedulerAssumption DEF SchedulerAssumption, Runners, Threads

-----------------------------------------------------------------------------
(* The three ways in which a thread moves *)

LEMMA CallMove ==
    ASSUME NEW P, PcTypeOK(P), NEW t \in Threads, NEW l \in CallPc,
           NEW r \in ReturnPc \cap (RunPc \cup P), Call(t, l, r)
    PROVE  PcTypeOK(P)' /\ Moved(t) /\ pc'[t] = l /\ At(t)' = r
<1>1. pc' = [pc EXCEPT ![t] = l] /\ ret' = [ret EXCEPT ![t] = r]
  BY Zenon DEF Call, Goto
<1>2. PcTypeOK(P)'
  BY Zenon, <1>1 DEF PcTypeOK, RunPc
<1> QED
  BY Zenon, <1>1, <1>2 DEF PcTypeOK, Moved, At

LEMMA ProceedMove ==
    ASSUME NEW P, PcTypeOK(P), NEW t \in Threads, NEW l \in RunPc \cup P, Proceed(t, l)
    PROVE  /\ PcTypeOK(P)' /\ Moved(t) /\ pc'[t] = l
           /\ At(t)' = IF l \in CallPc THEN ret[t] ELSE l
<1>1. pc' = [pc EXCEPT ![t] = l] /\ ret' = ret
  BY Zenon DEF Proceed, Goto
<1>2. PcTypeOK(P)'
  BY Zenon, <1>1 DEF PcTypeOK
<1> QED
  BY Zenon, <1>1, <1>2 DEF PcTypeOK, Moved, At

LEMMA ReturnMove ==
    ASSUME NEW P, PcTypeOK(P), NEW t \in Threads, pc[t] \in CallPc, Return(t)
    PROVE  PcTypeOK(P)' /\ Moved(t) /\ pc'[t] \notin CallPc /\ At(t)' = At(t)
<1>1. pc' = [pc EXCEPT ![t] = ret[t]] /\ ret' = [ret EXCEPT ![t] = "user"]
  BY Zenon DEF Return, Goto
<1>2. ret[t] \in ReturnPc \cap (RunPc \cup P) /\ ret[t] \notin CallPc /\ "user" \in ReturnPc \cap RunPc
  BY Zenon DEF PcTypeOK, ReturnPc, RunPc, CallPc
<1>3. PcTypeOK(P)'
  BY Zenon, <1>1, <1>2 DEF PcTypeOK
<1> QED
  BY Zenon, <1>1, <1>2, <1>3 DEF PcTypeOK, Moved, At

-----------------------------------------------------------------------------
(* What a step of one thread preserves *)

(* The other threads keep ControlInv if their coroutines are left alone. *)
LEMMA ControlFrame ==
    ASSUME ControlInv, NEW t \in Threads, Moved(t),
           \A u \in Threads : u # t => arg'[u] = arg[u],
           \A u \in Runners : u # t =>
               /\ task'[u] = task[u]
               /\ InCo(u) => co'[task[u].co] = co[task[u].co] /\ home'[task[u].co] = home[task[u].co],
           ThreadInv(t)', t \in Runners => RunnerInv(t)'
    PROVE  ControlInv'
<1>1. \A u \in Threads : u # t => (InCo(u)' <=> InCo(u)) /\ At(u)' = At(u) /\ pc'[u] = pc[u]
  BY Zenon DEF Moved, InCo
<1>2. \A u \in Threads : ThreadInv(u)'
  BY Zenon, <1>1 DEF ControlInv, ThreadInv
<1>3. \A u \in Runners : u # t => RunnerInv(u)'
  BY <1>1, RunnerFacts DEF ControlInv, RunnerInv, Holds
<1> QED
  BY Zenon, <1>2, <1>3 DEF ControlInv

(* A thread that gives up its task leaves the other wake-ups alone. *)
LEMMA UniqueFrame ==
    ASSUME UniqueInv, UNCHANGED <<m_tasks, arg, armed>>,
           \A u \in Runners : Holds(u)' => Holds(u) /\ task'[u] = task[u]
    PROVE  UniqueInv'
  BY DEF UniqueInv

(* Facts about the tokens when none of the places that hold them changes. *)
LEMMA SameTokens ==
    ASSUME UNCHANGED <<m_tasks, arg, armed>>,
           \A u \in Runners : (Holds(u)' <=> Holds(u)) /\ (Holds(u) => task'[u] = task[u])
    PROVE  \A e \in Task : Token(e)' <=> Token(e)
  BY Zenon DEF Token, Queued, Passed, Taken

(* A step that moves no task and changes no coroutine keeps the tokens. *)
LEMMA TokenFrame ==
    ASSUME UniqueInv, TokenInv, LiveInv,
           UNCHANGED <<m_tasks, co, home, armed, arg, task>>,
           stop_called => stop_called', m_is_stopping' => m_is_stopping \/ stop_called',
           \A u \in Runners : (InCo(u)' <=> InCo(u)) /\ (At(u)' = "armed" <=> At(u) = "armed")
    PROVE  UniqueInv' /\ TokenInv' /\ LiveInv'
<1>1. \A u \in Runners : Holds(u)' <=> Holds(u)
  BY Zenon DEF Holds
<1>2. \A e \in Task : Token(e)' <=> Token(e)
  BY Zenon, <1>1, SameTokens
<1>3. UniqueInv'
  BY Zenon, <1>1, UniqueFrame
<1>4. TokenInv'
  BY Zenon, <1>2 DEF TokenInv, TokenOK, Target
<1>5. LiveInv'
  BY Zenon, <1>2 DEF LiveInv, Waits
<1> QED
  BY Zenon, <1>3, <1>4, <1>5

(* A step on which thread t stays where it is in its own code, or moves    *)
(* between two points outside coroutines without a task in its hands.      *)
LEMMA MoveStep ==
    ASSUME CoInv, NEW t \in Threads, Moved(t),
           UNCHANGED <<m_tasks, co, home, armed, arg, task>>,
           stop_called => stop_called', m_is_stopping' => m_is_stopping \/ stop_called',
           pc[t] \notin {"schedule", "push"}, pc'[t] \notin {"schedule", "push"},
           \/ At(t)' = At(t)
           \/ /\ ~InCo(t) /\ ~InCo(t)'
              /\ IF t \in Runners THEN task[t] = NoTask ELSE At(t)' \in {"user", "starting"}
    PROVE  CoInv'
<1>1. \A u \in Threads : (InCo(u)' <=> InCo(u)) /\ (At(u)' = "armed" <=> At(u) = "armed")
  BY Zenon DEF Moved, InCo
<1>2. ThreadInv(t)'
  BY Zenon DEF CoInv, ControlInv, ThreadInv
<1>3. t \in Runners => RunnerInv(t)'
  BY Zenon, <1>1 DEF CoInv, ControlInv, RunnerInv, Holds
<1>4. ControlInv'
  BY Zenon, <1>2, <1>3, ControlFrame DEF CoInv
<1>5. UniqueInv' /\ TokenInv' /\ LiveInv'
  BY Zenon, <1>1, TokenFrame, RunnerFacts DEF CoInv
<1> QED
  BY Zenon, <1>4, <1>5 DEF CoInv

-----------------------------------------------------------------------------
(* Where each action takes its thread *)

LEMMA PcTypes == ASSUME NEW P, RunTypeOK(P) PROVE PcTypeOK(P)
  BY Zenon DEF RunTypeOK, PcTypeOK

LEMMA StopMove ==
    ASSUME NEW P, RunTypeOK(P), NEW t \in Threads, Stop(t)
    PROVE  PcTypeOK(P)' /\ Moved(t) /\ At(t)' = At(t) /\ pc'[t] = "tickle"
<1>1. pc[t] \in ReturnPc \cap (RunPc \cup P) /\ At(t) = pc[t] /\ "tickle" \in CallPc
  BY Zenon DEF Stop, At, CallPc, ReturnPc, RunPc
<1> QED
  BY ZenonT(30), <1>1, CallMove, PcTypes DEF Stop

LEMMA SubmitMove ==
    ASSUME NEW P, RunTypeOK(P), NEW t \in Threads, NEW c, NEW thread, Submit(t, c, thread)
    PROVE  PcTypeOK(P)' /\ Moved(t) /\ At(t)' = At(t) /\ pc'[t] = "schedule"
<1>1. pc[t] \in ReturnPc \cap (RunPc \cup P) /\ At(t) = pc[t] /\ "schedule" \in CallPc
  BY Zenon DEF Submit, At, CallPc, ReturnPc, RunPc
<1> QED
  BY ZenonT(30), <1>1, CallMove, PcTypes DEF Submit

LEMMA ScheduleCheckMove ==
    ASSUME NEW P, RunTypeOK(P), NEW t \in Threads, ScheduleCheck(t)
    PROVE  /\ PcTypeOK(P)' /\ Moved(t) /\ At(t)' = At(t)
           /\ IF m_is_stopping THEN pc'[t] \notin CallPc ELSE pc'[t] = "push"
<1>1. pc[t] \in CallPc /\ At(t) = ret[t] /\ "push" \in CallPc /\ "push" \in RunPc
  BY Zenon DEF ScheduleCheck, At, CallPc, RunPc
<1>2. CASE m_is_stopping
  BY Zenon, <1>1, <1>2, ReturnMove, PcTypes DEF ScheduleCheck
<1>3. CASE ~m_is_stopping
  BY Zenon, <1>1, <1>3, ProceedMove, PcTypes DEF ScheduleCheck
<1> QED
  BY Zenon, <1>2, <1>3

LEMMA SchedulePushMove ==
    ASSUME NEW P, RunTypeOK(P), NEW t \in Threads, SchedulePush(t)
    PROVE  PcTypeOK(P)' /\ Moved(t) /\ At(t)' = At(t) /\ pc'[t] \notin {"schedule", "push"}
<1>1. pc[t] \in CallPc /\ At(t) = ret[t] /\ "sched_check" \in CallPc /\ "sched_check" \in RunPc
  BY Zenon DEF SchedulePush, At, CallPc, RunPc
<1>2. CASE m_tasks = <<>>
  BY Zenon, <1>1, <1>2, ProceedMove, PcTypes DEF SchedulePush
<1>3. CASE m_tasks # <<>>
  <2>1. pc'[t] \notin CallPc /\ PcTypeOK(P)' /\ Moved(t) /\ At(t)' = At(t)
    BY Zenon, <1>1, <1>3, ReturnMove, PcTypes DEF SchedulePush
  <2> QED
    BY Zenon, <2>1 DEF CallPc
<1> QED
  BY Zenon, <1>2, <1>3

LEMMA TickleMove ==
    ASSUME NEW P, RunTypeOK(P), NEW t \in Threads, ScheduleTickle(t) \/ TickleCheck(t)
    PROVE  PcTypeOK(P)' /\ Moved(t) /\ At(t)' = At(t) /\ pc'[t] \notin {"schedule", "push"}
<1>1. pc[t] \in CallPc /\ At(t) = ret[t] /\ {"tickle", "post"} \subseteq CallPc \cap RunPc
  BY Zenon DEF ScheduleTickle, TickleCheck, At, CallPc, RunPc
<1>2. CASE m_idle_cnt > 0
  BY Zenon, <1>1, <1>2, ProceedMove, PcTypes DEF ScheduleTickle, TickleCheck
<1>3. CASE ~(m_idle_cnt > 0)
  <2>1. pc'[t] \notin CallPc /\ PcTypeOK(P)' /\ Moved(t) /\ At(t)' = At(t)
    BY Zenon, <1>1, <1>3, ReturnMove, PcTypes DEF ScheduleTickle, TickleCheck
  <2> QED
    BY Zenon, <2>1 DEF CallPc
<1> QED
  BY Zenon, <1>2, <1>3

LEMMA AfterScanMove ==
    ASSUME NEW P, RunTypeOK(P), NEW t \in Threads, pc[t] = "scan", NEW need, AfterScan(t, need)
    PROVE  /\ PcTypeOK(P)' /\ Moved(t) /\ At(t) = "scan" /\ At(t)' = "dispatch"
           /\ pc'[t] \notin {"schedule", "push", "starting"}
<1>1. /\ At(t) = "scan" /\ "tickle" \in CallPc /\ "dispatch" \in ReturnPc /\ "dispatch" \in RunPc
      /\ "dispatch" \notin CallPc
  BY Zenon DEF At, CallPc, RunPc, ReturnPc
<1>2. CASE need
  BY <1>1, <1>2, CallMove, PcTypes DEF AfterScan
<1>3. CASE ~need
  BY <1>1, <1>3, ProceedMove, PcTypes DEF AfterScan
<1> QED
  BY Zenon, <1>2, <1>3

LEMMA RunTaskMove ==
    ASSUME NEW P, RunTypeOK(P), NEW t \in Threads, RunTask(t)
    PROVE  /\ PcTypeOK(P)' /\ Moved(t) /\ At(t) = "dispatch"
           /\ pc'[t] = At(t)' /\ At(t)' = IF co[task[t].co] \in Resumable THEN "co" ELSE "scan"
<1>1. At(t) = "dispatch" /\ {"co", "scan"} \subseteq RunPc /\ "co" \notin CallPc /\ "scan" \notin CallPc
  BY Zenon DEF RunTask, At, CallPc, RunPc
<1>2. CASE co[task[t].co] \in Resumable
  BY Zenon, <1>1, <1>2, ProceedMove, PcTypes DEF RunTask, Proceed
<1>3. CASE co[task[t].co] \notin Resumable
  BY Zenon, <1>1, <1>3, ProceedMove, PcTypes DEF RunTask, Proceed
<1> QED
  BY Zenon, <1>2, <1>3

LEMMA RunCallbackMove ==
    ASSUME NEW P, RunTypeOK(P), NEW t \in Threads, RunCallback(t)
    PROVE  /\ PcTypeOK(P)' /\ Moved(t) /\ At(t) = "dispatch" /\ At(t)' = "scan"
           /\ pc'[t] = "schedule"
<1>1. At(t) = "dispatch" /\ "schedule" \in CallPc /\ "scan" \in ReturnPc /\ "scan" \in RunPc
  BY Zenon DEF RunCallback, At, CallPc, RunPc, ReturnPc
<1> QED
  BY Zenon, <1>1, CallMove, PcTypes DEF RunCallback

LEMMA RunIdleMove ==
    ASSUME NEW P, "idle" \in P, RunTypeOK(P), NEW t \in Threads, RunIdle(t)
    PROVE  /\ PcTypeOK(P)' /\ Moved(t) /\ At(t) = "dispatch" /\ pc'[t] = At(t)'
           /\ At(t)' \in {"exit", "scan", "idle"}
<1>1. At(t) = "dispatch" /\ {"exit", "scan"} \subseteq RunPc /\ {"exit", "scan", "idle"} \cap CallPc = {}
  BY Zenon DEF RunIdle, At, CallPc, RunPc
<1>2. PICK l \in {"exit", "scan", "idle"} : Proceed(t, l)
  BY Zenon DEF RunIdle, Proceed
<1> QED
  BY Zenon, <1>1, <1>2, ProceedMove, PcTypes

LEMMA RunExitMove ==
    ASSUME NEW P, RunTypeOK(P), NEW t \in Threads, RunExit(t)
    PROVE  /\ PcTypeOK(P)' /\ Moved(t) /\ At(t) = "exit" /\ At(t)' = "done"
           /\ pc'[t] = "tickle"
<1>1. At(t) = "exit" /\ "tickle" \in CallPc /\ "done" \in ReturnPc /\ "done" \in RunPc
  BY Zenon DEF RunExit, At, CallPc, RunPc, ReturnPc
<1> QED
  BY Zenon, <1>1, CallMove, PcTypes DEF RunExit

(* A coroutine registers a continuation, and is perhaps to call tickle(). *)
LEMMA ArmMove ==
    ASSUME NEW P, RunTypeOK(P), NEW t \in Threads, pc[t] = "co",
           Call(t, "tickle", "armed") \/ Proceed(t, "armed")
    PROVE  /\ PcTypeOK(P)' /\ Moved(t) /\ At(t) = "co" /\ At(t)' = "armed"
           /\ pc'[t] \notin {"schedule", "push", "starting"}
<1>1. /\ At(t) = "co" /\ "tickle" \in CallPc /\ "armed" \in ReturnPc /\ "armed" \in RunPc
      /\ "armed" \notin CallPc
  BY Zenon DEF At, CallPc, RunPc, ReturnPc
<1>2. CASE Call(t, "tickle", "armed")
  BY <1>1, <1>2, CallMove, PcTypes
<1>3. CASE Proceed(t, "armed")
  BY <1>1, <1>3, ProceedMove, PcTypes
<1> QED
  BY Zenon, <1>2, <1>3

LEMMA SwitchBackMove ==
    ASSUME NEW P, RunTypeOK(P), NEW t \in Threads, Yield(t) \/ Finish(t)
    PROVE  /\ PcTypeOK(P)' /\ Moved(t) /\ At(t) = pc[t] /\ At(t)' = "scan"
           /\ pc'[t] = "scan"
<1>1. At(t) = pc[t] /\ "scan" \in RunPc /\ "scan" \notin CallPc /\ Proceed(t, "scan")
  BY Zenon DEF Yield, Finish, At, CallPc, RunPc, Proceed
<1> QED
  BY Zenon, <1>1, ProceedMove, PcTypes

LEMMA StartBeginMove ==
    ASSUME NEW P, RunTypeOK(P), StartBegin
    PROVE  /\ PcTypeOK(P)' /\ Moved(Main) /\ At(Main) = "user" /\ At(Main)' = "starting"
           /\ pc'[Main] = "starting"
<1>1. At(Main) = "user" /\ "starting" \in RunPc /\ "starting" \notin CallPc /\ Proceed(Main, "starting")
  BY Zenon DEF StartBegin, At, CallPc, RunPc, Proceed, localVars
<1> QED
  BY Zenon, <1>1, ProceedMove, PcTypes, RunnerFacts

-----------------------------------------------------------------------------
(* The steps that move no task *)

LEMMA StopStep ==
    ASSUME NEW P, RunTypeOK(P), CoInv, NEW t \in Threads, Stop(t)
    PROVE  RunTypeOK(P)' /\ CoInv'
<1>1. PcTypeOK(P)' /\ Moved(t) /\ At(t)' = At(t) /\ pc'[t] = "tickle"
  BY Zenon, StopMove
<1>2. RunTypeOK(P)'
  BY Zenon, <1>1 DEF Stop, RunTypeOK, PcTypeOK, coVars
<1> QED
  BY Zenon, <1>1, <1>2, MoveStep DEF Stop, coVars

LEMMA TickleStep ==
    ASSUME NEW P, RunTypeOK(P), CoInv, NEW t \in Threads, ScheduleTickle(t) \/ TickleCheck(t)
    PROVE  RunTypeOK(P)' /\ CoInv'
<1>1. PcTypeOK(P)' /\ Moved(t) /\ At(t)' = At(t) /\ pc'[t] \notin {"schedule", "push"}
  BY Zenon, TickleMove
<1>2. RunTypeOK(P)'
  BY Zenon, <1>1 DEF ScheduleTickle, TickleCheck, RunTypeOK, PcTypeOK, coVars, schedVars
<1> QED
  BY <1>1, <1>2, MoveStep DEF ScheduleTickle, TickleCheck, coVars, schedVars

LEMMA ScanNoneStep ==
    ASSUME NEW P, RunTypeOK(P), CoInv, NEW t \in Runners, ScanNone(t)
    PROVE  RunTypeOK(P)' /\ CoInv'
<1>0. t \in Threads
  BY Zenon, RunnerFacts
<1>1. /\ PcTypeOK(P)' /\ Moved(t) /\ At(t) = "scan" /\ At(t)' = "dispatch"
      /\ pc'[t] \notin {"schedule", "push"}
  BY Zenon, <1>0, AfterScanMove DEF ScanNone
<1>2. RunTypeOK(P)'
  BY Zenon, <1>1 DEF ScanNone, AfterScan, RunTypeOK, PcTypeOK, coVars
<1>3. ~InCo(t) /\ ~InCo(t)' /\ task[t] = NoTask
  BY Zenon, <1>1 DEF InCo, CoInv, ControlInv, RunnerInv
<1> QED
  BY Zenon, <1>0, <1>1, <1>2, <1>3, MoveStep DEF ScanNone, AfterScan, coVars

LEMMA RunIdleStep ==
    ASSUME NEW P, "idle" \in P, RunTypeOK(P), CoInv, NEW t \in Runners, RunIdle(t)
    PROVE  RunTypeOK(P)' /\ CoInv'
<1>0. t \in Threads
  BY Zenon, RunnerFacts
<1>1. /\ PcTypeOK(P)' /\ Moved(t) /\ At(t) = "dispatch" /\ pc'[t] = At(t)'
      /\ At(t)' \in {"exit", "scan", "idle"}
  BY Zenon, <1>0, RunIdleMove
<1>2. idle_co' \in [Runners -> CoState] /\ need_tickle' \in [Runners -> BOOLEAN]
  BY Zenon DEF RunIdle, ResetNeed, RunTypeOK, CoState
<1>3. RunTypeOK(P)'
  BY Zenon, <1>1, <1>2 DEF RunIdle, RunTypeOK, PcTypeOK, schedVars
<1>4. ~InCo(t) /\ ~InCo(t)'
  BY Zenon, <1>1 DEF InCo
<1> QED
  BY Zenon, <1>0, <1>1, <1>3, <1>4, MoveStep DEF RunIdle, schedVars

LEMMA RunExitStep ==
    ASSUME NEW P, RunTypeOK(P), CoInv, NEW t \in Runners, RunExit(t)
    PROVE  RunTypeOK(P)' /\ CoInv'
<1>0. t \in Threads
  BY Zenon, RunnerFacts
<1>1. PcTypeOK(P)' /\ Moved(t) /\ At(t) = "exit" /\ At(t)' = "done" /\ pc'[t] = "tickle"
  BY Zenon, <1>0, RunExitMove
<1>2. m_thread_cnt' \in 0 .. SizeMod - 1
  BY SchedulerAssumption DEF RunExit, RunTypeOK, SchedulerAssumption
<1>3. RunTypeOK(P)'
  BY Zenon, <1>1, <1>2 DEF RunExit, RunTypeOK, PcTypeOK, coVars
<1>4. ~InCo(t) /\ ~InCo(t)' /\ task[t] = NoTask
  BY Zenon, <1>1 DEF InCo, CoInv, ControlInv, RunnerInv
<1> QED
  BY Zenon, <1>0, <1>1, <1>3, <1>4, MoveStep DEF RunExit, coVars

LEMMA StartBeginStep ==
    ASSUME NEW P, RunTypeOK(P), CoInv, StartBegin
    PROVE  RunTypeOK(P)' /\ CoInv'
<1>1. /\ PcTypeOK(P)' /\ Moved(Main) /\ At(Main) = "user" /\ At(Main)' = "starting"
      /\ pc'[Main] = "starting"
  BY Zenon, StartBeginMove
<1>2. RunTypeOK(P)'
  BY Zenon, <1>1 DEF StartBegin, RunTypeOK, PcTypeOK, coVars, localVars
<1>3. ~InCo(Main) /\ ~InCo(Main)' /\ (Main \in Runners => task[Main] = NoTask)
  BY Zenon, <1>1 DEF InCo, CoInv, ControlInv, RunnerInv
<1> QED
  BY Zenon, <1>1, <1>2, <1>3, MoveStep, RunnerFacts DEF StartBegin, coVars, localVars

(* start() creates the threads: no thread was in run() before. *)
LEMMA StartThreadsStep ==
    ASSUME NEW P, RunTypeOK(P), CoInv, StartInv, StartThreads
    PROVE  RunTypeOK(P)' /\ CoInv'
<1>1. PcTypeOK(P)'
  BY Zenon DEF StartThreads, RunTypeOK, PcTypeOK, RunPc, localVars
<1>2. RunTypeOK(P)'
  BY Zenon, <1>1 DEF StartThreads, RunTypeOK, PcTypeOK, coVars, localVars
<1>3. \A u \in Runners : At(u) \in {"unborn", "user", "starting"} /\ At(u)' = "scan" /\ pc'[u] = "scan"
  BY Zenon, RunnerFacts DEF StartInv, StartThreads, At, CallPc
<1>4. \A u \in Threads \ Runners : IF u = Main THEN pc'[u] = "user" /\ At(u)' = "user"
                                               ELSE pc'[u] = pc[u] /\ At(u)' = At(u)
  BY Zenon DEF StartThreads, At, CallPc, localVars
<1>5. \A u \in Runners : ~InCo(u) /\ ~InCo(u)' /\ At(u) # "armed" /\ At(u)' # "armed"
  BY Zenon, <1>3 DEF InCo
<1>6. \A u \in Runners : task[u] = NoTask /\ task'[u] = NoTask /\ arg[u] = arg'[u]
  BY Zenon, <1>3, <1>5 DEF StartThreads, localVars, CoInv, ControlInv, RunnerInv
<1>7. \A u \in Runners : RunnerInv(u)'
  BY Zenon, <1>5, <1>6 DEF RunnerInv, Holds
<1>8. pc[Main] = "starting" /\ \A u \in Workers : pc[u] = "unborn"
  <2>1. \A u \in Workers : At(u) = "unborn" /\ ret[u] # "unborn"
    BY Zenon, RunnerFacts DEF StartThreads, StartInv, Runners, RunTypeOK, ReturnPc
  <2> QED
    BY Zenon, <2>1 DEF StartThreads, At
<1>9. \A u \in Threads : ThreadInv(u)'
  <2>1. \A u \in Threads : arg'[u] = arg[u] /\ ThreadInv(u)
    BY Zenon DEF StartThreads, localVars, CoInv, ControlInv
  <2>2. \A u \in Runners : ThreadInv(u)'
    <3>1. \A u \in Runners : pc[u] \notin {"schedule", "push"}
      BY Zenon, <1>8 DEF Runners
    <3> QED
      BY Zenon, <1>3, <2>1, <3>1, RunnerFacts DEF ThreadInv
  <2>3. \A u \in Threads \ Runners : ThreadInv(u)'
    BY Zenon, <1>4, <1>8, <2>1 DEF ThreadInv
  <2> QED
    BY Zenon, <2>2, <2>3
<1>10. UniqueInv' /\ TokenInv' /\ LiveInv'
  BY Zenon, <1>5, TokenFrame DEF StartThreads, CoInv, coVars, localVars
<1> QED
  BY Zenon, <1>2, <1>7, <1>9, <1>10 DEF CoInv, ControlInv

(* A task that a thread is about to run can be resumed: if its coroutine   *)
(* were still running it would be on this very thread.                     *)
LEMMA DispatchResumable ==
    ASSUME NEW P, RunTypeOK(P), CoInv, NEW t \in Runners,
           pc[t] = "dispatch", task[t] # NoTask
    PROVE  /\ Holds(t) /\ task[t] \in Task /\ TokenOK(task[t])
           /\ task[t].wakes = AnyThread => co[task[t].co] \in Resumable
<1>1. At(t) = "dispatch" /\ ~InCo(t) /\ task[t] \in Task
  BY Zenon DEF InCo, At, CallPc, RunTypeOK
<1>2. Holds(t) /\ Token(task[t])
  BY Zenon, <1>1 DEF Holds, Token, Taken
<1>3. TokenOK(task[t]) /\ RunsOn(task[t], t)
  BY Zenon, <1>1, <1>2 DEF CoInv, TokenInv, ControlInv, RunnerInv
<1>4. task[t].wakes = AnyThread => co[task[t].co] \in Resumable
  BY Zenon, <1>1, <1>3, RunnerFacts DEF TokenOK, Target, RunsOn, Resumable
<1> QED
  BY Zenon, <1>1, <1>2, <1>3, <1>4
-----------------------------------------------------------------------------
(* schedule(), and what CoInv says about the wake-ups *)

(* A thread that stays where it is in its own code keeps what it holds. *)
LEMMA StayFacts ==
    ASSUME NEW t \in Threads, Moved(t), At(t)' = At(t)
    PROVE  \A u \in Threads : At(u)' = At(u) /\ (InCo(u)' <=> InCo(u))
  BY Zenon DEF Moved, InCo

(* schedule() is called with a new coroutine, which has no token yet. *)
LEMMA SubmitStep ==
    ASSUME NEW P, RunTypeOK(P), CoInv, NEW t \in Threads, NEW c \in Coroutines,
           NEW thread \in Runners \cup {AnyThread}, Submit(t, c, thread)
    PROVE  RunTypeOK(P)' /\ CoInv'
<1> DEFINE e == [co |-> c, thread |-> thread, wakes |-> AnyThread]
<1>0. e \in Task /\ e.co = c /\ e.wakes = AnyThread /\ e # NoTask
  BY SchedulerAssumption DEF Task, SchedulerAssumption
<1>a. /\ pc[t] \in {"user", "co"} /\ co[c] = "NONE"
      /\ arg' = [arg EXCEPT ![t] = e] /\ co' = [co EXCEPT ![c] = "INIT"]
      /\ UNCHANGED <<schedVars, tickles, home, idle_co, armed, task, need_tickle>>
  BY Zenon DEF Submit
<1> HIDE DEF e
<1>1. PcTypeOK(P)' /\ Moved(t) /\ At(t)' = At(t) /\ pc'[t] = "schedule"
  BY Zenon, SubmitMove
<1>2. arg' \in [Threads -> Task \cup {NoTask}] /\ co' \in [Coroutines -> CoState]
  BY Zenon, <1>a, <1>0 DEF RunTypeOK, CoState
<1>3. RunTypeOK(P)'
  BY <1>1, <1>2, <1>a, Zenon DEF RunTypeOK, PcTypeOK, schedVars
<1>4. /\ \A u \in Threads : At(u)' = At(u) /\ (InCo(u)' <=> InCo(u))
      /\ \A u \in Runners : At(u)' = At(u) /\ (InCo(u)' <=> InCo(u)) /\ (Holds(u)' <=> Holds(u))
  BY Zenon, <1>1, <1>a, StayFacts, RunnerFacts DEF Holds
<1>5. /\ arg'[t] = e /\ \A u \in Threads : u # t => arg'[u] = arg[u]
      /\ co'[c] = "INIT" /\ \A d \in Coroutines : d # c => co'[d] = co[d]
  BY Zenon, <1>a DEF RunTypeOK
<1>6. \A u \in Runners : InCo(u) => co'[task[u].co] = co[task[u].co]
  BY ZenonT(30), <1>a, <1>5 DEF CoInv, ControlInv, RunnerInv, RunTypeOK, Task
<1>7. ControlInv'
  <2>1. ThreadInv(t)'
    BY Zenon, <1>0, <1>1, <1>5 DEF ThreadInv, CoInv, ControlInv
  <2>2. t \in Runners => RunnerInv(t)'
    BY Zenon, <1>a, <1>4, <1>6 DEF RunnerInv, CoInv, ControlInv
  <2> QED
    BY Zenon, <2>1, <2>2, <1>1, <1>a, <1>5, <1>6, ControlFrame DEF CoInv
<1>8. \A f \in Task : Token(f) => f.co # c
  BY Zenon, <1>a DEF CoInv, TokenInv, TokenOK
<1>9. /\ \A i \in DOMAIN m_tasks : m_tasks[i].co # c
      /\ \A u \in Threads : arg[u] # NoTask => arg[u].co # c
      /\ \A u \in Runners : Holds(u) => task[u].co # c
      /\ \A a \in armed : a.co # c
      /\ arg[t] = NoTask
  <2>1. arg[t] = NoTask
    BY Zenon, <1>a DEF CoInv, ControlInv, ThreadInv
  <2> QED
    BY <2>1, <1>8 DEF Token, Queued, Passed, Taken, RunTypeOK, Holds
<1>10. UniqueInv'
  BY <1>a, <1>0, <1>4, <1>5, <1>9 DEF UniqueInv, CoInv, schedVars
<1>11. \A f \in Task : Token(f)' <=> Token(f) \/ f = e
  BY <1>a, <1>0, <1>4, <1>5, <1>9, SchedulerAssumption
    DEF Token, Queued, Passed, Taken, SchedulerAssumption, schedVars
<1>12. TokenInv'
  <2>1. \A f \in Task : f.co # c /\ f.co \in Coroutines /\ TokenOK(f) => TokenOK(f)'
    BY Zenon, <1>a, <1>4, <1>5 DEF TokenOK, Target
  <2>2. TokenOK(e)'
    BY Zenon, <1>0, <1>5 DEF TokenOK
  <2>3. \A f \in Task : Token(f)' => TokenOK(f)'
    BY Zenon, <2>1, <2>2, <1>8, <1>11 DEF TokenInv, CoInv, Task
  <2> QED
    BY Zenon, <2>3, <1>a, <1>4, <1>5 DEF TokenInv, CoInv
<1>13. LiveInv'
  BY <1>a, <1>0, <1>4, <1>5, <1>11 DEF LiveInv, Waits, CoInv, schedVars
<1> QED
  BY Zenon, <1>3, <1>7, <1>10, <1>12, <1>13 DEF CoInv

(* schedule() accepts or drops the task it was given. *)
LEMMA ScheduleCheckStep ==
    ASSUME NEW P, RunTypeOK(P), CoInv, NEW t \in Threads, ScheduleCheck(t)
    PROVE  RunTypeOK(P)' /\ CoInv'
<1>1. /\ PcTypeOK(P)' /\ Moved(t) /\ At(t)' = At(t)
      /\ IF m_is_stopping THEN pc'[t] \notin CallPc ELSE pc'[t] = "push"
  BY Zenon, ScheduleCheckMove
<1>a. /\ arg' = IF m_is_stopping THEN [arg EXCEPT ![t] = NoTask] ELSE arg
      /\ pc[t] = "schedule" /\ UNCHANGED <<schedVars, tickles, coVars, task, need_tickle>>
  BY Zenon DEF ScheduleCheck
<1>2. /\ \A u \in Threads : u # t => arg'[u] = arg[u]
      /\ arg'[t] = IF m_is_stopping THEN NoTask ELSE arg[t]
      /\ arg' \in [Threads -> Task \cup {NoTask}]
  BY Zenon, <1>a DEF RunTypeOK
<1>3. RunTypeOK(P)'
  BY <1>1, <1>2, <1>a, Zenon DEF RunTypeOK, PcTypeOK, schedVars, coVars
<1>4. /\ \A u \in Threads : At(u)' = At(u) /\ (InCo(u)' <=> InCo(u))
      /\ \A u \in Runners : At(u)' = At(u) /\ (InCo(u)' <=> InCo(u)) /\ (Holds(u)' <=> Holds(u))
  BY Zenon, <1>1, <1>a, StayFacts, RunnerFacts DEF Holds
<1>5. ControlInv'
  <2>1. ThreadInv(t)'
    BY Zenon, <1>1, <1>2, <1>a, <1>4 DEF ThreadInv, CoInv, ControlInv, CallPc
  <2>2. t \in Runners => RunnerInv(t)'
    BY Zenon, <1>a, <1>4 DEF RunnerInv, CoInv, ControlInv, coVars
  <2> QED
    BY Zenon, <2>1, <2>2, <1>1, <1>2, <1>a, ControlFrame DEF CoInv, coVars
<1>6. UniqueInv'
  BY <1>2, <1>4, <1>a, SMTT(60) DEF UniqueInv, CoInv, schedVars, coVars
<1>7. \A f \in Task : /\ Token(f)' => Token(f)
                      /\ ~m_is_stopping /\ Token(f) => Token(f)'
  BY Zenon, <1>2, <1>4, <1>a, SchedulerAssumption
    DEF Token, Queued, Passed, Taken, SchedulerAssumption, schedVars, coVars
<1>8. TokenInv'
  <2>1. \A f \in Task : TokenOK(f) => TokenOK(f)'
    BY Zenon, <1>4, <1>a DEF TokenOK, Target, coVars
  <2> QED
    BY Zenon, <2>1, <1>4, <1>7, <1>a DEF TokenInv, CoInv, coVars
<1>9. LiveInv'
  BY ZenonT(30), <1>4, <1>7, <1>a DEF LiveInv, Waits, CoInv, schedVars, coVars
<1> QED
  BY Zenon, <1>3, <1>5, <1>6, <1>8, <1>9 DEF CoInv

(* schedule() appends the task. *)
LEMMA SchedulePushStep ==
    ASSUME NEW P, RunTypeOK(P), CoInv, NEW t \in Threads, SchedulePush(t)
    PROVE  RunTypeOK(P)' /\ CoInv'
<1>1. PcTypeOK(P)' /\ Moved(t) /\ At(t)' = At(t) /\ pc'[t] \notin {"schedule", "push"}
  BY Zenon, SchedulePushMove
<1>2. pc[t] = "push" /\ arg[t] \in Task /\ arg[t] # NoTask
  BY Zenon DEF SchedulePush, CoInv, ControlInv, ThreadInv, RunTypeOK
<1>3. PICK e \in Task : e = arg[t]
  BY Zenon, <1>2
<1>a. /\ m_tasks' = Append(m_tasks, e) /\ arg' = [arg EXCEPT ![t] = NoTask]
      /\ UNCHANGED <<m_is_stopping, m_is_stopped, stop_called, m_thread_cnt, m_idle_cnt, tickles, coVars,
                     task, need_tickle>>
  BY Zenon, <1>3 DEF SchedulePush
<1>4. /\ \A u \in Threads : At(u)' = At(u) /\ (InCo(u)' <=> InCo(u))
      /\ \A u \in Runners : At(u)' = At(u) /\ (InCo(u)' <=> InCo(u)) /\ (Holds(u)' <=> Holds(u))
  BY Zenon, <1>1, <1>a, StayFacts, RunnerFacts DEF Holds
<1>5. /\ Len(m_tasks) \in Nat /\ DOMAIN m_tasks = 1 .. Len(m_tasks)
      /\ DOMAIN m_tasks' = 1 .. Len(m_tasks) + 1
      /\ m_tasks'[Len(m_tasks) + 1] = e
      /\ \A i \in 1 .. Len(m_tasks) : m_tasks'[i] = m_tasks[i]
  BY <1>a DEF RunTypeOK
<1>6. /\ arg'[t] = NoTask /\ arg[t] = e /\ e # NoTask
      /\ \A u \in Threads : u # t => arg'[u] = arg[u]
      /\ arg' \in [Threads -> Task \cup {NoTask}] /\ m_tasks' \in Seq(Task)
  BY <1>a, <1>2, <1>3 DEF RunTypeOK
<1>7. RunTypeOK(P)'
  BY <1>1, <1>6, <1>a, Zenon DEF RunTypeOK, PcTypeOK, coVars
<1>8. ControlInv'
  <2>1. ThreadInv(t)'
    BY Zenon, <1>1, <1>4, <1>6 DEF ThreadInv, CoInv, ControlInv
  <2>2. t \in Runners => RunnerInv(t)'
    BY Zenon, <1>a, <1>4 DEF RunnerInv, CoInv, ControlInv, coVars
  <2> QED
    BY Zenon, <2>1, <2>2, <1>1, <1>6, <1>a, ControlFrame DEF CoInv, coVars
<1>9. UniqueInv'
  BY <1>a, <1>4, <1>5, <1>6 DEF UniqueInv, CoInv, coVars
<1>10. \A f \in Task : Token(f)' <=> Token(f)
  <2>1. \A f \in Task : Queued(f)' <=> Queued(f) \/ f = e
    BY <1>5 DEF Queued
  <2>2. \A f \in Task : Passed(f) <=> Passed(f)' \/ f = e
    BY Zenon, <1>6, SchedulerAssumption DEF Passed, SchedulerAssumption
  <2>3. \A f \in Task : Taken(f)' <=> Taken(f)
    BY Zenon, <1>4, <1>a DEF Taken
  <2> QED
    BY Zenon, <2>1, <2>2, <2>3, <1>a DEF Token, coVars
<1>11. TokenInv' /\ LiveInv'
  <2>1. \A f \in Task : TokenOK(f) => TokenOK(f)'
    BY Zenon, <1>4, <1>a DEF TokenOK, Target, coVars
  <2>2. TokenInv'
    BY Zenon, <2>1, <1>4, <1>10, <1>a DEF TokenInv, CoInv, coVars
  <2>3. LiveInv'
    BY Zenon, <1>4, <1>10, <1>a DEF LiveInv, Waits, CoInv, coVars
  <2> QED
    BY Zenon, <2>2, <2>3
<1> QED
  BY Zenon, <1>7, <1>8, <1>9, <1>11 DEF CoInv

-----------------------------------------------------------------------------
(* What CoInv says about the wake-ups of coroutines *)

LEMMA CoInvOneWakeup ==
    ASSUME CoInv
    PROVE  OneWakeup
<1> SUFFICES ASSUME NEW c \in Coroutines, NEW p \in Wakeups(c), NEW q \in Wakeups(c)
             PROVE  p = q
  BY Zenon DEF OneWakeup
<1>1. UniqueInv
  BY Zenon DEF CoInv
<1>2. \A r \in Wakeups(c) :
          \/ \E i \in DOMAIN m_tasks : r = <<"queued", i>> /\ m_tasks[i].co = c
          \/ \E t \in Threads : r = <<"passed", t>> /\ arg[t] # NoTask /\ arg[t].co = c
          \/ \E t \in Runners : r = <<"taken", t>> /\ Holds(t) /\ task[t].co = c
          \/ \E a \in armed : r = <<"armed", a>> /\ a.co = c
  BY Zenon DEF Wakeups, Holds
<1>3. CASE \E i \in DOMAIN m_tasks : p = <<"queued", i>> /\ m_tasks[i].co = c
  BY <1>1, <1>2, <1>3 DEF UniqueInv
<1>4. CASE \E t \in Threads : p = <<"passed", t>> /\ arg[t] # NoTask /\ arg[t].co = c
  BY <1>1, <1>2, <1>4 DEF UniqueInv
<1>5. CASE \E t \in Runners : p = <<"taken", t>> /\ Holds(t) /\ task[t].co = c
  BY <1>1, <1>2, <1>5 DEF UniqueInv
<1>6. CASE \E a \in armed : p = <<"armed", a>> /\ a.co = c
  BY <1>1, <1>2, <1>6 DEF UniqueInv
<1> QED
  BY Zenon, <1>2, <1>3, <1>4, <1>5, <1>6

LEMMA CoInvNoTaskDropped ==
    ASSUME NEW P, RunTypeOK(P), CoInv
    PROVE  NoTaskDropped
  BY Zenon, DispatchResumable DEF NoTaskDropped

LEMMA CoInvRunsOnOneThread ==
    ASSUME NEW P, RunTypeOK(P), CoInv
    PROVE  RunsOnOneThread
<1> SUFFICES ASSUME NEW c \in Coroutines
             PROVE  /\ \A t, u \in Runners : InCo(t) /\ InCo(u) /\ task[t].co = c /\ task[u].co = c => t = u
                    /\ co[c] = "RUNNING" <=> \E t \in Runners : InCo(t) /\ task[t].co = c /\ home[c] = t
  BY Zenon DEF RunsOnOneThread
<1> QED
  BY DEF CoInv, ControlInv, RunnerInv, TokenInv

LEMMA CoInvNoCoroutineForgotten ==
    ASSUME CoInv
    PROVE  NoCoroutineForgotten
<1> SUFFICES ASSUME ~stop_called, NEW c \in Coroutines, co[c] \in Resumable
             PROVE  Wakeups(c) # {}
  BY Zenon DEF NoCoroutineForgotten
<1>1. PICK e \in Task : e.co = c /\ Token(e)
  BY Zenon DEF CoInv, LiveInv, Waits
<1>2. e # NoTask
  BY Zenon, SchedulerAssumption DEF SchedulerAssumption
<1>3. CASE Queued(e)
  BY Zenon, <1>1, <1>3 DEF Queued, Wakeups
<1>4. CASE Passed(e)
  BY Zenon, <1>1, <1>2, <1>4 DEF Passed, Wakeups
<1>5. CASE Taken(e)
  BY Zenon, <1>1, <1>2, <1>5 DEF Taken, Holds, Wakeups
<1>6. CASE e \in armed
  BY Zenon, <1>1, <1>6 DEF Wakeups
<1> QED
  BY Zenon, <1>1, <1>3, <1>4, <1>5, <1>6 DEF Token

(* The only step that continues a suspended coroutine does so at its home. *)
LEMMA RunTaskAtHome ==
    ASSUME NEW P, RunTypeOK(P), CoInv, NEW t \in Runners, RunTask(t),
           NEW c \in Coroutines, co[c] = "YIELD", co'[c] = "RUNNING"
    PROVE  home'[c] = home[c]
<1>1. /\ task[t].co = c /\ home'[c] = t /\ pc[t] = "dispatch" /\ task[t] # NoTask
      /\ task[t].wakes = AnyThread
  BY Zenon DEF RunTask, RunTypeOK
<1>2. Holds(t) /\ TokenOK(task[t])
  BY Zenon, <1>1, DispatchResumable
<1>3. RunsOn(task[t], t)
  BY Zenon, <1>2 DEF CoInv, ControlInv, RunnerInv
<1> QED
  BY Zenon, <1>1, <1>2, <1>3, RunnerFacts DEF TokenOK, Target, RunsOn

-----------------------------------------------------------------------------
(* run(): the scan of the list and resume() of a task's coroutine *)

(* What m_tasks holds after run() took a task. *)
LEMMA EraseProperties ==
    ASSUME NEW S, NEW s \in Seq(S), NEW i \in 1 .. Len(s)
    PROVE  /\ Erase(s, i) \in Seq(S)
           /\ Len(Erase(s, i)) = Len(s) - 1
           /\ \A j \in 1 .. Len(s) - 1 :
                 Erase(s, i)[j] = IF j < i THEN s[j] ELSE s[j + 1]
<1>1. Len(s) - 1 \in Nat /\ \A j \in 1 .. Len(s) - 1 : (IF j < i THEN s[j] ELSE s[j + 1]) \in S
  OBVIOUS
<1>2. Erase(s, i) \in [1 .. Len(s) - 1 -> S]
  BY Zenon, <1>1 DEF Erase
<1> QED
  BY <1>1, <1>2 DEF Erase

(* The tasks of list s belong to different coroutines. *)
Distinct(s) == \A j, k \in DOMAIN s : s[j].co = s[k].co => j = k

(* List r holds the tasks of s but the one at position i, each once. *)
Without(s, i, r) ==
    /\ \A j \in DOMAIN r : \E k \in DOMAIN s : k # i /\ r[j] = s[k]
    /\ \A k \in DOMAIN s : k # i => \E j \in DOMAIN r : r[j] = s[k]
    /\ Distinct(r)

LEMMA EraseMembers ==
    ASSUME NEW s \in Seq(Task), NEW i \in DOMAIN s, Distinct(s), NEW r, r = Erase(s, i)
    PROVE  r \in Seq(Task) /\ Without(s, i, r)
<1>1. /\ i \in 1 .. Len(s) /\ Len(s) \in Nat /\ DOMAIN s = 1 .. Len(s)
      /\ r \in Seq(Task) /\ DOMAIN r = 1 .. Len(s) - 1
      /\ \A j \in 1 .. Len(s) - 1 : r[j] = IF j < i THEN s[j] ELSE s[j + 1]
  BY EraseProperties
<1>2. \A j \in DOMAIN r : \E k \in DOMAIN s : k # i /\ r[j] = s[k]
  <2> TAKE j \in DOMAIN r
  <2>1. CASE j < i
    BY <2>1, <1>1
  <2>2. CASE ~(j < i)
    <3>1. j + 1 \in DOMAIN s /\ j + 1 # i /\ r[j] = s[j + 1]
      BY <2>2, <1>1
    <3> QED
      BY Zenon, <3>1
  <2> QED
    BY Zenon, <2>1, <2>2
<1>3. \A k \in DOMAIN s : k # i => \E j \in DOMAIN r : r[j] = s[k]
  <2> TAKE k \in DOMAIN s
  <2>1. CASE k < i
    BY <2>1, <1>1
  <2>2. CASE k > i
    <3>1. k - 1 \in DOMAIN r /\ ~(k - 1 < i) /\ (k - 1) + 1 = k
      BY <2>2, <1>1
    <3> QED
      BY Zenon, <3>1, <1>1
  <2> QED
    BY <2>1, <2>2, <1>1
<1>4. ASSUME NEW j \in DOMAIN r, NEW k \in DOMAIN r, r[j].co = r[k].co
      PROVE  j = k
  <2> DEFINE Old(n) == IF n < i THEN n ELSE n + 1
  <2>1. Old(j) \in DOMAIN s /\ r[j] = s[Old(j)]
    BY <1>1
  <2>2. Old(k) \in DOMAIN s /\ r[k] = s[Old(k)]
    BY <1>1
  <2>3. Old(j) = Old(k)
    <3> HIDE DEF Old
    <3> QED
      BY Zenon, <1>4, <2>1, <2>2 DEF Distinct
  <2> QED
    BY <2>3, <1>1
<1> QED
  BY Zenon, <1>1, <1>2, <1>3, <1>4 DEF Without, Distinct

(* The token of a task moves from the list to the thread that takes it. *)
LEMMA TakeTokens ==
    ASSUME UniqueInv, UNCHANGED <<arg, armed>>, NEW t \in Runners, NEW i \in DOMAIN m_tasks,
           Without(m_tasks, i, m_tasks'),
           ~Holds(t), Holds(t)', task'[t] = m_tasks[i],
           \A u \in Runners : u # t => (Holds(u)' <=> Holds(u)) /\ task'[u] = task[u]
    PROVE  UniqueInv' /\ \A f \in Task : Token(f)' <=> Token(f)
<1>1. UniqueInv'
  BY DEF UniqueInv, Without, Distinct
<1>2. PICK e : e = m_tasks[i]
  OBVIOUS
<1>3. \A f \in Task : Queued(f) <=> Queued(f)' \/ f = e
  BY <1>2 DEF Queued, Without
<1>4. \A f \in Task : Taken(f)' <=> Taken(f) \/ f = e
  BY Zenon, <1>2 DEF Taken
<1>5. \A f \in Task : (Passed(f)' <=> Passed(f)) /\ (f \in armed' <=> f \in armed)
  BY Zenon DEF Passed
<1> QED
  BY Zenon, <1>1, <1>3, <1>4, <1>5 DEF Token

(* run() takes a task it may execute from the list. *)
LEMMA ScanTakeStep ==
    ASSUME NEW P, RunTypeOK(P), CoInv, NEW t \in Runners, NEW i \in DOMAIN m_tasks, ScanTake(t, i)
    PROVE  RunTypeOK(P)' /\ CoInv'
<1>0. t \in Threads /\ i \in 1 .. Len(m_tasks) /\ m_tasks[i] \in Task /\ RunsOn(m_tasks[i], t)
  BY RunnerFacts DEF ScanTake, Mine, RunTypeOK
<1>1. /\ PcTypeOK(P)' /\ Moved(t) /\ At(t) = "scan" /\ At(t)' = "dispatch"
      /\ pc'[t] \notin {"schedule", "push"} /\ pc[t] = "scan"
  BY Zenon, <1>0, AfterScanMove DEF ScanTake
<1>2. PICK e \in Task : e = m_tasks[i]
  BY Zenon, <1>0
<1>a. /\ m_tasks' = Erase(m_tasks, i) /\ task' = [task EXCEPT ![t] = e]
      /\ UNCHANGED <<m_is_stopping, m_is_stopped, stop_called, m_thread_cnt, m_idle_cnt, tickles, coVars, arg>>
      /\ need_tickle' \in [Runners -> BOOLEAN]
  BY Zenon, <1>2 DEF ScanTake, AfterScan, RunTypeOK
<1>3. m_tasks' \in Seq(Task) /\ Without(m_tasks, i, m_tasks')
  <2>1. m_tasks \in Seq(Task) /\ Distinct(m_tasks)
    BY Zenon DEF RunTypeOK, CoInv, UniqueInv, Distinct
  <2> QED
    BY Zenon, <2>1, <1>a, EraseMembers
<1>4. /\ e # NoTask /\ RunsOn(e, t) /\ task'[t] = e /\ \A u \in Runners : u # t => task'[u] = task[u]
      /\ task' \in [Runners -> Task \cup {NoTask}]
  BY Zenon, <1>0, <1>2, <1>a, SchedulerAssumption DEF RunTypeOK, SchedulerAssumption
<1>5. RunTypeOK(P)'
  BY <1>1, <1>3, <1>4, <1>a, Zenon DEF RunTypeOK, PcTypeOK, coVars
<1>6. /\ \A u \in Threads : u # t => At(u)' = At(u)
      /\ \A u \in Threads : (InCo(u)' <=> InCo(u)) /\ (At(u)' = "armed" <=> At(u) = "armed")
      /\ ~InCo(t) /\ task[t] = NoTask
  BY Zenon, <1>1 DEF Moved, InCo, CoInv, ControlInv, RunnerInv
<1>7. ~Holds(t) /\ Holds(t)' /\ \A u \in Runners : u # t => (Holds(u)' <=> Holds(u))
  BY Zenon, <1>0, <1>4, <1>6, RunnerFacts DEF Holds
<1>8. ControlInv'
  <2>1. ThreadInv(t)'
    BY Zenon, <1>0, <1>1, <1>a DEF ThreadInv, CoInv, ControlInv
  <2>2. RunnerInv(t)'
    BY Zenon, <1>0, <1>1, <1>4, <1>6 DEF RunnerInv
  <2> QED
    BY Zenon, <2>1, <2>2, <1>0, <1>1, <1>4, <1>a, ControlFrame DEF CoInv, coVars
<1>9. UniqueInv' /\ \A f \in Task : Token(f)' <=> Token(f)
  BY <1>2, <1>3, <1>4, <1>7, <1>a, TakeTokens, Zenon DEF CoInv, coVars
<1>10. TokenInv' /\ LiveInv'
  <2>1. \A f \in Task : TokenOK(f) => TokenOK(f)'
    BY Zenon, <1>6, <1>a, RunnerFacts DEF TokenOK, Target, coVars
  <2>2. TokenInv'
    <3>1. \A f \in Task : Token(f)' => TokenOK(f)'
      BY Zenon, <2>1, <1>9 DEF TokenInv, CoInv
    <3>2. \A u \in Runners : InCo(u) => u # t /\ InCo(u)' /\ task'[u] = task[u]
      BY Zenon, <1>4, <1>6, RunnerFacts
    <3>3. co' = co /\ home' = home
      BY Zenon, <1>a DEF coVars
    <3> QED
      BY Zenon, <3>1, <3>2, <3>3 DEF TokenInv, CoInv
  <2>3. LiveInv'
    BY Zenon, <1>6, <1>9, <1>a, RunnerFacts DEF LiveInv, Waits, CoInv, coVars
  <2> QED
    BY Zenon, <2>2, <2>3
<1> QED
  BY Zenon, <1>5, <1>8, <1>9, <1>10 DEF CoInv

(* run() resumes a task's coroutine: the token is used up. *)
LEMMA RunTaskStep ==
    ASSUME NEW P, RunTypeOK(P), CoInv, NEW t \in Runners, RunTask(t)
    PROVE  RunTypeOK(P)' /\ CoInv'
<1>0. /\ t \in Threads /\ pc[t] = "dispatch" /\ task[t] # NoTask /\ task[t].wakes = AnyThread
      /\ Holds(t) /\ task[t] \in Task /\ TokenOK(task[t]) /\ co[task[t].co] \in Resumable
  BY Zenon, DispatchResumable, RunnerFacts DEF RunTask
<1>1. PICK e \in Task : e = task[t]
  BY Zenon, <1>0
<1>2. PICK c \in Coroutines : c = e.co
  BY Zenon DEF Task
<1>a. /\ co' = [co EXCEPT ![c] = "RUNNING"] /\ home' = [home EXCEPT ![c] = t] /\ task' = task
      /\ need_tickle' = [need_tickle EXCEPT ![t] = FALSE]
      /\ UNCHANGED <<schedVars, tickles, idle_co, armed, arg>>
  BY Zenon, <1>0, <1>1, <1>2 DEF RunTask, ResetNeed
<1>3. PcTypeOK(P)' /\ Moved(t) /\ At(t) = "dispatch" /\ At(t)' = "co" /\ pc'[t] = "co"
  BY Zenon, <1>0, RunTaskMove
<1>4. /\ co'[c] = "RUNNING" /\ home'[c] = t /\ co[c] \in Resumable
      /\ \A d \in Coroutines : d # c => co'[d] = co[d] /\ home'[d] = home[d]
      /\ co' \in [Coroutines -> CoState] /\ home' \in [Coroutines -> Runners \cup {AnyThread}]
      /\ need_tickle' \in [Runners -> BOOLEAN]
  BY Zenon, <1>0, <1>1, <1>2, <1>a DEF RunTypeOK, CoState
<1>5. RunTypeOK(P)'
  BY <1>3, <1>4, <1>a, Zenon DEF RunTypeOK, PcTypeOK, schedVars
<1>6. /\ ~InCo(t) /\ InCo(t)' /\ ~Holds(t)' /\ Holds(t)
      /\ \A u \in Runners : u # t => At(u)' = At(u) /\ (InCo(u)' <=> InCo(u)) /\ (Holds(u)' <=> Holds(u))
      /\ \A u \in Runners : At(u)' = "armed" <=> At(u) = "armed"
  BY Zenon, <1>0, <1>3, <1>a, RunnerFacts DEF Moved, InCo, Holds
<1>7. \A u \in Runners : InCo(u) => u # t /\ task[u].co # c /\ task[u].co \in Coroutines
  BY SMTT(30), <1>4, <1>6 DEF CoInv, ControlInv, RunnerInv, Resumable, RunTypeOK, Task
<1>8. ControlInv'
  <2>1. ThreadInv(t)'
    BY Zenon, <1>0, <1>3, <1>a DEF ThreadInv, CoInv, ControlInv
  <2>2. RunnerInv(t)'
    BY Zenon, <1>0, <1>1, <1>2, <1>4, <1>6, <1>a DEF RunnerInv
  <2> QED
    BY SMTT(30), <2>1, <2>2, <1>0, <1>3, <1>4, <1>7, <1>a, ControlFrame DEF CoInv
<1>9. UniqueInv'
  <2>1. m_tasks' = m_tasks /\ arg' = arg /\ task' = task /\ armed' = armed
    BY Zenon, <1>a DEF schedVars
  <2>2. \A u \in Runners : Holds(u)' => Holds(u) /\ task'[u] = task[u]
    BY Zenon, <1>6, <2>1
  <2> QED
    BY Zenon, <2>1, <2>2, UniqueFrame DEF CoInv
<1>10. \A f \in Task : Token(f)' <=> Token(f) /\ f.co # c
  <2>1. \A f \in Task : f.co = c => ~Queued(f) /\ ~Passed(f) /\ f \notin armed
    BY SMTT(30), <1>1, <1>2, <1>6, SchedulerAssumption DEF UniqueInv, CoInv, Queued, Passed, SchedulerAssumption
  <2>2. \A f \in Task : Taken(f)' <=> Taken(f) /\ f.co # c
    BY Zenon, <1>1, <1>2, <1>6, <1>a DEF UniqueInv, CoInv, Taken
  <2> QED
    BY Zenon, <2>1, <2>2, <1>a DEF Token, Queued, Passed, schedVars
<1>11. TokenInv'
  <2>1. \A f \in Task : f.co # c /\ f.co \in Coroutines /\ TokenOK(f) => TokenOK(f)'
    BY Zenon, <1>4, <1>6 DEF TokenOK, Target
  <2>2. \A f \in Task : Token(f)' => TokenOK(f)'
    BY Zenon, <2>1, <1>10 DEF TokenInv, CoInv, Task
  <2> QED
    BY <2>2, <1>1, <1>2, <1>4, <1>6, <1>a DEF TokenInv, CoInv
<1>12. LiveInv'
  <2>1. \A d \in Coroutines : Waits(d)' => d # c /\ Waits(d)
    BY Zenon, <1>3, <1>4, <1>6 DEF Waits, Resumable
  <2> QED
    BY Zenon, <2>1, <1>10, <1>a DEF LiveInv, CoInv, schedVars
<1> QED
  BY Zenon, <1>5, <1>8, <1>9, <1>11, <1>12 DEF CoInv

-----------------------------------------------------------------------------
(* A running coroutine: the registration of a continuation, Yield() and    *)
(* its end; and a timer callback, which runs in a coroutine of its own     *)

(* A timer callback turns into the call schedule(co, wakes). *)
LEMMA RunCallbackStep ==
    ASSUME NEW P, RunTypeOK(P), CoInv, NEW t \in Runners, RunCallback(t)
    PROVE  RunTypeOK(P)' /\ CoInv'
<1>0. /\ t \in Threads /\ pc[t] = "dispatch" /\ task[t] # NoTask /\ task[t].wakes # AnyThread
      /\ Holds(t) /\ task[t] \in Task /\ TokenOK(task[t])
  BY Zenon, DispatchResumable, RunnerFacts DEF RunCallback
<1>1. PICK e \in Task : e = task[t]
  BY Zenon, <1>0
<1>2. PICK g \in Task : g = [co |-> e.co, thread |-> e.wakes, wakes |-> AnyThread]
  BY Zenon DEF Task
<1>3. /\ g # NoTask /\ g.co = e.co /\ g.wakes = AnyThread /\ Target(g) = Target(e)
      /\ co[e.co] # "INIT" /\ TokenOK(e)
  BY Zenon, <1>0, <1>1, <1>2, SchedulerAssumption DEF SchedulerAssumption, Target, TokenOK
<1>a. /\ arg' = [arg EXCEPT ![t] = g] /\ task' = [task EXCEPT ![t] = NoTask]
      /\ need_tickle' = [need_tickle EXCEPT ![t] = FALSE]
      /\ UNCHANGED <<schedVars, tickles, coVars>>
  BY Zenon, <1>1, <1>2 DEF RunCallback, ResetNeed
<1>4. /\ PcTypeOK(P)' /\ Moved(t) /\ At(t) = "dispatch" /\ At(t)' = "scan" /\ pc'[t] = "schedule"
  BY Zenon, <1>0, RunCallbackMove
<1>5. /\ arg[t] = NoTask /\ arg'[t] = g /\ \A u \in Threads : u # t => arg'[u] = arg[u]
      /\ task'[t] = NoTask /\ \A u \in Runners : u # t => task'[u] = task[u]
      /\ arg' \in [Threads -> Task \cup {NoTask}] /\ task' \in [Runners -> Task \cup {NoTask}]
      /\ need_tickle' \in [Runners -> BOOLEAN]
  BY Zenon, <1>0, <1>a DEF RunTypeOK, CoInv, ControlInv, ThreadInv
<1>6. RunTypeOK(P)'
  BY <1>4, <1>5, <1>a, Zenon DEF RunTypeOK, PcTypeOK, schedVars, coVars
<1>7. /\ ~Holds(t)' /\ Holds(t)
      /\ \A u \in Runners : u # t => At(u)' = At(u) /\ (Holds(u)' <=> Holds(u))
      /\ \A u \in Runners : (InCo(u)' <=> InCo(u)) /\ (At(u)' = "armed" <=> At(u) = "armed")
      /\ ~InCo(t) /\ ~InCo(t)'
  BY Zenon, <1>0, <1>4, <1>5, RunnerFacts DEF Moved, InCo, Holds
<1>8. ControlInv'
  <2>1. ThreadInv(t)'
    BY Zenon, <1>3, <1>4, <1>5 DEF ThreadInv
  <2>2. RunnerInv(t)'
    BY Zenon, <1>5, <1>7 DEF RunnerInv
  <2> QED
    BY Zenon, <2>1, <2>2, <1>0, <1>4, <1>5, <1>a, ControlFrame DEF CoInv, coVars
<1>9. UniqueInv'
  BY <1>1, <1>3, <1>5, <1>7, <1>a DEF UniqueInv, CoInv, schedVars, coVars
<1>10. \A f \in Task : Token(f)' => Token(f) \/ f = g
  BY Zenon, <1>5, <1>7, <1>a, SchedulerAssumption
    DEF Token, Queued, Passed, Taken, SchedulerAssumption, schedVars, coVars
<1>11. \A f \in Task : Token(f) /\ f # e => Token(f)'
  BY ZenonT(30), <1>1, <1>5, <1>7, <1>a, SchedulerAssumption
    DEF Token, Queued, Passed, Taken, SchedulerAssumption, schedVars, coVars
<1>12. Token(g)'
  BY Zenon, <1>0, <1>5 DEF Token, Passed
<1>13. TokenInv'
  <2>1. \A f \in Task : TokenOK(f) => TokenOK(f)'
    BY Zenon, <1>7, <1>a DEF TokenOK, Target, coVars
  <2>2. TokenOK(g)'
    BY Zenon, <1>3, <1>7, <1>a DEF TokenOK, Target, coVars
  <2>3. \A f \in Task : Token(f)' => TokenOK(f)'
    BY Zenon, <1>10, <2>1, <2>2 DEF TokenInv, CoInv
  <2>4. \A u \in Runners : InCo(u) => InCo(u)' /\ task'[u] = task[u]
    BY Zenon, <1>5, <1>7
  <2>5. co' = co /\ home' = home
    BY Zenon, <1>a DEF coVars
  <2> QED
    BY Zenon, <2>3, <2>4, <2>5 DEF TokenInv, CoInv
<1>14. LiveInv'
  <2>1. \A d \in Coroutines : Waits(d)' => Waits(d)
    BY Zenon, <1>7, <1>a DEF Waits, coVars
  <2> QED
    BY Zenon, <2>1, <1>3, <1>11, <1>12, <1>a DEF LiveInv, CoInv, schedVars
<1> QED
  BY Zenon, <1>6, <1>8, <1>9, <1>13, <1>14 DEF CoInv

(* While a coroutine runs and has not registered a continuation it has no  *)
(* token.                                                                  *)
LEMMA RunningNoToken ==
    ASSUME NEW P, RunTypeOK(P), CoInv, NEW t \in Runners, At(t) = "co"
    PROVE  /\ task[t] \in Task /\ task[t] # NoTask /\ task[t].co \in Coroutines
           /\ co[task[t].co] = "RUNNING" /\ home[task[t].co] = t
           /\ \A f \in Task : Token(f) => f.co # task[t].co
<1>1. InCo(t)
  BY Zenon DEF InCo
<1>2. /\ task[t] # NoTask /\ co[task[t].co] = "RUNNING" /\ home[task[t].co] = t
  BY Zenon, <1>1 DEF CoInv, ControlInv, RunnerInv
<1>3. task[t] \in Task /\ task[t].co \in Coroutines
  BY Zenon, <1>2 DEF RunTypeOK, Task
<1>4. \A f \in Task : Token(f) => f.co # task[t].co
  BY <1>2, <1>3 DEF CoInv, TokenInv, TokenOK
<1> QED
  BY Zenon, <1>2, <1>3, <1>4

(* A coroutine registers its continuation with a timer or an event. *)
LEMMA ArmStep ==
    ASSUME NEW P, RunTypeOK(P), CoInv, NEW t \in Runners, pc[t] = "co",
           armed' = armed \cup {[co |-> task[t].co, thread |-> t, wakes |-> AnyThread]},
           Call(t, "tickle", "armed") \/ Proceed(t, "armed"),
           UNCHANGED <<schedVars, tickles, co, home, idle_co, arg, task, need_tickle>>
    PROVE  RunTypeOK(P)' /\ CoInv'
<1>0. t \in Threads
  BY Zenon, RunnerFacts
<1>1. /\ PcTypeOK(P)' /\ Moved(t) /\ At(t) = "co" /\ At(t)' = "armed"
      /\ pc'[t] \notin {"schedule", "push"}
  BY Zenon, <1>0, ArmMove
<1>2. PICK c \in Coroutines : c = task[t].co
  BY Zenon, <1>1, RunningNoToken
<1>3. PICK e \in Task : e = [co |-> c, thread |-> t, wakes |-> AnyThread]
  BY Zenon DEF Task
<1>4. /\ e.co = c /\ Target(e) = t /\ e.wakes = AnyThread
      /\ co[c] = "RUNNING" /\ home[c] = t /\ \A f \in Task : Token(f) => f.co # c
      /\ armed' = armed \cup {e}
  BY Zenon, <1>1, <1>2, <1>3, RunningNoToken DEF Target
<1>5. armed' \subseteq Task
  BY Zenon, <1>4 DEF RunTypeOK
<1>6. RunTypeOK(P)'
  BY <1>1, <1>5, Zenon DEF RunTypeOK, PcTypeOK, schedVars
<1>7. /\ \A u \in Runners : (InCo(u)' <=> InCo(u)) /\ (Holds(u)' <=> Holds(u))
      /\ \A u \in Runners : u # t => At(u)' = At(u)
      /\ InCo(t) /\ InCo(t)'
  BY Zenon, <1>1, RunnerFacts DEF Moved, InCo, Holds
<1>8. ControlInv'
  <2>1. ThreadInv(t)'
    BY Zenon, <1>0, <1>1 DEF ThreadInv, CoInv, ControlInv
  <2>2. RunnerInv(t)'
    BY Zenon, <1>7 DEF RunnerInv, CoInv, ControlInv
  <2> QED
    BY Zenon, <2>1, <2>2, <1>0, <1>1, ControlFrame DEF CoInv
<1>9. /\ \A i \in DOMAIN m_tasks : m_tasks[i].co # c
      /\ \A u \in Threads : arg[u] # NoTask => arg[u].co # c
      /\ \A u \in Runners : Holds(u) => task[u].co # c
      /\ \A a \in armed : a.co # c
  BY SMTT(30), <1>4 DEF Token, Queued, Passed, Taken, RunTypeOK, Holds
<1>10. UniqueInv'
  BY <1>4, <1>7, <1>9 DEF UniqueInv, CoInv, schedVars
<1>11. \A f \in Task : Token(f)' <=> Token(f) \/ f = e
  BY Zenon, <1>4, <1>7 DEF Token, Queued, Passed, Taken, schedVars
<1>12. \A d \in Coroutines : d # c /\ co[d] = "RUNNING" => home[d] # t
  BY Zenon, <1>2 DEF CoInv, TokenInv
<1>13. TokenInv'
  <2>1. TokenOK(e)'
    BY Zenon, <1>1, <1>4 DEF TokenOK, Target
  <2>2. \A f \in Task : Token(f) => TokenOK(f)'
    <3> TAKE f \in Task
    <3> HAVE Token(f)
    <3>1. TokenOK(f) /\ f.co # c /\ f.co \in Coroutines
      BY Zenon, <1>4 DEF CoInv, TokenInv, Task
    <3> QED
      BY Zenon, <3>1, <1>7, <1>12 DEF TokenOK, Target
  <2>3. \A f \in Task : Token(f)' => TokenOK(f)'
    BY Zenon, <2>1, <2>2, <1>11
  <2> QED
    BY Zenon, <2>3, <1>7 DEF TokenInv, CoInv
<1>14. LiveInv'
  <2> SUFFICES ASSUME ~stop_called', NEW d \in Coroutines, Waits(d)'
               PROVE  \E f \in Task : f.co = d /\ Token(f)'
    BY Zenon DEF LiveInv, CoInv, schedVars
  <2>1. CASE d = c
    BY Zenon, <2>1, <1>4, <1>11
  <2>2. CASE d # c
    <3>1. Waits(d)
      BY Zenon, <2>2, <1>7, <1>12 DEF Waits
    <3> QED
      BY Zenon, <3>1, <1>11 DEF LiveInv, CoInv, schedVars
  <2> QED
    BY Zenon, <2>1, <2>2
<1> QED
  BY Zenon, <1>6, <1>8, <1>10, <1>13, <1>14 DEF CoInv

(* The switch back to run(): a coroutine that yields has registered its    *)
(* continuation, one that ends has not.                                    *)
LEMMA SwitchBackStep ==
    ASSUME NEW P, RunTypeOK(P), CoInv, NEW t \in Runners, Yield(t) \/ Finish(t)
    PROVE  RunTypeOK(P)' /\ CoInv'
<1>0. t \in Threads
  BY Zenon, RunnerFacts
<1>1. /\ PcTypeOK(P)' /\ Moved(t) /\ At(t) \in {"armed", "co"} /\ At(t)' = "scan"
      /\ pc'[t] = "scan" /\ pc[t] \notin {"schedule", "push"}
  BY Zenon, <1>0, SwitchBackMove DEF Yield, Finish
<1>2. /\ task[t] \in Task /\ task[t] # NoTask /\ task[t].co \in Coroutines
      /\ co[task[t].co] = "RUNNING" /\ home[task[t].co] = t
  BY <1>1 DEF CoInv, ControlInv, RunnerInv, RunTypeOK, Task, InCo
<1>3. PICK c \in Coroutines : c = task[t].co
  BY Zenon, <1>2
<1>4. /\ task' = [task EXCEPT ![t] = NoTask]
      /\ UNCHANGED <<schedVars, tickles, home, idle_co, armed, arg, need_tickle>>
  BY Zenon DEF Yield, Finish
<1>5. PICK s \in {"YIELD", "TERMINAL"} :
          co' = [co EXCEPT ![c] = s] /\ (At(t) = "armed" <=> s = "YIELD")
  BY Zenon, <1>0, <1>3, SwitchBackMove DEF Yield, Finish
<1>6. /\ co'[c] = s /\ \A d \in Coroutines : d # c => co'[d] = co[d]
      /\ task'[t] = NoTask /\ \A u \in Runners : u # t => task'[u] = task[u]
      /\ co' \in [Coroutines -> CoState] /\ task' \in [Runners -> Task \cup {NoTask}]
  BY Zenon, <1>4, <1>5 DEF RunTypeOK, CoState
<1>7. RunTypeOK(P)'
  BY <1>1, <1>4, <1>6, Zenon DEF RunTypeOK, PcTypeOK, schedVars
<1>8. /\ InCo(t) /\ ~InCo(t)' /\ ~Holds(t)' /\ ~Holds(t)
      /\ \A u \in Runners : u # t => At(u)' = At(u) /\ (InCo(u)' <=> InCo(u)) /\ (Holds(u)' <=> Holds(u))
  BY Zenon, <1>1, <1>6, RunnerFacts DEF Moved, InCo, Holds
<1>9. \A u \in Runners : InCo(u) => task[u].co \in Coroutines /\ (u # t => task[u].co # c)
  BY SMTT(30), <1>2, <1>3 DEF CoInv, ControlInv, RunnerInv, RunTypeOK, Task
<1>10. ControlInv'
  <2>1. ThreadInv(t)'
    BY Zenon, <1>0, <1>1, <1>4 DEF ThreadInv, CoInv, ControlInv
  <2>2. RunnerInv(t)'
    BY Zenon, <1>6, <1>8 DEF RunnerInv
  <2> QED
    BY Zenon, <2>1, <2>2, <1>0, <1>1, <1>4, <1>6, <1>9, ControlFrame DEF CoInv
<1>11. UniqueInv'
  BY Zenon, <1>4, <1>6, <1>8, UniqueFrame DEF CoInv, schedVars
<1>12. \A f \in Task : Token(f)' <=> Token(f)
  BY Zenon, <1>4, <1>6, <1>8, SameTokens DEF schedVars
<1>13. \A d \in Coroutines : d # c /\ co[d] = "RUNNING" => home[d] # t
  BY Zenon, <1>3 DEF CoInv, TokenInv
<1>14. s = "TERMINAL" => \A f \in Task : Token(f) => f.co # c
  BY Zenon, <1>1, <1>3, <1>5, RunningNoToken
<1>15. TokenInv'
  <2>1. \A f \in Task : Token(f) => TokenOK(f)'
    <3> TAKE f \in Task
    <3> HAVE Token(f)
    <3>1. TokenOK(f) /\ f.co \in Coroutines
      BY Zenon DEF CoInv, TokenInv, Task
    <3>2. CASE f.co = c
      BY Zenon, <3>1, <3>2, <1>2, <1>3, <1>4, <1>6, <1>14 DEF TokenOK, Target
    <3>3. CASE f.co # c
      BY Zenon, <3>1, <3>3, <1>4, <1>6, <1>8, <1>13 DEF TokenOK, Target
    <3> QED
      BY Zenon, <3>2, <3>3
  <2>2. \A d \in Coroutines :
          (co[d] = "RUNNING" => \E u \in Runners : home[d] = u /\ InCo(u) /\ task[u].co = d)'
    <3> SUFFICES ASSUME NEW d \in Coroutines, co'[d] = "RUNNING"
                 PROVE  \E u \in Runners : home'[d] = u /\ InCo(u)' /\ task'[u].co = d
      OBVIOUS
    <3>1. d # c /\ co[d] = "RUNNING" /\ home[d] # t
      BY Zenon, <1>6, <1>13
    <3>2. PICK u \in Runners : home[d] = u /\ InCo(u) /\ task[u].co = d
      BY Zenon, <3>1 DEF TokenInv, CoInv
    <3> QED
      BY Zenon, <3>1, <3>2, <1>4, <1>6, <1>8
  <2> QED
    BY Zenon, <2>1, <2>2, <1>12 DEF TokenInv
<1>16. LiveInv'
  <2>1. \A d \in Coroutines : Waits(d)' => Waits(d)
    <3> TAKE d \in Coroutines
    <3>1. CASE d = c
      BY Zenon, <3>1, <1>2, <1>3, <1>5, <1>6 DEF Waits, Resumable
    <3>2. CASE d # c
      BY Zenon, <3>2, <1>4, <1>6, <1>8, <1>13 DEF Waits
    <3> QED
      BY Zenon, <3>1, <3>2
  <2> QED
    BY Zenon, <2>1, <1>4, <1>12 DEF LiveInv, CoInv, schedVars
<1> QED
  BY Zenon, <1>7, <1>10, <1>11, <1>15, <1>16 DEF CoInv
====
