-------------------------- MODULE SchedulerProofs --------------------------
(***************************************************************************)
(* The theorems about tiger::Scheduler, for every number of threads,       *)
(* clients and coroutines.  IInv is inductive: RunInv says where the       *)
(* wake-ups of coroutines are and what the counters count, and the lemmas  *)
(* of SchedulerPoolProofs and SchedulerPoolProofs preserve it on the steps *)
(* of SchedulerRun and of an idle loop; here are the steps that the base   *)
(* class adds.                                                             *)
(***************************************************************************)
EXTENDS Scheduler, SchedulerPoolProofs

IInv == RunInv(IdlePc) /\ tickles <= MaxTickles

LEMMA IdlePcFacts == IdlePc \cap RunPc = {} /\ "idle" \in IdlePc
  BY Zenon DEF IdlePc, RunPc, CallPc

LEMMA InitInv ==
    ASSUME Init
    PROVE  IInv
<1>1. RunInv(IdlePc)
  BY Zenon, InitRunInv DEF Init
<1>2. tickles <= MaxTickles
  BY MaxTicklesAssumption DEF Init, RunInit, MaxTicklesAssumption
<1> QED
  BY Zenon, <1>1, <1>2 DEF IInv

(* tickle() posts the semaphore and returns. *)
LEMMA TicklePostInv ==
    ASSUME IInv, NEW t \in Threads, TicklePost(t)
    PROVE  IInv'
<1>1. tickles \in Nat /\ tickles <= MaxTickles /\ MaxTickles \in Nat
  BY Zenon, MaxTicklesAssumption DEF IInv, RunInv, RunTypeOK, MaxTicklesAssumption
<1>2. tickles' \in Nat /\ tickles' <= MaxTickles
  BY <1>1 DEF TicklePost
<1> QED
  BY Zenon, <1>2, PostRunInv DEF IInv, TicklePost

(* idle(): the semaphore is the only thing it adds to the loop. *)
LEMMA IdleStepInv ==
    ASSUME IInv, NEW t \in Runners, IdleStep(t)
    PROVE  IInv'
<1>0. /\ RunInv(IdlePc) /\ IdlePc \cap RunPc = {} /\ m_thread_cnt \in Nat
      /\ tickles \in Nat /\ tickles <= MaxTickles /\ MaxTickles \in Nat
  BY IdlePcFacts, MaxTicklesAssumption DEF IInv, RunInv, RunTypeOK, MaxTicklesAssumption
<1>1. CASE IdleCheck(t)
  <2>1. PICK l \in {"idle_inc", "scan"} : Proceed(t, l) /\
            IF l = "scan" THEN MayLeave(t) /\ idle_co' = [idle_co EXCEPT ![t] = "TERMINAL"]
                          ELSE idle_co' = idle_co
    BY <1>0, <1>1 DEF IdleCheck, Proceed, MayLeave, localVars
  <2>2. /\ pc[t] \in IdlePc /\ l \in IdlePc \cup {"scan"} /\ (l # "scan" => l \in IdlePc) /\ Counts(t, l)
        /\ UNCHANGED <<m_tasks, m_is_stopping, m_is_stopped, stop_called, m_thread_cnt, tickles,
                       co, home, armed, arg, task, need_tickle>>
    BY Zenon, <1>1 DEF IdleCheck, IdlePc, localVars, schedVars, Counts, CountedPc
  <2> QED
    BY Zenon, <1>0, <2>1, <2>2, IdleLoop DEF IInv
<1>2. CASE IdleEnter(t)
  <2>1. /\ Proceed(t, "idle_wait") /\ pc[t] \in IdlePc /\ "idle_wait" \in IdlePc /\ Counts(t, "idle_wait")
        /\ UNCHANGED <<m_tasks, m_is_stopping, m_is_stopped, stop_called, m_thread_cnt, tickles,
                       co, home, idle_co, armed, arg, task, need_tickle>>
    BY Zenon, <1>2 DEF IdleEnter, Proceed, coVars, localVars, IdlePc, Counts, CountedPc
  <2> QED
    BY Zenon, <1>0, <2>1, IdleLoop DEF IInv
<1>3. CASE IdleWait(t)
  <2>1. /\ Proceed(t, "idle_dec") /\ pc[t] \in IdlePc /\ "idle_dec" \in IdlePc /\ Counts(t, "idle_dec")
        /\ UNCHANGED <<m_tasks, m_is_stopping, m_is_stopped, stop_called, m_thread_cnt,
                       co, home, idle_co, armed, arg, task, need_tickle>>
    BY Zenon, <1>3 DEF IdleWait, Proceed, schedVars, coVars, localVars, IdlePc, Counts, CountedPc
  <2>2. tickles' \in Nat /\ tickles' <= MaxTickles
    BY <1>0, <1>3 DEF IdleWait
  <2> QED
    BY Zenon, <1>0, <2>1, <2>2, IdleLoop DEF IInv
<1>4. CASE IdleLeave(t)
  <2>1. /\ Proceed(t, "scan") /\ pc[t] \in IdlePc /\ "scan" \in IdlePc \cup {"scan"} /\ Counts(t, "scan")
        /\ idle_co' = [idle_co EXCEPT ![t] = "YIELD"]
        /\ UNCHANGED <<m_tasks, m_is_stopping, m_is_stopped, stop_called, m_thread_cnt, tickles,
                       co, home, armed, arg, task, need_tickle>>
    BY Zenon, <1>4 DEF IdleLeave, Proceed, localVars, IdlePc, Counts, CountedPc
  <2> QED
    BY Zenon, <1>0, <2>1, IdleLoop DEF IInv
<1> QED
  BY Zenon, <1>1, <1>2, <1>3, <1>4 DEF IdleStep

(* A client fires a continuation. *)
LEMMA FireInv ==
    ASSUME IInv, NEW t \in Threads, NEW a \in armed, Fire(t, a)
    PROVE  IInv'
<1>1. "user" \in ReturnPc \cap (RunPc \cup IdlePc) /\ pc[t] = "user" /\ tickles' = tickles
  BY Zenon DEF ReturnPc, RunPc, Fire
<1> QED
  BY Zenon, <1>1, FireRunInv DEF IInv, Fire

LEMMA StutterInv ==
    ASSUME IInv, UNCHANGED runVars
    PROVE  IInv'
  BY Zenon, StutterRunInv DEF IInv, runVars

LEMMA NextInv ==
    ASSUME IInv, [Next]_runVars
    PROVE  IInv'
<1>0. RunInv(IdlePc) /\ tickles <= MaxTickles
  BY Zenon DEF IInv
<1>1. CASE UserStep
  BY Zenon, <1>0, <1>1, UserInv, RunKeepsTickles, IdlePcFacts DEF IInv
<1>2. ASSUME NEW t \in Threads, CallStep(t) PROVE IInv'
  BY Zenon, <1>0, <1>2, CallInv, RunKeepsTickles, IdlePcFacts DEF IInv
<1>3. ASSUME NEW t \in Runners, RunStep(t) PROVE IInv'
  BY Zenon, <1>0, <1>3, RunStepInv, RunKeepsTickles, IdlePcFacts DEF IInv
<1>4. ASSUME NEW t \in Runners, Arm(t) \/ Yield(t) \/ Finish(t) PROVE IInv'
  BY Zenon, <1>0, <1>4, CoStepInv, RunKeepsTickles, IdlePcFacts DEF IInv
<1>5. ASSUME NEW t \in Runners, IdleStep(t) PROVE IInv'
  BY Zenon, <1>5, IdleStepInv
<1>6. ASSUME NEW t \in Threads, TicklePost(t) PROVE IInv'
  BY Zenon, <1>6, TicklePostInv
<1>7. ASSUME NEW t \in Threads, NEW a \in armed, Fire(t, a) PROVE IInv'
  BY Zenon, <1>7, FireInv
<1>8. CASE UNCHANGED runVars
  BY Zenon, <1>8, StutterInv
<1> QED
  BY Zenon, <1>1, <1>2, <1>3, <1>4, <1>5, <1>6, <1>7, <1>8 DEF Next

-----------------------------------------------------------------------------
(* The theorems *)

(* The inductive invariant holds in every reachable state. *)
THEOREM Invariance == Spec => []IInv
<1>1. Init => IInv
  BY Zenon, InitInv
<1>2. IInv /\ [Next]_runVars => IInv'
  BY Zenon, NextInv
<1> QED
  BY <1>1, <1>2, PTL DEF Spec

(* Every variable keeps its type, the counters included: m_idle_cnt never  *)
(* goes below 0 and m_thread_cnt stays within a size_t.                    *)
THEOREM TypeCorrect == Spec => []TypeOK
<1>1. IInv => TypeOK
  BY Zenon DEF IInv, RunInv, TypeOK
<1> QED
  BY <1>1, Invariance, PTL

(* No coroutine ever has two wake-ups, for any number of threads, clients  *)
(* and coroutines.                                                         *)
THEOREM OneWakeupHolds == Spec => []OneWakeup
<1>1. IInv => OneWakeup
  BY Zenon, CoInvOneWakeup DEF IInv, RunInv
<1> QED
  BY <1>1, Invariance, PTL

(* run() never drops a task: whatever it takes from the list it can resume.*)
THEOREM NoTaskDroppedHolds == Spec => []NoTaskDropped
<1>1. IInv => NoTaskDropped
  BY Zenon, CoInvNoTaskDropped DEF IInv, RunInv
<1> QED
  BY <1>1, Invariance, PTL

(* No coroutine runs on two threads at once. *)
THEOREM RunsOnOneThreadHolds == Spec => []RunsOnOneThread
<1>1. IInv => RunsOnOneThread
  BY Zenon, CoInvRunsOnOneThread DEF IInv, RunInv
<1> QED
  BY <1>1, Invariance, PTL

(* Until stop() every coroutine that waits has a wake-up. *)
THEOREM NoCoroutineForgottenHolds == Spec => []NoCoroutineForgotten
<1>1. IInv => NoCoroutineForgotten
  BY Zenon, CoInvNoCoroutineForgotten DEF IInv, RunInv
<1> QED
  BY <1>1, Invariance, PTL

(* A suspended coroutine is continued on the thread that suspended it. *)
THEOREM ContinuedAtHomeHolds == Spec => ContinuedAtHome
<1>1. ASSUME IInv, Next, NEW c \in Coroutines, co[c] = "YIELD", co'[c] = "RUNNING"
      PROVE  home'[c] = home[c]
  <2>0. RunTypeOK(IdlePc) /\ CoInv
    BY Zenon, <1>1 DEF IInv, RunInv
  <2>1. CASE UserStep
    BY Zenon, <1>1, <2>0, <2>1 DEF UserStep, StartBegin, Stop, Submit, coVars, RunTypeOK
  <2>2. ASSUME NEW t \in Threads, CallStep(t) \/ TicklePost(t) PROVE FALSE
    BY Zenon, <1>1, <2>2 DEF CallStep, StartThreads, ScheduleCheck, SchedulePush, ScheduleTickle, TickleCheck,
                      TicklePost, coVars
  <2>3. ASSUME NEW t \in Threads, NEW a \in armed, Fire(t, a) PROVE FALSE
    BY Zenon, <1>1, <2>3 DEF Fire
  <2>4. ASSUME NEW t \in Runners, RunStep(t), ~RunTask(t) PROVE FALSE
    BY Zenon, <1>1, <2>4 DEF RunStep, ScanTake, ScanNone, AfterScan, RunCallback, RunIdle, RunExit, coVars
  <2>5. ASSUME NEW t \in Runners, IdleStep(t) PROVE FALSE
    BY Zenon, <1>1, <2>5 DEF IdleStep, IdleCheck, IdleEnter, IdleWait, IdleLeave, coVars
  <2>6. ASSUME NEW t \in Runners, Arm(t) \/ Yield(t) \/ Finish(t) PROVE FALSE
    BY Zenon, <1>1, <2>0, <2>6 DEF Arm, Yield, Finish, RunTypeOK
  <2>7. ASSUME NEW t \in Runners, RunTask(t) PROVE home'[c] = home[c]
    BY Zenon, <1>1, <2>0, <2>7, RunTaskAtHome
  <2> QED
    BY Zenon, <1>1, <2>1, <2>2, <2>3, <2>4, <2>5, <2>6, <2>7 DEF Next
<1>2. IInv /\ [Next]_runVars =>
        [\A c \in Coroutines : co[c] = "YIELD" /\ co'[c] = "RUNNING" => home'[c] = home[c]]_runVars
  BY Zenon, <1>1
<1> QED
  BY <1>2, Invariance, PTL DEF Spec, ContinuedAtHome

(* m_idle_cnt counts the threads that wait for a tickle() or have just     *)
(* been woken.                                                             *)
THEOREM IdleCntExactHolds == Spec => []IdleCntExact
<1>1. IInv => IdleCntExact
  BY Zenon DEF IInv, RunInv, PoolInv
<1> QED
  BY <1>1, Invariance, PTL

(* The assertion in Coroutine::resume() holds for the idle coroutine. *)
THEOREM IdleCoResumableHolds == Spec => []IdleCoResumable
<1>1. IInv => IdleCoResumable
  BY Zenon, IdleResumable, IdlePcFacts DEF IInv, RunInv
<1> QED
  BY <1>1, Invariance, PTL

(* start() returns on the main thread only when the pool is empty. *)
THEOREM MainLeavesLastHolds == Spec => []MainLeavesLast
<1>1. IInv => MainLeavesLast
  BY Zenon, MainLast DEF IInv, RunInv, PoolInv
<1> QED
  BY <1>1, Invariance, PTL
=============================================================================
