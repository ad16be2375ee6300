------------------------------ MODULE Scheduler ------------------------------
(***************************************************************************)
(* The base class tiger::Scheduler: run() and schedule() of SchedulerRun   *)
(* with the semaphore that the base class's tickle() posts and its idle()  *)
(* waits on.  The continuations in armed are fired by client threads, as   *)
(* the callbacks in hook.cc do: schedule(co, thread).                      *)
(***************************************************************************)
EXTENDS SchedulerRun

CONSTANT MaxTickles   \* bound: the semaphore saturates here

ASSUME MaxTicklesAssumption == MaxTickles \in Nat \ {0}

IdlePc == {"idle", "idle_inc", "idle_wait", "idle_dec"}

-----------------------------------------------------------------------------
(* tickle()'s m_semaphore.post() *)
TicklePost(t) ==
    /\ pc[t] = "post"
    /\ tickles' = IF tickles < MaxTickles THEN tickles + 1 ELSE tickles
    /\ Return(t)
    /\ UNCHANGED <<schedVars, coVars, arg, task, need_tickle>>

(* Mutant of IdleCheck: the main thread does not wait for the pool. *)
IdleCheckNoMain(t) ==
    /\ pc[t] = "idle"
    /\ IF m_is_stopping
       THEN Goto(t, "scan") /\ idle_co' = [idle_co EXCEPT ![t] = "TERMINAL"]
       ELSE Goto(t, "idle_inc") /\ UNCHANGED idle_co
    /\ UNCHANGED <<schedVars, tickles, co, home, armed, localVars>>

(* The top of idle()'s loop: leave idle() when stopping, except that the   *)
(* main thread waits for the pool to empty.                                *)
IdleCheck(t) ==
    /\ pc[t] = "idle"
    /\ IF m_is_stopping /\ ~(t = Main /\ m_thread_cnt > 0)
       THEN Goto(t, "scan") /\ idle_co' = [idle_co EXCEPT ![t] = "TERMINAL"]
       ELSE Goto(t, "idle_inc") /\ UNCHANGED idle_co
    /\ UNCHANGED <<schedVars, tickles, co, home, armed, localVars>>

(* ++m_idle_cnt, in either branch of idle()'s loop *)
IdleEnter(t) ==
    /\ pc[t] = "idle_inc"
    /\ m_idle_cnt' = m_idle_cnt + 1
    /\ Goto(t, "idle_wait")
    /\ UNCHANGED <<m_tasks, m_is_stopping, m_is_stopped, stop_called, m_thread_cnt, tickles, coVars, localVars>>

(* m_semaphore.wait() *)
IdleWait(t) ==
    /\ pc[t] = "idle_wait"
    /\ tickles > 0
    /\ tickles' = tickles - 1
    /\ Goto(t, "idle_dec")
    /\ UNCHANGED <<schedVars, coVars, localVars>>

(* Mutant of IdleLeave: the --m_idle_cnt is missing. *)
IdleLeaveUncounted(t) ==
    /\ pc[t] = "idle_dec"
    /\ idle_co' = [idle_co EXCEPT ![t] = "YIELD"]
    /\ Goto(t, "scan")
    /\ UNCHANGED <<schedVars, tickles, co, home, armed, localVars>>

(* Mutant of IdleLeave: the count is taken back both after the wait and    *)
(* before the Yield().                                                     *)
IdleLeaveTwice(t) ==
    /\ pc[t] = "idle_dec"
    /\ m_idle_cnt' = m_idle_cnt - 2
    /\ idle_co' = [idle_co EXCEPT ![t] = "YIELD"]
    /\ Goto(t, "scan")
    /\ UNCHANGED <<m_tasks, m_is_stopping, m_is_stopped, stop_called, m_thread_cnt, tickles, co, home, armed,
                   localVars>>

(* --m_idle_cnt and Coroutine::Yield() back into run() *)
IdleLeave(t) ==
    /\ pc[t] = "idle_dec"
    /\ m_idle_cnt' = m_idle_cnt - 1
    /\ idle_co' = [idle_co EXCEPT ![t] = "YIELD"]
    /\ Goto(t, "scan")
    /\ UNCHANGED <<m_tasks, m_is_stopping, m_is_stopped, stop_called, m_thread_cnt, tickles, co, home, armed,
                   localVars>>

(* A client thread fires a continuation: it calls schedule(co, thread), or *)
(* it schedules a callback that will.                                      *)
Fire(t, a) ==
    /\ pc[t] = "user" /\ t \in Clients
    /\ armed' = armed \ {a}
    /\ \E e \in {a, [co |-> a.co, thread |-> AnyThread, wakes |-> a.thread]} :
          arg' = [arg EXCEPT ![t] = e]
    /\ Call(t, "schedule", "user")
    /\ UNCHANGED <<schedVars, tickles, co, home, idle_co, task, need_tickle>>

-----------------------------------------------------------------------------
IdleStep(t) == IdleCheck(t) \/ IdleEnter(t) \/ IdleWait(t) \/ IdleLeave(t)

Init == RunInit

Next ==
    \/ UserStep
    \/ \E t \in Threads : CallStep(t) \/ TicklePost(t) \/ \E a \in armed : Fire(t, a)
    \/ \E t \in Runners : RunStep(t) \/ IdleStep(t) \/ Arm(t) \/ Yield(t) \/ Finish(t)

Spec == Init /\ [][Next]_runVars

TypeOK == RunTypeOK(IdlePc) /\ tickles <= MaxTickles

=============================================================================
