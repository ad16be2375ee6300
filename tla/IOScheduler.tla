----------------------------- MODULE IOScheduler -----------------------------
(***************************************************************************)
(* IOManager as a scheduler: run() and schedule() of SchedulerRun with     *)
(* IOManager's tickle(), which writes a byte to a pipe, and its idle(),    *)
(* which waits in epoll_wait for the pipe, for file descriptors and for    *)
(* the next timer, schedules the callbacks of expired timers and the       *)
(* coroutines whose events arrived, and yields to run().                   *)
(*                                                                         *)
(* Time is abstract: a timer of armed becomes due at some moment and       *)
(* epoll_wait may time out whenever nothing is ready, so that every        *)
(* relation between deadlines and the 5 s limit is covered.                *)
(***************************************************************************)
EXTENDS SchedulerRun, Functions

CONSTANT MaxTickles   \* bound: bytes of the pipe that are told apart

ASSUME MaxTicklesAssumption == MaxTickles \in Nat \ {0}

VARIABLES
    sleeping,   \* coroutines whose continuation in armed is a timer
    due,        \* expired timers and ready events nobody has collected
    cbs,        \* idle()'s local cbs: expired timers to be scheduled
    events,     \* idle()'s local events: reported, not yet handled
    rt          \* epoll_wait's result: TRUE if it reported something

ioVars == <<sleeping, due, cbs, events, rt>>
vars == <<runVars, ioVars>>

IdlePc == {"idle", "idle_wait", "idle_dec", "idle_check", "idle_expire",
           "idle_sched", "idle_push", "idle_events", "idle_end"}
Pipe == "pipe"

ASSUME PipeAssumption == Pipe \notin Coroutines

Continuation(c) == CHOOSE a \in armed : a.co = c
Callback(a) == [co |-> a.co, thread |-> AnyThread, wakes |-> a.thread]

-----------------------------------------------------------------------------
(* tickle()'s write of one byte *)
TicklePost(t) ==
    /\ pc[t] = "post"
    /\ tickles' = IF tickles < MaxTickles THEN tickles + 1 ELSE tickles
    /\ Return(t)
    /\ UNCHANGED <<schedVars, coVars, arg, task, need_tickle, ioVars>>

(* add_event(): the running coroutine waits for a file descriptor. *)
ArmEvent(t) == Arm(t) /\ UNCHANGED ioVars

(* sleep(): add_timer() with a callback that schedules the coroutine on    *)
(* this thread; a timer that is the first to expire tickles.               *)
ArmTimer(t) ==
    /\ pc[t] = "co"
    /\ armed' = armed \cup {[co |-> task[t].co, thread |-> t, wakes |-> AnyThread]}
    /\ sleeping' = sleeping \cup {task[t].co}
    /\ \/ Call(t, "tickle", "armed")
       \/ sleeping # {} /\ Proceed(t, "armed")
    /\ UNCHANGED <<schedVars, tickles, co, home, idle_co, arg, task, need_tickle,
                   due, cbs, events, rt>>

(* A deadline passes, or a file descriptor becomes ready. *)
BecomeDue(c) ==
    /\ c \notin due
    /\ \E a \in armed : a.co = c
    /\ \A t \in Runners : c \notin cbs[t] /\ c \notin events[t]
    /\ due' = due \cup {c}
    /\ UNCHANGED <<runVars, sleeping, cbs, events, rt>>

-----------------------------------------------------------------------------
(* idle() *)

(* Mutant of IdleEnter: the ++m_idle_cnt is missing. *)
IdleEnterUncounted(t) ==
    /\ pc[t] = "idle"
    /\ Goto(t, "idle_wait")
    /\ UNCHANGED <<schedVars, tickles, coVars, localVars, ioVars>>

(* next_timer_left_time() only bounds the wait; then ++m_idle_cnt. *)
IdleEnter(t) ==
    /\ pc[t] = "idle"
    /\ m_idle_cnt' = m_idle_cnt + 1
    /\ Goto(t, "idle_wait")
    /\ UNCHANGED <<m_tasks, m_is_stopping, m_is_stopped, stop_called, m_thread_cnt, tickles, coVars, localVars,
                   ioVars>>

Ready == (due \ sleeping) \cup (IF tickles > 0 THEN {Pipe} ELSE {})

(* Mutant of EpollWait: the wait has no time-out. *)
EpollWaitForever(t) ==
    /\ pc[t] = "idle_wait"
    /\ Ready # {}
    /\ rt' = [rt EXCEPT ![t] = TRUE]
    /\ events' = [events EXCEPT ![t] = Ready]
    /\ due' = due \cap sleeping
    /\ Goto(t, "idle_dec")
    /\ UNCHANGED <<schedVars, tickles, coVars, localVars, sleeping, cbs>>

(* epoll_wait: descriptors are registered with EPOLLET and reported once,  *)
(* the pipe is reported as long as it holds a byte; an empty result is a   *)
(* time-out.                                                               *)
EpollWait(t) ==
    /\ pc[t] = "idle_wait"
    /\ rt' = [rt EXCEPT ![t] = Ready # {}]
    /\ events' = [events EXCEPT ![t] = Ready]
    /\ due' = due \cap sleeping
    /\ Goto(t, "idle_dec")
    /\ UNCHANGED <<schedVars, tickles, coVars, localVars, sleeping, cbs>>

IdleLeave(t) ==
    /\ pc[t] = "idle_dec"
    /\ m_idle_cnt' = m_idle_cnt - 1
    /\ Goto(t, "idle_check")
    /\ UNCHANGED <<m_tasks, m_is_stopping, m_is_stopped, stop_called, m_thread_cnt, tickles, coVars, localVars,
                   ioVars>>

(* Mutant of IdleCheck: an expired timer does not end the inner loop. *)
IdleCheckNoTimer(t) ==
    /\ pc[t] = "idle_check"
    /\ Goto(t, IF rt[t] \/ sleeping = {} \/ m_is_stopping THEN "idle_expire" ELSE "idle")
    /\ rt' = [rt EXCEPT ![t] = FALSE]
    /\ UNCHANGED <<schedVars, tickles, coVars, localVars, sleeping, due, cbs, events>>

(* The inner loop waits again only while a timer exists and none is due:   *)
(* without timers next_timer_left_time() is negative.                      *)
IdleCheck(t) ==
    /\ pc[t] = "idle_check"
    /\ Goto(t, IF rt[t] \/ sleeping = {} \/ sleeping \cap due # {} \/ m_is_stopping
               THEN "idle_expire" ELSE "idle")
    /\ rt' = [rt EXCEPT ![t] = FALSE]
    /\ UNCHANGED <<schedVars, tickles, coVars, localVars, sleeping, due, cbs, events>>

(* all_expired_cbs() *)
IdleExpire(t) ==
    /\ pc[t] = "idle_expire"
    /\ cbs' = [cbs EXCEPT ![t] = sleeping \cap due]
    /\ sleeping' = sleeping \ due
    /\ due' = due \ sleeping
    /\ Goto(t, "idle_sched")
    /\ UNCHANGED <<schedVars, tickles, coVars, localVars, events, rt>>

(* schedules(): the callbacks are dropped when stopping. *)
IdleSchedules(t) ==
    /\ pc[t] = "idle_sched"
    /\ IF m_is_stopping
       THEN /\ armed' = {a \in armed : a.co \notin cbs[t]}
            /\ cbs' = [cbs EXCEPT ![t] = {}]
            /\ Goto(t, "idle_events")
       ELSE Goto(t, "idle_push") /\ UNCHANGED <<armed, cbs>>
    /\ UNCHANGED <<schedVars, tickles, co, home, idle_co, localVars, sleeping, due, events, rt>>

(* schedules(): all callbacks are appended under m_mutex; a push to an     *)
(* empty list looks for an idle thread even if there was no callback.      *)
IdlePush(t) ==
    /\ pc[t] = "idle_push"
    /\ LET new == {Callback(a) : a \in {b \in armed : b.co \in cbs[t]}}
       IN  \E s \in Bijection(1 .. Cardinality(new), new) : m_tasks' = m_tasks \o s
    /\ armed' = {a \in armed : a.co \notin cbs[t]}
    /\ cbs' = [cbs EXCEPT ![t] = {}]
    /\ IF m_tasks = <<>> THEN Call(t, "sched_check", "idle_events") ELSE Proceed(t, "idle_events")
    /\ UNCHANGED <<m_is_stopping, m_is_stopped, stop_called, m_thread_cnt, m_idle_cnt, tickles, co, home, idle_co,
                   arg, task, need_tickle, sleeping, due, events, rt>>

(* The pipe is read until it is empty. *)
DrainPipe(t) ==
    /\ pc[t] = "idle_events"
    /\ Pipe \in events[t]
    /\ tickles' = 0
    /\ events' = [events EXCEPT ![t] = @ \ {Pipe}]
    /\ UNCHANGED <<schedVars, coVars, pc, localVars, sleeping, due, cbs, rt>>

(* trigger_event() of the event's context: schedule(co, thread_id). *)
TriggerEvent(t) ==
    /\ pc[t] = "idle_events"
    /\ \E c \in events[t] \ {Pipe} :
          /\ arg' = [arg EXCEPT ![t] = Continuation(c)]
          /\ armed' = armed \ {Continuation(c)}
          /\ events' = [events EXCEPT ![t] = @ \ {c}]
    /\ Call(t, "schedule", "idle_events")
    /\ UNCHANGED <<schedVars, tickles, co, home, idle_co, task, need_tickle, sleeping, due, cbs, rt>>

EventsHandled(t) ==
    /\ pc[t] = "idle_events"
    /\ events[t] = {}
    /\ Goto(t, "idle_end")
    /\ UNCHANGED <<schedVars, tickles, coVars, localVars, ioVars>>

(* Mutant of IdleEnd: the main thread's idle() does not wait for the pool. *)
IdleEndNoMain(t) ==
    /\ pc[t] = "idle_end"
    /\ idle_co' = [idle_co EXCEPT ![t] =
                      IF m_is_stopping /\ m_tasks = <<>> THEN "TERMINAL" ELSE "YIELD"]
    /\ Goto(t, "scan")
    /\ UNCHANGED <<schedVars, tickles, co, home, armed, localVars, ioVars>>

(* Under m_mutex: idle() ends when stopping with an empty list, on the     *)
(* main thread only after the pool is empty; otherwise it yields to run(). *)
IdleEnd(t) ==
    /\ pc[t] = "idle_end"
    /\ idle_co' = [idle_co EXCEPT ![t] =
                      IF m_is_stopping /\ m_tasks = <<>> /\ (t = Main => m_thread_cnt = 0)
                      THEN "TERMINAL" ELSE "YIELD"]
    /\ Goto(t, "scan")
    /\ UNCHANGED <<schedVars, tickles, co, home, armed, localVars, ioVars>>

IdleStep(t) ==
    \/ IdleEnter(t) \/ EpollWait(t) \/ IdleLeave(t) \/ IdleCheck(t)
    \/ IdleExpire(t) \/ IdleSchedules(t) \/ IdlePush(t)
    \/ DrainPipe(t) \/ TriggerEvent(t) \/ EventsHandled(t) \/ IdleEnd(t)

-----------------------------------------------------------------------------
Init ==
    /\ RunInit
    /\ sleeping = {} /\ due = {}
    /\ cbs = [t \in Runners |-> {}]
    /\ events = [t \in Runners |-> {}]
    /\ rt = [t \in Runners |-> FALSE]

(* A step inside the scheduler's own code. *)
SystemStep(t) ==
    \/ TicklePost(t)
    \/ CallStep(t) /\ UNCHANGED ioVars
    \/ t \in Runners /\ (IdleStep(t) \/ ((RunStep(t) \/ Yield(t)) /\ UNCHANGED ioVars))

(* A coroutine gives its thread back: it suspends itself or ends. *)
GiveBack(t) == ArmEvent(t) \/ ArmTimer(t) \/ (Finish(t) /\ UNCHANGED ioVars)

Next ==
    \/ UserStep /\ UNCHANGED ioVars
    \/ \E t \in Threads : SystemStep(t)
    \/ \E t \in Runners : GiveBack(t)
    \/ \E c \in Coroutines : BecomeDue(c)

(* The operating system runs every thread, the code of a coroutine ends or *)
(* suspends whatever it calls before, and every deadline passes.  Nothing  *)
(* is assumed about start(), stop(), schedule() and ready descriptors.     *)
Fairness ==
    /\ \A t \in Threads : WF_vars(SystemStep(t))
    /\ \A t \in Runners : SF_vars(GiveBack(t))
    /\ \A c \in Coroutines : WF_vars(c \in sleeping /\ BecomeDue(c))

Spec == Init /\ [][Next]_vars
FairSpec == Spec /\ Fairness

-----------------------------------------------------------------------------
(* The variables have their types, and the pipe does not fill up. *)
TypeOK ==
    /\ RunTypeOK(IdlePc)
    /\ tickles <= MaxTickles
    /\ sleeping \subseteq Coroutines /\ due \subseteq Coroutines
    /\ cbs \in [Runners -> SUBSET Coroutines]
    /\ events \in [Runners -> SUBSET (Coroutines \cup {Pipe})]
    /\ rt \in [Runners -> BOOLEAN]

(* What the semaphore's pool guarantees (see SchedulerRun) holds with the  *)
(* pipe, timers and events in its place: a suspended coroutine has one     *)
(* wake-up, no task and no coroutine is dropped, an idle coroutine can be  *)
(* resumed, the main thread leaves last and a coroutine goes on where it   *)
(* was suspended.                                                          *)
PoolSafe ==
    /\ [](OneWakeup /\ NoTaskDropped /\ NoCoroutineForgotten /\ IdleCoResumable /\ MainLeavesLast)
    /\ ContinuedAtHome

(* stop() is enough to end the pool: once it was called, and start() did   *)
(* not overwrite it, every thread leaves run(), whatever tickle() was lost *)
(* on the way (tests/test_iomanager.cc relies on start() returning).       *)
StopEndsEveryThread ==
    m_is_stopping /\ pc[Main] # "starting" ~> \A t \in Runners : pc[t] = "done"

(* A task submitted while the pool runs is started, although schedule()    *)
(* and tickle() can both find m_idle_cnt = 0 just before a thread goes     *)
(* idle: nobody sleeps for ever beside a waiting task.                     *)
TaskStarts ==
    \A c \in Coroutines :
        co[c] = "INIT" /\ ~m_is_stopped ~> co[c] # "INIT" \/ stop_called

(* A coroutine whose timer expired or whose descriptor is ready uses its   *)
(* wake-up and runs, also when the event is handled before the coroutine   *)
(* reached its Yield().                                                    *)
WaiterContinues ==
    \A c \in Coroutines :
        c \in due /\ ~stop_called ~> (co[c] = "RUNNING" /\ Wakeups(c) = {}) \/ stop_called
=============================================================================
