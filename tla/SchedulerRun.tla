---------------------------- MODULE SchedulerRun ----------------------------
(***************************************************************************)
(* The part of tiger::Scheduler that every scheduler shares: the task list *)
(* m_tasks, schedule(), start(), stop() and the loop run() that each       *)
(* thread of the pool executes, together with the states of the coroutines *)
(* it resumes (tiger::Coroutine).  tickle() and idle() are virtual in the  *)
(* code: Scheduler.tla adds the semaphore versions of the base class and   *)
(* IOScheduler.tla the pipe and epoll versions of IOManager.               *)
(*                                                                         *)
(* A section under m_mutex is one step.  Everything else is split where    *)
(* the code reads or writes shared memory: two threads interleave between  *)
(* the scan of the list, the reads of m_is_stopping and m_idle_cnt, the    *)
(* two halves of tickle() and the steps of idle().                         *)
(***************************************************************************)
EXTENDS Integers, Sequences, FiniteSets

CONSTANTS
    Workers,     \* the threads start() creates
    Main,        \* the thread that constructs the scheduler and calls start()
    Clients,     \* other threads that call schedule() and stop()
    UseMain,     \* m_use_main_thread
    Coroutines,  \* the coroutines the program creates
    AnyThread,   \* m_thread_id = 0: the task may run on every thread
    NoTask,      \* a task after reset()
    SizeMod      \* size_t counts modulo SizeMod (2^64 in the code)

Threads == Workers \cup {Main} \cup Clients
Runners == Workers \cup (IF UseMain THEN {Main} ELSE {})

(***************************************************************************)
(* A task resumes coroutine co on thread (AnyThread: on any).  When wakes  *)
(* is a thread the task is a function that was wrapped into a coroutine of *)
(* its own and calls schedule(co, wakes): the callback of sleep()'s timer. *)
(***************************************************************************)
Task == [co : Coroutines, thread : Runners \cup {AnyThread}, wakes : Runners \cup {AnyThread}]

ASSUME SchedulerAssumption ==
    /\ IsFiniteSet(Workers) /\ IsFiniteSet(Clients)
    /\ Main \notin Workers /\ Main \notin Clients /\ Workers \cap Clients = {}
    /\ AnyThread \notin Threads
    /\ UseMain \in BOOLEAN
    /\ NoTask \notin Task
    /\ SizeMod \in Nat /\ Cardinality(Workers) < SizeMod

VARIABLES
    m_tasks,        \* std::list<Task>
    m_is_stopping, m_is_stopped,
    stop_called,    \* history: a stop() has taken effect
    m_thread_cnt,   \* pool threads that have not left run()
    m_idle_cnt,     \* threads between ++m_idle_cnt and --m_idle_cnt
    tickles,        \* semaphore value, or bytes in the tickle pipe
    co,             \* Coroutine::m_state, per coroutine
    home,           \* the thread that last resumed a coroutine
    idle_co,        \* m_state of each thread's idle coroutine
    armed,          \* continuations waiting for a timer or an event
    pc,             \* where each thread is
    ret,            \* where it goes on when schedule() or tickle() returns
    arg,            \* the task a thread is passing to schedule()
    task,           \* run()'s local task
    need_tickle     \* run()'s local need_tickle

schedVars == <<m_tasks, m_is_stopping, m_is_stopped, stop_called, m_thread_cnt, m_idle_cnt>>
coVars == <<co, home, idle_co, armed>>
localVars == <<ret, arg, task, need_tickle>>
runVars == <<schedVars, tickles, coVars, pc, localVars>>

(* TERMINAL stands for EXCEPT too: neither can be resumed. *)
CoState == {"NONE", "INIT", "RUNNING", "YIELD", "TERMINAL"}
Resumable == {"INIT", "YIELD"}

(***************************************************************************)
(* Program points.  "user": outside the scheduler; "starting": in start(), *)
(* where the main thread holds m_mutex; "co" and "armed": in the code of a *)
(* coroutine, before and after it registered a continuation; "schedule" .. *)
(* "post": inside schedule(), stop() and tickle(); the others are points   *)
(* of run().  The points of idle() belong to the module that defines it.   *)
(***************************************************************************)
CallPc == {"schedule", "push", "sched_check", "tickle", "post"}
RunPc == CallPc \cup {"user", "starting", "unborn", "scan", "dispatch", "co", "armed", "exit", "done"}
ReturnPc == {"user", "co", "armed", "scan", "dispatch", "done", "idle_events"}

Goto(t, l) == pc' = [pc EXCEPT ![t] = l]
Call(t, l, r) == Goto(t, l) /\ ret' = [ret EXCEPT ![t] = r]
Return(t) == Goto(t, ret[t]) /\ ret' = [ret EXCEPT ![t] = "user"]
Proceed(t, l) == Goto(t, l) /\ UNCHANGED ret

RunInit ==
    /\ m_tasks = <<>>
    /\ m_is_stopping = FALSE /\ m_is_stopped = TRUE /\ stop_called = FALSE
    /\ m_thread_cnt = Cardinality(Workers)
    /\ m_idle_cnt = 0 /\ tickles = 0
    /\ co = [c \in Coroutines |-> "NONE"]
    /\ home = [c \in Coroutines |-> AnyThread]
    /\ idle_co = [t \in Runners |-> "INIT"]
    /\ armed = {}
    /\ pc = [t \in Threads |-> IF t \in Workers THEN "unborn" ELSE "user"]
    /\ ret = [t \in Threads |-> "user"]
    /\ arg = [t \in Threads |-> NoTask]
    /\ task = [t \in Runners |-> NoTask]
    /\ need_tickle = [t \in Runners |-> FALSE]

-----------------------------------------------------------------------------
(* start(), stop() and schedule(), called by a client or by a coroutine *)

(* start() up to m_is_stopped = false: nothing happens on a second call. *)
StartBegin ==
    /\ pc[Main] = "user"
    /\ m_is_stopped /\ ~m_is_stopping
    /\ m_is_stopped' = FALSE
    /\ Goto(Main, "starting")
    /\ UNCHANGED <<m_tasks, m_is_stopping, stop_called, m_thread_cnt, m_idle_cnt, tickles, coVars,
                   localVars>>

(* start() from m_is_stopping = false, which overwrites a stop() that came *)
(* since StartBegin (stop() takes no lock).  The threads are created under *)
(* m_mutex, so that none of them scans the list before all exist; then the *)
(* main thread enters run() or returns.                                    *)
StartThreads ==
    /\ pc[Main] = "starting"
    /\ m_is_stopping' = FALSE
    /\ pc' = [t \in Threads |-> IF t \in Runners THEN "scan" ELSE IF t = Main THEN "user" ELSE pc[t]]
    /\ UNCHANGED <<m_tasks, m_is_stopped, stop_called, m_thread_cnt, m_idle_cnt, tickles, coVars,
                   localVars>>

(* stop() does nothing before start(); otherwise it ends in a tickle(). *)
Stop(t) ==
    /\ pc[t] \in {"user", "co"}
    /\ ~m_is_stopped
    /\ m_is_stopping' = TRUE /\ stop_called' = TRUE
    /\ Call(t, "tickle", pc[t])
    /\ UNCHANGED <<m_tasks, m_is_stopped, m_thread_cnt, m_idle_cnt, tickles, coVars,
                   arg, task, need_tickle>>

(* The program creates coroutine c and passes it to schedule(c, thread). *)
Submit(t, c, thread) ==
    /\ pc[t] \in {"user", "co"}
    /\ co[c] = "NONE"
    /\ co' = [co EXCEPT ![c] = "INIT"]
    /\ arg' = [arg EXCEPT ![t] = [co |-> c, thread |-> thread, wakes |-> AnyThread]]
    /\ Call(t, "schedule", pc[t])
    /\ UNCHANGED <<schedVars, tickles, home, idle_co, armed, task, need_tickle>>

(* Mutant of ScheduleCheck: m_is_stopped is tested instead of              *)
(* m_is_stopping, so that a task submitted before start() is dropped.      *)
ScheduleCheckStopped(t) ==
    /\ pc[t] = "schedule"
    /\ IF m_is_stopping \/ m_is_stopped
       THEN Return(t) /\ arg' = [arg EXCEPT ![t] = NoTask]
       ELSE Proceed(t, "push") /\ UNCHANGED arg
    /\ UNCHANGED <<schedVars, tickles, coVars, task, need_tickle>>

(* schedule(): m_is_stopping is read before m_mutex is taken, and a task   *)
(* that comes too late is dropped.                                         *)
ScheduleCheck(t) ==
    /\ pc[t] = "schedule"
    /\ IF m_is_stopping
       THEN Return(t) /\ arg' = [arg EXCEPT ![t] = NoTask]
       ELSE Proceed(t, "push") /\ UNCHANGED arg
    /\ UNCHANGED <<schedVars, tickles, coVars, task, need_tickle>>

(* schedule(): the section under m_mutex, which start() may be holding. *)
SchedulePush(t) ==
    /\ pc[t] = "push"
    /\ pc[Main] # "starting"
    /\ m_tasks' = Append(m_tasks, arg[t])
    /\ arg' = [arg EXCEPT ![t] = NoTask]
    /\ IF m_tasks = <<>> THEN Proceed(t, "sched_check") ELSE Return(t)
    /\ UNCHANGED <<m_is_stopping, m_is_stopped, stop_called, m_thread_cnt, m_idle_cnt, tickles, coVars,
                   task, need_tickle>>

(* schedule(): only a push to an empty list looks for an idle thread. *)
ScheduleTickle(t) ==
    /\ pc[t] = "sched_check"
    /\ IF m_idle_cnt > 0 THEN Proceed(t, "tickle") ELSE Return(t)
    /\ UNCHANGED <<schedVars, tickles, coVars, arg, task, need_tickle>>

(* tickle(): m_idle_cnt is read first, the wake-up is posted after it. *)
TickleCheck(t) ==
    /\ pc[t] = "tickle"
    /\ IF m_idle_cnt > 0 THEN Proceed(t, "post") ELSE Return(t)
    /\ UNCHANGED <<schedVars, tickles, coVars, arg, task, need_tickle>>

-----------------------------------------------------------------------------
(* run() *)

(* std::list::erase at position i. *)
Erase(s, i) == [j \in 1 .. Len(s) - 1 |-> IF j < i THEN s[j] ELSE s[j + 1]]

(* Mutant of RunsOn: the scan forgets the task's m_thread_id. *)
RunsOnAny(e, t) == e.thread \in Runners \cup {AnyThread, t}

RunsOn(e, t) == e.thread \in {AnyThread, t}
Mine(t) == {i \in DOMAIN m_tasks : RunsOn(m_tasks[i], t)}

AfterScan(t, need) ==
    /\ need_tickle' = [need_tickle EXCEPT ![t] = need]
    /\ IF need THEN Call(t, "tickle", "dispatch") ELSE Proceed(t, "dispatch")
    /\ UNCHANGED <<m_is_stopping, m_is_stopped, stop_called, m_thread_cnt, m_idle_cnt, tickles, coVars, arg>>

(* Mutant of ScanTake: the task stays in the list. *)
ScanTakeKeep(t, i) ==
    /\ pc[t] = "scan"
    /\ i \in Mine(t) /\ \A j \in Mine(t) : i <= j
    /\ task' = [task EXCEPT ![t] = m_tasks[i]]
    /\ UNCHANGED m_tasks
    /\ AfterScan(t, i > 1 \/ (Len(m_tasks) > 1 /\ m_idle_cnt > 0))

(* The scan takes the first task this thread may run; a task it had to     *)
(* skip, or one left behind while a thread is idle, asks for a tickle().   *)
ScanTake(t, i) ==
    /\ pc[t] = "scan"
    /\ i \in Mine(t) /\ \A j \in Mine(t) : i <= j
    /\ task' = [task EXCEPT ![t] = m_tasks[i]]
    /\ m_tasks' = Erase(m_tasks, i)
    /\ AfterScan(t, i > 1 \/ (Len(m_tasks) > 1 /\ m_idle_cnt > 0))

(* The scan finds no task for this thread: whatever is left belongs to     *)
(* other threads and asks for a tickle().                                  *)
ScanNone(t) ==
    /\ pc[t] = "scan"
    /\ Mine(t) = {}
    /\ UNCHANGED <<m_tasks, task>>
    /\ AfterScan(t, m_tasks # <<>>)

(* need_tickle is local to one round of the loop. *)
ResetNeed(t) == need_tickle' = [need_tickle EXCEPT ![t] = FALSE]

(* resume() of the task's coroutine if its state allows it, else the task  *)
(* is dropped with a log line.                                             *)
RunTask(t) ==
    /\ pc[t] = "dispatch"
    /\ task[t] # NoTask /\ task[t].wakes = AnyThread
    /\ LET c == task[t].co IN
       IF co[c] \in Resumable
       THEN /\ co' = [co EXCEPT ![c] = "RUNNING"]
            /\ home' = [home EXCEPT ![c] = t]
            /\ Goto(t, "co") /\ UNCHANGED task
       ELSE /\ task' = [task EXCEPT ![t] = NoTask]
            /\ Goto(t, "scan") /\ UNCHANGED <<co, home>>
    /\ ResetNeed(t)
    /\ UNCHANGED <<schedVars, tickles, idle_co, armed, ret, arg>>

(* A timer callback runs to its end without suspending: its only effect is *)
(* its call schedule(co, wakes).                                           *)
RunCallback(t) ==
    /\ pc[t] = "dispatch"
    /\ task[t] # NoTask /\ task[t].wakes # AnyThread
    /\ arg' = [arg EXCEPT ![t] =
                  [co |-> task[t].co, thread |-> task[t].wakes, wakes |-> AnyThread]]
    /\ task' = [task EXCEPT ![t] = NoTask]
    /\ Call(t, "schedule", "scan")
    /\ ResetNeed(t)
    /\ UNCHANGED <<schedVars, tickles, coVars>>

(* Mutant of MayLeave: the main thread does not wait for the others. *)
MayLeaveAlways(t) == t \in Runners /\ m_is_stopping

MayLeave(t) == m_is_stopping /\ ~(t = Main /\ m_thread_cnt # 0)

(* Nothing to run: leave the loop when stopping (the main thread only once *)
(* m_thread_cnt is 0), scan again after a tickle(), else resume idle_co.   *)
RunIdle(t) ==
    /\ pc[t] = "dispatch"
    /\ task[t] = NoTask
    /\ \/ /\ MayLeave(t)
          /\ Goto(t, "exit") /\ UNCHANGED idle_co
       \/ /\ ~m_is_stopping /\ need_tickle[t]
          /\ Goto(t, "scan") /\ UNCHANGED idle_co
       \/ /\ ~MayLeave(t) /\ (m_is_stopping \/ ~need_tickle[t])
          /\ idle_co' = [idle_co EXCEPT ![t] = "RUNNING"]
          /\ Goto(t, "idle")
    /\ ResetNeed(t)
    /\ UNCHANGED <<schedVars, tickles, co, home, armed, ret, arg, task>>

(* Mutant of RunExit: the thread leaves without --m_thread_cnt. *)
RunExitUncounted(t) ==
    /\ pc[t] = "exit"
    /\ Call(t, "tickle", "done")
    /\ UNCHANGED <<schedVars, tickles, coVars, arg, task, need_tickle>>

(* After the loop: --m_thread_cnt, by the main thread too, and tickle(). *)
RunExit(t) ==
    /\ pc[t] = "exit"
    /\ m_thread_cnt' = (m_thread_cnt - 1) % SizeMod
    /\ Call(t, "tickle", "done")
    /\ UNCHANGED <<m_tasks, m_is_stopping, m_is_stopped, stop_called, m_idle_cnt, tickles, coVars,
                   arg, task, need_tickle>>

-----------------------------------------------------------------------------
(* What the code of a coroutine does to the scheduler *)

(* Mutant of Arm: the continuation is not pinned to the thread. *)
ArmUnpinned(t) ==
    /\ pc[t] = "co"
    /\ armed' = armed \cup {[co |-> task[t].co, thread |-> AnyThread, wakes |-> AnyThread]}
    /\ Goto(t, "armed")
    /\ UNCHANGED <<schedVars, tickles, co, home, idle_co, localVars>>

(* The coroutine registers its continuation with a timer (sleep) or an     *)
(* event (add_event): itself, pinned to the thread it runs on.             *)
Arm(t) ==
    /\ pc[t] = "co"
    /\ armed' = armed \cup {[co |-> task[t].co, thread |-> t, wakes |-> AnyThread]}
    /\ Goto(t, "armed")
    /\ UNCHANGED <<schedVars, tickles, co, home, idle_co, localVars>>

(* Mutant of Yield: the state stays RUNNING. *)
YieldRunning(t) ==
    /\ pc[t] = "armed"
    /\ task' = [task EXCEPT ![t] = NoTask]
    /\ Goto(t, "scan")
    /\ UNCHANGED <<schedVars, tickles, coVars, ret, arg, need_tickle>>

(* Coroutine::Yield(); run() resets its task at the top of the loop. *)
Yield(t) ==
    /\ pc[t] = "armed"
    /\ co' = [co EXCEPT ![task[t].co] = "YIELD"]
    /\ task' = [task EXCEPT ![t] = NoTask]
    /\ Goto(t, "scan")
    /\ UNCHANGED <<schedVars, tickles, home, idle_co, armed, ret, arg, need_tickle>>

(* The coroutine's function returns or throws (Coroutine::Run). *)
Finish(t) ==
    /\ pc[t] = "co"
    /\ co' = [co EXCEPT ![task[t].co] = "TERMINAL"]
    /\ task' = [task EXCEPT ![t] = NoTask]
    /\ Goto(t, "scan")
    /\ UNCHANGED <<schedVars, tickles, home, idle_co, armed, ret, arg, need_tickle>>

(* The steps of run() and of the calls it makes. *)
RunStep(t) ==
    \/ \E i \in DOMAIN m_tasks : ScanTake(t, i)
    \/ ScanNone(t) \/ RunTask(t) \/ RunCallback(t) \/ RunIdle(t) \/ RunExit(t)

CallStep(t) ==
    \/ t = Main /\ StartThreads
    \/ ScheduleCheck(t) \/ SchedulePush(t) \/ ScheduleTickle(t) \/ TickleCheck(t)

(* What the program may ask of the scheduler, at any time. *)
UserStep ==
    \/ StartBegin
    \/ \E t \in Threads :
          \/ Stop(t)
          \/ \E c \in Coroutines, thread \in Runners \cup {AnyThread} : Submit(t, c, thread)
-----------------------------------------------------------------------------
(* Properties of every scheduler built on run() *)

RunTypeOK(idlePc) ==
    /\ m_tasks \in Seq(Task)
    /\ m_is_stopping \in BOOLEAN /\ m_is_stopped \in BOOLEAN /\ stop_called \in BOOLEAN
    /\ m_thread_cnt \in 0 .. SizeMod - 1
    /\ m_idle_cnt \in Nat /\ tickles \in Nat
    /\ co \in [Coroutines -> CoState]
    /\ home \in [Coroutines -> Runners \cup {AnyThread}]
    /\ idle_co \in [Runners -> CoState]
    /\ armed \subseteq Task
    /\ pc \in [Threads -> RunPc \cup idlePc]
    /\ ret \in [Threads -> ReturnPc \cap (RunPc \cup idlePc)]
    /\ arg \in [Threads -> Task \cup {NoTask}]
    /\ task \in [Runners -> Task \cup {NoTask}]
    /\ need_tickle \in [Runners -> BOOLEAN]

(* The point of its own code at which thread t is, or to which it returns  *)
(* from schedule(), stop() or tickle().                                    *)
At(t) == IF pc[t] \in CallPc THEN ret[t] ELSE pc[t]

(* Thread t is between resume() of a coroutine and the switch back. *)
InCo(t) == At(t) \in {"co", "armed"}

(* Thread t has executed the --m_thread_cnt at the end of run(). *)
Left(t) == At(t) = "done"

(* The places that hold a wake-up of coroutine c which has not been used.  *)
Wakeups(c) ==
    {<<"queued", i>> : i \in {j \in DOMAIN m_tasks : m_tasks[j].co = c}}
        \cup {<<"passed", t>> : t \in {u \in Threads : arg[u] # NoTask /\ arg[u].co = c}}
        \cup {<<"taken", t>> : t \in {u \in Runners : task[u] # NoTask /\ task[u].co = c /\ ~InCo(u)}}
        \cup {<<"armed", a>> : a \in {b \in armed : b.co = c}}

(* A coroutine never has two wake-ups: whatever the order in which clients,*)
(* timers and the coroutine's own thread act, the continuation that        *)
(* Yield() relies on exists at most once, so run() cannot resume it twice. *)
OneWakeup == \A c \in Coroutines : \A p, q \in Wakeups(c) : p = q

(* run() never meets a task whose coroutine is not INIT or YIELD: the      *)
(* branch at scheduler.cc:124 that drops the task is dead, even when the   *)
(* continuation fires before the coroutine has reached its Yield().        *)
NoTaskDropped ==
    \A t \in Runners :
        pc[t] = "dispatch" /\ task[t] # NoTask /\ task[t].wakes = AnyThread
            => co[task[t].co] \in Resumable

(* No coroutine executes on two threads at once, and one whose state is    *)
(* RUNNING really is on a thread: the one that resumed it.                 *)
RunsOnOneThread ==
    \A c \in Coroutines :
        /\ \A t, u \in Runners : InCo(t) /\ InCo(u) /\ task[t].co = c /\ task[u].co = c => t = u
        /\ co[c] = "RUNNING" <=> \E t \in Runners : InCo(t) /\ task[t].co = c /\ home[c] = t

(* Until stop() is called no coroutine is forgotten: every coroutine that  *)
(* waits to be started or continued has a wake-up somewhere.               *)
NoCoroutineForgotten ==
    ~stop_called => \A c \in Coroutines : co[c] \in Resumable => Wakeups(c) # {}

(* hook.cc:145: a suspended coroutine is continued on the thread on which  *)
(* it was suspended (its context was saved from that thread's stack).      *)
ContinuedAtHome ==
    [][\A c \in Coroutines : co[c] = "YIELD" /\ co'[c] = "RUNNING" => home'[c] = home[c]]_runVars

(* m_idle_cnt, on which tickle() and schedule() decide whether a wake-up   *)
(* is needed, counts the threads between its ++ and its --.                *)
IdleCntExact ==
    m_idle_cnt = Cardinality({t \in Runners : At(t) \in {"idle_wait", "idle_dec"}})

(* The assertion in Coroutine::resume() (coroutine.cc:154) holds whenever  *)
(* run() resumes its idle coroutine, which ends for good once idle() saw   *)
(* m_is_stopping.                                                          *)
IdleCoResumable ==
    \A t \in Runners :
        pc[t] = "dispatch" /\ task[t] = NoTask /\ ~MayLeave(t) /\ (m_is_stopping \/ ~need_tickle[t])
            => idle_co[t] \in Resumable

(* start() returns on the main thread only after every thread of the pool  *)
(* has left its loop and no coroutine is running any more.                 *)
MainLeavesLast ==
    UseMain /\ Left(Main) => \A t \in Runners : Left(t) /\ ~InCo(t)
=============================================================================
