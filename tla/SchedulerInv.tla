---------------------------- MODULE SchedulerInv ----------------------------
(***************************************************************************)
(* The inductive invariant behind the properties of SchedulerRun: every    *)
(* coroutine that waits has exactly one token, a task that will resume it, *)
(* and the token's thread is the one on which the coroutine was suspended. *)
(***************************************************************************)
EXTENDS SchedulerRun

(* Thread t took a task from the list and has not resumed it yet. *)
Holds(t) == task[t] # NoTask /\ ~InCo(t)

(* The thread on which a task will finally resume its coroutine. *)
Target(e) == IF e.wakes = AnyThread THEN e.thread ELSE e.wakes

Queued(e) == \E i \in DOMAIN m_tasks : m_tasks[i] = e
Passed(e) == \E t \in Threads : arg[t] = e
Taken(e) == \E t \in Runners : Holds(t) /\ task[t] = e
Token(e) == Queued(e) \/ Passed(e) \/ Taken(e) \/ e \in armed

(* Only thread t moves. *)
Moved(t) == \A u \in Threads : u # t => pc'[u] = pc[u] /\ At(u)' = At(u)

PcTypeOK(idlePc) ==
    /\ pc \in [Threads -> RunPc \cup idlePc]
    /\ ret \in [Threads -> ReturnPc \cap (RunPc \cup idlePc)]

(* Where a thread can be, and what its local variables hold there. *)
ThreadInv(t) ==
    /\ arg[t] # NoTask <=> pc[t] \in {"schedule", "push"}
    /\ t \notin Runners => At(t) \in {"user", "starting"}

RunnerInv(t) ==
    /\ task[t] # NoTask => InCo(t) \/ At(t) = "dispatch"
    /\ InCo(t) =>
          /\ task[t] # NoTask /\ task[t].wakes = AnyThread
          /\ co[task[t].co] = "RUNNING" /\ home[task[t].co] = t
    /\ Holds(t) => RunsOn(task[t], t)

ControlInv == (\A t \in Threads : ThreadInv(t)) /\ (\A t \in Runners : RunnerInv(t))

(* A coroutine has at most one token. *)
UniqueInv ==
    /\ \A i, j \in DOMAIN m_tasks : m_tasks[i].co = m_tasks[j].co => i = j
    /\ \A t, u \in Threads :
          arg[t] # NoTask /\ arg[u] # NoTask /\ arg[t].co = arg[u].co => t = u
    /\ \A t, u \in Runners : Holds(t) /\ Holds(u) /\ task[t].co = task[u].co => t = u
    /\ \A a, b \in armed : a.co = b.co => a = b
    /\ \A i \in DOMAIN m_tasks, t \in Threads : arg[t] # NoTask => m_tasks[i].co # arg[t].co
    /\ \A i \in DOMAIN m_tasks, t \in Runners : Holds(t) => m_tasks[i].co # task[t].co
    /\ \A i \in DOMAIN m_tasks, a \in armed : m_tasks[i].co # a.co
    /\ \A t \in Threads, u \in Runners : arg[t] # NoTask /\ Holds(u) => arg[t].co # task[u].co
    /\ \A t \in Threads, a \in armed : arg[t] # NoTask => arg[t].co # a.co
    /\ \A t \in Runners, a \in armed : Holds(t) => task[t].co # a.co

(* What a token says about its coroutine. *)
TokenOK(e) ==
    /\ co[e.co] \in {"INIT", "RUNNING", "YIELD"}
    /\ co[e.co] = "INIT" => e.wakes = AnyThread
    /\ co[e.co] # "INIT" => Target(e) = home[e.co] /\ home[e.co] \in Runners
    /\ co[e.co] = "RUNNING" => \E t \in Runners : home[e.co] = t /\ At(t) = "armed"

TokenInv ==
    /\ \A e \in Task : Token(e) => TokenOK(e)
    /\ \A c \in Coroutines :
          co[c] = "RUNNING" => \E t \in Runners : home[c] = t /\ InCo(t) /\ task[t].co = c

(* Coroutine c is suspended, or it has registered what it will wait for. *)
Waits(c) ==
    \/ co[c] \in Resumable
    \/ co[c] = "RUNNING" /\ \E t \in Runners : home[c] = t /\ At(t) = "armed"

(* Until stop(), a coroutine that waits has a token. *)
LiveInv ==
    /\ m_is_stopping => stop_called
    /\ ~stop_called => \A c \in Coroutines : Waits(c) => \E e \in Task : e.co = c /\ Token(e)

CoInv == ControlInv /\ UniqueInv /\ TokenInv /\ LiveInv

(* Until start() has created the threads no thread is in run(). *)
StartInv ==
    /\ pc[Main] = "starting" => ~m_is_stopped
    /\ m_is_stopped \/ pc[Main] = "starting" =>
          \A t \in Runners :
              /\ idle_co[t] = "INIT"
              /\ At(t) \in IF t \in Workers THEN {"unborn"} ELSE {"user", "starting"}

(* m_thread_cnt counts the pool threads that have not left run(), until    *)
(* the main thread, which leaves after them, decrements it once more.      *)
CountInv ==
    /\ ~Left(Main) => m_thread_cnt = Cardinality({w \in Workers : ~Left(w)})
    /\ At(Main) \in {"exit", "done"} => \A w \in Workers : Left(w)

(* The idle coroutine of a thread is on the thread's stack exactly in      *)
(* idle(), whose program points are idlePc, and ends only when run() will  *)
(* not resume it again.                                                    *)
IdleInv(idlePc) ==
    \A t \in Runners :
        /\ idle_co[t] # "NONE"
        /\ idle_co[t] = "RUNNING" => At(t) \in idlePc
        /\ idle_co[t] = "TERMINAL" => MayLeave(t) \/ Left(t)

(* A registered continuation resumes a coroutine that has run before, on   *)
(* the thread where it registered it.                                      *)
ArmedInv ==
    \A a \in armed : a.wakes = AnyThread /\ a.thread \in Runners /\ co[a.co] # "INIT"

(* The threads of the pool. *)
PoolInv(idlePc) == StartInv /\ CountInv /\ IdleInv(idlePc) /\ IdleCntExact

RunInv(idlePc) == RunTypeOK(idlePc) /\ CoInv /\ ArmedInv /\ PoolInv(idlePc)
=============================================================================
