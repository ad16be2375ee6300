------------------------ MODULE SchedulerPoolProofs ------------------------
(***************************************************************************)
(* How the threads of the pool wait and leave, for every scheduler built   *)
(* on SchedulerRun: every step of SchedulerRun preserves PoolInv, which    *)
(* says that m_thread_cnt and m_idle_cnt count what they should and that   *)
(* an idle coroutine ends only when run() will not resume it again.  And   *)
(* what the schedulers have in common beside these steps: the initial      *)
(* state, the end of a tickle(), the loop of idle(), whose program points  *)
(* are P, and a continuation that is fired.                                *)
(***************************************************************************)
EXTENDS SchedulerRunProofs, FiniteSetTheorems

(* The types of the initial state. *)
LEMMA TypeInit ==
    ASSUME NEW P
    PROVE  RunInit => RunTypeOK(P)
<1>1. Cardinality(Workers) \in 0 .. SizeMod - 1
  BY SchedulerAssumption, FS_CardinalityType DEF SchedulerAssumption
<1>2. <<>> \in Seq(Task)
  OBVIOUS
<1> SUFFICES ASSUME RunInit PROVE RunTypeOK(P)
  OBVIOUS
<1>3. /\ pc \in [Threads -> RunPc \cup P] /\ ret \in [Threads -> ReturnPc \cap (RunPc \cup P)]
      /\ arg \in [Threads -> Task \cup {NoTask}]
  BY Zenon DEF RunInit, RunPc, ReturnPc
<1>4. /\ task \in [Runners -> Task \cup {NoTask}] /\ need_tickle \in [Runners -> BOOLEAN]
      /\ co \in [Coroutines -> CoState] /\ idle_co \in [Runners -> CoState]
      /\ home \in [Coroutines -> Runners \cup {AnyThread}]
  BY Zenon DEF RunInit, CoState
<1> QED
  BY <1>1, <1>2, <1>3, <1>4, Zenon DEF RunInit, RunTypeOK, CoState, RunPc, ReturnPc

LEMMA PoolInit ==
    ASSUME NEW P
    PROVE  RunInit => PoolInv(P)
<1> SUFFICES ASSUME RunInit PROVE PoolInv(P)
  OBVIOUS
<1>1. \A t \in Threads : At(t) = (IF t \in Workers THEN "unborn" ELSE "user") /\ ~Left(t)
  BY Zenon DEF RunInit, At, Left, CallPc
<1>2. StartInv /\ IdleInv(P)
  BY Zenon, <1>1, RunnerFacts DEF RunInit, StartInv, IdleInv
<1>3. {t \in Runners : At(t) \in {"idle_wait", "idle_dec"}} = {}
  BY Zenon, <1>1, RunnerFacts
<1>4. IdleCntExact
  BY Zenon, <1>3, FS_EmptySet DEF RunInit, IdleCntExact
<1>5. {w \in Workers : ~Left(w)} = Workers
  BY Zenon, <1>1 DEF Threads
<1>6. CountInv
  BY Zenon, <1>1, <1>5, RunnerFacts DEF RunInit, CountInv
<1> QED
  BY Zenon, <1>2, <1>4, <1>6 DEF PoolInv

-----------------------------------------------------------------------------
(* The counters when no thread enters or leaves what they count *)

LEMMA CountFrame ==
    ASSUME CountInv, m_thread_cnt' = m_thread_cnt,
           \A u \in Threads : Left(u)' <=> Left(u),
           At(Main)' = "exit" => At(Main) = "exit"
    PROVE  CountInv'
<1>1. Workers \subseteq Threads /\ Main \in Threads
  BY Zenon DEF Threads
<1>2. {w \in Workers : ~Left(w)}' = {w \in Workers : ~Left(w)}
  BY Zenon, <1>1
<1>3. At(Main)' \in {"exit", "done"} => At(Main) \in {"exit", "done"}
  BY Zenon, <1>1 DEF Left
<1> QED
  BY Zenon, <1>1, <1>2, <1>3 DEF CountInv

LEMMA IdleCntFrame ==
    ASSUME IdleCntExact, m_idle_cnt' = m_idle_cnt,
           \A u \in Runners : At(u)' \in {"idle_wait", "idle_dec"} <=> At(u) \in {"idle_wait", "idle_dec"}
    PROVE  IdleCntExact'
<1>1. {t \in Runners : At(t) \in {"idle_wait", "idle_dec"}}'
          = {t \in Runners : At(t) \in {"idle_wait", "idle_dec"}}
  OBVIOUS
<1> QED
  BY Zenon, <1>1 DEF IdleCntExact

LEMMA StartFrame ==
    ASSUME StartInv, NEW t \in Threads, Moved(t), m_is_stopped' => m_is_stopped, pc'[t] # "starting",
           \A u \in Runners : u # t => idle_co'[u] = idle_co[u],
           \/ At(t)' = At(t) /\ (t \in Runners => idle_co'[t] = idle_co[t])
           \/ t \in Runners /\ At(t) \notin {"unborn", "user", "starting"}
    PROVE  StartInv'
<1>1. pc'[Main] = "starting" => pc[Main] = "starting"
  BY Zenon, RunnerFacts DEF Moved
<1>2. \A u \in Runners : u # t => At(u)' = At(u)
  BY Zenon, RunnerFacts DEF Moved
<1> QED
  BY Zenon, <1>1, <1>2 DEF StartInv

(* A thread that calls or returns stays where it is in its own code. *)
LEMMA StayPool ==
    ASSUME NEW P, PoolInv(P), NEW t \in Threads, Moved(t), At(t)' = At(t), pc'[t] # "starting",
           UNCHANGED <<m_is_stopped, m_thread_cnt, m_idle_cnt, idle_co>>,
           m_is_stopping => m_is_stopping'
    PROVE  PoolInv(P)'
<1>1. \A u \in Threads : At(u)' = At(u)
  BY Zenon DEF Moved
<1>2. StartInv'
  BY Zenon, StartFrame DEF PoolInv
<1>3. \A u \in Threads : Left(u)' <=> Left(u)
  BY Zenon, <1>1 DEF Left
<1>4. CountInv'
  BY Zenon, <1>1, <1>3, CountFrame, RunnerFacts DEF PoolInv
<1>5. IdleCntExact'
  BY Zenon, <1>1, IdleCntFrame, RunnerFacts DEF PoolInv
<1>6. IdleInv(P)'
  BY Zenon, <1>1, <1>3, RunnerFacts DEF PoolInv, IdleInv, MayLeave
<1> QED
  BY Zenon, <1>2, <1>4, <1>5, <1>6 DEF PoolInv

(* A thread moves inside run()'s loop, into idle() or out of it. *)
LEMMA LoopPool ==
    ASSUME NEW P, PoolInv(P), NEW t \in Runners, Moved(t), pc'[t] # "starting",
           At(t) \notin {"unborn", "user", "starting", "exit", "done"},
           At(t)' \notin {"exit", "done"},
           UNCHANGED <<m_is_stopping, m_is_stopped, m_thread_cnt>>,
           \A u \in Runners : u # t => idle_co'[u] = idle_co[u],
           idle_co'[t] # "NONE", idle_co'[t] = "RUNNING" => At(t)' \in P,
           idle_co'[t] = "TERMINAL" => MayLeave(t),
           IdleCntExact'
    PROVE  PoolInv(P)'
<1>0. t \in Threads
  BY Zenon, RunnerFacts
<1>1. \A u \in Threads : u # t => At(u)' = At(u)
  BY Zenon DEF Moved
<1>2. StartInv'
  BY Zenon, <1>0, StartFrame DEF PoolInv
<1>3. \A u \in Threads : Left(u)' <=> Left(u)
  BY Zenon, <1>1 DEF Left
<1>4. At(Main)' = "exit" => At(Main) = "exit"
  BY Zenon, <1>1, RunnerFacts
<1>5. CountInv'
  BY Zenon, <1>3, <1>4, CountFrame DEF PoolInv
<1>6. IdleInv(P)'
  BY Zenon, <1>1, <1>3, RunnerFacts DEF PoolInv, IdleInv, MayLeave
<1> QED
  BY Zenon, <1>2, <1>5, <1>6 DEF PoolInv

(* The same when the thread does not touch its idle coroutine. *)
LEMMA TaskPool ==
    ASSUME NEW P, P \cap RunPc = {}, PoolInv(P), NEW t \in Runners, Moved(t), pc'[t] # "starting",
           At(t) \in {"scan", "dispatch", "co", "armed"},
           At(t)' \in {"scan", "dispatch", "co", "armed"},
           UNCHANGED <<m_is_stopping, m_is_stopped, m_thread_cnt, m_idle_cnt, idle_co>>
    PROVE  PoolInv(P)'
<1>1. idle_co[t] \notin {"NONE", "RUNNING"} /\ (idle_co[t] = "TERMINAL" => MayLeave(t))
  BY Zenon DEF PoolInv, IdleInv, RunPc, Left
<1>2. \A u \in Runners : At(u)' \in {"idle_wait", "idle_dec"} <=> At(u) \in {"idle_wait", "idle_dec"}
  BY Zenon, RunnerFacts DEF Moved
<1>3. IdleCntExact'
  BY Zenon, <1>2, IdleCntFrame DEF PoolInv
<1> QED
  BY Zenon, <1>1, <1>3, LoopPool

-----------------------------------------------------------------------------
(* The steps that PoolInv is about *)

(* m_thread_cnt = 0 means that every worker has left. *)
LEMMA EmptyPool ==
    ASSUME CountInv, ~Left(Main), m_thread_cnt = 0
    PROVE  \A w \in Workers : Left(w)
<1>1. IsFiniteSet({w \in Workers : ~Left(w)})
  BY Zenon, SchedulerAssumption, FS_Subset DEF SchedulerAssumption
<1>2. {w \in Workers : ~Left(w)} = {}
  BY Zenon, <1>1, FS_EmptySet DEF CountInv
<1> QED
  BY Zenon, <1>2

(* run() finds nothing to execute. *)
LEMMA RunIdlePool ==
    ASSUME NEW P, "idle" \in P, P \cap RunPc = {}, RunTypeOK(P), PoolInv(P),
           NEW t \in Runners, RunIdle(t)
    PROVE  PoolInv(P)'
<1>0. t \in Threads
  BY Zenon, RunnerFacts
<1>1. /\ PcTypeOK(P)' /\ Moved(t) /\ At(t) = "dispatch" /\ pc'[t] = At(t)'
      /\ At(t)' \in {"exit", "scan", "idle"}
  BY Zenon, <1>0, RunIdleMove
<1>2. /\ UNCHANGED <<m_is_stopping, m_is_stopped, m_thread_cnt, m_idle_cnt>>
      /\ pc' = [pc EXCEPT ![t] = pc'[t]]
  BY Zenon, <1>0 DEF RunIdle, schedVars, Goto, RunTypeOK
<1>3. \A u \in Runners : At(u)' \in {"idle_wait", "idle_dec"} <=> At(u) \in {"idle_wait", "idle_dec"}
  BY Zenon, <1>1, RunnerFacts DEF Moved
<1>4. IdleCntExact'
  BY Zenon, <1>2, <1>3, IdleCntFrame DEF PoolInv
<1>5. CASE At(t)' = "exit"
  <2>1. MayLeave(t) /\ idle_co' = idle_co
    <3>1. pc'[t] = "exit"
      BY Zenon, <1>1, <1>5
    <3> QED
      BY Zenon, <3>1, <1>0 DEF RunIdle, Goto, RunTypeOK
  <2>2. \A u \in Threads : Left(u)' <=> Left(u)
    BY Zenon, <1>1, <1>5 DEF Left, Moved
  <2>3. StartInv'
    BY Zenon, <2>1, <1>0, <1>1, <1>2, <1>5, StartFrame DEF PoolInv
  <2>4. IdleInv(P)'
    BY Zenon, <2>1, <2>2, <1>1, <1>2, RunnerFacts DEF PoolInv, IdleInv, MayLeave, Moved, RunPc
  <2>5. CASE t # Main
    <3>1. At(Main)' = At(Main)
      BY Zenon, <2>5, <1>1, RunnerFacts DEF Moved
    <3>2. CountInv'
      BY Zenon, <2>2, <3>1, <1>2, CountFrame DEF PoolInv
    <3> QED
      BY Zenon, <3>2, <2>3, <2>4, <1>4 DEF PoolInv
  <2>6. CASE t = Main
    <3>1. ~Left(Main) /\ m_thread_cnt = 0
      BY Zenon, <2>1, <2>6, <1>1 DEF MayLeave, Left
    <3>2. \A w \in Workers : Left(w)
      BY Zenon, <3>1, EmptyPool DEF PoolInv
    <3>3. Workers \subseteq Threads /\ Main \in Threads
      BY Zenon DEF Threads
    <3>4. {w \in Workers : ~Left(w)}' = {w \in Workers : ~Left(w)}
      BY Zenon, <3>3, <2>2
    <3>5. CountInv'
      BY Zenon, <3>1, <3>2, <3>3, <3>4, <2>2, <1>2 DEF PoolInv, CountInv
    <3> QED
      BY Zenon, <3>5, <2>3, <2>4, <1>4 DEF PoolInv
  <2> QED
    BY Zenon, <2>5, <2>6
<1>6. CASE At(t)' = "scan"
  <2>1. idle_co' = idle_co
    <3>1. pc'[t] = "scan"
      BY Zenon, <1>1, <1>6
    <3> QED
      BY Zenon, <3>1, <1>0 DEF RunIdle, Goto, RunTypeOK
  <2> QED
    BY Zenon, <2>1, <1>1, <1>2, <1>6, TaskPool
<1>7. CASE At(t)' = "idle"
  <2>1. idle_co' = [idle_co EXCEPT ![t] = "RUNNING"]
    <3>1. pc'[t] = "idle"
      BY Zenon, <1>1, <1>7
    <3> QED
      BY Zenon, <3>1, <1>0 DEF RunIdle, Goto, RunTypeOK
  <2>2. idle_co'[t] = "RUNNING" /\ \A u \in Runners : u # t => idle_co'[u] = idle_co[u]
    BY Zenon, <2>1 DEF RunTypeOK
  <2> QED
    BY Zenon, <2>2, <1>1, <1>2, <1>4, <1>7, LoopPool
<1> QED
  BY Zenon, <1>1, <1>5, <1>6, <1>7

(* A thread leaves run(): --m_thread_cnt. *)
LEMMA RunExitPool ==
    ASSUME NEW P, P \cap RunPc = {}, RunTypeOK(P), PoolInv(P), NEW t \in Runners, RunExit(t)
    PROVE  PoolInv(P)'
<1>0. t \in Threads /\ Workers \subseteq Threads /\ Main \in Threads /\ Main \notin Workers
  BY Zenon, RunnerFacts, SchedulerAssumption DEF Threads, SchedulerAssumption
<1>1. PcTypeOK(P)' /\ Moved(t) /\ At(t) = "exit" /\ At(t)' = "done" /\ pc'[t] = "tickle"
  BY Zenon, <1>0, RunExitMove
<1>2. /\ m_thread_cnt' = (m_thread_cnt - 1) % SizeMod
      /\ UNCHANGED <<m_is_stopping, m_is_stopped, m_idle_cnt, idle_co>>
  BY Zenon DEF RunExit, coVars
<1>3. ~Left(t) /\ Left(t)' /\ \A u \in Threads : u # t => At(u)' = At(u) /\ (Left(u)' <=> Left(u))
  BY Zenon, <1>1 DEF Left, Moved
<1>4. StartInv'
  BY Zenon, <1>0, <1>1, <1>2, StartFrame DEF PoolInv
<1>5. \A u \in Runners : At(u)' \in {"idle_wait", "idle_dec"} <=> At(u) \in {"idle_wait", "idle_dec"}
  BY Zenon, <1>1, <1>3, RunnerFacts
<1>6. IdleCntExact'
  BY Zenon, <1>2, <1>5, IdleCntFrame DEF PoolInv
<1>7. CASE t = Main
  <2>1. CountInv'
    BY Zenon, <1>0, <1>1, <1>3, <1>7 DEF PoolInv, CountInv
  <2>2. IdleInv(P)'
    BY Zenon, <1>1, <1>2, <1>3, <1>7, RunnerFacts DEF PoolInv, IdleInv, MayLeave, RunPc
  <2> QED
    BY Zenon, <2>1, <2>2, <1>4, <1>6 DEF PoolInv
<1>8. CASE t # Main
  <2> DEFINE In == {w \in Workers : ~Left(w)}
  <2>1. t \in Workers /\ t \in In
    BY Zenon, <1>3, <1>8 DEF Runners
  <2>2. ~Left(Main) /\ ~Left(Main)' /\ At(Main)' \notin {"exit", "done"} /\ At(Main)' = At(Main)
    BY Zenon, <2>1, <1>0, <1>3, <1>8 DEF PoolInv, CountInv, Left
  <2>3. IsFiniteSet(In)
    BY Zenon, SchedulerAssumption, FS_Subset DEF SchedulerAssumption
  <2>4. In' = In \ {t}
    BY Zenon, <1>0, <1>3
  <2>5. Cardinality(In') = Cardinality(In) - 1 /\ Cardinality(In) \in Nat
    BY Zenon, <2>1, <2>3, <2>4, FS_RemoveElement, FS_CardinalityType
  <2>6. m_thread_cnt = Cardinality(In)
    BY Zenon, <2>2 DEF PoolInv, CountInv
  <2>7. Cardinality(In) # 0
    BY Zenon, <2>1, <2>3, FS_EmptySet
  <2>8. m_thread_cnt' = Cardinality(In')
    <3> HIDE DEF In
    <3>1. m_thread_cnt - 1 \in 0 .. SizeMod - 1 /\ SizeMod \in Nat
      BY <2>5, <2>6, <2>7, SchedulerAssumption DEF RunTypeOK, SchedulerAssumption
    <3> QED
      BY <3>1, <2>5, <2>6, <1>2
  <2>9. CountInv'
    BY Zenon, <2>2, <2>8 DEF CountInv
  <2>10. IdleInv(P)'
    <3> SUFFICES ASSUME NEW u \in Runners
                 PROVE  /\ idle_co'[u] # "NONE"
                        /\ idle_co'[u] = "RUNNING" => At(u)' \in P
                        /\ idle_co'[u] = "TERMINAL" => MayLeave(u)' \/ Left(u)'
      BY Zenon DEF IdleInv
    <3>1. CASE u = t
      BY Zenon, <3>1, <1>1, <1>2, <1>3 DEF PoolInv, IdleInv, RunPc
    <3>2. CASE u # t /\ u # Main
      BY Zenon, <3>2, <1>2, <1>3, RunnerFacts DEF PoolInv, IdleInv, MayLeave
    <3>3. CASE u = Main
      <4>1. ~MayLeave(Main) /\ ~Left(Main)
        BY Zenon, <2>2, <2>6, <2>7 DEF MayLeave
      <4> QED
        BY Zenon, <3>3, <4>1, <2>2, <1>2 DEF PoolInv, IdleInv
    <3> QED
      BY Zenon, <3>1, <3>2, <3>3, <1>8
  <2> QED
    BY Zenon, <2>9, <2>10, <1>4, <1>6 DEF PoolInv
<1> QED
  BY Zenon, <1>7, <1>8

(* The two halves of start(). *)
LEMMA StartBeginPool ==
    ASSUME NEW P, P \cap RunPc = {}, RunTypeOK(P), PoolInv(P), StartBegin
    PROVE  PoolInv(P)'
<1>1. /\ PcTypeOK(P)' /\ Moved(Main) /\ At(Main) = "user" /\ At(Main)' = "starting"
      /\ pc'[Main] = "starting"
  BY Zenon, StartBeginMove
<1>2. /\ m_is_stopped /\ UNCHANGED <<m_is_stopping, m_thread_cnt, m_idle_cnt, idle_co>>
  BY Zenon DEF StartBegin, coVars
<1>3. \A u \in Threads : u # Main => At(u)' = At(u)
  BY Zenon, <1>1 DEF Moved
<1>4. \A u \in Threads : Left(u)' <=> Left(u)
  BY Zenon, <1>1, <1>3 DEF Left
<1>5. CountInv'
  BY Zenon, <1>1, <1>2, <1>4, CountFrame DEF PoolInv
<1>6. \A u \in Runners : At(u)' \in {"idle_wait", "idle_dec"} <=> At(u) \in {"idle_wait", "idle_dec"}
  BY Zenon, <1>1, <1>3, RunnerFacts
<1>7. IdleCntExact'
  BY Zenon, <1>2, <1>6, IdleCntFrame DEF PoolInv
<1>8. StartInv'
  BY Zenon, <1>1, <1>2, <1>3, RunnerFacts, SchedulerAssumption
    DEF PoolInv, StartInv, StartBegin, SchedulerAssumption
<1>9. IdleInv(P)'
  BY Zenon, <1>2 DEF PoolInv, IdleInv, StartInv
<1> QED
  BY Zenon, <1>5, <1>7, <1>8, <1>9 DEF PoolInv

LEMMA StartThreadsPool ==
    ASSUME NEW P, P \cap RunPc = {}, RunTypeOK(P), CoInv, PoolInv(P), StartThreads
    PROVE  PoolInv(P)'
<1>1. \A u \in Runners : At(u) \in {"unborn", "user", "starting"} /\ idle_co[u] = "INIT"
  BY Zenon DEF PoolInv, StartInv, StartThreads
<1>2. /\ \A u \in Runners : pc'[u] = "scan"
      /\ Main \notin Runners => pc'[Main] = "user"
      /\ \A u \in Threads : u \notin Runners /\ u # Main => pc'[u] = pc[u]
      /\ UNCHANGED <<m_is_stopped, m_thread_cnt, m_idle_cnt, idle_co, ret>>
  BY Zenon, RunnerFacts DEF StartThreads, coVars, localVars
<1>3. \A u \in Runners : At(u)' = "scan"
  BY Zenon, <1>2 DEF At, CallPc
<1>4. At(Main)' \in {"scan", "user"} /\ pc'[Main] # "starting"
  BY Zenon, <1>2, <1>3 DEF At, CallPc
<1>5. At(Main) = "starting"
  BY Zenon DEF StartThreads, At, CallPc
<1>6. \A u \in Threads : u \notin Runners /\ u # Main => At(u)' = At(u)
  BY Zenon, <1>2 DEF At
<1>7. \A u \in Threads : Left(u)' <=> Left(u)
  BY Zenon, <1>1, <1>3, <1>4, <1>5, <1>6 DEF Left
<1>8. CountInv'
  BY Zenon, <1>2, <1>4, <1>7, CountFrame DEF PoolInv
<1>9. \A u \in Runners : At(u)' \in {"idle_wait", "idle_dec"} <=> At(u) \in {"idle_wait", "idle_dec"}
  BY Zenon, <1>1, <1>3
<1>10. IdleCntExact'
  BY Zenon, <1>2, <1>9, IdleCntFrame DEF PoolInv
<1>11. IdleInv(P)'
  BY Zenon, <1>1, <1>2 DEF IdleInv
<1>12. StartInv'
  <2>1. ~m_is_stopped
    BY Zenon DEF PoolInv, StartInv, StartThreads
  <2> QED
    BY Zenon, <2>1, <1>2, <1>4 DEF StartInv
<1> QED
  BY Zenon, <1>8, <1>10, <1>11, <1>12 DEF PoolInv

(* run() resumes its idle coroutine only while it can be resumed. *)
LEMMA IdleResumable ==
    ASSUME NEW P, P \cap RunPc = {}, RunTypeOK(P), PoolInv(P)
    PROVE  IdleCoResumable
<1> SUFFICES ASSUME NEW t \in Runners, pc[t] = "dispatch", ~MayLeave(t)
             PROVE  idle_co[t] \in Resumable
  BY Zenon DEF IdleCoResumable
<1>1. ~Left(t) /\ At(t) \notin P
  BY Zenon DEF Left, At, CallPc, RunPc
<1>2. idle_co[t] \in CoState
  BY Zenon DEF RunTypeOK
<1> QED
  BY Zenon, <1>1, <1>2 DEF PoolInv, IdleInv, CoState, Resumable

(* The main thread is the last one to leave. *)
LEMMA MainLast ==
    ASSUME CountInv
    PROVE  MainLeavesLast
<1>1. Left(Main) => \A t \in Runners : Left(t)
  BY Zenon DEF CountInv, Left, Runners
<1>2. \A t \in Runners : Left(t) => ~InCo(t)
  BY Zenon DEF Left, InCo
<1> QED
  BY Zenon, <1>1, <1>2 DEF MainLeavesLast

-----------------------------------------------------------------------------
(* Every step of SchedulerRun preserves RunInv *)

LEMMA ArmedFrame ==
    ASSUME NEW P, RunTypeOK(P), CoInv, ArmedInv, armed' \subseteq armed,
           \A c \in Coroutines : co'[c] = "INIT" => co[c] \in {"INIT", "NONE"}
    PROVE  ArmedInv'
<1> SUFFICES ASSUME NEW a \in armed'
             PROVE  a.wakes = AnyThread /\ a.thread \in Runners /\ co'[a.co] # "INIT"
  BY Zenon DEF ArmedInv
<1>1. a \in armed /\ a \in Task /\ Token(a) /\ a.co \in Coroutines
  BY Zenon DEF RunTypeOK, Token, Task
<1>2. co[a.co] # "NONE"
  BY Zenon, <1>1 DEF CoInv, TokenInv, TokenOK
<1> QED
  BY Zenon, <1>1, <1>2 DEF ArmedInv

LEMMA UserInv ==
    ASSUME NEW P, P \cap RunPc = {}, RunInv(P), UserStep
    PROVE  RunInv(P)'
<1>0. RunTypeOK(P) /\ CoInv /\ ArmedInv /\ PoolInv(P)
  BY Zenon DEF RunInv
<1>1. CASE StartBegin
  <2>1. RunTypeOK(P)' /\ CoInv' /\ PoolInv(P)'
    BY Zenon, <1>0, <1>1, StartBeginStep, StartBeginPool
  <2>2. ArmedInv'
    BY Zenon, <1>0, <1>1, ArmedFrame DEF StartBegin, coVars
  <2> QED
    BY Zenon, <2>1, <2>2 DEF RunInv
<1>2. ASSUME NEW t \in Threads, Stop(t) PROVE RunInv(P)'
  <2>1. RunTypeOK(P)' /\ CoInv' /\ Moved(t) /\ At(t)' = At(t) /\ pc'[t] = "tickle"
    BY Zenon, <1>0, <1>2, StopStep, StopMove
  <2>2. PoolInv(P)'
    BY Zenon, <1>0, <1>2, <2>1, StayPool DEF Stop, coVars
  <2>3. ArmedInv'
    BY Zenon, <1>0, <1>2, ArmedFrame DEF Stop, coVars
  <2> QED
    BY Zenon, <2>1, <2>2, <2>3 DEF RunInv
<1>3. ASSUME NEW t \in Threads, NEW c \in Coroutines, NEW thread \in Runners \cup {AnyThread},
             Submit(t, c, thread)
      PROVE  RunInv(P)'
  <2>1. RunTypeOK(P)' /\ CoInv' /\ Moved(t) /\ At(t)' = At(t) /\ pc'[t] = "schedule"
    BY Zenon, <1>0, <1>3, SubmitStep, SubmitMove
  <2>2. PoolInv(P)'
    BY Zenon, <1>0, <1>3, <2>1, StayPool DEF Submit, schedVars
  <2>3. armed' = armed /\ \A d \in Coroutines : co'[d] = "INIT" => co[d] \in {"INIT", "NONE"}
    BY Zenon, <1>0, <1>3 DEF Submit, RunTypeOK
  <2>4. ArmedInv'
    BY Zenon, <1>0, <2>3, ArmedFrame
  <2> QED
    BY Zenon, <2>1, <2>2, <2>4 DEF RunInv
<1> QED
  BY Zenon, <1>1, <1>2, <1>3 DEF UserStep

LEMMA CallInv ==
    ASSUME NEW P, P \cap RunPc = {}, RunInv(P), NEW t \in Threads, CallStep(t)
    PROVE  RunInv(P)'
<1>0. RunTypeOK(P) /\ CoInv /\ ArmedInv /\ PoolInv(P)
  BY Zenon DEF RunInv
<1>1. CASE StartThreads
  <2>1. RunTypeOK(P)' /\ CoInv' /\ PoolInv(P)'
    BY Zenon, <1>0, <1>1, StartThreadsStep, StartThreadsPool DEF PoolInv
  <2>2. ArmedInv'
    BY Zenon, <1>0, <1>1, ArmedFrame DEF StartThreads, coVars
  <2> QED
    BY Zenon, <2>1, <2>2 DEF RunInv
<1>2. ASSUME ScheduleCheck(t) \/ SchedulePush(t) \/ ScheduleTickle(t) \/ TickleCheck(t)
      PROVE  RunInv(P)'
  <2>1. RunTypeOK(P)' /\ CoInv'
    BY Zenon, <1>0, <1>2, ScheduleCheckStep, SchedulePushStep, TickleStep
  <2>2. Moved(t) /\ At(t)' = At(t)
    BY Zenon, <1>0, <1>2, ScheduleCheckMove, SchedulePushMove, TickleMove
  <2>3. UNCHANGED <<m_is_stopping, m_is_stopped, m_thread_cnt, m_idle_cnt, coVars>>
    BY Zenon, <1>2 DEF ScheduleCheck, SchedulePush, ScheduleTickle, TickleCheck, schedVars
  <2>4. pc'[t] # "starting"
    BY Zenon, <1>0, <1>2 DEF ScheduleCheck, SchedulePush, ScheduleTickle, TickleCheck, Return, Proceed, Goto,
                      RunTypeOK, ReturnPc
  <2>5. PoolInv(P)'
    BY Zenon, <1>0, <2>2, <2>3, <2>4, StayPool DEF coVars
  <2>6. ArmedInv'
    BY Zenon, <1>0, <2>3, ArmedFrame DEF coVars
  <2> QED
    BY Zenon, <2>1, <2>5, <2>6 DEF RunInv
<1> QED
  BY Zenon, <1>1, <1>2 DEF CallStep

LEMMA RunStepInv ==
    ASSUME NEW P, "idle" \in P, P \cap RunPc = {}, RunInv(P), NEW t \in Runners, RunStep(t)
    PROVE  RunInv(P)'
<1>0. RunTypeOK(P) /\ CoInv /\ ArmedInv /\ PoolInv(P) /\ t \in Threads
  BY Zenon, RunnerFacts DEF RunInv
<1>1. ASSUME NEW i \in DOMAIN m_tasks, ScanTake(t, i) PROVE RunInv(P)'
  <2>1. RunTypeOK(P)' /\ CoInv'
    BY Zenon, <1>0, <1>1, ScanTakeStep
  <2>2. UNCHANGED <<m_is_stopping, m_is_stopped, m_thread_cnt, m_idle_cnt, coVars>>
    BY Zenon, <1>1 DEF ScanTake, AfterScan
  <2>3. Moved(t) /\ At(t) = "scan" /\ At(t)' = "dispatch" /\ pc'[t] # "starting"
    BY Zenon, <1>0, <1>1, AfterScanMove DEF ScanTake
  <2>4. PoolInv(P)'
    BY Zenon, <1>0, <2>2, <2>3, TaskPool DEF coVars
  <2>5. ArmedInv'
    BY Zenon, <1>0, <2>2, ArmedFrame DEF coVars
  <2> QED
    BY Zenon, <2>1, <2>4, <2>5 DEF RunInv
<1>2. CASE ScanNone(t)
  <2>1. RunTypeOK(P)' /\ CoInv'
    BY Zenon, <1>0, <1>2, ScanNoneStep
  <2>2. UNCHANGED <<m_is_stopping, m_is_stopped, m_thread_cnt, m_idle_cnt, coVars>>
    BY Zenon, <1>2 DEF ScanNone, AfterScan
  <2>3. Moved(t) /\ At(t) = "scan" /\ At(t)' = "dispatch" /\ pc'[t] # "starting"
    BY Zenon, <1>0, <1>2, AfterScanMove DEF ScanNone
  <2>4. PoolInv(P)'
    BY Zenon, <1>0, <2>2, <2>3, TaskPool DEF coVars
  <2>5. ArmedInv'
    BY Zenon, <1>0, <2>2, ArmedFrame DEF coVars
  <2> QED
    BY Zenon, <2>1, <2>4, <2>5 DEF RunInv
<1>3. CASE RunTask(t)
  <2>1. RunTypeOK(P)' /\ CoInv'
    BY Zenon, <1>0, <1>3, RunTaskStep
  <2>2. UNCHANGED <<m_is_stopping, m_is_stopped, m_thread_cnt, m_idle_cnt, idle_co, armed>>
    BY Zenon, <1>3 DEF RunTask, schedVars
  <2>3. Moved(t) /\ At(t) = "dispatch" /\ pc'[t] = At(t)' /\ At(t)' \in {"co", "scan"}
    BY Zenon, <1>0, <1>3, RunTaskMove
  <2>4. PoolInv(P)'
    BY Zenon, <1>0, <2>2, <2>3, TaskPool
  <2>5. \A c \in Coroutines : co'[c] = "INIT" => co[c] = "INIT"
    BY Zenon, <1>0, <1>3 DEF RunTask, RunTypeOK
  <2>6. ArmedInv'
    BY Zenon, <1>0, <2>2, <2>5, ArmedFrame
  <2> QED
    BY Zenon, <2>1, <2>4, <2>6 DEF RunInv
<1>4. CASE RunCallback(t)
  <2>1. RunTypeOK(P)' /\ CoInv'
    BY Zenon, <1>0, <1>4, RunCallbackStep
  <2>2. UNCHANGED <<m_is_stopping, m_is_stopped, m_thread_cnt, m_idle_cnt, coVars>>
    BY Zenon, <1>4 DEF RunCallback, schedVars
  <2>3. Moved(t) /\ At(t) = "dispatch" /\ At(t)' = "scan" /\ pc'[t] = "schedule"
    BY Zenon, <1>0, <1>4, RunCallbackMove
  <2>4. PoolInv(P)'
    BY Zenon, <1>0, <2>2, <2>3, TaskPool DEF coVars
  <2>5. ArmedInv'
    BY Zenon, <1>0, <2>2, ArmedFrame DEF coVars
  <2> QED
    BY Zenon, <2>1, <2>4, <2>5 DEF RunInv
<1>5. CASE RunIdle(t)
  <2>1. RunTypeOK(P)' /\ CoInv' /\ PoolInv(P)'
    BY Zenon, <1>0, <1>5, RunIdleStep, RunIdlePool
  <2>2. ArmedInv'
    BY Zenon, <1>0, <1>5, ArmedFrame DEF RunIdle
  <2> QED
    BY Zenon, <2>1, <2>2 DEF RunInv
<1>6. CASE RunExit(t)
  <2>1. RunTypeOK(P)' /\ CoInv' /\ PoolInv(P)'
    BY Zenon, <1>0, <1>6, RunExitStep, RunExitPool
  <2>2. ArmedInv'
    BY Zenon, <1>0, <1>6, ArmedFrame DEF RunExit, coVars
  <2> QED
    BY Zenon, <2>1, <2>2 DEF RunInv
<1> QED
  BY Zenon, <1>1, <1>2, <1>3, <1>4, <1>5, <1>6 DEF RunStep

(* A coroutine registers its continuation, and may tickle() after it. *)
LEMMA ArmInv ==
    ASSUME NEW P, P \cap RunPc = {}, RunInv(P), NEW t \in Runners, pc[t] = "co",
           armed' = armed \cup {[co |-> task[t].co, thread |-> t, wakes |-> AnyThread]},
           Call(t, "tickle", "armed") \/ Proceed(t, "armed"),
           UNCHANGED <<schedVars, tickles, co, home, idle_co, arg, task, need_tickle>>
    PROVE  RunInv(P)'
<1>0. RunTypeOK(P) /\ CoInv /\ ArmedInv /\ PoolInv(P) /\ t \in Threads
  BY Zenon, RunnerFacts DEF RunInv
<1>1. RunTypeOK(P)' /\ CoInv'
  BY Zenon, <1>0, ArmStep
<1>2. Moved(t) /\ At(t) = "co" /\ At(t)' = "armed" /\ pc'[t] # "starting"
  BY Zenon, <1>0, ArmMove
<1>3. PoolInv(P)'
  BY Zenon, <1>0, <1>2, TaskPool DEF schedVars
<1>4. co[task[t].co] = "RUNNING"
  BY Zenon, <1>0, <1>2, RunningNoToken
<1>5. ArmedInv'
  BY <1>0, <1>4 DEF ArmedInv
<1> QED
  BY Zenon, <1>1, <1>3, <1>5 DEF RunInv

LEMMA CoStepInv ==
    ASSUME NEW P, P \cap RunPc = {}, RunInv(P), NEW t \in Runners, Arm(t) \/ Yield(t) \/ Finish(t)
    PROVE  RunInv(P)'
<1>0. RunTypeOK(P) /\ CoInv /\ ArmedInv /\ PoolInv(P) /\ t \in Threads
  BY Zenon, RunnerFacts DEF RunInv
<1>1. CASE Arm(t)
  BY Zenon, <1>1, ArmInv DEF Arm, Proceed, localVars
<1>2. CASE Yield(t) \/ Finish(t)
  <2>1. RunTypeOK(P)' /\ CoInv'
    BY Zenon, <1>0, <1>2, SwitchBackStep
  <2>2. /\ UNCHANGED <<m_is_stopping, m_is_stopped, m_thread_cnt, m_idle_cnt, idle_co, armed>>
        /\ pc[t] \in {"armed", "co"}
    BY Zenon, <1>2 DEF Yield, Finish, schedVars
  <2>3. Moved(t) /\ At(t) \in {"armed", "co"} /\ At(t)' = "scan" /\ pc'[t] = "scan"
    BY Zenon, <1>0, <1>2, <2>2, SwitchBackMove
  <2>4. PoolInv(P)'
    BY Zenon, <1>0, <2>2, <2>3, TaskPool
  <2>5. \A c \in Coroutines : co'[c] = "INIT" => co[c] = "INIT"
    BY Zenon, <1>0, <1>2 DEF Yield, Finish, RunTypeOK
  <2>6. ArmedInv'
    BY Zenon, <1>0, <2>2, <2>5, ArmedFrame
  <2> QED
    BY Zenon, <2>1, <2>4, <2>6 DEF RunInv
<1> QED
  BY Zenon, <1>1, <1>2

-----------------------------------------------------------------------------
(* The initial state, tickle(), idle() and fired continuations *)

LEMMA InitRunInv ==
    ASSUME NEW P, RunInit
    PROVE  RunInv(P)
<1>1. RunTypeOK(P) /\ PoolInv(P)
  BY Zenon, TypeInit, PoolInit
<1>2. /\ \A t \in Threads : At(t) \in {"unborn", "user"} /\ pc[t] \in {"unborn", "user"} /\ arg[t] = NoTask
      /\ \A t \in Runners : ~InCo(t) /\ ~Holds(t) /\ task[t] = NoTask
      /\ m_tasks = <<>> /\ armed = {} /\ ~m_is_stopping
      /\ \A c \in Coroutines : co[c] = "NONE"
  BY Zenon, RunnerFacts DEF RunInit, At, CallPc, InCo, Holds
<1>3. \A t \in Threads : t \notin Runners => At(t) = "user"
  BY Zenon DEF RunInit, At, CallPc, Runners
<1>4. ControlInv
  BY Zenon, <1>2, <1>3 DEF ControlInv, ThreadInv, RunnerInv
<1>5. UniqueInv
  BY <1>2 DEF UniqueInv
<1>6. \A e \in Task : ~Token(e)
  BY <1>2, SchedulerAssumption DEF Token, Queued, Passed, Taken, SchedulerAssumption
<1>7. TokenInv /\ LiveInv
  BY Zenon, <1>2, <1>6 DEF TokenInv, LiveInv, Waits, Resumable
<1>8. ArmedInv
  BY Zenon, <1>2 DEF ArmedInv
<1> QED
  BY Zenon, <1>1, <1>4, <1>5, <1>7, <1>8 DEF RunInv, CoInv

(* A stuttering step of the scheduler *)
LEMMA StutterRunInv ==
    ASSUME NEW P, RunInv(P), UNCHANGED runVars
    PROVE  RunInv(P)'
<1>0. RunTypeOK(P) /\ CoInv /\ ArmedInv /\ PoolInv(P)
  BY Zenon DEF RunInv
<1>1. UNCHANGED <<schedVars, tickles, coVars, pc, localVars>>
  BY Zenon DEF runVars
<1>2. \A u \in Threads : At(u)' = At(u) /\ (InCo(u)' <=> InCo(u)) /\ (Left(u)' <=> Left(u))
  BY Zenon, <1>1 DEF At, InCo, Left, localVars
<1>3. RunTypeOK(P)'
  BY <1>0, <1>1, Zenon DEF RunTypeOK, schedVars, coVars, localVars
<1>4. ArmedInv'
  BY Zenon, <1>0, <1>1, ArmedFrame DEF coVars
<1>5. PoolInv(P)'
  <2>1. Main \in Threads /\ Moved(Main) /\ At(Main)' = At(Main) /\ pc' = pc
    BY Zenon, <1>1, <1>2, RunnerFacts DEF Moved
  <2>2. CountInv' /\ IdleCntExact'
    BY Zenon, <2>1, <1>0, <1>1, <1>2, CountFrame, IdleCntFrame, RunnerFacts DEF PoolInv, schedVars
  <2>3. StartInv'
    BY Zenon, <2>1, <1>0, <1>1, <1>2, RunnerFacts DEF PoolInv, StartInv, schedVars, coVars
  <2>4. IdleInv(P)'
    BY Zenon, <1>0, <1>1, <1>2, RunnerFacts DEF PoolInv, IdleInv, MayLeave, schedVars, coVars
  <2> QED
    BY Zenon, <2>2, <2>3, <2>4 DEF PoolInv
<1>6. CoInv'
  <2>1. ControlInv'
    <3>1. \A u \in Threads : ThreadInv(u)'
      BY Zenon, <1>0, <1>1, <1>2 DEF CoInv, ControlInv, ThreadInv, localVars
    <3>2. \A u \in Runners : (InCo(u)' <=> InCo(u)) /\ (Holds(u)' <=> Holds(u)) /\ At(u)' = At(u)
      BY Zenon, <1>1, <1>2, RunnerFacts DEF Holds, localVars
    <3>3. \A u \in Runners : RunnerInv(u)'
      BY Zenon, <1>0, <1>1, <3>2 DEF CoInv, ControlInv, RunnerInv, RunsOn, coVars, localVars
    <3> QED
      BY Zenon, <3>1, <3>3 DEF ControlInv
  <2> QED
    BY Zenon, <2>1, <1>0, <1>1, <1>2, TokenFrame, RunnerFacts DEF CoInv, schedVars, coVars, localVars
<1> QED
  BY Zenon, <1>3, <1>4, <1>5, <1>6 DEF RunInv

(* The steps of SchedulerRun do not touch the semaphore or pipe. *)
LEMMA RunKeepsTickles ==
    ASSUME \/ UserStep \/ \E t \in Threads : CallStep(t)
           \/ \E t \in Runners : RunStep(t) \/ Arm(t) \/ Yield(t) \/ Finish(t)
    PROVE  tickles' = tickles
<1>1. CASE UserStep
  BY Zenon, <1>1 DEF UserStep, StartBegin, Stop, Submit
<1>2. ASSUME NEW t \in Threads, CallStep(t) PROVE tickles' = tickles
  BY Zenon, <1>2 DEF CallStep, StartThreads, ScheduleCheck, SchedulePush, ScheduleTickle, TickleCheck
<1>3. ASSUME NEW t \in Runners, RunStep(t) PROVE tickles' = tickles
  <2>1. ASSUME NEW need, AfterScan(t, need) PROVE tickles' = tickles
    BY Zenon, <2>1 DEF AfterScan
  <2>2. CASE ScanNone(t) \/ \E i \in DOMAIN m_tasks : ScanTake(t, i)
    BY Zenon, <2>1, <2>2 DEF ScanTake, ScanNone
  <2>3. CASE RunTask(t) \/ RunCallback(t)
    BY Zenon, <2>3 DEF RunTask, RunCallback
  <2>4. CASE RunIdle(t) \/ RunExit(t)
    BY Zenon, <2>4 DEF RunIdle, RunExit
  <2> QED
    BY Zenon, <1>3, <2>2, <2>3, <2>4 DEF RunStep
<1>4. ASSUME NEW t \in Runners, Arm(t) \/ Yield(t) \/ Finish(t) PROVE tickles' = tickles
  BY Zenon, <1>4 DEF Arm, Yield, Finish
<1> QED
  BY Zenon, <1>1, <1>2, <1>3, <1>4

(* tickle() has posted its wake-up and returns. *)
LEMMA PostRunInv ==
    ASSUME NEW P, RunInv(P), NEW t \in Threads, pc[t] = "post", Return(t), tickles' \in Nat,
           UNCHANGED <<schedVars, coVars, arg, task, need_tickle>>
    PROVE  RunInv(P)'
<1>0. RunTypeOK(P) /\ CoInv /\ ArmedInv /\ PoolInv(P) /\ pc[t] \in CallPc
  BY Zenon DEF RunInv, CallPc
<1>2. PcTypeOK(P)' /\ Moved(t) /\ pc'[t] \notin CallPc /\ At(t)' = At(t)
  BY Zenon, <1>0, ReturnMove, PcTypes
<1>3. pc'[t] \notin {"schedule", "push", "starting"}
  BY Zenon, <1>0, <1>2 DEF Return, Goto, RunTypeOK, ReturnPc
<1>5. RunTypeOK(P)'
  BY <1>0, <1>2, Zenon DEF RunTypeOK, PcTypeOK, schedVars, coVars
<1>6. CoInv'
  BY Zenon, <1>0, <1>2, <1>3, MoveStep DEF schedVars, coVars
<1>7. PoolInv(P)'
  BY Zenon, <1>0, <1>2, <1>3, StayPool DEF schedVars, coVars
<1>8. ArmedInv'
  BY Zenon, <1>0, ArmedFrame DEF coVars
<1> QED
  BY Zenon, <1>5, <1>6, <1>7, <1>8 DEF RunInv

-----------------------------------------------------------------------------
(* The loop of idle() *)

(* The program points between ++m_idle_cnt and --m_idle_cnt, and the step  *)
(* from pc[t] to l counted accordingly.                                    *)
CountedPc == {"idle_wait", "idle_dec"}
Counts(t, l) ==
    m_idle_cnt' = IF pc[t] \in CountedPc
                  THEN (IF l \in CountedPc THEN m_idle_cnt ELSE m_idle_cnt - 1)
                  ELSE (IF l \in CountedPc THEN m_idle_cnt + 1 ELSE m_idle_cnt)

(* A thread in idle() has no task and moves to another point of the loop. *)
LEMMA IdleMove ==
    ASSUME NEW P, P \cap RunPc = {}, RunInv(P), NEW t \in Runners, pc[t] \in P,
           NEW l \in P \cup {"scan"}, Proceed(t, l)
    PROVE  /\ PcTypeOK(P)' /\ Moved(t) /\ At(t) = pc[t] /\ At(t)' = l /\ pc'[t] = l
           /\ t \in Threads /\ task[t] = NoTask /\ ~InCo(t) /\ ~InCo(t)'
<1>0. t \in Threads /\ PcTypeOK(P)
  BY Zenon, RunnerFacts, PcTypes DEF RunInv
<1>1. At(t) = pc[t] /\ l \notin CallPc /\ l \in RunPc \cup P
  BY Zenon DEF At, CallPc, RunPc
<1>2. PcTypeOK(P)' /\ Moved(t) /\ pc'[t] = l /\ At(t)' = l
  BY Zenon, <1>0, <1>1, ProceedMove
<1>3. ~InCo(t) /\ At(t) # "dispatch" /\ ~InCo(t)'
  BY Zenon, <1>1, <1>2 DEF InCo, RunPc
<1>4. task[t] = NoTask
  BY Zenon, <1>3 DEF RunInv, CoInv, ControlInv, RunnerInv
<1> QED
  BY Zenon, <1>0, <1>1, <1>2, <1>3, <1>4

(* m_idle_cnt stays exact when a step of idle() counts its thread. *)
LEMMA IdleCount ==
    ASSUME NEW P, P \cap RunPc = {}, RunInv(P), NEW t \in Runners, pc[t] \in P,
           NEW l \in P \cup {"scan"}, Proceed(t, l), Counts(t, l)
    PROVE  IdleCntExact' /\ m_idle_cnt' \in Nat
<1> DEFINE Idle == {u \in Runners : At(u) \in CountedPc}
<1>1. m_idle_cnt = Cardinality(Idle) /\ IsFiniteSet(Idle) /\ m_idle_cnt \in Nat
  <2>1. IsFiniteSet(Runners)
    BY Zenon, SchedulerAssumption, FS_Union, FS_Singleton, FS_EmptySet DEF SchedulerAssumption, Runners
  <2> QED
    BY Zenon, <2>1, FS_Subset, FS_CardinalityType DEF RunInv, PoolInv, IdleCntExact, CountedPc
<1>2. /\ \A u \in Runners : u # t => (u \in Idle' <=> u \in Idle)
      /\ t \in Idle <=> pc[t] \in CountedPc
      /\ t \in Idle' <=> l \in CountedPc
  <2>1. Moved(t) /\ At(t) = pc[t] /\ At(t)' = l
    BY Zenon, IdleMove
  <2> QED
    BY Zenon, <2>1, RunnerFacts DEF Moved
<1>3. m_idle_cnt' = Cardinality(Idle')
  <2>1. CASE (pc[t] \in CountedPc) = (l \in CountedPc)
    <3>1. Idle' = Idle
      BY Zenon, <2>1, <1>2
    <3> HIDE DEF Idle
    <3> QED
      BY Zenon, <3>1, <2>1, <1>1 DEF Counts
  <2>2. CASE pc[t] \notin CountedPc /\ l \in CountedPc
    <3>1. Idle' = Idle \cup {t} /\ t \notin Idle
      BY Zenon, <2>2, <1>2
    <3> HIDE DEF Idle
    <3>2. Cardinality(Idle') = Cardinality(Idle) + 1
      BY Zenon, <3>1, <1>1, FS_AddElement
    <3> QED
      BY Zenon, <3>2, <2>2, <1>1 DEF Counts
  <2>3. CASE pc[t] \in CountedPc /\ l \notin CountedPc
    <3>1. Idle' = Idle \ {t} /\ t \in Idle
      BY Zenon, <2>3, <1>2
    <3> HIDE DEF Idle
    <3>2. Cardinality(Idle') = Cardinality(Idle) - 1
      BY Zenon, <3>1, <1>1, FS_RemoveElement
    <3> QED
      BY Zenon, <3>2, <2>3, <1>1 DEF Counts
  <2> QED
    BY <2>1, <2>2, <2>3
<1>4. IsFiniteSet(Idle')
  <2>1. Idle' \subseteq Idle \cup {t}
    BY Zenon, <1>2
  <2> HIDE DEF Idle
  <2> QED
    BY Zenon, <2>1, <1>1, FS_AddElement, FS_Subset
<1>5. m_idle_cnt' \in Nat
  <2> HIDE DEF Idle
  <2> QED
    BY Zenon, <1>3, <1>4, FS_CardinalityType
<1> QED
  BY Zenon, <1>3, <1>5 DEF IdleCntExact, CountedPc

(* A step of idle() that moves no token: the idle coroutine goes on, or    *)
(* yields to run(), or ends when run() will not resume it.                 *)
LEMMA IdleLoop ==
    ASSUME NEW P, P \cap RunPc = {}, RunInv(P), NEW t \in Runners, pc[t] \in P,
           NEW l \in P \cup {"scan"}, Proceed(t, l), Counts(t, l), tickles' \in Nat,
           UNCHANGED <<m_tasks, m_is_stopping, m_is_stopped, stop_called, m_thread_cnt,
                       co, home, armed, arg, task, need_tickle>>,
           \/ l \in P /\ idle_co' = idle_co
           \/ idle_co' = [idle_co EXCEPT ![t] = "YIELD"]
           \/ MayLeave(t) /\ idle_co' = [idle_co EXCEPT ![t] = "TERMINAL"]
    PROVE  RunInv(P)'
<1>0. RunTypeOK(P) /\ CoInv /\ ArmedInv /\ PoolInv(P)
  BY Zenon DEF RunInv
<1>1. /\ PcTypeOK(P)' /\ Moved(t) /\ At(t) = pc[t] /\ At(t)' = l /\ pc'[t] = l
      /\ t \in Threads /\ task[t] = NoTask /\ ~InCo(t) /\ ~InCo(t)'
  BY Zenon, IdleMove
<1>2. IdleCntExact' /\ m_idle_cnt' \in Nat
  BY Zenon, IdleCount
<1>3. /\ pc[t] \notin {"schedule", "push"} /\ l \notin {"schedule", "push", "starting", "exit", "done"}
      /\ pc[t] \notin {"unborn", "user", "starting", "exit", "done"}
  BY Zenon DEF RunPc, CallPc
<1>4. /\ idle_co' \in [Runners -> CoState] /\ \A u \in Runners : u # t => idle_co'[u] = idle_co[u]
      /\ idle_co'[t] # "NONE" /\ (idle_co'[t] = "RUNNING" => l \in P)
      /\ idle_co'[t] = "TERMINAL" => MayLeave(t)
  <2>1. ~Left(t)
    BY Zenon, <1>1, <1>3 DEF Left
  <2>2. idle_co \in [Runners -> CoState] /\ idle_co[t] # "NONE" /\ (idle_co[t] = "TERMINAL" => MayLeave(t))
    BY Zenon, <2>1, <1>0 DEF RunTypeOK, PoolInv, IdleInv
  <2> QED
    BY Zenon, <2>2 DEF CoState
<1>5. RunTypeOK(P)'
  BY <1>0, <1>1, <1>2, <1>4, Zenon DEF RunTypeOK, PcTypeOK
<1>6. CoInv'
  BY Zenon, <1>0, <1>1, <1>3, MoveStep
<1>7. PoolInv(P)'
  BY Zenon, <1>0, <1>1, <1>2, <1>3, <1>4, LoopPool
<1>8. ArmedInv'
  BY Zenon, <1>0, ArmedFrame
<1> QED
  BY Zenon, <1>5, <1>6, <1>7, <1>8 DEF RunInv

-----------------------------------------------------------------------------
(* A thread fires a continuation: it calls schedule() with it, or with a   *)
(* callback that will, and the token moves from armed to the call.         *)
LEMMA FireStep ==
    ASSUME NEW P, RunTypeOK(P), CoInv, ArmedInv, NEW t \in Threads, NEW a \in armed,
           NEW r \in ReturnPc \cap (RunPc \cup P), pc[t] = r, Call(t, "schedule", r),
           armed' = armed \ {a},
           \E e \in {a, [co |-> a.co, thread |-> AnyThread, wakes |-> a.thread]} :
               arg' = [arg EXCEPT ![t] = e],
           UNCHANGED <<schedVars, tickles, co, home, idle_co, task, need_tickle>>
    PROVE  /\ RunTypeOK(P)' /\ CoInv' /\ Moved(t) /\ At(t)' = At(t) /\ pc'[t] = "schedule"
<1>0. a \in Task /\ Token(a) /\ TokenOK(a) /\ a.thread \in Runners /\ a.wakes = AnyThread /\ co[a.co] # "INIT"
  BY Zenon DEF RunTypeOK, Token, CoInv, TokenInv, ArmedInv
<1>1. PICK b \in Task : a = b
  BY Zenon, <1>0
<1>2. [co |-> b.co, thread |-> AnyThread, wakes |-> b.thread] \in Task
  BY Zenon, <1>0, <1>1 DEF Task
<1>3. PICK e \in {b, [co |-> b.co, thread |-> AnyThread, wakes |-> b.thread]} :
          arg' = [arg EXCEPT ![t] = e]
  BY Zenon, <1>1
<1>4. /\ e \in Task /\ e # NoTask /\ e.co = b.co /\ Target(e) = Target(b) /\ co[b.co] # "INIT"
  BY <1>0, <1>1, <1>2, <1>3, SchedulerAssumption, RunnerFacts DEF SchedulerAssumption, Target
<1>5. armed' = armed \ {b} /\ b \in armed
  BY Zenon, <1>1
<1>6. PcTypeOK(P)' /\ Moved(t) /\ At(t)' = At(t) /\ pc'[t] = "schedule"
  <2>1. At(t) = r /\ "schedule" \in CallPc
    BY Zenon DEF At, CallPc, ReturnPc
  <2> QED
    BY Zenon, <2>1, <1>5, CallMove, PcTypes
<1>7. /\ arg[t] = NoTask /\ arg'[t] = e /\ \A u \in Threads : u # t => arg'[u] = arg[u]
      /\ arg' \in [Threads -> Task \cup {NoTask}] /\ armed' \subseteq Task
  BY Zenon, <1>3, <1>4, <1>5 DEF RunTypeOK, CoInv, ControlInv, ThreadInv, ReturnPc
<1>8. RunTypeOK(P)'
  BY <1>5, <1>6, <1>7, Zenon DEF RunTypeOK, PcTypeOK, schedVars
<1>9. \A u \in Threads : At(u)' = At(u) /\ (InCo(u)' <=> InCo(u))
  BY Zenon, <1>6, StayFacts
<1>10. \A u \in Runners : (Holds(u)' <=> Holds(u)) /\ (InCo(u)' <=> InCo(u)) /\ At(u)' = At(u)
  BY Zenon, <1>5, <1>9, RunnerFacts DEF Holds
<1>11. ControlInv'
  <2>1. ThreadInv(t)'
    BY Zenon, <1>4, <1>6, <1>7 DEF ThreadInv, CoInv, ControlInv
  <2>2. t \in Runners => RunnerInv(t)'
    BY Zenon, <1>5, <1>10 DEF RunnerInv, CoInv, ControlInv, RunsOn
  <2> QED
    BY Zenon, <2>1, <2>2, <1>5, <1>6, <1>7, ControlFrame DEF CoInv
<1>12. UniqueInv'
  BY <1>4, <1>5, <1>7, <1>10 DEF UniqueInv, CoInv, schedVars
<1>13. /\ \A f \in Task : Token(f)' => Token(f) \/ f = e
       /\ \A f \in Task : Token(f) /\ f # b => Token(f)'
       /\ Token(e)'
  BY ZenonT(30), <1>4, <1>5, <1>7, <1>10, SchedulerAssumption
    DEF Token, Queued, Passed, Taken, SchedulerAssumption, schedVars
<1>14. TokenInv'
  <2>1. \A f \in Task : TokenOK(f) => TokenOK(f)'
    BY Zenon, <1>5, <1>10 DEF TokenOK, Target
  <2>2. TokenOK(e)
    BY Zenon, <1>0, <1>1, <1>4 DEF TokenOK
  <2>3. \A f \in Task : Token(f)' => TokenOK(f)'
    BY Zenon, <1>4, <1>13, <2>1, <2>2 DEF TokenInv, CoInv
  <2> QED
    BY Zenon, <2>3, <1>5, <1>10 DEF TokenInv, CoInv
<1>15. LiveInv'
  <2>1. \A d \in Coroutines : Waits(d)' => Waits(d)
    BY Zenon, <1>5, <1>10 DEF Waits
  <2> QED
    BY Zenon, <2>1, <1>4, <1>5, <1>13 DEF LiveInv, CoInv, schedVars
<1> QED
  BY Zenon, <1>6, <1>8, <1>11, <1>12, <1>14, <1>15 DEF CoInv

LEMMA FireRunInv ==
    ASSUME NEW P, RunInv(P), NEW t \in Threads, NEW a \in armed,
           NEW r \in ReturnPc \cap (RunPc \cup P), pc[t] = r, Call(t, "schedule", r),
           armed' = armed \ {a},
           \E e \in {a, [co |-> a.co, thread |-> AnyThread, wakes |-> a.thread]} :
               arg' = [arg EXCEPT ![t] = e],
           UNCHANGED <<schedVars, tickles, co, home, idle_co, task, need_tickle>>
    PROVE  RunInv(P)'
<1>0. RunTypeOK(P) /\ CoInv /\ ArmedInv /\ PoolInv(P)
  BY Zenon DEF RunInv
<1>1. RunTypeOK(P)' /\ CoInv' /\ Moved(t) /\ At(t)' = At(t) /\ pc'[t] = "schedule"
  BY Zenon, <1>0, FireStep
<1>2. PoolInv(P)'
  BY Zenon, <1>0, <1>1, StayPool DEF schedVars
<1>3. armed' \subseteq armed /\ ArmedInv'
  BY Zenon, <1>0, ArmedFrame
<1> QED
  BY Zenon, <1>1, <1>2, <1>3 DEF RunInv
====
