------------------------- MODULE IOSchedulerProofs -------------------------
(***************************************************************************)
(* The theorem about IOManager as a scheduler, for every number of         *)
(* threads and coroutines.  The steps of SchedulerRun and of the idle loop *)
(* preserve RunInv as in SchedulerProofs; here are the steps that move the *)
(* continuations of timers and events into the task list.  They rest on    *)
(* ReportInv: what epoll or a timer has reported is still registered, and  *)
(* only one thread has it in hand.                                         *)
(***************************************************************************)
EXTENDS IOScheduler, SchedulerPoolProofs

(* A report is due, or in the events of one thread, or among the callbacks *)
(* of a thread; the continuation it stands for is registered until then.   *)
ReportInv ==
    /\ IsFiniteSet(armed)
    /\ \A c \in due : \E a \in armed : a.co = c
    /\ \A t \in Runners : \A c \in events[t] \ {Pipe} : c \notin due /\ \E a \in armed : a.co = c
    /\ \A t \in Runners : \A c \in cbs[t] : c \notin due
    /\ \A t, u \in Runners : \A c \in cbs[u] : c \notin events[t]
    /\ \A t, u \in Runners : \A c \in events[t] \ {Pipe} : c \in events[u] => t = u

(* TypeOK without the part that RunInv has. *)
IOTypeOK ==
    /\ tickles <= MaxTickles
    /\ sleeping \subseteq Coroutines /\ due \subseteq Coroutines
    /\ cbs \in [Runners -> SUBSET Coroutines]
    /\ events \in [Runners -> SUBSET (Coroutines \cup {Pipe})]
    /\ rt \in [Runners -> BOOLEAN]

IInv == RunInv(IdlePc) /\ IOTypeOK /\ ReportInv

LEMMA IdlePcFacts == IdlePc \cap RunPc = {} /\ "idle" \in IdlePc
  BY Zenon DEF IdlePc, RunPc, CallPc

-----------------------------------------------------------------------------
(* Continuations that become tasks *)

(* A finite set in some order: each element occurs exactly once. *)
LEMMA SequenceOfSet ==
    ASSUME NEW S, IsFiniteSet(S), NEW s \in Bijection(1 .. Cardinality(S), S)
    PROVE  /\ s \in Seq(S)
           /\ \A i, j \in DOMAIN s : s[i] = s[j] => i = j
           /\ \A x \in S : \E i \in DOMAIN s : s[i] = x
<1> DEFINE n == Cardinality(S)
<1>1. n \in Nat
  BY Zenon, FS_CardinalityType
<1>2. s \in [1 .. n -> S] /\ (\A i, j \in 1 .. n : s[i] = s[j] => i = j) /\ \A x \in S : \E i \in 1 .. n : s[i] = x
  BY Zenon DEF Bijection, Injection, IsInjective, Surjection
<1> QED
  BY <1>1, <1>2

(* New is old with the callbacks of the continuations B behind it. *)
Appended(old, B, new) ==
    /\ \A i \in DOMAIN old : i \in DOMAIN new /\ new[i] = old[i]
    /\ \A i \in DOMAIN new : i \notin DOMAIN old => \E a \in B : new[i] = Callback(a)
    /\ \A a \in B : \E i \in DOMAIN new : i \notin DOMAIN old /\ new[i] = Callback(a)
    /\ \A i, j \in DOMAIN new : i \notin DOMAIN old /\ j \notin DOMAIN old /\ new[i] = new[j] => i = j

LEMMA AppendCallbacks ==
    ASSUME NEW B, B \subseteq Task, IsFiniteSet(B), \A a \in B : a.thread \in Runners,
           NEW F, F = {Callback(a) : a \in B}, NEW s \in Bijection(1 .. Cardinality(F), F),
           NEW old \in Seq(Task), NEW new, new = old \o s
    PROVE  new \in Seq(Task) /\ Appended(old, B, new)
<1>1. IsFiniteSet(F)
  <2>1. [a \in B |-> Callback(a)] \in Surjection(B, F)
    BY Zenon DEF Surjection
  <2> QED
    BY Zenon, <2>1, FS_Surjection
<1>2. F \subseteq Task
  BY DEF Task, Callback
<1>3. /\ s \in Seq(F) /\ \A i, j \in DOMAIN s : s[i] = s[j] => i = j
      /\ \A x \in F : \E i \in DOMAIN s : s[i] = x
  BY Zenon, <1>1, SequenceOfSet
<1>4. s \in Seq(Task)
  BY <1>2, <1>3
<1>5. new \in Seq(Task) /\ Len(new) = Len(old) + Len(s)
  BY <1>4
<1>6. /\ \A i \in 1 .. Len(old) : new[i] = old[i]
      /\ \A i \in 1 .. Len(s) : new[Len(old) + i] = s[i]
      /\ \A i \in 1 .. Len(new) : i \notin 1 .. Len(old) =>
            i - Len(old) \in 1 .. Len(s) /\ new[i] = s[i - Len(old)]
  BY <1>4, <1>5
<1>7. DOMAIN old = 1 .. Len(old) /\ DOMAIN s = 1 .. Len(s) /\ DOMAIN new = 1 .. Len(new)
  BY <1>4, <1>5
<1>8. Len(old) \in Nat /\ Len(s) \in Nat
  BY <1>4
<1>9. \A i \in DOMAIN s : \E a \in B : s[i] = Callback(a)
  BY <1>3
<1>10. \A a \in B : \E i \in DOMAIN s : s[i] = Callback(a)
  BY Zenon, <1>3
<1>11. \A i \in DOMAIN old : i \in DOMAIN new /\ new[i] = old[i]
  BY <1>5, <1>6, <1>7, <1>8
<1>12. \A i \in DOMAIN new : i \notin DOMAIN old => \E a \in B : new[i] = Callback(a)
  <2> SUFFICES ASSUME NEW i \in 1 .. Len(new), i \notin 1 .. Len(old)
               PROVE  \E a \in B : new[i] = Callback(a)
    BY Zenon, <1>7
  <2>1. PICK k \in 1 .. Len(s) : new[i] = s[k]
    BY Zenon, <1>6
  <2> QED
    BY Zenon, <2>1, <1>7, <1>9
<1>13. \A a \in B : \E i \in DOMAIN new : i \notin DOMAIN old /\ new[i] = Callback(a)
  <2> TAKE a \in B
  <2>1. PICK i \in 1 .. Len(s) : s[i] = Callback(a)
    BY Zenon, <1>7, <1>10
  <2>2. Len(old) + i \in 1 .. Len(new) /\ Len(old) + i \notin 1 .. Len(old) /\ new[Len(old) + i] = Callback(a)
    BY <2>1, <1>5, <1>6, <1>8
  <2> QED
    BY Zenon, <2>2, <1>7
<1>14. \A i, j \in DOMAIN new : i \notin DOMAIN old /\ j \notin DOMAIN old /\ new[i] = new[j] => i = j
  <2> SUFFICES ASSUME NEW i \in 1 .. Len(new), NEW j \in 1 .. Len(new),
                      i \notin 1 .. Len(old), j \notin 1 .. Len(old), new[i] = new[j]
               PROVE  i = j
    BY Zenon, <1>7
  <2>1. PICK k \in 1 .. Len(s) : k = i - Len(old) /\ new[i] = s[k]
    BY Zenon, <1>6
  <2>2. PICK m \in 1 .. Len(s) : m = j - Len(old) /\ new[j] = s[m]
    BY Zenon, <1>6
  <2>3. k = m
    BY Zenon, <2>1, <2>2, <1>3, <1>7
  <2> QED
    BY <2>1, <2>2, <2>3, <1>8
<1> QED
  BY Zenon, <1>5, <1>11, <1>12, <1>13, <1>14 DEF Appended

(* The continuations B leave armed and their callbacks enter the list. *)
LEMMA PushStep ==
    ASSUME NEW P, RunTypeOK(P), CoInv, ArmedInv, NEW t \in Runners, Moved(t), ~InCo(t), ~InCo(t)',
           task[t] = NoTask, pc[t] \notin {"schedule", "push"}, pc'[t] \notin {"schedule", "push"},
           NEW B \in SUBSET armed, armed' = armed \ B, Appended(m_tasks, B, m_tasks'),
           UNCHANGED <<m_is_stopping, stop_called, co, home, arg, task>>
    PROVE  CoInv'
<1>0. /\ t \in Threads /\ ControlInv /\ UniqueInv /\ TokenInv /\ LiveInv
      /\ armed \subseteq Task /\ B \subseteq Task
  BY Zenon, RunnerFacts DEF CoInv, RunTypeOK
<1>1. \A a \in B : /\ Callback(a) \in Task /\ Callback(a).co = a.co /\ Callback(a).wakes = a.thread
                   /\ Callback(a).wakes # AnyThread
                   /\ Target(Callback(a)) = Target(a) /\ co[a.co] # "INIT" /\ Token(a) /\ TokenOK(a)
  <2> TAKE a \in B
  <2>1. a \in Task /\ a \in armed /\ a.wakes = AnyThread /\ a.thread \in Runners /\ co[a.co] # "INIT"
    BY Zenon, <1>0 DEF ArmedInv
  <2>2. Token(a) /\ TokenOK(a)
    BY Zenon, <2>1, <1>0 DEF Token, TokenInv
  <2>3. Callback(a) \in Task /\ Callback(a).co = a.co /\ Callback(a).wakes = a.thread
    BY Zenon, <2>1 DEF Callback, Task
  <2> QED
    BY Zenon, <2>1, <2>2, <2>3, RunnerFacts DEF Target
<1>2. \A u \in Runners : /\ (InCo(u)' <=> InCo(u)) /\ (Holds(u)' <=> Holds(u))
                         /\ (u # t => At(u)' = At(u)) /\ (At(u)' = "armed" <=> At(u) = "armed")
  BY Zenon, RunnerFacts DEF Moved, Holds, InCo
<1>3. ControlInv'
  <2>1. ThreadInv(t)'
    BY Zenon, <1>0 DEF ControlInv, ThreadInv
  <2>2. RunnerInv(t)'
    BY Zenon, <1>2 DEF RunnerInv, Holds
  <2> QED
    BY Zenon, <2>1, <2>2, <1>0, ControlFrame
<1>4. UniqueInv'
  <2>0. \A a, b \in B : a.co = b.co => a = b
    BY Zenon, <1>0 DEF UniqueInv
  <2>1. \A i \in DOMAIN m_tasks' : i \notin DOMAIN m_tasks => \E a \in B : m_tasks'[i].co = a.co /\ m_tasks'[i] = Callback(a)
    BY <1>1 DEF Appended
  <2>2. \A i \in DOMAIN m_tasks' : i \in DOMAIN m_tasks => m_tasks'[i] = m_tasks[i]
    BY Zenon DEF Appended
  <2>3. \A i, j \in DOMAIN m_tasks' : m_tasks'[i].co = m_tasks'[j].co => i = j
    <3> SUFFICES ASSUME NEW i \in DOMAIN m_tasks', NEW j \in DOMAIN m_tasks', m_tasks'[i].co = m_tasks'[j].co
                 PROVE  i = j
      OBVIOUS
    <3>1. CASE i \in DOMAIN m_tasks /\ j \in DOMAIN m_tasks
      BY Zenon, <3>1, <2>2, <1>0 DEF UniqueInv
    <3>2. CASE i \in DOMAIN m_tasks /\ j \notin DOMAIN m_tasks
      BY <3>2, <2>1, <2>2, <1>0 DEF UniqueInv
    <3>3. CASE i \notin DOMAIN m_tasks /\ j \in DOMAIN m_tasks
      BY <3>3, <2>1, <2>2, <1>0 DEF UniqueInv
    <3>4. CASE i \notin DOMAIN m_tasks /\ j \notin DOMAIN m_tasks
      <4>1. PICK a \in B : m_tasks'[i].co = a.co /\ m_tasks'[i] = Callback(a)
        BY Zenon, <3>4, <2>1
      <4>2. PICK b \in B : m_tasks'[j].co = b.co /\ m_tasks'[j] = Callback(b)
        BY Zenon, <3>4, <2>1
      <4>3. a = b
        BY Zenon, <4>1, <4>2, <2>0
      <4>4. m_tasks'[i] = m_tasks'[j]
        BY Zenon, <4>1, <4>2, <4>3
      <4> QED
        BY Zenon, <4>4, <3>4 DEF Appended
    <3> QED
      BY Zenon, <3>1, <3>2, <3>3, <3>4
  <2>4. \A i \in DOMAIN m_tasks' :
          /\ \A u \in Threads : arg[u] # NoTask => m_tasks'[i].co # arg[u].co
          /\ \A u \in Runners : Holds(u) => m_tasks'[i].co # task[u].co
          /\ \A a \in armed \ B : m_tasks'[i].co # a.co
    <3> TAKE i \in DOMAIN m_tasks'
    <3>1. CASE i \in DOMAIN m_tasks
      BY <3>1, <2>2, <1>0 DEF UniqueInv
    <3>2. CASE i \notin DOMAIN m_tasks
      <4>1. PICK b \in B : m_tasks'[i].co = b.co
        BY Zenon, <3>2, <2>1
      <4> QED
        BY Zenon, <4>1, <1>0 DEF UniqueInv
    <3> QED
      BY Zenon, <3>1, <3>2
  <2> QED
    BY ZenonT(30), <2>3, <2>4, <1>0, <1>2 DEF UniqueInv
<1>5. /\ \A f \in Task : Token(f)' => Token(f) \/ \E a \in B : f = Callback(a)
      /\ \A f \in Task : Token(f) /\ f \notin B => Token(f)'
      /\ \A a \in B : Token(Callback(a))'
  <2>1. \A f \in Task : Queued(f)' => Queued(f) \/ \E a \in B : f = Callback(a)
    BY Zenon DEF Queued, Appended
  <2>2. \A f \in Task : Queued(f) => Queued(f)'
    BY Zenon DEF Queued, Appended
  <2>3. \A a \in B : Queued(Callback(a))'
    BY Zenon DEF Queued, Appended
  <2>4. \A f \in Task : (Passed(f)' <=> Passed(f)) /\ (Taken(f)' <=> Taken(f))
    BY Zenon, <1>2 DEF Passed, Taken
  <2> QED
    BY Zenon, <2>1, <2>2, <2>3, <2>4 DEF Token
<1>6. TokenInv'
  <2>1. \A f \in Task : TokenOK(f) => TokenOK(f)'
    BY Zenon, <1>2 DEF TokenOK, Target
  <2>2. \A a \in B : TokenOK(Callback(a))
    BY Zenon, <1>1 DEF TokenOK
  <2>3. \A f \in Task : Token(f)' => TokenOK(f)'
    BY <2>1, <2>2, <1>0, <1>1, <1>5 DEF TokenInv
  <2> QED
    BY Zenon, <2>3, <1>0, <1>2 DEF TokenInv
<1>7. LiveInv'
  <2> SUFFICES ASSUME ~stop_called, NEW d \in Coroutines, Waits(d)'
               PROVE  \E f \in Task : f.co = d /\ Token(f)'
    BY Zenon, <1>0 DEF LiveInv
  <2>1. Waits(d)
    BY Zenon, <1>2 DEF Waits
  <2>2. PICK f \in Task : f.co = d /\ Token(f)
    BY Zenon, <2>1, <1>0 DEF LiveInv
  <2>3. CASE f \in B
    BY Zenon, <2>2, <2>3, <1>1, <1>5
  <2>4. CASE f \notin B
    BY Zenon, <2>2, <2>4, <1>5
  <2> QED
    BY Zenon, <2>3, <2>4
<1> QED
  BY Zenon, <1>3, <1>4, <1>6, <1>7 DEF CoInv

(* A stopping pool drops the callbacks of expired timers. *)
LEMMA DropStep ==
    ASSUME CoInv, NEW t \in Runners, Moved(t), ~InCo(t), ~InCo(t)',
           task[t] = NoTask, pc[t] \notin {"schedule", "push"}, pc'[t] \notin {"schedule", "push"},
           m_is_stopping, armed' \subseteq armed,
           UNCHANGED <<m_tasks, m_is_stopping, stop_called, co, home, arg, task>>
    PROVE  CoInv'
<1>0. t \in Threads /\ ControlInv /\ UniqueInv /\ TokenInv /\ LiveInv /\ stop_called
  BY Zenon, RunnerFacts DEF CoInv, LiveInv
<1>1. \A u \in Runners : /\ (InCo(u)' <=> InCo(u)) /\ (Holds(u)' <=> Holds(u))
                         /\ (u # t => At(u)' = At(u)) /\ (At(u)' = "armed" <=> At(u) = "armed")
  BY Zenon, RunnerFacts DEF Moved, Holds, InCo
<1>2. ControlInv'
  <2>1. ThreadInv(t)'
    BY Zenon, <1>0 DEF ControlInv, ThreadInv
  <2>2. RunnerInv(t)'
    BY Zenon, <1>1 DEF RunnerInv, Holds
  <2> QED
    BY Zenon, <2>1, <2>2, <1>0, ControlFrame
<1>3. UniqueInv'
  <2>1. (\A u \in Runners : Holds(u)' => Holds(u)) /\ \A a \in armed' : a \in armed
    BY Zenon, <1>1
  <2>2. /\ \A i, j \in DOMAIN m_tasks' : m_tasks'[i].co = m_tasks'[j].co => i = j
        /\ \A s, u \in Threads :
              arg'[s] # NoTask /\ arg'[u] # NoTask /\ arg'[s].co = arg'[u].co => s = u
        /\ \A i \in DOMAIN m_tasks', s \in Threads : arg'[s] # NoTask => m_tasks'[i].co # arg'[s].co
    BY Zenon, <1>0 DEF UniqueInv
  <2>3. /\ \A s, u \in Runners : Holds(s)' /\ Holds(u)' /\ task'[s].co = task'[u].co => s = u
        /\ \A i \in DOMAIN m_tasks', s \in Runners : Holds(s)' => m_tasks'[i].co # task'[s].co
        /\ \A s \in Threads, u \in Runners : arg'[s] # NoTask /\ Holds(u)' => arg'[s].co # task'[u].co
    <3>1. /\ \A s, u \in Runners : Holds(s) /\ Holds(u) /\ task[s].co = task[u].co => s = u
          /\ \A i \in DOMAIN m_tasks, s \in Runners : Holds(s) => m_tasks[i].co # task[s].co
          /\ \A s \in Threads, u \in Runners : arg[s] # NoTask /\ Holds(u) => arg[s].co # task[u].co
      BY Zenon, <1>0 DEF UniqueInv
    <3>2. \A u \in Runners : Holds(u)' => Holds(u)
      BY Zenon, <2>1
    <3>3. task' = task /\ m_tasks' = m_tasks /\ arg' = arg
      OBVIOUS
    <3> QED
      BY Zenon, <3>1, <3>2, <3>3
  <2>4. /\ \A a, b \in armed' : a.co = b.co => a = b
        /\ \A i \in DOMAIN m_tasks', a \in armed' : m_tasks'[i].co # a.co
        /\ \A s \in Threads, a \in armed' : arg'[s] # NoTask => arg'[s].co # a.co
        /\ \A s \in Runners, a \in armed' : Holds(s)' => task'[s].co # a.co
    BY Zenon, <1>0, <2>1 DEF UniqueInv
  <2> QED
    BY Zenon, <2>2, <2>3, <2>4 DEF UniqueInv
<1>4. \A f \in Task : Token(f)' => Token(f)
  BY Zenon, <1>1 DEF Token, Queued, Passed, Taken
<1>5. TokenInv'
  <2>1. \A f \in Task : TokenOK(f) => TokenOK(f)'
    BY Zenon, <1>1 DEF TokenOK, Target
  <2> QED
    BY Zenon, <2>1, <1>0, <1>1, <1>4 DEF TokenInv
<1> QED
  BY Zenon, <1>0, <1>2, <1>3, <1>5 DEF CoInv, LiveInv

-----------------------------------------------------------------------------
(* The steps of IOScheduler *)

LEMMA InitInv ==
    ASSUME Init
    PROVE  IInv
<1>1. RunInv(IdlePc)
  BY Zenon, InitRunInv DEF Init
<1>2. IOTypeOK
  BY MaxTicklesAssumption DEF Init, RunInit, IOTypeOK, MaxTicklesAssumption
<1>3. ReportInv
  BY Zenon, FS_EmptySet DEF Init, RunInit, ReportInv
<1> QED
  BY Zenon, <1>1, <1>2, <1>3 DEF IInv

(* Steps that report and collect nothing. *)
LEMMA KeepReports ==
    ASSUME IOTypeOK, ReportInv, UNCHANGED ioVars, tickles' <= MaxTickles,
           armed \subseteq armed', IsFiniteSet(armed')
    PROVE  IOTypeOK' /\ ReportInv'
<1>1. IOTypeOK'
  BY Zenon DEF IOTypeOK, ioVars
<1>2. ReportInv'
  BY Zenon DEF ReportInv, ioVars
<1> QED
  BY Zenon, <1>1, <1>2

LEMMA TicklePostInv ==
    ASSUME IInv, NEW t \in Threads, TicklePost(t)
    PROVE  IInv'
<1>1. tickles \in Nat /\ tickles <= MaxTickles /\ MaxTickles \in Nat
  BY Zenon, MaxTicklesAssumption DEF IInv, IOTypeOK, RunInv, RunTypeOK, MaxTicklesAssumption
<1>2. tickles' \in Nat /\ tickles' <= MaxTickles
  BY <1>1 DEF TicklePost
<1>3. RunInv(IdlePc)'
  BY Zenon, <1>2, PostRunInv DEF IInv, TicklePost, ioVars
<1>4. UNCHANGED ioVars /\ armed' = armed
  BY Zenon DEF TicklePost, coVars, ioVars
<1> QED
  BY Zenon, <1>2, <1>3, <1>4, KeepReports DEF IInv, ReportInv

(* The steps of SchedulerRun other than Arm leave armed alone. *)
LEMMA RunKeepsArmed ==
    ASSUME \/ UserStep \/ \E t \in Threads : CallStep(t)
           \/ \E t \in Runners : RunStep(t) \/ Yield(t) \/ Finish(t)
    PROVE  armed' = armed
<1>1. CASE UserStep
  BY Zenon, <1>1 DEF UserStep, StartBegin, Stop, Submit, coVars
<1>2. ASSUME NEW t \in Threads, CallStep(t) PROVE armed' = armed
  BY Zenon, <1>2 DEF CallStep, StartThreads, ScheduleCheck, SchedulePush, ScheduleTickle, TickleCheck, coVars
<1>3. ASSUME NEW t \in Runners, RunStep(t) PROVE armed' = armed
  <2>1. ASSUME NEW need, AfterScan(t, need) PROVE armed' = armed
    BY Zenon, <2>1 DEF AfterScan, coVars
  <2>2. CASE ScanNone(t) \/ \E i \in DOMAIN m_tasks : ScanTake(t, i)
    BY Zenon, <2>1, <2>2 DEF ScanTake, ScanNone
  <2>3. CASE RunTask(t) \/ RunCallback(t)
    BY Zenon, <2>3 DEF RunTask, RunCallback, coVars
  <2>4. CASE RunIdle(t) \/ RunExit(t)
    BY Zenon, <2>4 DEF RunIdle, RunExit, coVars
  <2> QED
    BY Zenon, <1>3, <2>2, <2>3, <2>4 DEF RunStep
<1>4. ASSUME NEW t \in Runners, Yield(t) \/ Finish(t) PROVE armed' = armed
  BY Zenon, <1>4 DEF Yield, Finish
<1> QED
  BY Zenon, <1>1, <1>2, <1>3, <1>4

LEMMA RunInvIO ==
    ASSUME IInv, UNCHANGED ioVars,
           \/ UserStep \/ \E t \in Threads : CallStep(t)
           \/ \E t \in Runners : RunStep(t) \/ Yield(t) \/ Finish(t)
    PROVE  IInv'
<1>0. RunInv(IdlePc) /\ IOTypeOK /\ ReportInv
  BY Zenon DEF IInv
<1>1. RunInv(IdlePc)'
  BY Zenon, <1>0, IdlePcFacts, UserInv, CallInv, RunStepInv, CoStepInv
<1>2. tickles' = tickles /\ armed' = armed
  BY Zenon, RunKeepsTickles, RunKeepsArmed
<1> QED
  BY Zenon, <1>0, <1>1, <1>2, KeepReports DEF IInv, IOTypeOK, ReportInv

(* A coroutine registers its continuation. *)
LEMMA ArmInvIO ==
    ASSUME IInv, NEW t \in Runners, ArmEvent(t) \/ ArmTimer(t)
    PROVE  IInv'
<1>0. RunInv(IdlePc) /\ RunTypeOK(IdlePc) /\ CoInv /\ IOTypeOK /\ ReportInv /\ IsFiniteSet(armed)
  BY Zenon DEF IInv, RunInv, ReportInv
<1>1. /\ pc[t] = "co" /\ (Call(t, "tickle", "armed") \/ Proceed(t, "armed"))
      /\ armed' = armed \cup {[co |-> task[t].co, thread |-> t, wakes |-> AnyThread]}
      /\ UNCHANGED <<schedVars, tickles, co, home, idle_co, arg, task, need_tickle, due, cbs, events, rt>>
      /\ sleeping' \subseteq sleeping \cup {task[t].co}
  BY Zenon DEF ArmEvent, Arm, ArmTimer, Proceed, localVars, ioVars
<1>2. RunInv(IdlePc)'
  BY Zenon, <1>0, <1>1, ArmInv, IdlePcFacts
<1>3. IsFiniteSet(armed')
  BY Zenon, <1>0, <1>1, FS_AddElement
<1>4. task[t].co \in Coroutines
  <2>1. At(t) = "co"
    BY Zenon, <1>1 DEF At, CallPc
  <2> QED
    BY Zenon, <2>1, <1>0, RunningNoToken
<1>5. IOTypeOK'
  BY Zenon, <1>0, <1>1, <1>4 DEF IOTypeOK
<1>6. ReportInv'
  BY Zenon, <1>0, <1>1, <1>3 DEF ReportInv
<1> QED
  BY Zenon, <1>2, <1>5, <1>6 DEF IInv

LEMMA BecomeDueInv ==
    ASSUME IInv, NEW c \in Coroutines, BecomeDue(c)
    PROVE  IInv'
<1>0. RunInv(IdlePc) /\ IOTypeOK /\ ReportInv /\ c # Pipe
  BY Zenon, PipeAssumption DEF IInv, PipeAssumption
<1>1. RunInv(IdlePc)'
  BY Zenon, <1>0, StutterRunInv DEF BecomeDue
<1>2. armed' = armed /\ tickles' = tickles
  BY Zenon DEF BecomeDue, runVars, coVars
<1>3. IOTypeOK'
  BY Zenon, <1>0, <1>2 DEF BecomeDue, IOTypeOK
<1>4. ReportInv'
  BY Zenon, <1>0, <1>2 DEF BecomeDue, ReportInv
<1> QED
  BY Zenon, <1>1, <1>3, <1>4 DEF IInv

(* The steps of idle() that move no token. *)
LEMMA LoopInvIO ==
    ASSUME IInv, NEW t \in Runners,
           \/ IdleEnter(t) \/ EpollWait(t) \/ IdleLeave(t) \/ IdleCheck(t) \/ IdleExpire(t)
           \/ DrainPipe(t) \/ EventsHandled(t) \/ IdleEnd(t)
           \/ ~m_is_stopping /\ IdleSchedules(t)
    PROVE  IInv'
<1>0. /\ RunInv(IdlePc) /\ IdlePc \cap RunPc = {} /\ m_thread_cnt \in Nat /\ pc \in [Threads -> RunPc \cup IdlePc]
      /\ IOTypeOK /\ ReportInv /\ IsFiniteSet(armed)
      /\ tickles \in Nat /\ MaxTickles \in Nat /\ tickles <= MaxTickles
  <2>1. RunInv(IdlePc) /\ IOTypeOK /\ ReportInv
    BY Zenon DEF IInv
  <2>2. m_thread_cnt \in Nat /\ pc \in [Threads -> RunPc \cup IdlePc] /\ tickles \in Nat
    BY <2>1 DEF RunInv, RunTypeOK
  <2>3. IsFiniteSet(armed) /\ tickles <= MaxTickles
    BY Zenon, <2>1 DEF IOTypeOK, ReportInv
  <2>4. MaxTickles \in Nat
    BY Zenon, MaxTicklesAssumption DEF MaxTicklesAssumption
  <2> QED
    BY Zenon, <2>1, <2>2, <2>3, <2>4, IdlePcFacts
<1> DEFINE Loop(l) == /\ Proceed(t, l) /\ pc[t] \in IdlePc /\ Counts(t, l)
                      /\ UNCHANGED <<m_tasks, m_is_stopping, m_is_stopped, stop_called, m_thread_cnt,
                                     co, home, armed, arg, task, need_tickle>>
<1>1. ASSUME NEW l \in IdlePc, Loop(l), idle_co' = idle_co, tickles' \in Nat
      PROVE  RunInv(IdlePc)'
  BY Zenon, <1>0, <1>1, IdleLoop
<1>2. CASE IdleEnter(t)
  <2>1. Loop("idle_wait") /\ "idle_wait" \in IdlePc /\ UNCHANGED <<tickles, idle_co, armed, ioVars>>
    BY Zenon, <1>2 DEF IdleEnter, Proceed, coVars, localVars, IdlePc, Counts, CountedPc
  <2> QED
    BY Zenon, <1>0, <1>1, <2>1, KeepReports DEF IInv
<1>3. CASE EpollWait(t)
  <2>1. Loop("idle_dec") /\ "idle_dec" \in IdlePc /\ UNCHANGED <<tickles, idle_co, armed>>
    BY Zenon, <1>3 DEF EpollWait, Proceed, schedVars, coVars, localVars, IdlePc, Counts, CountedPc
  <2>2. IOTypeOK'
    BY Zenon, <1>0, <1>3, <2>1 DEF EpollWait, IOTypeOK, Ready
  <2>3. ReportInv'
    <3>1. /\ due' = due \cap sleeping /\ cbs' = cbs /\ armed' = armed
          /\ events'[t] \ {Pipe} = (due \ sleeping) \ {Pipe} /\ \A u \in Runners : u # t => events'[u] = events[u]
      BY Zenon, <1>0, <1>3, <2>1 DEF EpollWait, Ready, IOTypeOK
    <3>2. Pipe \notin Coroutines /\ \A u \in Runners : cbs[u] \subseteq Coroutines
      BY Zenon, <1>0, PipeAssumption DEF IOTypeOK, PipeAssumption
    <3>3. /\ \A c \in due' : \E a \in armed' : a.co = c
          /\ \A u \in Runners : \A c \in cbs'[u] : c \notin due'
      BY Zenon, <1>0, <3>1 DEF ReportInv
    <3>4. \A u \in Runners : \A c \in events'[u] \ {Pipe} : c \notin due' /\ \E a \in armed' : a.co = c
      BY Zenon, <1>0, <3>1 DEF ReportInv
    <3>5. \A u, v \in Runners : \A c \in cbs'[v] : c \notin events'[u]
      <4> SUFFICES ASSUME NEW u \in Runners, NEW v \in Runners, NEW c \in cbs[v]
                   PROVE  c \notin events'[u]
        BY Zenon, <3>1
      <4>1. c # Pipe /\ c \notin due /\ c \notin events[u]
        BY Zenon, <1>0, <3>2 DEF ReportInv
      <4> QED
        BY Zenon, <4>1, <3>1
    <3>6. \A u, v \in Runners : \A c \in events'[u] \ {Pipe} : c \in events'[v] => u = v
      BY Zenon, <1>0, <3>1 DEF ReportInv
    <3> QED
      BY Zenon, <1>0, <3>1, <3>3, <3>4, <3>5, <3>6 DEF ReportInv
  <2> QED
    BY Zenon, <1>0, <1>1, <2>1, <2>2, <2>3 DEF IInv
<1>4. CASE IdleLeave(t)
  <2>1. Loop("idle_check") /\ "idle_check" \in IdlePc /\ UNCHANGED <<tickles, idle_co, armed, ioVars>>
    BY Zenon, <1>4 DEF IdleLeave, Proceed, coVars, localVars, IdlePc, Counts, CountedPc
  <2> QED
    BY Zenon, <1>0, <1>1, <2>1, KeepReports DEF IInv
<1>5. CASE IdleCheck(t)
  <2>1. PICK l \in {"idle_expire", "idle"} : Goto(t, l)
    BY Zenon, <1>5 DEF IdleCheck
  <2>2. Loop(l) /\ l \in IdlePc /\ UNCHANGED <<tickles, idle_co, armed, sleeping, due, cbs, events>>
    BY Zenon, <1>5, <2>1 DEF IdleCheck, Proceed, schedVars, coVars, localVars, IdlePc, Counts, CountedPc
  <2>3. IOTypeOK'
    BY Zenon, <1>0, <1>5, <2>2 DEF IdleCheck, IOTypeOK
  <2>4. ReportInv'
    BY Zenon, <1>0, <2>2 DEF ReportInv
  <2> QED
    BY Zenon, <1>0, <1>1, <2>2, <2>3, <2>4 DEF IInv
<1>6. CASE IdleExpire(t)
  <2>1. Loop("idle_sched") /\ "idle_sched" \in IdlePc /\ UNCHANGED <<tickles, idle_co, armed>>
    BY Zenon, <1>6 DEF IdleExpire, Proceed, schedVars, coVars, localVars, IdlePc, Counts, CountedPc
  <2>2. IOTypeOK'
    BY Zenon, <1>0, <1>6, <2>1 DEF IdleExpire, IOTypeOK
  <2>3. ReportInv'
    <3>1. /\ due' = due \ sleeping /\ events' = events /\ armed' = armed
          /\ cbs'[t] = sleeping \cap due /\ \A u \in Runners : u # t => cbs'[u] = cbs[u]
      BY Zenon, <1>0, <1>6, <2>1 DEF IdleExpire, IOTypeOK
    <3>2. Pipe \notin due
      BY Zenon, <1>0, PipeAssumption DEF IOTypeOK, PipeAssumption
    <3> QED
      <4>1. /\ \A c \in due' : \E a \in armed' : a.co = c
            /\ \A u \in Runners : \A c \in events'[u] \ {Pipe} : c \notin due' /\ \E a \in armed' : a.co = c
            /\ \A u \in Runners : \A c \in cbs'[u] : c \notin due'
        BY Zenon, <1>0, <3>1 DEF ReportInv
      <4>2. \A u, v \in Runners : \A c \in cbs'[v] : c \notin events'[u]
        BY ZenonT(30), <1>0, <3>1, <3>2 DEF ReportInv
      <4> QED
        BY Zenon, <1>0, <3>1, <4>1, <4>2 DEF ReportInv
  <2> QED
    BY Zenon, <1>0, <1>1, <2>1, <2>2, <2>3 DEF IInv
<1>7. CASE DrainPipe(t)
  <2>1. pc' = [pc EXCEPT ![t] = "idle_events"]
    BY Zenon, <1>0, <1>7, RunnerFacts DEF DrainPipe
  <2>2. Loop("idle_events") /\ "idle_events" \in IdlePc /\ idle_co' = idle_co /\ armed' = armed /\ tickles' = 0
    BY Zenon, <1>7, <2>1 DEF DrainPipe, Proceed, Goto, schedVars, coVars, localVars, IdlePc, Counts, CountedPc
  <2>3. IOTypeOK'
    BY <1>0, <1>7, <2>2 DEF DrainPipe, IOTypeOK
  <2>4. ReportInv'
    BY Zenon, <1>0, <1>7, <2>2 DEF DrainPipe, ReportInv, IOTypeOK
  <2> QED
    BY Zenon, <1>0, <1>1, <2>2, <2>3, <2>4 DEF IInv
<1>8. CASE EventsHandled(t)
  <2>1. Loop("idle_end") /\ "idle_end" \in IdlePc /\ UNCHANGED <<tickles, idle_co, armed, ioVars>>
    BY Zenon, <1>8 DEF EventsHandled, Proceed, schedVars, coVars, localVars, IdlePc, Counts, CountedPc
  <2> QED
    BY Zenon, <1>0, <1>1, <2>1, KeepReports DEF IInv
<1>9. CASE IdleEnd(t)
  <2>1. Loop("scan") /\ UNCHANGED <<tickles, armed, ioVars>>
    BY Zenon, <1>9 DEF IdleEnd, Proceed, schedVars, localVars, IdlePc, Counts, CountedPc
  <2>2. \/ idle_co' = [idle_co EXCEPT ![t] = "YIELD"]
        \/ MayLeave(t) /\ idle_co' = [idle_co EXCEPT ![t] = "TERMINAL"]
    BY Zenon, <1>0, <1>9 DEF IdleEnd, MayLeave
  <2>3. RunInv(IdlePc)'
    BY Zenon, <1>0, <2>1, <2>2, IdleLoop
  <2> QED
    BY Zenon, <1>0, <2>1, <2>3, KeepReports DEF IInv
<1>10. CASE ~m_is_stopping /\ IdleSchedules(t)
  <2>1. Loop("idle_push") /\ "idle_push" \in IdlePc /\ UNCHANGED <<tickles, idle_co, armed, ioVars>>
    BY Zenon, <1>10 DEF IdleSchedules, Proceed, schedVars, localVars, IdlePc, Counts, CountedPc, ioVars
  <2> QED
    BY Zenon, <1>0, <1>1, <2>1, KeepReports DEF IInv
<1> QED
  BY Zenon, <1>2, <1>3, <1>4, <1>5, <1>6, <1>7, <1>8, <1>9, <1>10

(* What the steps that empty cbs share: t stays in the loop and the        *)
(* continuations of its callbacks are no longer registered.                *)
LEMMA EmptyCbs ==
    ASSUME IInv, NEW t \in Runners, armed' = {a \in armed : a.co \notin cbs[t]},
           cbs' = [cbs EXCEPT ![t] = {}], UNCHANGED <<tickles, sleeping, due, events, rt>>
    PROVE  IOTypeOK' /\ ReportInv'
<1>0. IOTypeOK /\ ReportInv
  BY Zenon DEF IInv
<1>1. IOTypeOK'
  BY Zenon, <1>0 DEF IOTypeOK
<1>2. IsFiniteSet(armed')
  <2>1. IsFiniteSet(armed) /\ armed' \subseteq armed
    BY Zenon, <1>0 DEF ReportInv
  <2> QED
    BY Zenon, <2>1, FS_Subset
<1>3. /\ \A c \in due : c \notin cbs[t] /\ \E a \in armed : a.co = c
      /\ \A u \in Runners : \A c \in events[u] \ {Pipe} : c \notin cbs[t] /\ \E a \in armed : a.co = c
  BY Zenon, <1>0 DEF ReportInv
<1>4. /\ \A c \in due : \E a \in armed' : a.co = c
      /\ \A u \in Runners : \A c \in events[u] \ {Pipe} : \E a \in armed' : a.co = c
  BY Zenon, <1>3
<1>5. \A u \in Runners : cbs'[u] \subseteq cbs[u]
  BY Zenon, <1>0 DEF IOTypeOK
<1>6. ReportInv'
  BY Zenon, <1>0, <1>2, <1>4, <1>5 DEF ReportInv
<1> QED
  BY Zenon, <1>1, <1>6

LEMMA EmptyCbsPool ==
    ASSUME RunInv(IdlePc), NEW t \in Runners, pc[t] \in {"idle_sched", "idle_push"}, Moved(t),
           pc'[t] # "starting", At(t)' = "idle_events",
           UNCHANGED <<m_is_stopping, m_is_stopped, m_thread_cnt, m_idle_cnt, idle_co>>
    PROVE  PoolInv(IdlePc)'
<1>1. /\ At(t) = pc[t] /\ At(t)' \in IdlePc
      /\ \A u \in Runners : At(u)' \in {"idle_wait", "idle_dec"} <=> At(u) \in {"idle_wait", "idle_dec"}
  BY Zenon, RunnerFacts DEF At, CallPc, IdlePc, Moved
<1>2. IdleCntExact'
  BY Zenon, <1>1, IdleCntFrame DEF RunInv, PoolInv
<1>3. idle_co[t] # "NONE" /\ (idle_co[t] = "TERMINAL" => MayLeave(t))
  <2>1. ~Left(t)
    BY Zenon, <1>1 DEF Left
  <2> QED
    BY Zenon, <2>1 DEF RunInv, PoolInv, IdleInv
<1> QED
  BY Zenon, <1>1, <1>2, <1>3, LoopPool DEF RunInv

(* schedules() when stopping: the callbacks are dropped. *)
LEMMA DropInv ==
    ASSUME IInv, NEW t \in Runners, m_is_stopping, IdleSchedules(t)
    PROVE  IInv'
<1>0. RunInv(IdlePc) /\ RunTypeOK(IdlePc) /\ CoInv /\ ArmedInv /\ IdlePc \cap RunPc = {}
  BY Zenon, IdlePcFacts DEF IInv, RunInv
<1>1. /\ pc[t] = "idle_sched" /\ pc[t] \in IdlePc /\ "idle_events" \in IdlePc /\ Proceed(t, "idle_events")
      /\ armed' = {a \in armed : a.co \notin cbs[t]} /\ cbs' = [cbs EXCEPT ![t] = {}]
      /\ UNCHANGED <<schedVars, tickles, co, home, idle_co, arg, task, need_tickle, sleeping, due, events, rt>>
  BY Zenon DEF IdleSchedules, Proceed, localVars, IdlePc
<1>2. UNCHANGED <<m_tasks, m_is_stopping, m_is_stopped, stop_called, m_thread_cnt, m_idle_cnt>>
  BY Zenon, <1>1 DEF schedVars
<1>3. /\ PcTypeOK(IdlePc)' /\ Moved(t) /\ At(t)' = "idle_events" /\ pc'[t] = "idle_events"
      /\ task[t] = NoTask /\ ~InCo(t) /\ ~InCo(t)'
  <2>1. pc[t] \in IdlePc /\ "idle_events" \in IdlePc \cup {"scan"} /\ Proceed(t, "idle_events")
    BY Zenon, <1>1
  <2> QED
    BY Zenon, <1>0, <2>1, IdleMove
<1>4. armed' \subseteq armed /\ armed' \subseteq Task
  BY Zenon, <1>0, <1>1 DEF RunTypeOK
<1>5. RunTypeOK(IdlePc)'
  BY Zenon, <1>0, <1>1, <1>2, <1>3, <1>4 DEF RunTypeOK, PcTypeOK
<1>6. CoInv'
  BY Zenon, <1>0, <1>1, <1>2, <1>3, <1>4, DropStep
<1>7. ArmedInv'
  BY Zenon, <1>0, <1>1, <1>4, ArmedFrame
<1>8. PoolInv(IdlePc)'
  BY Zenon, <1>0, <1>1, <1>2, <1>3, EmptyCbsPool
<1>9. IOTypeOK' /\ ReportInv'
  BY Zenon, <1>1, EmptyCbs
<1> QED
  BY Zenon, <1>5, <1>6, <1>7, <1>8, <1>9 DEF IInv, RunInv

(* schedules(): the callbacks of the expired timers enter the list. *)
LEMMA PushInv ==
    ASSUME IInv, NEW t \in Runners, IdlePush(t)
    PROVE  IInv'
<1> DEFINE B == {a \in armed : a.co \in cbs[t]}
<1>0. RunInv(IdlePc) /\ RunTypeOK(IdlePc) /\ CoInv /\ ArmedInv /\ IdlePc \cap RunPc = {} /\ IsFiniteSet(armed)
  BY Zenon, IdlePcFacts DEF IInv, RunInv, ReportInv
<1>1. /\ pc[t] = "idle_push" /\ pc[t] \in IdlePc /\ "idle_events" \in IdlePc
      /\ Call(t, "sched_check", "idle_events") \/ Proceed(t, "idle_events")
      /\ armed' = {a \in armed : a.co \notin cbs[t]} /\ cbs' = [cbs EXCEPT ![t] = {}]
      /\ UNCHANGED <<m_is_stopping, m_is_stopped, stop_called, m_thread_cnt, m_idle_cnt, tickles,
                     co, home, idle_co, arg, task, need_tickle, sleeping, due, events, rt>>
  BY Zenon DEF IdlePush, IdlePc
<1> DEFINE new == {Callback(a) : a \in B}
<1>2. PICK s \in Bijection(1 .. Cardinality(new), new) : m_tasks' = m_tasks \o s
  BY Zenon DEF IdlePush
<1>3. B \subseteq armed /\ B \subseteq Task /\ armed' = armed \ B /\ m_tasks \in Seq(Task)
  BY Zenon, <1>0, <1>1 DEF RunTypeOK
<1>4. IsFiniteSet(B) /\ \A a \in B : a.thread \in Runners
  BY Zenon, <1>0, <1>3, FS_Subset DEF ArmedInv
<1> HIDE DEF B
<1>5. m_tasks' \in Seq(Task) /\ Appended(m_tasks, B, m_tasks')
  BY Zenon, <1>2, <1>3, <1>4, AppendCallbacks
<1>6. /\ PcTypeOK(IdlePc)' /\ Moved(t) /\ At(t)' = "idle_events" /\ pc'[t] \in {"sched_check", "idle_events"}
      /\ At(t) = "idle_push"
  <2>1. At(t) = "idle_push" /\ t \in Threads /\ PcTypeOK(IdlePc)
    BY Zenon, <1>0, <1>1, RunnerFacts, PcTypes DEF At, CallPc
  <2>2. CASE Call(t, "sched_check", "idle_events")
    <3>1. "sched_check" \in CallPc /\ "idle_events" \in ReturnPc \cap (RunPc \cup IdlePc)
      BY Zenon, <1>1 DEF CallPc, ReturnPc
    <3> QED
      BY Zenon, <2>1, <2>2, <3>1, CallMove
  <2>3. CASE Proceed(t, "idle_events")
    BY Zenon, <2>1, <2>3, <1>0, <1>1, IdleMove
  <2> QED
    BY Zenon, <1>1, <2>2, <2>3
<1>7. ~InCo(t) /\ ~InCo(t)' /\ task[t] = NoTask
  <2>1. ~InCo(t) /\ ~InCo(t)' /\ At(t) # "dispatch"
    BY Zenon, <1>6 DEF InCo
  <2> QED
    BY Zenon, <2>1, <1>0 DEF CoInv, ControlInv, RunnerInv
<1>8. CoInv'
  BY Zenon, <1>0, <1>1, <1>3, <1>5, <1>6, <1>7, PushStep
<1>9. RunTypeOK(IdlePc)'
  <2>1. armed' \subseteq Task
    BY Zenon, <1>0, <1>3 DEF RunTypeOK
  <2> QED
    BY Zenon, <1>0, <1>1, <1>5, <1>6, <2>1 DEF RunTypeOK, PcTypeOK
<1>10. ArmedInv'
  BY Zenon, <1>0, <1>1, <1>3, ArmedFrame
<1>11. PoolInv(IdlePc)'
  BY Zenon, <1>0, <1>1, <1>6, EmptyCbsPool
<1>12. IOTypeOK' /\ ReportInv'
  BY Zenon, <1>1, EmptyCbs
<1> QED
  BY Zenon, <1>8, <1>9, <1>10, <1>11, <1>12 DEF IInv, RunInv

(* trigger_event(): the coroutine of a reported event is scheduled. *)
LEMMA TriggerInv ==
    ASSUME IInv, NEW t \in Runners, TriggerEvent(t)
    PROVE  IInv'
<1>0. RunInv(IdlePc) /\ IOTypeOK /\ ReportInv /\ t \in Threads
  BY Zenon, RunnerFacts DEF IInv
<1>1. PICK c \in events[t] \ {Pipe} :
          /\ arg' = [arg EXCEPT ![t] = Continuation(c)] /\ armed' = armed \ {Continuation(c)}
          /\ events' = [events EXCEPT ![t] = @ \ {c}]
  BY Zenon DEF TriggerEvent
<1>2. PICK a \in armed : a = Continuation(c) /\ a.co = c
  <2>1. \E b \in armed : b.co = c
    BY Zenon, <1>0, <1>1 DEF ReportInv
  <2>2. Continuation(c) \in armed /\ Continuation(c).co = c
    BY Zenon, <2>1 DEF Continuation
  <2> QED
    BY Zenon, <2>2
<1>3. /\ pc[t] = "idle_events" /\ "idle_events" \in ReturnPc \cap (RunPc \cup IdlePc)
      /\ Call(t, "schedule", "idle_events")
      /\ UNCHANGED <<schedVars, tickles, co, home, idle_co, task, need_tickle, sleeping, due, cbs, rt>>
  BY Zenon DEF TriggerEvent, ReturnPc, IdlePc
<1>4. RunInv(IdlePc)'
  <2>1. /\ armed' = armed \ {a}
        /\ \E e \in {a, [co |-> a.co, thread |-> AnyThread, wakes |-> a.thread]} : arg' = [arg EXCEPT ![t] = e]
    BY Zenon, <1>1, <1>2
  <2> QED
    BY Zenon, <1>0, <1>3, <2>1, FireRunInv
<1>5. IOTypeOK'
  BY Zenon, <1>0, <1>1, <1>3 DEF IOTypeOK
<1>6. ReportInv'
  <2>1. IsFiniteSet(armed')
    BY Zenon, <1>0, <1>1, FS_RemoveElement, FS_Subset DEF ReportInv
  <2>2. \A d : d # c /\ (\E b \in armed : b.co = d) => \E b \in armed' : b.co = d
    BY Zenon, <1>1, <1>2
  <2>3. events'[t] = events[t] \ {c} /\ \A u \in Runners : u # t => events'[u] = events[u]
    BY Zenon, <1>0, <1>1 DEF IOTypeOK
  <2>4. c \notin due /\ \A u \in Runners : u # t => c \notin events[u]
    BY Zenon, <1>0, <1>1 DEF ReportInv
  <2>5. \A u \in Runners : c \notin events'[u] /\ \A d \in events'[u] : d \in events[u]
    BY Zenon, <2>3, <2>4
  <2>6. \A d \in due' : \E b \in armed' : b.co = d
    BY Zenon, <1>0, <1>3, <2>2, <2>4 DEF ReportInv
  <2>7. \A u \in Runners : \A d \in events'[u] \ {Pipe} : d \notin due' /\ \E b \in armed' : b.co = d
    <3> TAKE u \in Runners
    <3> TAKE d \in events'[u] \ {Pipe}
    <3>1. d \in events[u] \ {Pipe} /\ d # c
      BY Zenon, <2>5
    <3>2. d \notin due /\ \E b \in armed : b.co = d
      BY Zenon, <1>0, <3>1 DEF ReportInv
    <3> QED
      BY Zenon, <1>3, <2>2, <3>1, <3>2
  <2>8. /\ \A u \in Runners : \A d \in cbs'[u] : d \notin due'
        /\ \A u, v \in Runners : \A d \in cbs'[v] : d \notin events'[u]
    BY Zenon, <1>0, <1>3, <2>5 DEF ReportInv
  <2>9. \A u, v \in Runners : \A d \in events'[u] \ {Pipe} : d \in events'[v] => u = v
    <3> SUFFICES ASSUME NEW u \in Runners, NEW v \in Runners, NEW d \in events'[u], d # Pipe, d \in events'[v]
                 PROVE  u = v
      BY Zenon
    <3>1. d \in events[u] \ {Pipe} /\ d \in events[v]
      BY Zenon, <2>5
    <3> QED
      BY Zenon, <1>0, <3>1 DEF ReportInv
  <2> QED
    BY Zenon, <2>1, <2>6, <2>7, <2>8, <2>9 DEF ReportInv
<1> QED
  BY Zenon, <1>4, <1>5, <1>6 DEF IInv

LEMMA NextInv ==
    ASSUME IInv, [Next]_vars
    PROVE  IInv'
<1>1. CASE UserStep /\ UNCHANGED ioVars
  BY Zenon, <1>1, RunInvIO
<1>2. ASSUME NEW t \in Threads, SystemStep(t) PROVE IInv'
  <2>1. CASE TicklePost(t)
    BY Zenon, <2>1, TicklePostInv
  <2>2. CASE CallStep(t) /\ UNCHANGED ioVars
    BY Zenon, <2>2, RunInvIO
  <2>3. CASE t \in Runners /\ (RunStep(t) \/ Yield(t)) /\ UNCHANGED ioVars
    BY Zenon, <2>3, RunInvIO
  <2>4. CASE t \in Runners /\ IdleStep(t)
    <3>1. CASE IdlePush(t) \/ TriggerEvent(t)
      BY Zenon, <2>4, <3>1, PushInv, TriggerInv
    <3>2. CASE IdleSchedules(t) /\ m_is_stopping
      BY Zenon, <2>4, <3>2, DropInv
    <3> QED
      BY Zenon, <2>4, <3>1, <3>2, LoopInvIO DEF IdleStep
  <2> QED
    BY Zenon, <1>2, <2>1, <2>2, <2>3, <2>4 DEF SystemStep
<1>3. ASSUME NEW t \in Runners, GiveBack(t) PROVE IInv'
  BY Zenon, <1>3, ArmInvIO, RunInvIO DEF GiveBack
<1>4. ASSUME NEW c \in Coroutines, BecomeDue(c) PROVE IInv'
  BY Zenon, <1>4, BecomeDueInv
<1>5. CASE UNCHANGED vars
  <2>1. UNCHANGED runVars /\ UNCHANGED ioVars /\ tickles' = tickles /\ armed' = armed
    BY Zenon, <1>5 DEF vars, runVars, coVars
  <2>2. RunInv(IdlePc)'
    BY Zenon, <2>1, StutterRunInv DEF IInv
  <2> QED
    BY Zenon, <2>1, <2>2, KeepReports DEF IInv, IOTypeOK, ReportInv
<1> QED
  BY Zenon, <1>1, <1>2, <1>3, <1>4, <1>5 DEF Next

-----------------------------------------------------------------------------
(* The theorems *)

(* The inductive invariant holds in every reachable state. *)
THEOREM Invariance == Spec => []IInv
<1>1. Init => IInv
  BY Zenon, InitInv
<1>2. IInv /\ [Next]_vars => IInv'
  BY Zenon, NextInv
<1> QED
  BY <1>1, <1>2, PTL DEF Spec

(* Every variable keeps its type: m_idle_cnt never goes below 0 whatever   *)
(* epoll_wait reports, and idle() only handles events of coroutines.       *)
THEOREM TypeCorrect == Spec => []TypeOK
<1>1. IInv => TypeOK
  BY Zenon DEF IInv, IOTypeOK, RunInv, TypeOK
<1> QED
  BY <1>1, Invariance, PTL

(* What epoll_wait or a timer has reported is still registered when idle() *)
(* handles it, and no other thread has it in hand: trigger_event() finds   *)
(* the coroutine of the event.  Waits that are cancelled or time out are   *)
(* the subject of SocketIO.                                                *)
THEOREM ReportsRegistered == Spec => []ReportInv
<1>1. IInv => ReportInv
  BY Zenon DEF IInv
<1> QED
  BY <1>1, Invariance, PTL

(* A suspended coroutine is continued on the thread that suspended it,     *)
(* whether a timer's callback or an event's context schedules it.          *)
LEMMA AtHome == Spec => ContinuedAtHome
<1>1. ASSUME IInv, Next, NEW c \in Coroutines, co[c] = "YIELD", co'[c] = "RUNNING"
      PROVE  home'[c] = home[c]
  <2>0. RunTypeOK(IdlePc) /\ CoInv
    BY Zenon, <1>1 DEF IInv, RunInv
  <2>1. CASE UserStep
    BY Zenon, <1>1, <2>0, <2>1 DEF UserStep, StartBegin, Stop, Submit, coVars, RunTypeOK
  <2>2. ASSUME NEW t \in Threads, CallStep(t) \/ TicklePost(t) PROVE FALSE
    BY Zenon, <1>1, <2>2 DEF CallStep, StartThreads, ScheduleCheck, SchedulePush, ScheduleTickle, TickleCheck,
                      TicklePost, coVars
  <2>3. ASSUME NEW d \in Coroutines, BecomeDue(d) PROVE FALSE
    BY Zenon, <1>1, <2>3 DEF BecomeDue, runVars, coVars
  <2>4. ASSUME NEW t \in Runners, RunStep(t), ~RunTask(t) PROVE FALSE
    BY Zenon, <1>1, <2>4 DEF RunStep, ScanTake, ScanNone, AfterScan, RunCallback, RunIdle, RunExit, coVars
  <2>5. ASSUME NEW t \in Runners, IdleStep(t) PROVE FALSE
    <3>1. co' = co
      BY Zenon, <2>5 DEF IdleStep, IdleEnter, EpollWait, IdleLeave, IdleCheck, IdleExpire, IdleSchedules,
                  IdlePush, DrainPipe, TriggerEvent, EventsHandled, IdleEnd, coVars
    <3> QED
      BY Zenon, <1>1, <3>1
  <2>6. ASSUME NEW t \in Runners, ArmEvent(t) \/ ArmTimer(t) \/ Yield(t) \/ Finish(t) PROVE FALSE
    BY Zenon, <1>1, <2>0, <2>6 DEF ArmEvent, Arm, ArmTimer, Yield, Finish, RunTypeOK
  <2>7. ASSUME NEW t \in Runners, RunTask(t) PROVE home'[c] = home[c]
    BY Zenon, <1>1, <2>0, <2>7, RunTaskAtHome
  <2> QED
    BY Zenon, <1>1, <2>1, <2>2, <2>3, <2>4, <2>5, <2>6, <2>7 DEF Next, SystemStep, GiveBack
<1>2. IInv /\ [Next]_vars =>
        [\A c \in Coroutines : co[c] = "YIELD" /\ co'[c] = "RUNNING" => home'[c] = home[c]]_runVars
  BY Zenon, <1>1 DEF vars
<1> QED
  BY <1>2, Invariance, PTL DEF Spec, ContinuedAtHome

(* IOManager keeps what the base class guarantees, for any number of       *)
(* threads, clients and coroutines: timers and events never give a         *)
(* suspended coroutine a second wake-up or take its only one, run() can    *)
(* resume what it takes, and the main thread leaves last.                  *)
THEOREM PoolSafeHolds == Spec => PoolSafe
<1>1. IInv => OneWakeup /\ NoTaskDropped /\ NoCoroutineForgotten
  BY Zenon, CoInvOneWakeup, CoInvNoTaskDropped, CoInvNoCoroutineForgotten DEF IInv, RunInv
<1>2. IInv => IdleCoResumable
  BY Zenon, IdleResumable, IdlePcFacts DEF IInv, RunInv
<1>3. IInv => MainLeavesLast
  BY Zenon, MainLast DEF IInv, RunInv, PoolInv
<1> QED
  BY <1>1, <1>2, <1>3, Invariance, AtHome, PTL DEF PoolSafe
=============================================================================
