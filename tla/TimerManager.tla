---------------------------- MODULE TimerManager ----------------------------
(***************************************************************************)
(* tiger::TimerManager and the part of IOManager::idle() that waits for    *)
(* its timers.  Callers add, reset and cancel timers; idle threads compute *)
(* the time left to the first deadline, wait for it in epoll_wait and      *)
(* collect the callbacks of the expired timers.                            *)
(*                                                                         *)
(* m_timers is the std::set in iteration order.  A section under m_lock is *)
(* one step; the construction of a timer, the unlocked test of             *)
(* reset_timer() and the two sections of all_expired_cbs() are steps of    *)
(* their own.  The clock only stands still while an idle thread is         *)
(* working: their code takes no time, waiting and the callers do.          *)
(***************************************************************************)
EXTENDS Integers, Sequences, FiniteSets

CONSTANTS
    Timers,      \* the timers, numbered by the address of the object
    Callers,     \* threads that call add_timer, reset_timer, cancel_timer
    Idlers,      \* threads in IOManager::idle()
    Intervals,   \* the intervals callers ask for
    MaxWait,     \* EPOLL_MAX_TIMEOUT
    MaxNow       \* bound: the clock stops here

ASSUME TimerAssumption ==
    /\ Timers \subseteq Nat /\ Intervals \subseteq Nat
    /\ Callers \cap Idlers = {} /\ Idlers # {} /\ IsFiniteSet(Idlers)
    /\ MaxWait \in Nat \ {0} /\ MaxNow \in Nat

VARIABLES
    now,         \* Millisecond()
    m_timers,    \* std::set<Timer::ptr, Comparator>, in iteration order
    m_interval, m_loop, m_next_time,
    m_cb,        \* "unset", then "set" until it is "null"
    raced,       \* history: a timer came after the idle thread computed its wait
    tickled,     \* the pipe holds a byte
    m_idle_cnt,
    pc, arg,     \* per thread; arg: the timer and interval of a call
    until,       \* the end of an idle thread's epoll_wait
    rt,          \* epoll_wait reported the pipe
    cbs          \* timers whose callbacks an idle thread has collected

timerVars == <<m_timers, m_interval, m_loop, m_next_time, m_cb>>
vars == <<now, timerVars, raced, tickled, m_idle_cnt, pc, arg, until, rt, cbs>>

Goto(t, l) == pc' = [pc EXCEPT ![t] = l]
Return(c) == Goto(c, "user") /\ arg' = [arg EXCEPT ![c] = <<>>]

-----------------------------------------------------------------------------
(* std::set with Timer::Comparator *)

(* Timer::Comparator under the deadlines next. *)
Less(next, l, r) == next[l] < next[r] \/ (next[l] = next[r] /\ l < r)

(* The first position in s whose timer is not before t. *)
LowerBound(next, s, t) ==
    CHOOSE p \in 1 .. Len(s) + 1 :
        /\ \A k \in 1 .. p - 1 : Less(next, s[k], t)
        /\ p <= Len(s) => ~Less(next, s[p], t)

(* find(): neither the timer found is before t nor t before it. *)
Found(next, s, t) ==
    LET p == LowerBound(next, s, t) IN p <= Len(s) /\ ~Less(next, t, s[p])

Erase(next, s, t) ==
    LET p == LowerBound(next, s, t)
    IN  IF Found(next, s, t) THEN SubSeq(s, 1, p - 1) \o SubSeq(s, p + 1, Len(s)) ELSE s

Insert(next, s, t) ==
    LET p == LowerBound(next, s, t)
    IN  IF Found(next, s, t) THEN s ELSE SubSeq(s, 1, p - 1) \o <<t>> \o SubSeq(s, p, Len(s))

Valid(t) == Found(m_next_time, m_timers, t)
First(t) == m_timers # <<>> /\ Head(m_timers) = t

(* The timers whose add_timer() has returned. *)
Known == {t \in Timers : m_cb[t] # "unset" /\ \A c \in Callers : pc[c] = "add" => arg[c][1] # t}

NoteRace == raced' = [i \in Idlers |-> raced[i] \/ pc[i] = "enter"]

(* Mutant of Refresh: the test of m_idle_cnt is inverted. *)
RefreshBusy(needed) == tickled' = (tickled \/ (needed /\ m_idle_cnt = 0))

(* on_timer_refresh(): tickle() writes a byte if some thread is idle. *)
Refresh(needed) == tickled' = (tickled \/ (needed /\ m_idle_cnt > 0))

-----------------------------------------------------------------------------
(* The callers *)

(* add_timer(): the deadline is fixed before the lock is taken. *)
Construct(c, t, interval, loop) ==
    /\ pc[c] = "user"
    /\ m_cb[t] = "unset"
    /\ m_interval' = [m_interval EXCEPT ![t] = interval]
    /\ m_loop' = [m_loop EXCEPT ![t] = loop]
    /\ m_next_time' = [m_next_time EXCEPT ![t] = now + interval]
    /\ m_cb' = [m_cb EXCEPT ![t] = "set"]
    /\ arg' = [arg EXCEPT ![c] = <<t, interval>>]
    /\ Goto(c, "add")
    /\ UNCHANGED <<now, m_timers, raced, tickled, m_idle_cnt, until, rt, cbs>>

(* add_timer(): the section under m_lock. *)
AddTimer(c) ==
    /\ pc[c] = "add"
    /\ LET t == arg[c][1] IN
       /\ m_timers' = Insert(m_next_time, m_timers, t)
       /\ Refresh(Head(m_timers') = t)
    /\ NoteRace
    /\ Return(c)
    /\ UNCHANGED <<now, m_interval, m_loop, m_next_time, m_cb, m_idle_cnt, until, rt, cbs>>

(* reset_timer(): nothing happens if the interval is the old one; the test *)
(* is made without the lock.                                               *)
ResetCheck(c, t, interval) ==
    /\ pc[c] = "user"
    /\ t \in Known
    /\ m_interval[t] # interval
    /\ arg' = [arg EXCEPT ![c] = <<t, interval>>]
    /\ Goto(c, "reset")
    /\ UNCHANGED <<now, timerVars, raced, tickled, m_idle_cnt, until, rt, cbs>>

(* reset_timer(): the timer is inserted, also one that expired or was      *)
(* cancelled before, and keeps the deadline it has.                        *)
ResetTimer(c) ==
    /\ pc[c] = "reset"
    /\ LET t == arg[c][1] IN
       /\ m_interval' = [m_interval EXCEPT ![t] = arg[c][2]]
       /\ m_timers' = Insert(m_next_time, Erase(m_next_time, m_timers, t), t)
       /\ Refresh(Head(m_timers') = t)
    /\ NoteRace
    /\ Return(c)
    /\ UNCHANGED <<now, m_loop, m_next_time, m_cb, m_idle_cnt, until, rt, cbs>>

(* Mutant of CancelTimer: m_cb = nullptr is missing. *)
CancelTimerKeep(c, t) ==
    /\ pc[c] = "user"
    /\ t \in Known
    /\ Valid(t)
    /\ m_timers' = Erase(m_next_time, m_timers, t)
    /\ Refresh(First(t))
    /\ UNCHANGED <<now, m_interval, m_loop, m_next_time, m_cb, raced, m_idle_cnt, pc, arg, until, rt, cbs>>

(* cancel_timer(): false for a timer that is not in the set. *)
CancelTimer(c, t) ==
    /\ pc[c] = "user"
    /\ t \in Known
    /\ Valid(t)
    /\ m_timers' = Erase(m_next_time, m_timers, t)
    /\ m_cb' = [m_cb EXCEPT ![t] = "null"]
    /\ Refresh(First(t))
    /\ UNCHANGED <<now, m_interval, m_loop, m_next_time, raced, m_idle_cnt, pc, arg, until, rt, cbs>>

CancelAllTimer(c) ==
    /\ pc[c] = "user"
    /\ m_cb' = [t \in Timers |-> IF Valid(t) THEN "null" ELSE m_cb[t]]
    /\ m_timers' = <<>>
    /\ Refresh(TRUE)
    /\ UNCHANGED <<now, m_interval, m_loop, m_next_time, raced, m_idle_cnt, pc, arg, until, rt, cbs>>

-----------------------------------------------------------------------------
(* The idle threads: IOManager::idle() as far as timers are concerned *)

(* next_timer_left_time(): -1 if there is no timer. *)
LeftTime ==
    CASE m_timers = <<>> -> -1
      [] m_timers # <<>> /\ now >= m_next_time[Head(m_timers)] -> 0
      [] OTHER -> m_next_time[Head(m_timers)] - now

(* The time-out for epoll_wait. *)
WaitTime == IF LeftTime \in 0 .. MaxWait THEN LeftTime ELSE MaxWait

ComputeLeft(i) ==
    /\ pc[i] = "left"
    /\ until' = [until EXCEPT ![i] = now + WaitTime]
    /\ Goto(i, "enter")
    /\ UNCHANGED <<now, timerVars, raced, tickled, m_idle_cnt, arg, rt, cbs>>

IdleEnter(i) ==
    /\ pc[i] = "enter"
    /\ m_idle_cnt' = m_idle_cnt + 1
    /\ Goto(i, "wait")
    /\ UNCHANGED <<now, timerVars, raced, tickled, arg, until, rt, cbs>>

MustWake(i) == tickled \/ now >= until[i]

(* epoll_wait returns: with a byte in the pipe, or after the time-out. *)
EpollWait(i) ==
    /\ pc[i] = "wait"
    /\ MustWake(i)
    /\ rt' = [rt EXCEPT ![i] = tickled]
    /\ until' = [until EXCEPT ![i] = 0]
    /\ raced' = [raced EXCEPT ![i] = FALSE]
    /\ Goto(i, "leave")
    /\ UNCHANGED <<now, timerVars, tickled, m_idle_cnt, arg, cbs>>

(* Mutant of IdleLeave: the --m_idle_cnt is missing. *)
IdleLeaveUncounted(i) ==
    /\ pc[i] = "leave"
    /\ Goto(i, "check")
    /\ UNCHANGED <<now, timerVars, raced, tickled, m_idle_cnt, arg, until, rt, cbs>>

IdleLeave(i) ==
    /\ pc[i] = "leave"
    /\ m_idle_cnt' = m_idle_cnt - 1
    /\ Goto(i, "check")
    /\ UNCHANGED <<now, timerVars, raced, tickled, arg, until, rt, cbs>>

(* The inner loop of idle() is left with an event or if                    *)
(* next_timer_left_time() <= 0.                                            *)
IdleCheck(i) ==
    /\ pc[i] = "check"
    /\ Goto(i, IF rt[i] \/ LeftTime <= 0 THEN "expire" ELSE "left")
    /\ UNCHANGED <<now, timerVars, raced, tickled, m_idle_cnt, arg, until, rt, cbs>>

(* all_expired_cbs(): the test under the read lock. *)
ExpireCheck(i) ==
    /\ pc[i] = "expire"
    /\ Goto(i, IF m_timers = <<>> THEN "drain" ELSE "collect")
    /\ UNCHANGED <<now, timerVars, raced, tickled, m_idle_cnt, arg, until, rt, cbs>>

(* Mutant of ExpiredCnt: >= instead of > ends the loop. *)
ExpiredCntStrict ==
    CHOOSE n \in 0 .. Len(m_timers) :
        /\ \A k \in 1 .. n : m_next_time[m_timers[k]] < now
        /\ n < Len(m_timers) => m_next_time[m_timers[n + 1]] >= now

(* The loop of all_expired_cbs() stops at the first timer that is not due. *)
ExpiredCnt ==
    CHOOSE n \in 0 .. Len(m_timers) :
        /\ \A k \in 1 .. n : m_next_time[m_timers[k]] <= now
        /\ n < Len(m_timers) => m_next_time[m_timers[n + 1]] > now

Expired == {m_timers[k] : k \in 1 .. ExpiredCnt}

(* Mutant of ExpireOne: a loop timer is inserted before m_next_time is set. *)
ExpireOneStale(set, t) ==
    LET rest == Erase(set.next, set.timers, t)
        next == IF m_loop[t] THEN [set.next EXCEPT ![t] = m_interval[t] + now] ELSE set.next
    IN  [timers |-> IF m_loop[t] THEN Insert(set.next, rest, t) ELSE rest, next |-> next]

(* The expired timer t leaves the set; with m_loop it gets its next        *)
(* deadline and returns.                                                   *)
ExpireOne(set, t) ==
    LET rest == Erase(set.next, set.timers, t)
        next == IF m_loop[t] THEN [set.next EXCEPT ![t] = m_interval[t] + now] ELSE set.next
    IN  [timers |-> IF m_loop[t] THEN Insert(next, rest, t) ELSE rest, next |-> next]

(* The set and the deadlines after k rounds of the loop. *)
ExpireLoop[k \in 0 .. ExpiredCnt] ==
    IF k = 0 THEN [timers |-> m_timers, next |-> m_next_time]
    ELSE ExpireOne(ExpireLoop[k - 1], m_timers[k])

(* all_expired_cbs(): the section under the write lock. *)
Collect(i) ==
    /\ pc[i] = "collect"
    /\ m_timers' = ExpireLoop[ExpiredCnt].timers
    /\ m_next_time' = ExpireLoop[ExpiredCnt].next
    /\ m_cb' = [t \in Timers |-> IF t \in Expired /\ ~m_loop[t] THEN "null" ELSE m_cb[t]]
    /\ cbs' = [cbs EXCEPT ![i] = {t \in Expired : m_cb[t] = "set"}]
    /\ Goto(i, "drain")
    /\ UNCHANGED <<now, m_interval, m_loop, raced, tickled, m_idle_cnt, arg, until, rt>>

(* schedules() takes the callbacks, the pipe is emptied if epoll_wait      *)
(* reported it; after run() had its turn the thread idles again.           *)
DrainPipe(i) ==
    /\ pc[i] = "drain"
    /\ tickled' = (tickled /\ ~rt[i])
    /\ rt' = [rt EXCEPT ![i] = FALSE]
    /\ cbs' = [cbs EXCEPT ![i] = {}]
    /\ Goto(i, "left")
    /\ UNCHANGED <<now, timerVars, raced, m_idle_cnt, arg, until>>

(* Time passes while every idle thread waits and none of them must wake. *)
Tick ==
    /\ now < MaxNow
    /\ \A i \in Idlers : pc[i] = "wait" /\ ~MustWake(i)
    /\ now' = now + 1
    /\ UNCHANGED <<timerVars, raced, tickled, m_idle_cnt, pc, arg, until, rt, cbs>>

-----------------------------------------------------------------------------
Init ==
    /\ now = 0
    /\ m_timers = <<>>
    /\ m_interval = [t \in Timers |-> 0]
    /\ m_loop = [t \in Timers |-> FALSE]
    /\ m_next_time = [t \in Timers |-> 0]
    /\ m_cb = [t \in Timers |-> "unset"]
    /\ raced = [i \in Idlers |-> FALSE]
    /\ tickled = FALSE /\ m_idle_cnt = 0
    /\ pc = [t \in Callers \cup Idlers |-> IF t \in Callers THEN "user" ELSE "left"]
    /\ arg = [c \in Callers |-> <<>>]
    /\ until = [i \in Idlers |-> 0]
    /\ rt = [i \in Idlers |-> FALSE]
    /\ cbs = [i \in Idlers |-> {}]

CallerStep(c) ==
    \/ \E t \in Timers, interval \in Intervals, loop \in BOOLEAN : Construct(c, t, interval, loop)
    \/ \E t \in Timers, interval \in Intervals : ResetCheck(c, t, interval)
    \/ \E t \in Timers : CancelTimer(c, t)
    \/ AddTimer(c) \/ ResetTimer(c) \/ CancelAllTimer(c)

IdleStep(i) ==
    \/ ComputeLeft(i) \/ IdleEnter(i) \/ EpollWait(i) \/ IdleLeave(i)
    \/ IdleCheck(i) \/ ExpireCheck(i) \/ Collect(i) \/ DrainPipe(i)

Next ==
    \/ \E c \in Callers : CallerStep(c)
    \/ \E i \in Idlers : IdleStep(i)
    \/ Tick

Spec == Init /\ [][Next]_vars

-----------------------------------------------------------------------------
(* The variables have their types; only timers whose add_timer() returned  *)
(* are in the set, and m_idle_cnt counts threads in epoll_wait.            *)
TypeOK ==
    /\ now \in 0 .. MaxNow
    /\ m_timers \in Seq(Known)
    /\ m_interval \in [Timers -> Intervals \cup {0}]
    /\ m_loop \in [Timers -> BOOLEAN]
    /\ m_next_time \in [Timers -> Nat]
    /\ m_cb \in [Timers -> {"unset", "set", "null"}]
    /\ m_idle_cnt \in 0 .. Cardinality(Idlers)
    /\ tickled \in BOOLEAN

(* m_timers stays ordered and free of duplicates under the deadlines its   *)
(* timers have now: no operation changes the key of a timer that is in the *)
(* set, so that find() and begin() mean what the code takes them for.      *)
Sorted ==
    \A i, j \in DOMAIN m_timers : i < j => Less(m_next_time, m_timers[i], m_timers[j])

(* A timer is not lost: from the return of add_timer() until its callback  *)
(* is handed over or cancelled it is in the set.                           *)
NoTimerLost == \A t \in Known : m_cb[t] = "set" => Valid(t)

Pending(t) == \E k \in DOMAIN m_timers : m_timers[k] = t

(* What the users of the manager see. *)
Handed == UNION {cbs[i] : i \in Idlers}
Deadline == [t \in Timers |-> IF Pending(t) THEN m_next_time[t] ELSE -1]
Phase == [t \in Timers |-> IF t \notin Known THEN "new"
                          ELSE IF m_cb[t] = "set" THEN "live" ELSE "dead"]
Service == INSTANCE TimerService WITH
    NoDeadline <- -1, handed <- Handed, deadline <- Deadline, phase <- Phase

(* TimerManager implements TimerService: whatever callers do between the   *)
(* two sections of all_expired_cbs() or between the construction and the   *)
(* insertion of a timer, exactly the due timers are collected, a one-shot  *)
(* callback is handed over once and not after a cancel_timer().            *)
ImplementsTimerService == Service!Spec

Later(a, b) == IF a < b THEN b ELSE a

(* Some idle thread wakes no later than the first deadline: the tickle()   *)
(* of on_timer_refresh() reaches it, although another thread may drain the *)
(* pipe.  The exception is a timer that comes between an idle thread's     *)
(* next_timer_left_time() and its ++m_idle_cnt, which nobody is told of.   *)
WokenInTime ==
    (\A i \in Idlers : pc[i] = "wait" /\ ~raced[i]) /\ ~tickled /\ m_timers # <<>>
        => \E i \in Idlers : until[i] <= Later(now, m_next_time[Head(m_timers)])
=============================================================================
