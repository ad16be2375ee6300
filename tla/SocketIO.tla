------------------------------ MODULE SocketIO ------------------------------
(***************************************************************************)
(* A socket call that has to wait: do_socket_io() and connect() of the     *)
(* hooks, the descriptor contexts of IOManager (add_event, cancel_event,   *)
(* cancel_all_event, the event loop of idle()), the time-out of the call,  *)
(* close(), and fcntl() and ioctl(), which decide who waits.               *)
(*                                                                         *)
(* The kernel's part is external: a descriptor is ready for reading or     *)
(* writing or has an error, and an edge-triggered registration reports it  *)
(* once (edge), again after new readiness or after the registration was    *)
(* added or modified.                                                      *)
(*                                                                         *)
(* A section under a context's mutex is one step; the unlocked test before *)
(* it is another.  A coroutine that was scheduled continues on the thread  *)
(* it is suspended on, so that a wake-up before its Yield is not lost      *)
(* (SchedulerRun shows it): a call waits once add_event() has returned.    *)
(***************************************************************************)
EXTENDS Naturals, FiniteSets

CONSTANTS
    Fds,         \* descriptor numbers
    Cos,         \* coroutines that use them
    Idlers,      \* threads in IOManager::idle()
    None,        \* no coroutine, no call
    MaxCalls,    \* bound: calls that the coroutines make
    MaxCbs,      \* bound: time-out callbacks of one coroutine at a time
    MaxOpens     \* bound: how often a descriptor number is used

ASSUME SocketAssumption ==
    /\ None \notin Cos \cup Fds
    /\ MaxCalls \in Nat /\ MaxCbs \in Nat /\ MaxOpens \in Nat \ {0}

VARIABLES
    opens,       \* how often the number has been used, bounded by MaxOpens
    open,        \* the descriptor is open
    known,       \* FDManager has an entity for it
    mode,        \* who waits for it: the hooks, its user (O_NONBLOCK is set
                 \* by the user) or the kernel (it is a blocking descriptor)
    ready,       \* what the kernel would report: READ, WRITE, ERR
    interest,    \* the epoll registration, {}: none
    edge,        \* a report is due
    statuses, context,          \* IOManager::Context
    held,        \* the events an idle thread got from epoll_wait
    scheduled,   \* coroutines in the run queue
    pc, call,    \* per coroutine: where its call is, and its arguments
    calls,       \* how many calls were made, bounded by MaxCalls
    canceled,    \* SocketIoState::canceled of the coroutine's call
    timer,       \* the call has a timer in the TimerManager
    cbs,         \* time-out callbacks between expiry and return
    late         \* history: calls registered after close() cancelled the events

kernelVars == <<opens, open, ready, interest, edge>>
contextVars == <<statuses, context, scheduled>>
callVars == <<pc, call, calls, canceled, timer>>
fdVars == <<known, mode>>
vars == <<kernelVars, contextVars, callVars, fdVars, held, cbs, late>>

Dirs == {"READ", "WRITE"}
Places == {"user", "try", "arm", "add", "waiting", "woken", "reset", "cancel",
           "closeLock", "delFd", "closeFd"}
Calls == [fd : Fds, dir : Dirs, retry : BOOLEAN]
Goto(c, l) == pc' = [pc EXCEPT ![c] = l]
Begin(c, l, k) ==
    /\ pc[c] = "user" /\ calls < MaxCalls
    /\ Goto(c, l)
    /\ call' = [call EXCEPT ![c] = k]
    /\ calls' = calls + 1

(* The call returns and its SocketIoState goes: a callback that has yet to *)
(* lock it will find it gone and do nothing.                               *)
Return(c) ==
    /\ Goto(c, "user")
    /\ call' = [call EXCEPT ![c] = None]
    /\ canceled' = [canceled EXCEPT ![c] = FALSE]
    /\ cbs' = {b \in cbs : b.co # c \/ b.at # "lock"}
Stay == UNCHANGED <<call, canceled, cbs>>

-----------------------------------------------------------------------------
(* epoll, external: EPOLL_CTL_ADD needs a descriptor that is not           *)
(* registered, MOD and DEL one that is; a closed descriptor fails.         *)

CanAdd(f) == open[f] /\ interest[f] = {}
CanChange(f) == open[f] /\ interest[f] # {}
Reported(f, what) == ready[f] \cap (what \cup {"ERR"})
Register(f, what) ==
    /\ interest' = [interest EXCEPT ![f] = what]
    /\ edge' = [edge EXCEPT ![f] = what # {} /\ Reported(f, what) # {}]
    /\ UNCHANGED <<opens, open, ready>>

-----------------------------------------------------------------------------
(* IOManager::Context *)

(* trigger_event() for each of the events ds, all of them in statuses. *)
Trigger(f, ds) ==
    /\ statuses' = [statuses EXCEPT ![f] = @ \ ds]
    /\ scheduled' = scheduled \cup {context[f][d] : d \in ds}
    /\ context' = [context EXCEPT ![f] = [d \in Dirs |-> IF d \in ds THEN None ELSE @[d]]]

(* Mutant of CancelEvent: the event is removed and its coroutine is not    *)
(* scheduled.                                                              *)
CancelEventSilent(f, d) ==
    IF CanChange(f)
    THEN /\ Register(f, statuses[f] \ {d})
         /\ statuses' = [statuses EXCEPT ![f] = @ \ {d}]
         /\ context' = [context EXCEPT ![f][d] = None]
         /\ UNCHANGED scheduled
    ELSE UNCHANGED <<kernelVars, contextVars>>

(* Mutant of CancelEvent: trigger_event() does not test statuses again. *)
CancelEventUnchecked(f, d) ==
    IF CanChange(f)
    THEN Register(f, statuses[f] \ {d}) /\ Trigger(f, {d})
    ELSE UNCHANGED <<kernelVars, contextVars>>

(* The locked part of cancel_event(). *)
CancelEvent(f, d) ==
    IF CanChange(f)
    THEN Register(f, statuses[f] \ {d}) /\ Trigger(f, {d} \cap statuses[f])
    ELSE UNCHANGED <<kernelVars, contextVars>>

-----------------------------------------------------------------------------
(* The modes of a descriptor *)

(* FDManager::add_fd(): a new entity, whose init() makes the descriptor    *)
(* non-blocking behind the user's back.                                    *)
FDEntityInit == "hooks"
AddFd(f) ==
    /\ known' = [known EXCEPT ![f] = TRUE]
    /\ mode' = [mode EXCEPT ![f] = FDEntityInit]

SetMode(c, f, m) ==
    /\ pc[c] = "user" /\ calls < MaxCalls /\ calls' = calls + 1
    /\ known[f]
    /\ mode' = [mode EXCEPT ![f] = m]
    /\ UNCHANGED <<kernelVars, contextVars, pc, call, canceled, timer, known, held, cbs, late>>

(* fcntl(F_SETFL): the user's flag is noted, the kernel's stays set. *)
Fcntl(c, f, nonblock) == SetMode(c, f, IF nonblock THEN "user" ELSE "hooks")

(* ioctl(FIONBIO): the user's flag is noted and the kernel's set to it. *)
Ioctl(c, f, nonblock) == SetMode(c, f, IF nonblock THEN "user" ELSE "kernel")

-----------------------------------------------------------------------------
(* do_socket_io(fd, ..., dir), retry, and connect(fd), which waits for     *)
(* WRITE once and does not retry *)

(* A call on a descriptor that its user made non-blocking, or that close() *)
(* has taken from the FDManager: the system call and no more.              *)
RawCall(c, f, d) ==
    /\ pc[c] = "user" /\ calls < MaxCalls /\ calls' = calls + 1
    /\ open[f] /\ (~known[f] \/ mode[f] = "user")
    /\ ready' = [ready EXCEPT ![f] = @ \ {d}]
    /\ UNCHANGED <<opens, open, interest, edge, contextVars, pc, call, canceled, timer, fdVars, held, cbs, late>>

(* accept(), read() ... sendmsg(), the latter with the dir WRITE. *)
CallBegin(c, f, d) ==
    /\ known[f] /\ mode[f] # "user"
    /\ Begin(c, "try", [fd |-> f, dir |-> d, retry |-> TRUE])
    /\ UNCHANGED <<kernelVars, contextVars, canceled, timer, fdVars, held, cbs, late>>

ConnectBegin(c, f) ==
    /\ known[f] /\ mode[f] # "user"
    /\ Begin(c, "try", [fd |-> f, dir |-> "WRITE", retry |-> FALSE])
    /\ UNCHANGED <<kernelVars, contextVars, canceled, timer, fdVars, held, cbs, late>>

(* The system call: it fails or succeeds at once, having used up what was  *)
(* ready or not, or has to wait (EAGAIN, EINPROGRESS), in the kernel and   *)
(* with its thread if the descriptor is a blocking one.                    *)
Try(c) ==
    LET f == call[c].fd
        d == call[c].dir
    IN  /\ pc[c] = "try"
        /\ IF open[f] /\ {d, "ERR"} \cap ready[f] = {}
           THEN mode[f] # "kernel" /\ Goto(c, "arm") /\ Stay /\ UNCHANGED ready
           ELSE /\ Return(c)
                /\ ready' \in {ready, [ready EXCEPT ![f] = @ \ {d}]}
        /\ UNCHANGED <<opens, open, interest, edge, contextVars, calls, timer, fdVars, held, late>>

(* add_cond_timer(): recv_timeout(), send_timeout() and connect_timeout()  *)
(* are never negative.                                                     *)
ArmTimer(c) ==
    /\ pc[c] = "arm"
    /\ timer' = [timer EXCEPT ![c] = TRUE]
    /\ Goto(c, "add")
    /\ UNCHANGED <<kernelVars, contextVars, call, calls, canceled, fdVars, held, cbs, late>>

(* close() of the descriptor has passed cancel_all_event(). *)
Closing(f) == \E c \in Cos : pc[c] \in {"delFd", "closeFd"} /\ call[c].fd = f

(* Mutant of AddMask: EPOLL_CTL_MOD registers the new event only. *)
AddMaskOnly(f, d) == {d}

(* The events add_event() registers. *)
AddMask(f, d) == statuses[f] \cup {d}

(* add_event(); when it fails the call cancels its timer and returns. *)
AddEvent(c) ==
    LET f == call[c].fd
        d == call[c].dir
        ok == d \notin statuses[f] /\ IF statuses[f] = {} THEN CanAdd(f) ELSE CanChange(f)
    IN  /\ pc[c] = "add"
        /\ IF ok
           THEN /\ Register(f, AddMask(f, d))
                /\ statuses' = [statuses EXCEPT ![f] = @ \cup {d}]
                /\ context' = [context EXCEPT ![f][d] = c]
                /\ Goto(c, "waiting")
                /\ late' = IF Closing(f) THEN late \cup {c} ELSE late
                /\ Stay /\ UNCHANGED timer
           ELSE /\ timer' = [timer EXCEPT ![c] = FALSE]
                /\ Return(c)
                /\ UNCHANGED <<kernelVars, statuses, context, late>>
        /\ UNCHANGED <<scheduled, calls, fdVars, held>>

(* The scheduler resumes the coroutine behind its Yield, and it cancels    *)
(* its timer.                                                              *)
Resume(c) ==
    /\ pc[c] = "waiting" /\ c \in scheduled
    /\ scheduled' = scheduled \ {c}
    /\ timer' = [timer EXCEPT ![c] = FALSE]
    /\ Goto(c, "woken")
    /\ late' = late \ {c}
    /\ UNCHANGED <<kernelVars, statuses, context, call, calls, canceled, fdVars, held, cbs>>

(* connect() returns with ETIMEDOUT or what SO_ERROR says. *)
ConnectEnd(c) ==
    /\ pc[c] = "woken" /\ ~call[c].retry
    /\ Return(c)
    /\ UNCHANGED <<kernelVars, contextVars, calls, timer, fdVars, held, late>>

(* do_socket_io() returns with ETIMEDOUT if canceled is set. *)
TestCanceled(c) ==
    /\ pc[c] = "woken" /\ call[c].retry
    /\ IF canceled[c]
       THEN Return(c)
       ELSE Goto(c, "reset") /\ Stay
    /\ UNCHANGED <<kernelVars, contextVars, calls, timer, fdVars, held, late>>

(* canceled is reset, and the system call is tried again if errno is still *)
(* EAGAIN: other coroutines of the thread may have changed it.             *)
Continue(c) ==
    /\ pc[c] = "reset"
    /\ \/ /\ Goto(c, "try")
          /\ canceled' = [canceled EXCEPT ![c] = FALSE]
          /\ UNCHANGED <<call, cbs>>
       \/ Return(c)
    /\ UNCHANGED <<kernelVars, contextVars, calls, timer, fdVars, held, late>>

-----------------------------------------------------------------------------
(* The time-out of a call: the timer expires and its callback is           *)
(* scheduled; it finds the call gone or canceled, or cancels its event.    *)

Callbacks == [co : Cos, id : 1 .. MaxCbs, fd : Fds, dir : Dirs, at : {"lock", "peek", "cancel"}]

Expire(c) ==
    /\ timer[c]
    /\ timer' = [timer EXCEPT ![c] = FALSE]
    /\ \E id \in 1 .. MaxCbs :
          /\ \A b \in cbs : b.co = c => b.id # id
          /\ cbs' = cbs \cup {[co |-> c, id |-> id, fd |-> call[c].fd, dir |-> call[c].dir, at |-> "lock"]}
    /\ UNCHANGED <<kernelVars, contextVars, pc, call, calls, canceled, fdVars, held, late>>

CbGoto(b, l) == cbs' = (cbs \ {b}) \cup {[b EXCEPT !.at = l]}
CbReturn(b) == cbs' = cbs \ {b}

(* week_state.lock() and the test of canceled *)
CbLock(b) ==
    /\ b.at = "lock"
    /\ IF canceled[b.co] THEN CbReturn(b) ELSE CbGoto(b, "peek")
    /\ canceled' = [canceled EXCEPT ![b.co] = TRUE]
    /\ UNCHANGED <<kernelVars, contextVars, pc, call, calls, timer, fdVars, held, late>>

(* cancel_event(): the unlocked test of statuses, then the locked part. *)
CbPeek(b) ==
    /\ b.at = "peek"
    /\ IF b.dir \in statuses[b.fd] THEN CbGoto(b, "cancel") ELSE CbReturn(b)
    /\ UNCHANGED <<kernelVars, contextVars, callVars, fdVars, held, late>>

CbCancel(b) ==
    /\ b.at = "cancel"
    /\ CancelEvent(b.fd, b.dir)
    /\ CbReturn(b)
    /\ UNCHANGED <<callVars, fdVars, held, late>>

-----------------------------------------------------------------------------
(* Socket::cancel_read() and cancel_write() by another coroutine *)

CancelPeek(c, f, d) ==
    /\ d \in statuses[f]
    /\ Begin(c, "cancel", [fd |-> f, dir |-> d, retry |-> FALSE])
    /\ UNCHANGED <<kernelVars, contextVars, canceled, timer, fdVars, held, cbs, late>>

Cancel(c) ==
    /\ pc[c] = "cancel"
    /\ CancelEvent(call[c].fd, call[c].dir)
    /\ Return(c)
    /\ UNCHANGED <<calls, timer, fdVars, held, late>>

-----------------------------------------------------------------------------
(* close(): cancel_all_event(), del_fd() and close_f(); closing one        *)
(* descriptor twice at a time is the caller's error *)

CloseBegin(c, f) ==
    /\ known[f]
    /\ ~ \E o \in Cos : pc[o] \in {"closeLock", "delFd", "closeFd"} /\ call[o].fd = f
    /\ Begin(c, IF statuses[f] = {} THEN "delFd" ELSE "closeLock", [fd |-> f, dir |-> "READ", retry |-> FALSE])
    /\ UNCHANGED <<kernelVars, contextVars, canceled, timer, fdVars, held, cbs, late>>

CloseLock(c) ==
    LET f == call[c].fd
    IN  /\ pc[c] = "closeLock"
        /\ IF CanChange(f)
           THEN Register(f, {}) /\ Trigger(f, statuses[f])
           ELSE UNCHANGED <<kernelVars, contextVars>>
        /\ Goto(c, "delFd")
        /\ UNCHANGED <<call, calls, canceled, timer, fdVars, held, cbs, late>>

DelFd(c) ==
    /\ pc[c] = "delFd"
    /\ known' = [known EXCEPT ![call[c].fd] = FALSE]
    /\ Goto(c, "closeFd")
    /\ UNCHANGED <<mode, kernelVars, contextVars, call, calls, canceled, timer, held, cbs, late>>

(* The kernel drops the registration with the descriptor. *)
CloseFd(c) ==
    LET f == call[c].fd
    IN  /\ pc[c] = "closeFd"
        /\ open' = [open EXCEPT ![f] = FALSE]
        /\ ready' = [ready EXCEPT ![f] = {}]
        /\ interest' = [interest EXCEPT ![f] = {}]
        /\ edge' = [edge EXCEPT ![f] = FALSE]
        /\ Return(c)
        /\ UNCHANGED <<opens, contextVars, calls, timer, fdVars, held, late>>

(* socket() or accept() is given the number. *)
Open(f) ==
    /\ ~open[f] /\ opens[f] < MaxOpens
    /\ open' = [open EXCEPT ![f] = TRUE]
    /\ opens' = [opens EXCEPT ![f] = @ + 1]
    /\ AddFd(f)
    /\ UNCHANGED <<ready, interest, edge, contextVars, callVars, held, cbs, late>>

-----------------------------------------------------------------------------
(* The kernel finds the descriptor ready, or an error on it. *)
BecomeReady(f, what) ==
    /\ open[f]
    /\ ready' = [ready EXCEPT ![f] = @ \cup {what}]
    /\ edge' = [edge EXCEPT ![f] = @ \/ (interest[f] # {} /\ what \in interest[f] \cup {"ERR"})]
    /\ UNCHANGED <<opens, open, interest, contextVars, callVars, fdVars, held, cbs, late>>

(* epoll_wait() returns some of the reports that are due. *)
EpollWait(i) ==
    \E fs \in SUBSET {f \in Fds : edge[f] /\ Reported(f, interest[f]) # {}} :
        /\ held[i] = {} /\ fs # {}
        /\ held' = [held EXCEPT ![i] = {[fd |-> f, events |-> Reported(f, interest[f])] : f \in fs}]
        /\ edge' = [f \in Fds |-> edge[f] /\ f \notin fs]
        /\ UNCHANGED <<opens, open, ready, interest, contextVars, callVars, fdVars, cbs, late>>

(* Mutant of RealStatus: of two events READ is taken. *)
RealStatusRead(events) == IF {"ERR", "READ"} \cap events # {} THEN "READ" ELSE "WRITE"

(* real_status: an error counts as both, and of two events WRITE is taken. *)
RealStatus(events) == IF {"ERR", "WRITE"} \cap events # {} THEN "WRITE" ELSE "READ"

(* idle() handles one event. *)
HandleEvent(i, e) ==
    LET d == RealStatus(e.events)
    IN  /\ e \in held[i]
        /\ held' = [held EXCEPT ![i] = @ \ {e}]
        /\ IF d \in statuses[e.fd] /\ CanChange(e.fd)
           THEN Register(e.fd, statuses[e.fd] \ {d}) /\ Trigger(e.fd, {d})
           ELSE UNCHANGED <<kernelVars, contextVars>>
        /\ UNCHANGED <<callVars, fdVars, cbs, late>>

-----------------------------------------------------------------------------
Init ==
    /\ opens = [f \in Fds |-> 1] /\ open = [f \in Fds |-> TRUE] /\ known = [f \in Fds |-> TRUE]
    /\ mode = [f \in Fds |-> FDEntityInit]
    /\ ready = [f \in Fds |-> {}]
    /\ interest = [f \in Fds |-> {}] /\ edge = [f \in Fds |-> FALSE]
    /\ statuses = [f \in Fds |-> {}] /\ context = [f \in Fds |-> [d \in Dirs |-> None]]
    /\ held = [i \in Idlers |-> {}] /\ scheduled = {}
    /\ pc = [c \in Cos |-> "user"] /\ call = [c \in Cos |-> None] /\ calls = 0
    /\ canceled = [c \in Cos |-> FALSE] /\ timer = [c \in Cos |-> FALSE]
    /\ cbs = {} /\ late = {}

UserStep(c) ==
    \/ \E f \in Fds : ConnectBegin(c, f) \/ CloseBegin(c, f)
    \/ \E f \in Fds, d \in Dirs : CallBegin(c, f, d) \/ RawCall(c, f, d) \/ CancelPeek(c, f, d)
    \/ \E f \in Fds, nonblock \in BOOLEAN : Fcntl(c, f, nonblock) \/ Ioctl(c, f, nonblock)

CallStep(c) ==
    \/ Try(c) \/ ArmTimer(c) \/ AddEvent(c) \/ Resume(c)
    \/ ConnectEnd(c) \/ TestCanceled(c) \/ Continue(c) \/ Cancel(c)
    \/ CloseLock(c) \/ DelFd(c) \/ CloseFd(c)

CbStep(b) == CbLock(b) \/ CbPeek(b) \/ CbCancel(b)

IdleStep(i) == EpollWait(i) \/ \E e \in held[i] : HandleEvent(i, e)

KernelStep == \E f \in Fds : Open(f) \/ \E what \in Dirs \cup {"ERR"} : BecomeReady(f, what)

Next ==
    \/ \E c \in Cos : UserStep(c) \/ CallStep(c) \/ Expire(c)
    \/ \E b \in cbs : CbStep(b)
    \/ \E i \in Idlers : IdleStep(i)
    \/ KernelStep

Spec == Init /\ [][Next]_vars

(* Every thread of the pool goes on, the pool handles what epoll reports   *)
(* and runs what is scheduled, and the clock moves.                        *)
Fairness ==
    /\ \A c \in Cos : WF_vars(CallStep(c)) /\ WF_vars(Expire(c))
    /\ \A c \in Cos, id \in 1 .. MaxCbs, at \in {"lock", "peek", "cancel"} :
           WF_vars(\E b \in cbs : b.co = c /\ b.id = id /\ b.at = at /\ CbStep(b))
    /\ \A i \in Idlers : WF_vars(IdleStep(i))

FairSpec == Spec /\ Fairness

-----------------------------------------------------------------------------
(* The variables have their types; trigger_event() only meets contexts     *)
(* that hold a coroutine, so that no null scheduler is called.             *)
TypeOK ==
    /\ opens \in [Fds -> 0 .. MaxOpens] /\ open \in [Fds -> BOOLEAN] /\ known \in [Fds -> BOOLEAN]
    /\ mode \in [Fds -> {"hooks", "user", "kernel"}]
    /\ ready \in [Fds -> SUBSET (Dirs \cup {"ERR"})]
    /\ interest \in [Fds -> SUBSET Dirs] /\ edge \in [Fds -> BOOLEAN]
    /\ statuses \in [Fds -> SUBSET Dirs] /\ context \in [Fds -> [Dirs -> Cos \cup {None}]]
    /\ held \in [Idlers -> SUBSET [fd : Fds, events : (SUBSET (Dirs \cup {"ERR"})) \ {{}}]]
    /\ scheduled \subseteq Cos /\ late \subseteq Cos
    /\ pc \in [Cos -> Places]
    /\ call \in [Cos -> Calls \cup {None}] /\ calls \in 0 .. MaxCalls
    /\ canceled \in [Cos -> BOOLEAN] /\ timer \in [Cos -> BOOLEAN]
    /\ cbs \subseteq Callbacks

Waiting(c) == pc[c] = "waiting"

(* A coroutine waits for exactly one wake-up, and nobody else has one: it  *)
(* is in the run queue, or in the one event context of its descriptor and  *)
(* direction.  However events, time-outs, cancel_event() and close() race, *)
(* none of them loses a waiting coroutine or resumes one twice.            *)
OneWakeupPerWait ==
    \A c \in Cos : LET held_in == {fd \in Fds \X Dirs : context[fd[1]][fd[2]] = c}
        IN  IF Waiting(c) /\ c \notin scheduled
            THEN held_in = {<<call[c].fd, call[c].dir>>} /\ call[c].dir \in statuses[call[c].fd]
            ELSE held_in = {} /\ (c \in scheduled => Waiting(c))

(* statuses of an open descriptor is what epoll has registered for it, so  *)
(* that the next epoll_ctl() succeeds: cancel_event(), cancel_all_event()  *)
(* and idle() wake nobody when it fails.  The exception is a call that     *)
(* registered after close() had cancelled the events: the kernel drops its *)
(* registration behind its back.                                           *)
RegistrationExact ==
    \A f \in Fds : interest[f] = statuses[f] \/ \E c \in late : call[c].fd = f

(* An event on its way to c: epoll_wait() is due to report the descriptor, *)
(* or an idle thread holds an event that it will not skip.                 *)
Coming(f) == edge[f] \/ \E i \in Idlers : \E e \in held[i] : e.fd = f /\ RealStatus(e.events) \in statuses[f]

(* What c waits for has happened. *)
Triggered(c) == /\ Waiting(c) /\ c \notin scheduled \cup late
                /\ Reported(call[c].fd, {call[c].dir}) # {}

(* No event is lost: when the descriptor of a waiting call is ready for    *)
(* it, a report is due or in the hands of an idle thread, although epoll   *)
(* reports each change once and two calls share the registration.  An      *)
(* error counts as a write event only, see EventWakesWaiter.               *)
ReadyWaiterWakes ==
    \A c \in Cos : Triggered(c) /\ (call[c].dir = "READ" => "ERR" \notin ready[call[c].fd]) => Coming(call[c].fd)

(* What do_socket_io() relies on: a call is woken when its event triggers. *)
EventWakesWaiter == \A c \in Cos : Triggered(c) => Coming(call[c].fd)

(* A wait that began with canceled unset ends, with an event or with the   *)
(* time-out: the callback of its timer, or whoever set canceled before it, *)
(* reaches cancel_event() while the event is registered.                   *)
WaitEnds == \A c \in Cos : (Waiting(c) /\ c \notin late /\ ~canceled[c]) ~> ~Waiting(c)
====
