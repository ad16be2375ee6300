--------------------------- MODULE SocketIOProofs ---------------------------
(***************************************************************************)
(* Proofs about SocketIO, for any descriptors, coroutines, idle threads    *)
(* and bounds: the four invariants that the run of the module checks.      *)
(*                                                                         *)
(* The inductive invariant ties the places that know of a waiting call to  *)
(* each other: its program counter and its arguments (CallInv), the event  *)
(* context that holds it (ContextInv), the epoll registration of the       *)
(* descriptor (InterestInv), and what close() leaves behind (ClosingInv).  *)
(***************************************************************************)
EXTENDS SocketIO, TLAPS

-----------------------------------------------------------------------------
(* The inductive invariant *)

(* A coroutine that is in a call has its arguments, and one whose call has *)
(* a timer has not been woken.                                             *)
CallInv ==
    \A c \in Cos : /\ pc[c] # "user" => call[c] \in Calls
                   /\ timer[c] => pc[c] \in {"add", "waiting"}

(* An event is in statuses when its context holds a coroutine, which waits *)
(* for that event and is not in the run queue; whoever waits is in one.    *)
ContextInv ==
    /\ \A f \in Fds, d \in Dirs :
          /\ d \in statuses[f] <=> context[f][d] # None
          /\ context[f][d] # None => LET c == context[f][d]
                                     IN  /\ Waiting(c) /\ c \notin scheduled
                                         /\ call[c].fd = f /\ call[c].dir = d
    /\ \A c \in Cos : /\ Waiting(c) /\ c \notin scheduled => context[call[c].fd][call[c].dir] = c
                      /\ c \in scheduled => Waiting(c)

(* All who wait for an event of f came too late for its close(). *)
AllLate(f) == \A d \in statuses[f] : context[f][d] \in late

(* What is registered is what is waited for, or nothing and all waiters    *)
(* are late; a closed descriptor has no registration.                      *)
InterestInv ==
    \A f \in Fds : /\ interest[f] = statuses[f] \/ (interest[f] = {} /\ AllLate(f))
                   /\ interest[f] # {} => open[f]

(* Once close() has cancelled the events, who waits nevertheless is late. *)
ClosingInv == \A f \in Fds : Closing(f) => AllLate(f)

IInv == TypeOK /\ CallInv /\ ContextInv /\ InterestInv /\ ClosingInv /\ ReadyWaiterWakes

-----------------------------------------------------------------------------
(* The parts of a step that several actions share *)

LEMMA NotNone == \A c \in Cos : c # None
  BY Zenon, SocketAssumption

(* A call that waits is in the context of its event. *)
LEMMA WaiterInContext ==
    ASSUME CallInv, ContextInv, NEW c \in Cos, Waiting(c), c \notin scheduled
    PROVE  /\ call[c] \in Calls /\ call[c].fd \in Fds /\ call[c].dir \in Dirs
           /\ context[call[c].fd][call[c].dir] = c
           /\ call[c].dir \in statuses[call[c].fd]
  <1>1. call[c] \in Calls /\ call[c].fd \in Fds /\ call[c].dir \in Dirs
    BY Zenon DEF CallInv, Calls, Waiting
  <1>2. context[call[c].fd][call[c].dir] = c
    BY Zenon DEF ContextInv
  <1>3. call[c].dir \in statuses[call[c].fd]
    BY Zenon, <1>1, <1>2, NotNone DEF ContextInv
  <1> QED
    BY Zenon, <1>1, <1>2, <1>3

(* Nobody starts or stops waiting, and who waits goes on with its call. *)
WaitersStay == \A c \in Cos : /\ Waiting(c)' <=> Waiting(c)
                              /\ Waiting(c) => call'[c] = call[c]

(* Whatever Begin, Return or a plain Goto do to a coroutine that does not  *)
(* wait, the waiters stay.                                                 *)
LEMMA OneMoves ==
    ASSUME TypeOK, NEW c \in Cos, ~Waiting(c),
           NEW l, l # "waiting", Goto(c, l),
           NEW k, call' = [call EXCEPT ![c] = k] \/ call' = call
    PROVE  WaitersStay
  BY Zenon DEF WaitersStay, Waiting, Goto, TypeOK

LEMMA GotoType ==
    ASSUME TypeOK, NEW c \in Cos, NEW l \in Places, Goto(c, l)
    PROVE  pc' \in [Cos -> Places]
  BY Zenon DEF Goto, TypeOK

(* The event contexts are as before and so are the waiters. *)
LEMMA ContextFrame ==
    ASSUME TypeOK, ContextInv, UNCHANGED contextVars, WaitersStay
    PROVE  ContextInv'
  <1>1. \A c \in Cos : context[call[c].fd] = context'[call[c].fd]
    BY Zenon DEF contextVars
  <1>2. \A f \in Fds, d \in Dirs : context[f][d] # None => context[f][d] \in Cos
    BY DEF TypeOK
  <1> QED
    BY <1>1, <1>2 DEF ContextInv, contextVars, WaitersStay, Waiting

(* Registrations and contexts are as before. *)
LEMMA InterestFrame ==
    ASSUME InterestInv, UNCHANGED <<interest, open, statuses, context, late>>
    PROVE  InterestInv'
  BY Zenon DEF InterestInv, AllLate

(* The contexts are as before and no close() has gone on. *)
LEMMA ClosingFrame ==
    ASSUME ClosingInv, UNCHANGED <<statuses, context, late>>,
           \A f \in Fds : Closing(f)' => Closing(f)
    PROVE  ClosingInv'
  BY Zenon DEF ClosingInv, AllLate

(* Nothing has become ready, all reports are still there, and so are the   *)
(* waiters.                                                                *)
LEMMA ReadyFrame ==
    ASSUME TypeOK, ReadyWaiterWakes, UNCHANGED <<edge, contextVars, held, late>>, WaitersStay,
           \A f \in Fds : ready'[f] \subseteq ready[f] /\ ("ERR" \in ready[f] => "ERR" \in ready'[f]),
           CallInv
    PROVE  ReadyWaiterWakes'
  <1> SUFFICES ASSUME NEW c \in Cos, Triggered(c)', (call[c].dir = "READ" => "ERR" \notin ready[call[c].fd])'
               PROVE  Coming(call[c].fd)'
    BY Zenon DEF ReadyWaiterWakes
  <1>1. Waiting(c) /\ call'[c] = call[c] /\ c \notin scheduled \cup late
    BY Zenon DEF Triggered, WaitersStay, Waiting, contextVars
  <1>2. call[c] \in Calls
    BY Zenon, <1>1 DEF CallInv, Waiting
  <1>3. call[c].fd \in Fds
    BY Zenon, <1>2 DEF Calls
  <1>4. Triggered(c) /\ (call[c].dir = "READ" => "ERR" \notin ready[call[c].fd])
    BY Zenon, <1>1, <1>3 DEF Triggered, Reported
  <1>5. Coming(call[c].fd)
    BY Zenon, <1>4 DEF ReadyWaiterWakes
  <1> QED
    BY Zenon, <1>1, <1>5 DEF Coming, contextVars

(* Events are taken out of statuses and out of the registration at once,   *)
(* and their coroutines go to the run queue: cancel_event(),               *)
(* cancel_all_event() and the event loop of idle().                        *)
LEMMA RemoveContext ==
    ASSUME TypeOK, CallInv, ContextInv, WaitersStay,
           NEW f \in Fds, NEW ds \in SUBSET statuses[f], Trigger(f, ds)
    PROVE  ContextInv'
  <1>1. \A g \in Fds, d \in Dirs :
           /\ context'[g][d] = IF g = f /\ d \in ds THEN None ELSE context[g][d]
           /\ d \in statuses'[g] <=> d \in statuses[g] /\ ~(g = f /\ d \in ds)
           /\ context[g][d] # None => context[g][d] \in Cos
    BY DEF Trigger, TypeOK
  <1>2. \A c : c \in scheduled' <=> c \in scheduled \/ \E d \in ds : c = context[f][d]
    BY Zenon DEF Trigger
  <1>3. \A d \in ds : d \in Dirs /\ context[f][d] \in Cos
    BY DEF ContextInv, TypeOK
  <1>4. ASSUME NEW g \in Fds, NEW d \in Dirs
        PROVE  /\ d \in statuses'[g] <=> context'[g][d] # None
               /\ context'[g][d] # None => LET c == context'[g][d]
                                           IN  /\ pc'[c] = "waiting" /\ c \notin scheduled'
                                               /\ call'[c].fd = g /\ call'[c].dir = d
    BY <1>1, <1>2, <1>3, <1>4 DEF ContextInv, WaitersStay, Waiting
  <1>5. ASSUME NEW c \in Cos
        PROVE  /\ Waiting(c)' /\ c \notin scheduled' => context'[call'[c].fd][call'[c].dir] = c
               /\ c \in scheduled' => Waiting(c)'
    <2>1. c \in scheduled' => Waiting(c)'
      BY <1>2, <1>3 DEF ContextInv, WaitersStay
    <2>2. ASSUME Waiting(c)', c \notin scheduled'
          PROVE  context'[call'[c].fd][call'[c].dir] = c
      <3>1. context[call'[c].fd][call'[c].dir] = c /\ call'[c] = call[c]
        BY <2>2, <1>2 DEF ContextInv, WaitersStay
      <3>2. ~(call[c].fd = f /\ call[c].dir \in ds)
        BY Zenon, <3>1, <2>2, <1>2
      <3>3. call[c].fd \in Fds /\ call[c].dir \in Dirs
        BY Zenon, <2>2 DEF WaitersStay, Waiting, CallInv, Calls
      <3> QED
        BY <3>1, <3>2, <3>3, <1>1
    <2> QED
      BY Zenon, <2>1, <2>2
  <1> QED
    BY Zenon, <1>4, <1>5 DEF ContextInv, Waiting

LEMMA RemoveLate ==
    ASSUME TypeOK, NEW f \in Fds, NEW ds \in SUBSET statuses[f], Trigger(f, ds), UNCHANGED late
    PROVE  \A g \in Fds : AllLate(g) => AllLate(g)'
  <1>1. \A g \in Fds, d \in Dirs :
           /\ d \in statuses'[g] => d \in statuses[g] /\ ~(g = f /\ d \in ds)
           /\ context'[g][d] = IF g = f /\ d \in ds THEN None ELSE context[g][d]
    BY Zenon DEF Trigger, TypeOK
  <1>2. \A g \in Fds : statuses'[g] \subseteq Dirs
    BY Zenon DEF Trigger, TypeOK
  <1> QED
    BY Zenon, <1>1, <1>2 DEF AllLate

LEMMA RemoveInterest ==
    ASSUME TypeOK, InterestInv, UNCHANGED late, NEW f \in Fds, NEW ds \in SUBSET statuses[f],
           CanChange(f), Register(f, statuses[f] \ ds), Trigger(f, ds)
    PROVE  InterestInv'
  <1> SUFFICES ASSUME NEW g \in Fds
               PROVE  /\ interest'[g] = statuses'[g] \/ (interest'[g] = {} /\ AllLate(g)')
                      /\ interest'[g] # {} => open'[g]
    BY Zenon DEF InterestInv
  <1>1. CASE g = f
    BY Zenon, <1>1 DEF Register, Trigger, CanChange, TypeOK
  <1>2. CASE g # f
    <2>1. interest'[g] = interest[g] /\ statuses'[g] = statuses[g] /\ open'[g] = open[g]
      BY Zenon, <1>2 DEF Register, Trigger, TypeOK
    <2> QED
      BY Zenon, <2>1, RemoveLate DEF InterestInv
  <1> QED
    BY Zenon, <1>1, <1>2

LEMMA RemoveClosing ==
    ASSUME TypeOK, ClosingInv, UNCHANGED late, NEW f \in Fds, NEW ds \in SUBSET statuses[f], Trigger(f, ds),
           \A g \in Fds : Closing(g)' => Closing(g) \/ (g = f /\ ds = statuses[f])
    PROVE  ClosingInv'
  <1>1. ds = statuses[f] => AllLate(f)'
    BY Zenon DEF Trigger, AllLate, TypeOK
  <1> QED
    BY Zenon, <1>1, RemoveLate DEF ClosingInv

(* Whoever waits for an event of f after the step waits for one of what,   *)
(* and whoever waits for another descriptor did so before.                 *)
WaitersOf(f, what) ==
    \A c \in Cos : Triggered(c)' =>
        /\ call'[c] \in Calls
        /\ call'[c].fd = f => call'[c].dir \in what
        /\ call'[c].fd # f => Triggered(c) /\ call'[c] = call[c]

(* A registration that is changed reports again what is ready, so that     *)
(* those who still wait for an event of the descriptor hear of it.         *)
LEMMA RegisterReady ==
    ASSUME TypeOK, CallInv, ReadyWaiterWakes, NEW f \in Fds, NEW what \in SUBSET Dirs, Register(f, what),
           WaitersOf(f, what),
           \A g \in Fds : g # f => statuses'[g] = statuses[g],
           \A i \in Idlers : \A e \in held[i] : e.fd # f => e \in held'[i]
    PROVE  ReadyWaiterWakes'
  <1> SUFFICES ASSUME NEW c \in Cos, Triggered(c)', (call[c].dir = "READ" => "ERR" \notin ready[call[c].fd])'
               PROVE  Coming(call[c].fd)'
    BY Zenon DEF ReadyWaiterWakes
  <1>1. call'[c].fd \in Fds /\ ready' = ready
    BY Zenon DEF Calls, Register, WaitersOf
  <1>2. CASE call'[c].fd = f
    <2>1. call'[c].dir \in what
      BY Zenon, <1>2 DEF WaitersOf
    <2>2. Reported(f, {call'[c].dir}) # {}
      BY Zenon, <1>1, <1>2 DEF Triggered, Reported
    <2>3. Reported(f, what) # {}
      BY Zenon, <2>1, <2>2 DEF Reported
    <2>4. edge'[f]
      BY Zenon, <2>1, <2>3 DEF Register, TypeOK
    <2> QED
      BY Zenon, <2>4, <1>2 DEF Coming
  <1>3. CASE call'[c].fd # f
    <2>1. Triggered(c) /\ call'[c] = call[c]
      BY Zenon, <1>3 DEF WaitersOf
    <2>2. Coming(call[c].fd)
      BY Zenon, <2>1, <1>1 DEF ReadyWaiterWakes
    <2>3. edge'[call[c].fd] = edge[call[c].fd]
      BY Zenon, <1>1, <1>3, <2>1 DEF Register, TypeOK
    <2> QED
      BY Zenon, <1>1, <1>3, <2>1, <2>2, <2>3 DEF Coming
  <1> QED
    BY Zenon, <1>2, <1>3

LEMMA RemoveReady ==
    ASSUME TypeOK, CallInv, ContextInv, ReadyWaiterWakes, WaitersStay, UNCHANGED late,
           NEW f \in Fds, NEW ds \in SUBSET statuses[f],
           Register(f, statuses[f] \ ds), Trigger(f, ds),
           \A i \in Idlers : \A e \in held[i] : e.fd # f => e \in held'[i]
    PROVE  ReadyWaiterWakes'
  <1>1. ASSUME NEW c \in Cos, Triggered(c)'
        PROVE  /\ call'[c] \in Calls
               /\ call'[c].fd = f => call'[c].dir \in statuses[f] \ ds
               /\ call'[c].fd # f => Triggered(c) /\ call'[c] = call[c]
    <2>1. Waiting(c) /\ call'[c] = call[c] /\ c \notin scheduled \cup late
      BY Zenon, <1>1 DEF Triggered, WaitersStay, Trigger
    <2>2. /\ call[c] \in Calls /\ context[call[c].fd][call[c].dir] = c
          /\ call[c].dir \in statuses[call[c].fd]
      BY Zenon, <2>1, WaiterInContext
    <2>3. call[c].fd = f => call[c].dir \notin ds
      BY Zenon, <2>2, <1>1 DEF Triggered, Trigger
    <2>4. Triggered(c)
      BY Zenon, <2>1, <1>1 DEF Triggered, Reported, Register
    <2> QED
      BY Zenon, <2>1, <2>2, <2>3, <2>4
  <1>2. WaitersOf(f, statuses[f] \ ds)
    BY Zenon, <1>1 DEF WaitersOf
  <1>3. \A g \in Fds : g # f => statuses'[g] = statuses[g]
    BY Zenon DEF Trigger, TypeOK
  <1>4. statuses[f] \ ds \in SUBSET Dirs
    BY Zenon DEF TypeOK
  <1> QED
    BY Zenon, <1>2, <1>3, <1>4, RegisterReady

-----------------------------------------------------------------------------
(* The steps that leave registrations, contexts and waiters alone *)

LEMMA QuietStep ==
    ASSUME IInv, TypeOK', CallInv', WaitersStay,
           UNCHANGED <<open, interest, edge, contextVars, held, late>>,
           \A f \in Fds : ready'[f] \subseteq ready[f] /\ ("ERR" \in ready[f] => "ERR" \in ready'[f]),
           \A f \in Fds : Closing(f)' => Closing(f)
    PROVE  IInv'
  <1>1. ContextInv'
    BY Zenon, ContextFrame DEF IInv
  <1>2. InterestInv'
    BY Zenon, InterestFrame DEF IInv, contextVars
  <1>3. ClosingInv'
    BY Zenon, ClosingFrame DEF IInv, contextVars
  <1>4. ReadyWaiterWakes'
    BY Zenon, ReadyFrame DEF IInv
  <1> QED
    BY Zenon, <1>1, <1>2, <1>3, <1>4 DEF IInv

(* A close() that goes no further than before. *)
LEMMA OneClosing ==
    ASSUME TypeOK, NEW c \in Cos, NEW l, Goto(c, l), NEW k, call' = [call EXCEPT ![c] = k] \/ call' = call,
           l \in {"delFd", "closeFd"} => pc[c] \in {"delFd", "closeFd"} /\ call' = call
    PROVE  \A f \in Fds : Closing(f)' => Closing(f)
  BY Zenon DEF Closing, Goto, TypeOK

(* A call is made that has not waited yet. *)
LEMMA BeginStep ==
    ASSUME IInv, NEW c \in Cos, NEW l \in {"try", "cancel"}, NEW k \in Calls, Begin(c, l, k),
           UNCHANGED <<kernelVars, contextVars, canceled, timer, fdVars, held, cbs, late>>
    PROVE  IInv'
  <1> USE DEF IInv
  <1>0. pc' \in [Cos -> Places] /\ calls' \in 0 .. MaxCalls
    BY SocketAssumption, GotoType DEF Begin, Places, TypeOK
  <1>1. TypeOK'
    BY Zenon, <1>0 DEF TypeOK, Begin, kernelVars, contextVars, fdVars
  <1>2. CallInv'
    BY Zenon DEF TypeOK, CallInv, Begin, Goto
  <1>3. WaitersStay
    BY Zenon, OneMoves DEF Begin, Waiting
  <1>4. \A f \in Fds : Closing(f)' => Closing(f)
    BY Zenon, OneClosing DEF Begin
  <1> QED
    BY Zenon, <1>1, <1>2, <1>3, <1>4, QuietStep DEF kernelVars

(* A call returns, having taken what was ready or not. *)
LEMMA ReturnStep ==
    ASSUME IInv, NEW c \in Cos, pc[c] \notin {"add", "waiting"}, Return(c), NEW f \in Fds, NEW d \in Dirs,
           ready' \in {ready, [ready EXCEPT ![f] = @ \ {d}]},
           UNCHANGED <<opens, open, interest, edge, contextVars, calls, timer, fdVars, held, late>>
    PROVE  IInv'
  <1> USE DEF IInv
  <1>0. ready' \in [Fds -> SUBSET (Dirs \cup {"ERR"})] /\ cbs' \subseteq Callbacks
    <2>1. [ready EXCEPT ![f] = @ \ {d}] \in [Fds -> SUBSET (Dirs \cup {"ERR"})]
      BY Zenon DEF TypeOK
    <2>2. cbs' \subseteq cbs
      BY Zenon DEF Return
    <2> QED
      BY Zenon, <2>1, <2>2 DEF TypeOK
  <1>1. TypeOK'
    <2>1. pc' \in [Cos -> Places]
      BY Zenon, GotoType DEF Return, Places
    <2> QED
      BY Zenon, <1>0, <2>1 DEF TypeOK, Return, contextVars, fdVars
  <1>2. CallInv'
    BY Zenon DEF TypeOK, CallInv, Return, Goto
  <1>3. WaitersStay
    BY Zenon, OneMoves DEF Return, Waiting
  <1>4. \A g \in Fds : Closing(g)' => Closing(g)
    <2>1. Goto(c, "user") /\ "user" \notin {"delFd", "closeFd"} /\ call' = [call EXCEPT ![c] = None]
      BY Zenon DEF Return
    <2> QED
      BY Zenon, <2>1, OneClosing
  <1>5. \A g \in Fds : ready'[g] \subseteq ready[g] /\ ("ERR" \in ready[g] => "ERR" \in ready'[g])
    BY DEF TypeOK, Dirs
  <1> QED
    BY Zenon, <1>1, <1>2, <1>3, <1>4, <1>5, QuietStep

(* A call goes from one place to another. *)
LEMMA GotoStep ==
    ASSUME IInv, NEW c \in Cos, pc[c] # "user", NEW l, Goto(c, l), TypeOK',
           ~Waiting(c), l # "waiting", timer'[c] => l = "add",
           \A o \in Cos : o # c => timer'[o] = timer[o],
           l \in {"delFd", "closeFd"} => pc[c] \in {"delFd", "closeFd"},
           UNCHANGED <<kernelVars, contextVars, call, held, late>>
    PROVE  IInv'
  <1> USE DEF IInv
  <1>1. CallInv'
    BY Zenon DEF TypeOK, CallInv, Goto
  <1>2. WaitersStay
    BY Zenon, OneMoves DEF Waiting
  <1>3. \A g \in Fds : Closing(g)' => Closing(g)
    BY Zenon, OneClosing
  <1> QED
    BY Zenon, <1>1, <1>2, <1>3, QuietStep DEF kernelVars

(* The steps that leave the coroutines where they are. *)
LEMMA StandStep ==
    ASSUME IInv, TypeOK', UNCHANGED <<open, interest, edge, contextVars, pc, call, held, late>>,
           \A c \in Cos : timer'[c] => timer[c],
           \A f \in Fds : ready'[f] \subseteq ready[f] /\ ("ERR" \in ready[f] => "ERR" \in ready'[f])
    PROVE  IInv'
  <1> USE DEF IInv
  <1>1. CallInv'
    BY Zenon DEF CallInv
  <1>2. WaitersStay
    BY Zenon DEF WaitersStay, Waiting
  <1>3. \A g \in Fds : Closing(g)' => Closing(g)
    BY Zenon DEF Closing
  <1> QED
    BY Zenon, <1>1, <1>2, <1>3, QuietStep

LEMMA RawCallStep ==
    ASSUME IInv, NEW c \in Cos, NEW f \in Fds, NEW d \in Dirs, RawCall(c, f, d)
    PROVE  IInv'
  <1>1. ready' \in [Fds -> SUBSET (Dirs \cup {"ERR"})] /\ calls' \in 0 .. MaxCalls
    BY SocketAssumption DEF RawCall, IInv, TypeOK
  <1>2. TypeOK'
    BY Zenon, <1>1 DEF RawCall, IInv, TypeOK, contextVars, fdVars
  <1>3. \A g \in Fds : ready'[g] \subseteq ready[g] /\ ("ERR" \in ready[g] => "ERR" \in ready'[g])
    BY Zenon DEF RawCall, IInv, TypeOK, Dirs
  <1> QED
    BY Zenon, <1>2, <1>3, StandStep DEF RawCall

LEMMA SetModeStep ==
    ASSUME IInv, NEW c \in Cos, NEW f \in Fds, NEW m \in {"hooks", "user", "kernel"}, SetMode(c, f, m)
    PROVE  IInv'
  <1>1. TypeOK'
    BY SocketAssumption DEF SetMode, IInv, TypeOK, kernelVars, contextVars
  <1>2. UNCHANGED <<open, interest, edge, ready>>
    BY Zenon DEF SetMode, kernelVars
  <1> QED
    BY Zenon, <1>1, <1>2, StandStep DEF SetMode

LEMMA UserStepInv ==
    ASSUME IInv, NEW c \in Cos, NEW f \in Fds, NEW d \in Dirs, NEW nonblock \in BOOLEAN,
           \/ ConnectBegin(c, f) \/ CallBegin(c, f, d) \/ RawCall(c, f, d) \/ CancelPeek(c, f, d)
           \/ Fcntl(c, f, nonblock) \/ Ioctl(c, f, nonblock)
    PROVE  IInv'
  <1>1. [fd |-> f, dir |-> "WRITE", retry |-> FALSE] \in Calls /\ \A r \in BOOLEAN : [fd |-> f, dir |-> d, retry |-> r] \in Calls
    BY Zenon DEF Calls, Dirs
  <1>2. CASE ConnectBegin(c, f)
    BY Zenon, <1>1, <1>2, BeginStep DEF ConnectBegin
  <1>3. CASE CallBegin(c, f, d)
    BY Zenon, <1>1, <1>3, BeginStep DEF CallBegin
  <1>4. CASE CancelPeek(c, f, d)
    BY Zenon, <1>1, <1>4, BeginStep DEF CancelPeek
  <1>5. CASE Fcntl(c, f, nonblock) \/ Ioctl(c, f, nonblock)
    BY Zenon, <1>5, SetModeStep DEF Fcntl, Ioctl
  <1> QED
    BY Zenon, <1>2, <1>3, <1>4, <1>5, RawCallStep

(* close() finds nobody to wake, or goes to lock the context. *)
LEMMA CloseBeginStep ==
    ASSUME IInv, NEW c \in Cos, NEW f \in Fds, CloseBegin(c, f)
    PROVE  IInv'
  <1> USE DEF IInv
  <1> DEFINE l == IF statuses[f] = {} THEN "delFd" ELSE "closeLock"
             k == [fd |-> f, dir |-> "READ", retry |-> FALSE]
  <1>1. Goto(c, l) /\ call' = [call EXCEPT ![c] = k] /\ pc[c] = "user"
    BY Zenon DEF CloseBegin, Begin
  <1>2. k \in Calls
    BY Zenon DEF Calls, Dirs
  <1>3. UNCHANGED <<kernelVars, contextVars, canceled, timer, fdVars, held, cbs, late>>
    BY Zenon DEF CloseBegin
  <1>4. calls' \in 0 .. MaxCalls
    BY SocketAssumption DEF CloseBegin, Begin, TypeOK
  <1>5. TypeOK'
    <2>1. pc' \in [Cos -> Places]
      BY Zenon, <1>1, GotoType DEF Places
    <2> QED
      BY Zenon, <1>1, <1>2, <1>3, <1>4, <2>1 DEF TypeOK, kernelVars, contextVars, fdVars
  <1>6. CallInv'
    BY Zenon, <1>1, <1>2, <1>3 DEF TypeOK, CallInv, Goto
  <1>7. WaitersStay
    BY Zenon, <1>1, OneMoves DEF Waiting
  <1>8. ContextInv' /\ InterestInv' /\ ReadyWaiterWakes'
    BY Zenon, <1>3, <1>7, ContextFrame, InterestFrame, ReadyFrame DEF kernelVars, contextVars
  <1>9. ClosingInv'
    <2>1. \A g \in Fds : Closing(g)' => Closing(g) \/ (g = f /\ statuses[f] = {})
      BY Zenon, <1>1 DEF Closing, Goto, TypeOK
    <2> QED
      BY Zenon, <1>3, <2>1 DEF ClosingInv, AllLate, contextVars
  <1> QED
    BY Zenon, <1>5, <1>6, <1>8, <1>9

LEMMA TryStep ==
    ASSUME IInv, NEW c \in Cos, Try(c)
    PROVE  IInv'
  <1> USE DEF IInv
  <1>1. call[c].fd \in Fds /\ call[c].dir \in Dirs
    BY Zenon DEF Try, CallInv, Calls
  <1>2. CASE Return(c)
    BY Zenon, <1>1, <1>2, ReturnStep DEF Try
  <1>3. CASE Goto(c, "arm") /\ Stay /\ UNCHANGED ready
    <2>1. TypeOK'
      <3>1. pc' \in [Cos -> Places]
        BY Zenon, <1>3, GotoType DEF Places
      <3> QED
        BY Zenon, <1>3, <3>1 DEF Try, TypeOK, Stay, contextVars, fdVars
    <2> QED
      BY Zenon, <1>3, <2>1, GotoStep DEF Try, CallInv, Waiting, Stay, kernelVars
  <1> QED
    BY Zenon, <1>2, <1>3 DEF Try

LEMMA ArmTimerStep ==
    ASSUME IInv, NEW c \in Cos, ArmTimer(c)
    PROVE  IInv'
  <1>1. TypeOK'
    <2>1. pc' \in [Cos -> Places]
      BY Zenon, GotoType DEF ArmTimer, IInv, Places
    <2> QED
      BY Zenon, <2>1 DEF ArmTimer, IInv, TypeOK, kernelVars, contextVars, fdVars
  <1> QED
    BY Zenon, <1>1, GotoStep DEF ArmTimer, IInv, TypeOK, Waiting

LEMMA WokenStep ==
    ASSUME IInv, NEW c \in Cos, ConnectEnd(c) \/ TestCanceled(c) \/ Continue(c)
    PROVE  IInv'
  <1> USE DEF IInv
  <1>1. pc[c] \in {"woken", "reset"} /\ UNCHANGED <<kernelVars, contextVars, calls, timer, fdVars, held, late>>
    BY Zenon DEF ConnectEnd, TestCanceled, Continue
  <1>2. call[c].fd \in Fds /\ ~timer[c]
    BY Zenon, <1>1 DEF CallInv, Calls
  <1>3. CASE Return(c)
    BY Zenon, <1>1, <1>2, <1>3, ReturnStep DEF kernelVars, Dirs
  <1>4. ASSUME NEW l \in {"reset", "try"}, Goto(c, l), UNCHANGED <<call, cbs>>, canceled' \in [Cos -> BOOLEAN]
        PROVE  IInv'
    <2>1. TypeOK'
      <3>1. pc' \in [Cos -> Places]
        BY Zenon, <1>4, GotoType DEF Places
      <3> QED
        BY Zenon, <1>1, <1>4, <3>1 DEF TypeOK, kernelVars, contextVars, fdVars
    <2> QED
      BY Zenon, <1>1, <1>2, <1>4, <2>1, GotoStep DEF Waiting
  <1>5. CASE Goto(c, "reset") /\ Stay
    BY Zenon, <1>4, <1>5 DEF Stay, TypeOK
  <1>6. CASE Goto(c, "try") /\ canceled' = [canceled EXCEPT ![c] = FALSE] /\ UNCHANGED <<call, cbs>>
    BY Zenon, <1>4, <1>6 DEF TypeOK
  <1> QED
    BY Zenon, <1>3, <1>5, <1>6 DEF ConnectEnd, TestCanceled, Continue

LEMMA ExpireStep ==
    ASSUME IInv, NEW c \in Cos, Expire(c)
    PROVE  IInv'
  <1> USE DEF IInv
  <1>1. call[c].fd \in Fds /\ call[c].dir \in Dirs
    BY Zenon DEF Expire, CallInv, Calls
  <1>2. cbs' \subseteq Callbacks
    BY <1>1 DEF Expire, TypeOK, Callbacks
  <1>3. TypeOK'
    BY Zenon, <1>2 DEF Expire, TypeOK, kernelVars, contextVars, fdVars
  <1>4. UNCHANGED <<open, interest, edge, ready>> /\ \A o \in Cos : timer'[o] => timer[o]
    BY Zenon DEF Expire, kernelVars, TypeOK
  <1> QED
    BY Zenon, <1>3, <1>4, StandStep DEF Expire

LEMMA CbLockStep ==
    ASSUME IInv, NEW b \in cbs, CbLock(b) \/ CbPeek(b)
    PROVE  IInv'
  <1> USE DEF IInv
  <1>1. cbs' \subseteq Callbacks
    <2>1. \A l \in {"peek", "cancel"} : [b EXCEPT !.at = l] \in Callbacks
      <3>1. b \in Callbacks
        BY Zenon DEF TypeOK
      <3> QED
        BY Zenon, <3>1 DEF Callbacks
    <2>2. CbReturn(b) \/ CbGoto(b, "peek") \/ CbGoto(b, "cancel")
      BY Zenon DEF CbLock, CbPeek
    <2> QED
      BY Zenon, <2>1, <2>2 DEF CbReturn, CbGoto, TypeOK
  <1>2. canceled' \in [Cos -> BOOLEAN]
    BY Zenon DEF CbLock, CbPeek, callVars, TypeOK, Callbacks
  <1>3. UNCHANGED <<kernelVars, contextVars, pc, call, calls, timer, fdVars, held, late>>
    BY Zenon DEF CbLock, CbPeek, callVars
  <1>4. TypeOK'
    BY Zenon, <1>1, <1>2, <1>3 DEF TypeOK, kernelVars, contextVars, fdVars
  <1> QED
    BY Zenon, <1>3, <1>4, StandStep DEF kernelVars

LEMMA DelFdStep ==
    ASSUME IInv, NEW c \in Cos, DelFd(c)
    PROVE  IInv'
  <1>1. TypeOK'
    <2>1. pc' \in [Cos -> Places]
      BY Zenon, GotoType DEF DelFd, IInv, Places
    <2> QED
      BY Zenon, <2>1 DEF DelFd, IInv, TypeOK, kernelVars, contextVars, fdVars
  <1> QED
    BY Zenon, <1>1, GotoStep DEF DelFd, IInv, TypeOK, Waiting, CallInv

-----------------------------------------------------------------------------
(* The steps that change contexts and registrations *)

(* What is common to the three ways to take events out. *)
LEMMA RemoveType ==
    ASSUME TypeOK, ContextInv, NEW f \in Fds, NEW ds \in SUBSET statuses[f],
           Register(f, statuses[f] \ ds), Trigger(f, ds)
    PROVE  /\ interest' \in [Fds -> SUBSET Dirs] /\ edge' \in [Fds -> BOOLEAN]
           /\ statuses' \in [Fds -> SUBSET Dirs] /\ context' \in [Fds -> [Dirs -> Cos \cup {None}]]
           /\ scheduled' \subseteq Cos
           /\ UNCHANGED <<opens, open, ready>>
  <1>1. \A d \in ds : context[f][d] \in Cos
    BY DEF TypeOK, ContextInv
  <1>2. scheduled' \subseteq Cos
    BY <1>1 DEF Trigger, TypeOK
  <1>3. statuses' \in [Fds -> SUBSET Dirs] /\ context' \in [Fds -> [Dirs -> Cos \cup {None}]]
    BY Zenon DEF Trigger, TypeOK
  <1>4. interest' \in [Fds -> SUBSET Dirs] /\ edge' \in [Fds -> BOOLEAN] /\ UNCHANGED <<opens, open, ready>>
    BY Zenon DEF Register, TypeOK
  <1> QED
    BY Zenon, <1>2, <1>3, <1>4

(* The locked part of cancel_event(), whoever calls it. *)
LEMMA CancelEventInv ==
    ASSUME IInv, NEW f \in Fds, NEW d \in Dirs, CancelEvent(f, d), WaitersStay, CallInv', UNCHANGED <<held, late>>,
           \A g \in Fds : Closing(g)' => Closing(g),
           pc' \in [Cos -> Places],
           call' \in [Cos -> Calls \cup {None}], cbs' \subseteq Callbacks, canceled' \in [Cos -> BOOLEAN],
           UNCHANGED <<calls, timer, fdVars>>
    PROVE  IInv'
  <1> USE DEF IInv
  <1>1. CASE CanChange(f)
    <2> DEFINE ds == {d} \cap statuses[f]
    <2>1. Register(f, statuses[f] \ ds) /\ Trigger(f, ds) /\ ds \in SUBSET statuses[f]
      <3>1. statuses[f] \ {d} = statuses[f] \ ds
        OBVIOUS
      <3> QED
        BY Zenon, <1>1, <3>1 DEF CancelEvent
    <2> HIDE DEF ds
    <2>2. TypeOK'
      BY Zenon, <2>1, RemoveType DEF TypeOK, fdVars
    <2> QED
      BY Zenon, <1>1, <2>1, <2>2, RemoveContext, RemoveInterest, RemoveClosing, RemoveReady
  <1>2. CASE ~CanChange(f)
    <2>1. UNCHANGED <<kernelVars, contextVars>>
      BY Zenon, <1>2 DEF CancelEvent
    <2>2. TypeOK'
      BY Zenon, <2>1 DEF TypeOK, kernelVars, contextVars, fdVars
    <2> QED
      BY Zenon, <2>1, <2>2, QuietStep DEF kernelVars
  <1> QED
    BY Zenon, <1>1, <1>2

LEMMA CbCancelStep ==
    ASSUME IInv, NEW b \in cbs, CbCancel(b)
    PROVE  IInv'
  <1> USE DEF IInv
  <1>1. b.fd \in Fds /\ b.dir \in Dirs
    BY Zenon DEF TypeOK, Callbacks
  <1>2. WaitersStay /\ CallInv' /\ \A g \in Fds : Closing(g)' => Closing(g)
    BY Zenon DEF CbCancel, callVars, WaitersStay, Waiting, CallInv, Closing
  <1>3. cbs' \subseteq Callbacks
    BY Zenon DEF CbCancel, CbReturn, TypeOK
  <1> QED
    BY Zenon, <1>1, <1>2, <1>3, CancelEventInv DEF CbCancel, callVars, TypeOK

LEMMA CancelStep ==
    ASSUME IInv, NEW c \in Cos, Cancel(c)
    PROVE  IInv'
  <1> USE DEF IInv
  <1>1. call[c].fd \in Fds /\ call[c].dir \in Dirs
    BY Zenon DEF Cancel, CallInv, Calls
  <1>2. WaitersStay
    BY Zenon, OneMoves DEF Cancel, Return, Waiting
  <1>3. CallInv'
    BY Zenon DEF Cancel, Return, Goto, CallInv, TypeOK
  <1>4. \A g \in Fds : Closing(g)' => Closing(g)
    <2>1. Goto(c, "user") /\ "user" \notin {"delFd", "closeFd"} /\ call' = [call EXCEPT ![c] = None]
      BY Zenon DEF Cancel, Return
    <2> QED
      BY Zenon, <2>1, OneClosing
  <1>5. /\ pc' \in [Cos -> Places]
        /\ call' \in [Cos -> Calls \cup {None}] /\ cbs' \subseteq Callbacks /\ canceled' \in [Cos -> BOOLEAN]
    <2>1. pc' \in [Cos -> Places]
      BY Zenon, GotoType DEF Cancel, Return, Places
    <2> QED
      BY Zenon, <2>1 DEF Cancel, Return, TypeOK
  <1> QED
    BY Zenon, <1>1, <1>2, <1>3, <1>4, <1>5, CancelEventInv DEF Cancel

LEMMA CloseLockStep ==
    ASSUME IInv, NEW c \in Cos, CloseLock(c)
    PROVE  IInv'
  <1> USE DEF IInv
  <1> DEFINE f == call[c].fd
  <1>1. f \in Fds
    BY Zenon DEF CloseLock, CallInv, Calls
  <1>2. WaitersStay
    BY Zenon, OneMoves DEF CloseLock, Waiting
  <1>3. CallInv'
    BY Zenon DEF CloseLock, Goto, CallInv, TypeOK
  <1>4. \A g \in Fds : Closing(g)' => Closing(g) \/ g = f
    BY Zenon DEF CloseLock, Closing, Goto, TypeOK
  <1>5. pc' \in [Cos -> Places]
    BY Zenon, GotoType DEF CloseLock, Places
  <1>6. CASE CanChange(f)
    <2> DEFINE ds == statuses[f]
    <2>1. Register(f, statuses[f] \ ds) /\ Trigger(f, ds)
      <3>1. statuses[f] \ ds = {}
        OBVIOUS
      <3> QED
        BY Zenon, <1>6, <3>1 DEF CloseLock
    <2>2. TypeOK'
      BY Zenon, <1>1, <1>5, <2>1, RemoveType DEF TypeOK, CloseLock, fdVars
    <2>3. ContextInv' /\ InterestInv' /\ ReadyWaiterWakes'
      BY Zenon, <1>1, <1>2, <1>6, <2>1, RemoveContext, RemoveInterest, RemoveReady DEF CloseLock
    <2>4. ClosingInv'
      BY Zenon, <1>1, <1>4, <2>1, RemoveClosing DEF CloseLock
    <2> QED
      BY Zenon, <1>3, <2>2, <2>3, <2>4
  <1>7. CASE ~CanChange(f)
    <2>1. UNCHANGED <<kernelVars, contextVars, call, calls, canceled, timer, fdVars, held, cbs, late>>
      BY Zenon, <1>7 DEF CloseLock
    <2>2. TypeOK'
      BY Zenon, <1>5, <2>1 DEF TypeOK, kernelVars, contextVars, fdVars
    <2>3. ContextInv' /\ InterestInv' /\ ReadyWaiterWakes'
      BY Zenon, <1>2, <2>1, ContextFrame, InterestFrame, ReadyFrame DEF kernelVars, contextVars
    <2>4. interest[f] = {}
      BY Zenon, <1>1, <1>7 DEF CanChange, InterestInv
    <2>5. AllLate(f)
      BY Zenon, <1>1, <2>4 DEF InterestInv, AllLate
    <2>6. ClosingInv'
      BY Zenon, <1>4, <2>1, <2>5 DEF ClosingInv, AllLate, contextVars
    <2> QED
      BY Zenon, <1>3, <2>2, <2>3, <2>6
  <1> QED
    BY Zenon, <1>6, <1>7

LEMMA HandleEventStep ==
    ASSUME IInv, NEW i \in Idlers, NEW e \in held[i], HandleEvent(i, e)
    PROVE  IInv'
  <1> USE DEF IInv
  <1> DEFINE f == e.fd
             d == RealStatus(e.events)
  <1>1. f \in Fds /\ d \in Dirs
    BY DEF TypeOK, RealStatus, Dirs
  <1>2. UNCHANGED <<callVars, fdVars, cbs, late>> /\ held' = [held EXCEPT ![i] = @ \ {e}]
    BY Zenon DEF HandleEvent
  <1>3. WaitersStay /\ CallInv' /\ \A g \in Fds : Closing(g)' => Closing(g)
    BY Zenon, <1>2 DEF callVars, WaitersStay, Waiting, CallInv, Closing
  <1>4. /\ held' \in [Idlers -> SUBSET [fd : Fds, events : (SUBSET (Dirs \cup {"ERR"})) \ {{}}]]
        /\ \A j \in Idlers : held'[j] \subseteq held[j] /\ \A x \in held[j] : x # e => x \in held'[j]
    BY Zenon, <1>2 DEF TypeOK
  <1> HIDE DEF d, f
  <1>5. CASE d \in statuses[f] /\ CanChange(f)
    <2>1. Register(f, statuses[f] \ {d}) /\ Trigger(f, {d})
      BY Zenon, <1>5 DEF HandleEvent, d, f
    <2>2. {d} \in SUBSET statuses[f]
      BY Zenon, <1>5
    <2>3. TypeOK'
      BY Zenon, <1>1, <1>2, <1>4, <2>1, <2>2, RemoveType DEF TypeOK, callVars, fdVars
    <2>4. \A j \in Idlers : \A x \in held[j] : x.fd # f => x \in held'[j]
      BY Zenon, <1>4 DEF f
    <2>5. ContextInv' /\ InterestInv'
      BY Zenon, <1>1, <1>2, <1>3, <1>5, <2>1, <2>2, RemoveContext, RemoveInterest
    <2>6. ReadyWaiterWakes' /\ ClosingInv'
      BY Zenon, <1>1, <1>2, <1>3, <2>1, <2>2, <2>4, RemoveReady, RemoveClosing
    <2> QED
      BY Zenon, <1>3, <2>3, <2>5, <2>6
  <1>6. CASE ~(d \in statuses[f] /\ CanChange(f))
    <2>1. UNCHANGED <<kernelVars, contextVars>>
      BY Zenon, <1>6 DEF HandleEvent, d, f
    <2>2. TypeOK'
      BY Zenon, <1>2, <1>4, <2>1 DEF TypeOK, kernelVars, contextVars, callVars, fdVars
    <2>3. ContextInv' /\ InterestInv' /\ ClosingInv'
      BY Zenon, <1>2, <1>3, <2>1, ContextFrame, InterestFrame, ClosingFrame DEF kernelVars, contextVars
    <2>4. ReadyWaiterWakes'
      <3> SUFFICES ASSUME NEW c \in Cos, Triggered(c)', (call[c].dir = "READ" => "ERR" \notin ready[call[c].fd])'
                   PROVE  Coming(call[c].fd)'
        BY Zenon DEF ReadyWaiterWakes
      <3>1. Triggered(c) /\ call' = call /\ ready' = ready /\ statuses' = statuses /\ edge' = edge
        BY Zenon, <1>2, <2>1 DEF Triggered, Waiting, Reported, kernelVars, contextVars, callVars
      <3>2. Coming(call[c].fd)
        BY Zenon, <3>1 DEF ReadyWaiterWakes
      <3>3. /\ call[c].fd \in Fds /\ context[call[c].fd][call[c].dir] = c
            /\ call[c].dir \in statuses[call[c].fd] /\ c \notin late
        BY Zenon, <3>1, WaiterInContext DEF Triggered
      <3>4. CanChange(call[c].fd)
        BY <3>3 DEF InterestInv, AllLate, CanChange
      <3>5. \A j \in Idlers : \A x \in held[j] :
               x.fd = call[c].fd /\ RealStatus(x.events) \in statuses[call[c].fd] => x \in held'[j]
        BY Zenon, <1>4, <1>6, <3>4 DEF d, f
      <3> QED
        BY Zenon, <3>1, <3>2, <3>5 DEF Coming
    <2> QED
      BY Zenon, <1>3, <2>2, <2>3, <2>4
  <1> QED
    BY Zenon, <1>5, <1>6

(* add_event() succeeds: the descriptor was not registered and nobody      *)
(* waits for it, or it was and the other event is waited for.              *)
LEMMA AddedStep ==
    ASSUME IInv, NEW c \in Cos, AddEvent(c), Goto(c, "waiting")
    PROVE  IInv'
  <1> USE DEF IInv
  <1>1. call[c].fd \in Fds /\ call[c].dir \in Dirs /\ pc[c] = "add" /\ call[c] \in Calls
    BY Zenon DEF AddEvent, CallInv, Calls
  <1> SUFFICES ASSUME NEW f \in Fds, NEW d \in Dirs, call[c].fd = f, call[c].dir = d
               PROVE  IInv'
    BY Zenon, <1>1
  <1>2. /\ d \notin statuses[f]
        /\ IF statuses[f] = {} THEN CanAdd(f) ELSE CanChange(f)
        /\ Register(f, statuses[f] \cup {d})
        /\ statuses' = [statuses EXCEPT ![f] = @ \cup {d}]
        /\ context' = [context EXCEPT ![f][d] = c]
        /\ late' = IF Closing(f) THEN late \cup {c} ELSE late
        /\ UNCHANGED <<call, canceled, cbs, timer, scheduled, calls, fdVars, held>>
    BY Zenon, <1>1 DEF AddEvent, AddMask, Stay, Return, Goto, TypeOK
  <1>3. TypeOK'
    <2>1. pc' \in [Cos -> Places]
      BY Zenon, GotoType DEF Places
    <2>2. statuses' \in [Fds -> SUBSET Dirs] /\ context' \in [Fds -> [Dirs -> Cos \cup {None}]]
      BY ZenonT(30), <1>1, <1>2 DEF TypeOK
    <2>3. interest' \in [Fds -> SUBSET Dirs] /\ edge' \in [Fds -> BOOLEAN] /\ UNCHANGED <<opens, open, ready>>
      BY ZenonT(30), <1>1, <1>2 DEF Register, TypeOK
    <2> QED
      BY Zenon, <1>2, <2>1, <2>2, <2>3 DEF TypeOK, fdVars
  <1>4. CallInv'
    BY Zenon, <1>1, <1>2 DEF CallInv, Goto, TypeOK
  <1>5. \A o \in Cos : Waiting(o)' <=> Waiting(o) \/ o = c
    BY Zenon DEF Waiting, Goto, TypeOK
  <1>6. \A g \in Fds, x \in Dirs :
           /\ context'[g][x] = IF g = f /\ x = d THEN c ELSE context[g][x]
           /\ x \in statuses'[g] <=> x \in statuses[g] \/ (g = f /\ x = d)
    BY Zenon, <1>1, <1>2 DEF TypeOK
  <1>7. ~Waiting(c) /\ c # None /\ c \notin scheduled
    BY Zenon, <1>1, NotNone DEF Waiting, ContextInv
  <1>8. ContextInv'
    <2>1. ASSUME NEW g \in Fds, NEW x \in Dirs
          PROVE  /\ x \in statuses'[g] <=> context'[g][x] # None
                 /\ context'[g][x] # None => LET o == context'[g][x]
                                             IN  /\ pc'[o] = "waiting" /\ o \notin scheduled'
                                                 /\ call'[o].fd = g /\ call'[o].dir = x
      <3>1. context[g][x] # None => context[g][x] \in Cos
        BY DEF TypeOK
      <3>2. CASE g = f /\ x = d
        BY <1>2, <1>5, <1>6, <1>7, <3>2 DEF Waiting
      <3>3. CASE ~(g = f /\ x = d)
        <4>1. context'[g][x] = context[g][x] /\ (x \in statuses'[g] <=> x \in statuses[g])
          BY Zenon, <1>6, <3>3
        <4> QED
          BY <1>2, <1>5, <3>1, <4>1 DEF ContextInv, Waiting
      <3> QED
        BY Zenon, <3>2, <3>3
    <2>2. ASSUME NEW o \in Cos
          PROVE  /\ Waiting(o)' /\ o \notin scheduled' => context'[call'[o].fd][call'[o].dir] = o
                 /\ o \in scheduled' => Waiting(o)'
      <3>1. o # c /\ Waiting(o) => call[o].fd \in Fds /\ call[o].dir \in Dirs
        BY Zenon DEF CallInv, Calls, Waiting
      <3>2. o # c /\ Waiting(o) /\ o \notin scheduled => ~(call[o].fd = f /\ call[o].dir = d)
        BY Zenon, <1>2, WaiterInContext
      <3> QED
        BY <1>1, <1>2, <1>5, <1>6, <3>1, <3>2 DEF ContextInv
    <2> QED
      BY Zenon, <2>1, <2>2 DEF ContextInv, Waiting
  <1>9. late \subseteq late' /\ (Closing(f) => c \in late')
    BY Zenon, <1>2
  <1>10. \A g \in Fds : g # f => statuses'[g] = statuses[g] /\ (AllLate(g) => AllLate(g)')
    BY Zenon, <1>1, <1>2, <1>9 DEF AllLate, TypeOK
  <1>11. InterestInv'
    BY ZenonT(30), <1>1, <1>2, <1>10 DEF InterestInv, Register, CanAdd, CanChange, TypeOK
  <1>12. \A g \in Fds : Closing(g)' => Closing(g)
    BY Zenon, <1>1, <1>2 DEF Closing, Goto, TypeOK
  <1>13. ClosingInv'
    <2>1. Closing(f) => AllLate(f)'
      <3>1. statuses'[f] \subseteq Dirs
        BY Zenon, <1>1, <1>3 DEF TypeOK
      <3> QED
        BY <1>1, <1>6, <1>9, <3>1 DEF ClosingInv, AllLate
    <2> QED
      BY Zenon, <1>10, <1>12, <2>1 DEF ClosingInv
  <1>14. ReadyWaiterWakes'
    <2>1. ASSUME NEW o \in Cos, Triggered(o)'
          PROVE  /\ call'[o] \in Calls
                 /\ call'[o].fd = f => call'[o].dir \in statuses[f] \cup {d}
                 /\ call'[o].fd # f => Triggered(o) /\ call'[o] = call[o]
      <3>1. call' = call /\ scheduled' = scheduled /\ ready' = ready
        BY Zenon, <1>2 DEF Register
      <3>2. CASE o = c
        BY Zenon, <1>1, <3>1, <3>2
      <3>3. CASE o # c
        <4>1. Triggered(o)
          BY Zenon, <1>5, <1>9, <2>1, <3>1, <3>3 DEF Triggered, Reported
        <4>2. call[o] \in Calls /\ call[o].dir \in statuses[call[o].fd]
          BY Zenon, <4>1, WaiterInContext DEF Triggered
        <4> QED
          BY Zenon, <3>1, <3>3, <4>1, <4>2
      <3> QED
        BY Zenon, <3>2, <3>3
    <2>2. statuses[f] \cup {d} \in SUBSET Dirs
      BY Zenon, <1>1 DEF TypeOK
    <2>3. \A i \in Idlers : \A e \in held[i] : e.fd # f => e \in held'[i]
      BY Zenon, <1>2
    <2>4. \A g \in Fds : g # f => statuses'[g] = statuses[g]
      BY Zenon, <1>10
    <2>5. Register(f, statuses[f] \cup {d})
      BY Zenon, <1>2
    <2>6. WaitersOf(f, statuses[f] \cup {d})
      BY Zenon, <2>1 DEF WaitersOf
    <2> QED
      BY Zenon, <2>2, <2>3, <2>4, <2>5, <2>6, RegisterReady
  <1> QED
    BY Zenon, <1>3, <1>4, <1>8, <1>11, <1>13, <1>14

LEMMA AddEventStep ==
    ASSUME IInv, NEW c \in Cos, AddEvent(c)
    PROVE  IInv'
  <1>1. CASE Goto(c, "waiting")
    BY Zenon, <1>1, AddedStep
  <1>2. CASE ~Goto(c, "waiting")
    <2> USE DEF IInv
    <2>1. /\ pc[c] = "add" /\ Return(c) /\ timer' = [timer EXCEPT ![c] = FALSE]
          /\ UNCHANGED <<kernelVars, statuses, context, late, scheduled, calls, fdVars, held>>
      BY Zenon, <1>2 DEF AddEvent
    <2>2. pc' \in [Cos -> Places] /\ cbs' \subseteq Callbacks
      BY Zenon, <2>1, GotoType DEF Return, Places, TypeOK
    <2>3. TypeOK'
      BY Zenon, <2>1, <2>2 DEF TypeOK, Return, kernelVars, fdVars
    <2>4. CallInv'
      BY Zenon, <2>1 DEF TypeOK, CallInv, Return, Goto
    <2>5. WaitersStay
      BY Zenon, <2>1, OneMoves DEF Return, Waiting
    <2>6. \A g \in Fds : Closing(g)' => Closing(g)
      BY Zenon, <2>1 DEF Closing, Return, Goto, TypeOK
    <2> QED
      BY Zenon, <2>1, <2>3, <2>4, <2>5, <2>6, QuietStep DEF kernelVars, contextVars
  <1> QED
    BY Zenon, <1>1, <1>2

(* The coroutine that is resumed is in no context any more, so that nobody *)
(* misses it among the late ones.                                          *)
LEMMA ResumeStep ==
    ASSUME IInv, NEW c \in Cos, Resume(c)
    PROVE  IInv'
  <1> USE DEF IInv
  <1>1. /\ Waiting(c) /\ c \in scheduled /\ scheduled' = scheduled \ {c} /\ late' = late \ {c}
        /\ timer' = [timer EXCEPT ![c] = FALSE] /\ Goto(c, "woken")
        /\ UNCHANGED <<kernelVars, statuses, context, call, calls, canceled, fdVars, held, cbs>>
    BY Zenon DEF Resume, Waiting
  <1>2. TypeOK'
    <2>1. pc' \in [Cos -> Places]
      BY Zenon, <1>1, GotoType DEF Places
    <2> QED
      BY Zenon, <1>1, <2>1 DEF TypeOK, kernelVars, fdVars
  <1>3. CallInv'
    BY Zenon, <1>1 DEF CallInv, Goto, TypeOK, Waiting
  <1>4. \A o \in Cos : Waiting(o)' <=> Waiting(o) /\ o # c
    BY Zenon, <1>1 DEF Waiting, Goto, TypeOK
  <1>5. \A g \in Fds, d \in Dirs : context[g][d] # None => context[g][d] \in Cos /\ context[g][d] # c
    BY <1>1 DEF ContextInv, TypeOK
  <1>6. ContextInv'
    <2>1. ASSUME NEW g \in Fds, NEW d \in Dirs
          PROVE  /\ d \in statuses'[g] <=> context'[g][d] # None
                 /\ context'[g][d] # None => LET o == context'[g][d]
                                             IN  /\ pc'[o] = "waiting" /\ o \notin scheduled'
                                                 /\ call'[o].fd = g /\ call'[o].dir = d
      <3>1. d \in statuses[g] <=> context[g][d] # None
        BY Zenon DEF ContextInv
      <3>2. statuses' = statuses /\ context' = context /\ call' = call /\ scheduled' \subseteq scheduled
        BY Zenon, <1>1
      <3>3. CASE context[g][d] # None
        BY <1>4, <1>5, <3>1, <3>2, <3>3 DEF ContextInv, Waiting
      <3> QED
        BY Zenon, <3>1, <3>2, <3>3
    <2>2. ASSUME NEW o \in Cos
          PROVE  /\ Waiting(o)' /\ o \notin scheduled' => context'[call'[o].fd][call'[o].dir] = o
                 /\ o \in scheduled' => Waiting(o)'
      BY Zenon, <1>1, <1>4 DEF ContextInv
    <2> QED
      BY Zenon, <2>1, <2>2 DEF ContextInv, Waiting
  <1>7. \A g \in Fds : AllLate(g) => AllLate(g)'
    <2>1. \A g \in Fds : \A d \in statuses[g] : d \in Dirs /\ context[g][d] # None
      BY Zenon DEF ContextInv, TypeOK
    <2> QED
      BY Zenon, <1>1, <1>5, <2>1 DEF AllLate
  <1>8. InterestInv'
    BY Zenon, <1>1, <1>7 DEF InterestInv, kernelVars
  <1>9. ClosingInv'
    <2>1. \A g \in Fds : Closing(g)' => Closing(g)
      BY Zenon, <1>1 DEF Closing, Goto, TypeOK, Waiting
    <2> QED
      BY Zenon, <1>7, <2>1 DEF ClosingInv
  <1>10. ReadyWaiterWakes'
    <2> SUFFICES ASSUME NEW o \in Cos, Triggered(o)', (call[o].dir = "READ" => "ERR" \notin ready[call[o].fd])'
                 PROVE  Coming(call[o].fd)'
      BY Zenon DEF ReadyWaiterWakes
    <2>1. Triggered(o)
      BY Zenon, <1>1, <1>4 DEF Triggered, Reported, kernelVars
    <2>2. Coming(call[o].fd)
      BY Zenon, <1>1, <2>1 DEF ReadyWaiterWakes, kernelVars
    <2> QED
      BY Zenon, <1>1, <2>2 DEF Coming, kernelVars
  <1> QED
    BY Zenon, <1>2, <1>3, <1>6, <1>8, <1>9, <1>10

(* The registration goes with the descriptor; who still waits is late. *)
LEMMA CloseFdStep ==
    ASSUME IInv, NEW c \in Cos, CloseFd(c)
    PROVE  IInv'
  <1> USE DEF IInv
  <1>1. call[c].fd \in Fds /\ Closing(call[c].fd)
    BY Zenon DEF CloseFd, CallInv, Calls, Closing
  <1> SUFFICES ASSUME NEW f \in Fds, call[c].fd = f
               PROVE  IInv'
    BY Zenon, <1>1
  <1>2. /\ open' = [open EXCEPT ![f] = FALSE] /\ ready' = [ready EXCEPT ![f] = {}]
        /\ interest' = [interest EXCEPT ![f] = {}] /\ edge' = [edge EXCEPT ![f] = FALSE]
        /\ Return(c) /\ pc[c] = "closeFd"
        /\ UNCHANGED <<opens, contextVars, calls, timer, fdVars, held, late>>
    BY Zenon DEF CloseFd
  <1>3. TypeOK'
    <2>1. pc' \in [Cos -> Places] /\ cbs' \subseteq Callbacks
      BY Zenon, <1>2, GotoType DEF Return, Places, TypeOK
    <2>2. open' \in [Fds -> BOOLEAN] /\ ready' \in [Fds -> SUBSET (Dirs \cup {"ERR"})]
      BY Zenon, <1>2 DEF TypeOK
    <2>3. interest' \in [Fds -> SUBSET Dirs] /\ edge' \in [Fds -> BOOLEAN]
      BY Zenon, <1>2 DEF TypeOK
    <2> QED
      BY Zenon, <1>2, <2>1, <2>2, <2>3 DEF TypeOK, Return, contextVars, fdVars
  <1>4. CallInv'
    BY Zenon, <1>2 DEF TypeOK, CallInv, Return, Goto
  <1>5. WaitersStay
    BY Zenon, <1>2, OneMoves DEF Return, Waiting
  <1>6. ContextInv'
    BY Zenon, <1>2, <1>5, ContextFrame
  <1>7. InterestInv'
    <2>1. AllLate(f)
      BY Zenon, <1>1 DEF ClosingInv
    <2>2. \A g \in Fds : AllLate(g) => AllLate(g)'
      BY Zenon, <1>2 DEF AllLate, contextVars
    <2> QED
      BY Zenon, <1>2, <2>1, <2>2 DEF InterestInv, contextVars, TypeOK
  <1>8. ClosingInv'
    <2>1. \A g \in Fds : Closing(g)' => Closing(g)
      BY Zenon, <1>2 DEF Closing, Return, Goto, TypeOK
    <2> QED
      BY Zenon, <1>2, <2>1, ClosingFrame DEF contextVars
  <1>9. ReadyWaiterWakes'
    <2> SUFFICES ASSUME NEW o \in Cos, Triggered(o)', (call[o].dir = "READ" => "ERR" \notin ready[call[o].fd])'
                 PROVE  Coming(call[o].fd)'
      BY Zenon DEF ReadyWaiterWakes
    <2>1. Waiting(o) /\ call'[o] = call[o] /\ o \notin scheduled \cup late
      BY Zenon, <1>2, <1>5 DEF Triggered, WaitersStay, contextVars
    <2>2. call[o].fd \in Fds
      BY Zenon, <2>1 DEF CallInv, Calls, Waiting
    <2>3. call[o].fd # f /\ ready'[call[o].fd] = ready[call[o].fd] /\ edge'[call[o].fd] = edge[call[o].fd]
      BY Zenon, <1>2, <2>1, <2>2 DEF Triggered, Reported, TypeOK
    <2>4. Triggered(o)
      BY Zenon, <2>1, <2>3 DEF Triggered, Reported
    <2>5. Coming(call[o].fd)
      BY Zenon, <2>1, <2>3, <2>4 DEF ReadyWaiterWakes
    <2> QED
      BY Zenon, <1>2, <2>1, <2>3, <2>5 DEF Coming, contextVars
  <1> QED
    BY Zenon, <1>3, <1>4, <1>6, <1>7, <1>8, <1>9

LEMMA OpenStep ==
    ASSUME IInv, NEW f \in Fds, Open(f)
    PROVE  IInv'
  <1> USE DEF IInv
  <1>1. UNCHANGED <<ready, interest, edge, contextVars, callVars, held, cbs, late>>
    BY Zenon DEF Open
  <1>2. opens' \in [Fds -> 0 .. MaxOpens]
    BY SocketAssumption DEF Open, TypeOK
  <1>3. open' \in [Fds -> BOOLEAN] /\ known' \in [Fds -> BOOLEAN] /\ mode' \in [Fds -> {"hooks", "user", "kernel"}]
    BY Zenon DEF Open, AddFd, FDEntityInit, TypeOK
  <1>4. TypeOK'
    BY Zenon, <1>1, <1>2, <1>3 DEF TypeOK, contextVars, callVars
  <1>5. CallInv' /\ WaitersStay /\ \A g \in Fds : Closing(g)' => Closing(g)
    BY Zenon, <1>1 DEF CallInv, WaitersStay, Waiting, Closing, callVars
  <1>6. InterestInv'
    <2>1. \A g \in Fds : open[g] => open'[g]
      BY Zenon DEF Open, TypeOK
    <2> QED
      BY Zenon, <1>1, <2>1 DEF InterestInv, AllLate, contextVars
  <1>7. ContextInv' /\ ClosingInv' /\ ReadyWaiterWakes'
    BY Zenon, <1>1, <1>5, ContextFrame, ClosingFrame, ReadyFrame DEF contextVars
  <1> QED
    BY Zenon, <1>4, <1>5, <1>6, <1>7

(* A call that waits has its event registered, so that what it waits for   *)
(* makes a report due when it happens.                                     *)
LEMMA WaiterRegistered ==
    ASSUME IInv, NEW c \in Cos, Waiting(c), c \notin scheduled \cup late
    PROVE  /\ call[c].fd \in Fds /\ call[c].dir \in Dirs
           /\ call[c].dir \in statuses[call[c].fd]
           /\ interest[call[c].fd] = statuses[call[c].fd]
  <1> USE DEF IInv
  <1>1. /\ call[c].fd \in Fds /\ call[c].dir \in Dirs
        /\ context[call[c].fd][call[c].dir] = c /\ call[c].dir \in statuses[call[c].fd]
    BY Zenon, WaiterInContext
  <1>2. ~AllLate(call[c].fd)
    BY Zenon, <1>1 DEF AllLate
  <1> QED
    BY Zenon, <1>1, <1>2 DEF InterestInv

LEMMA BecomeReadyStep ==
    ASSUME IInv, NEW f \in Fds, NEW what \in Dirs \cup {"ERR"}, BecomeReady(f, what)
    PROVE  IInv'
  <1> USE DEF IInv
  <1>1. UNCHANGED <<opens, open, interest, contextVars, callVars, fdVars, held, cbs, late>>
    BY Zenon DEF BecomeReady
  <1>2. \A g \in Fds : /\ ready'[g] = IF g = f THEN ready[g] \cup {what} ELSE ready[g]
                       /\ edge[g] => edge'[g]
                       /\ g = f /\ interest[g] # {} /\ what \in interest[g] \cup {"ERR"} => edge'[g]
    BY Zenon DEF BecomeReady, TypeOK
  <1>3. ready' \in [Fds -> SUBSET (Dirs \cup {"ERR"})] /\ edge' \in [Fds -> BOOLEAN]
    BY Zenon DEF BecomeReady, TypeOK
  <1>4. TypeOK'
    BY Zenon, <1>1, <1>3 DEF TypeOK, contextVars, callVars, fdVars
  <1>5. CallInv' /\ WaitersStay /\ \A g \in Fds : Closing(g)' => Closing(g)
    BY Zenon, <1>1 DEF CallInv, WaitersStay, Waiting, Closing, callVars
  <1>6. ContextInv' /\ ClosingInv' /\ InterestInv'
    BY Zenon, <1>1, <1>5, ContextFrame, ClosingFrame, InterestFrame DEF contextVars
  <1>7. ReadyWaiterWakes'
    <2> SUFFICES ASSUME NEW c \in Cos, Triggered(c)', (call[c].dir = "READ" => "ERR" \notin ready[call[c].fd])'
                 PROVE  Coming(call[c].fd)'
      BY Zenon DEF ReadyWaiterWakes
    <2>1. Waiting(c) /\ c \notin scheduled \cup late /\ call' = call
      BY Zenon, <1>1 DEF Triggered, Waiting, contextVars, callVars
    <2>2. /\ call[c].fd \in Fds /\ call[c].dir \in statuses[call[c].fd]
          /\ interest[call[c].fd] = statuses[call[c].fd]
      BY Zenon, <2>1, WaiterRegistered
    <2>3. CASE Reported(call[c].fd, {call[c].dir}) # {}
      <3>1. Triggered(c)
        BY Zenon, <2>1, <2>3 DEF Triggered
      <3>2. Coming(call[c].fd)
        BY Zenon, <1>2, <2>1, <2>2, <3>1 DEF ReadyWaiterWakes
      <3> QED
        BY Zenon, <1>1, <1>2, <2>1, <2>2, <3>2 DEF Coming, contextVars
    <2>4. CASE Reported(call[c].fd, {call[c].dir}) = {}
      <3>1. call[c].fd = f /\ what \in {call[c].dir, "ERR"}
        BY Zenon, <1>2, <2>1, <2>2, <2>4 DEF Triggered, Reported
      <3> QED
        BY Zenon, <1>2, <2>1, <2>2, <3>1 DEF Coming
    <2> QED
      BY Zenon, <2>3, <2>4
  <1> QED
    BY Zenon, <1>4, <1>5, <1>6, <1>7

(* A report that is taken is one that its waiter is woken by: an event of  *)
(* the registration, and RealStatus picks one that is waited for.          *)
LEMMA EpollWaitStep ==
    ASSUME IInv, NEW i \in Idlers, EpollWait(i)
    PROVE  IInv'
  <1> USE DEF IInv
  <1>1. PICK fs \in SUBSET {f \in Fds : edge[f] /\ Reported(f, interest[f]) # {}} :
           /\ held[i] = {}
           /\ held' = [held EXCEPT ![i] = {[fd |-> f, events |-> Reported(f, interest[f])] : f \in fs}]
           /\ edge' = [f \in Fds |-> edge[f] /\ f \notin fs]
           /\ UNCHANGED <<opens, open, ready, interest, contextVars, callVars, fdVars, cbs, late>>
    BY Zenon DEF EpollWait
  <1> DEFINE Events == (SUBSET (Dirs \cup {"ERR"})) \ {{}}
             new == {[fd |-> f, events |-> Reported(f, interest[f])] : f \in fs}
  <1>2. new \subseteq [fd : Fds, events : Events]
    <2>1. ASSUME NEW f \in fs
          PROVE  f \in Fds /\ Reported(f, interest[f]) \in Events
      <3>1. f \in Fds /\ Reported(f, interest[f]) # {}
        OBVIOUS
      <3>2. Reported(f, interest[f]) \subseteq Dirs \cup {"ERR"}
        BY Zenon, <3>1 DEF Reported, TypeOK
      <3> QED
        BY Zenon, <3>1, <3>2
    <2> HIDE DEF Events
    <2>2. \A g \in Fds, ev \in Events : [fd |-> g, events |-> ev] \in [fd : Fds, events : Events]
      OBVIOUS
    <2>3. ASSUME NEW f \in fs
          PROVE  [fd |-> f, events |-> Reported(f, interest[f])] \in [fd : Fds, events : Events]
      BY Zenon, <2>1, <2>2
    <2> QED
      BY Zenon, <2>3
  <1>3. held' \in [Idlers -> SUBSET [fd : Fds, events : Events]]
    <2>1. held \in [Idlers -> SUBSET [fd : Fds, events : Events]] /\ held' = [held EXCEPT ![i] = new]
      BY Zenon, <1>1 DEF TypeOK
    <2> HIDE DEF Events, new
    <2> QED
      BY Zenon, <1>2, <2>1
  <1>4. edge' \in [Fds -> BOOLEAN]
    BY Zenon, <1>1 DEF TypeOK
  <1>5. TypeOK'
    BY Zenon, <1>1, <1>3, <1>4 DEF TypeOK, contextVars, callVars, fdVars
  <1>6. CallInv' /\ WaitersStay /\ \A g \in Fds : Closing(g)' => Closing(g)
    BY Zenon, <1>1 DEF CallInv, WaitersStay, Waiting, Closing, callVars
  <1>7. ContextInv' /\ ClosingInv' /\ InterestInv'
    BY Zenon, <1>1, <1>6, ContextFrame, ClosingFrame, InterestFrame DEF contextVars
  <1>8. ReadyWaiterWakes'
    <2> SUFFICES ASSUME NEW c \in Cos, Triggered(c)', (call[c].dir = "READ" => "ERR" \notin ready[call[c].fd])'
                 PROVE  Coming(call[c].fd)'
      BY Zenon DEF ReadyWaiterWakes
    <2>1. Waiting(c) /\ c \notin scheduled \cup late /\ call' = call /\ ready' = ready /\ statuses' = statuses
      BY Zenon, <1>1 DEF Triggered, Waiting, contextVars, callVars
    <2>2. /\ call[c].fd \in Fds /\ call[c].dir \in Dirs /\ call[c].dir \in statuses[call[c].fd]
          /\ interest[call[c].fd] = statuses[call[c].fd]
      BY Zenon, <2>1, WaiterRegistered
    <2>3. Triggered(c) /\ (call[c].dir = "READ" => "ERR" \notin ready[call[c].fd])
      BY Zenon, <2>1 DEF Triggered, Reported
    <2>4. Coming(call[c].fd)
      BY Zenon, <2>3 DEF ReadyWaiterWakes
    <2>5. CASE call[c].fd \in fs
      <3> DEFINE e == [fd |-> call[c].fd, events |-> Reported(call[c].fd, interest[call[c].fd])]
      <3>1. e \in held'[i] /\ e.fd = call[c].fd /\ e.events = Reported(call[c].fd, interest[call[c].fd])
        BY Zenon, <1>1, <2>5 DEF TypeOK
      <3>2. RealStatus(e.events) \in statuses[call[c].fd]
        <4>1. \/ {"ERR", "WRITE"} \cap e.events # {} /\ "WRITE" \in statuses[call[c].fd]
              \/ {"ERR", "WRITE"} \cap e.events = {} /\ call[c].dir = "READ"
          <5>1. call[c].dir = "READ" \/ call[c].dir = "WRITE"
            BY Zenon, <2>2 DEF Dirs
          <5>2. e.events = ready[call[c].fd] \cap (statuses[call[c].fd] \cup {"ERR"})
            BY Zenon, <2>2, <3>1 DEF Reported
          <5>3. ready[call[c].fd] \cap {call[c].dir, "ERR"} # {}
            BY Zenon, <2>3 DEF Triggered, Reported
          <5> QED
            BY Zenon, <2>2, <2>3, <5>1, <5>2, <5>3
        <4> QED
          BY Zenon, <2>2, <4>1 DEF RealStatus
      <3> QED
        BY Zenon, <2>1, <3>1, <3>2 DEF Coming
    <2>6. CASE call[c].fd \notin fs
      <3>1. edge[call[c].fd] => edge'[call[c].fd]
        BY Zenon, <1>1, <2>2, <2>6
      <3>2. \A j \in Idlers : held[j] \subseteq held'[j]
        BY Zenon, <1>1 DEF TypeOK
      <3> QED
        BY Zenon, <2>1, <2>4, <3>1, <3>2 DEF Coming
    <2> QED
      BY Zenon, <2>5, <2>6
  <1> QED
    BY Zenon, <1>5, <1>6, <1>7, <1>8

-----------------------------------------------------------------------------
(* The theorems *)

LEMMA Initially == Init => IInv
  <1> SUFFICES ASSUME Init PROVE IInv
    OBVIOUS
  <1>1. TypeOK
    <2>1. pc \in [Cos -> Places]
      BY Zenon DEF Init, Places
    <2>2. held \in [Idlers -> SUBSET [fd : Fds, events : (SUBSET (Dirs \cup {"ERR"})) \ {{}}]]
      BY Zenon DEF Init
    <2> QED
      BY <2>1, <2>2, SocketAssumption DEF Init, TypeOK, FDEntityInit
  <1>2. CallInv /\ ContextInv /\ InterestInv /\ ClosingInv
    BY Zenon DEF Init, CallInv, ContextInv, InterestInv, ClosingInv, AllLate, Closing, Waiting
  <1>3. ReadyWaiterWakes
    BY Zenon DEF Init, ReadyWaiterWakes, Triggered, Waiting
  <1> QED
    BY Zenon, <1>1, <1>2, <1>3 DEF IInv

LEMMA NextStep == IInv /\ [Next]_vars => IInv'
  <1> SUFFICES ASSUME IInv, [Next]_vars PROVE IInv'
    OBVIOUS
  <1>1. CASE UNCHANGED vars
    <2>1. UNCHANGED <<kernelVars, contextVars, callVars, fdVars, held, cbs, late>>
      BY Zenon, <1>1 DEF vars
    <2>2. TypeOK'
      BY Zenon, <2>1 DEF IInv, TypeOK, kernelVars, contextVars, callVars, fdVars
    <2> QED
      BY Zenon, <2>1, <2>2, StandStep DEF kernelVars, callVars
  <1>2. ASSUME NEW c \in Cos, UserStep(c)
        PROVE  IInv'
    BY Zenon, <1>2, UserStepInv, CloseBeginStep DEF UserStep, Dirs
  <1>3. ASSUME NEW c \in Cos, CallStep(c)
        PROVE  IInv'
    BY Zenon, <1>3, TryStep, ArmTimerStep, AddEventStep, ResumeStep, WokenStep, CancelStep,
       CloseLockStep, DelFdStep, CloseFdStep DEF CallStep
  <1>4. ASSUME NEW b \in cbs, CbStep(b)
        PROVE  IInv'
    BY Zenon, <1>4, CbLockStep, CbCancelStep DEF CbStep
  <1>5. ASSUME NEW i \in Idlers, IdleStep(i)
        PROVE  IInv'
    BY Zenon, <1>5, EpollWaitStep, HandleEventStep DEF IdleStep
  <1>6. CASE KernelStep
    BY Zenon, <1>6, OpenStep, BecomeReadyStep DEF KernelStep
  <1> QED
    BY Zenon, <1>1, <1>2, <1>3, <1>4, <1>5, <1>6, ExpireStep DEF Next

LEMMA Exact == IInv => OneWakeupPerWait /\ RegistrationExact
  <1> SUFFICES ASSUME IInv PROVE OneWakeupPerWait /\ RegistrationExact
    OBVIOUS
  <1> USE DEF IInv
  <1>1. ASSUME NEW c \in Cos
        PROVE  LET held_in == {fd \in Fds \X Dirs : context[fd[1]][fd[2]] = c}
               IN  IF Waiting(c) /\ c \notin scheduled
                   THEN held_in = {<<call[c].fd, call[c].dir>>} /\ call[c].dir \in statuses[call[c].fd]
                   ELSE held_in = {} /\ (c \in scheduled => Waiting(c))
    <2> DEFINE held_in == {fd \in Fds \X Dirs : context[fd[1]][fd[2]] = c}
    <2>1. \A fd \in held_in : Waiting(c) /\ c \notin scheduled /\ fd = <<call[c].fd, call[c].dir>>
      <3>1. ASSUME NEW f \in Fds, NEW d \in Dirs, context[f][d] = c
            PROVE  Waiting(c) /\ c \notin scheduled /\ call[c].fd = f /\ call[c].dir = d
        <4>1. context[f][d] # None
          BY Zenon, <3>1, NotNone
        <4> QED
          BY Zenon, <3>1, <4>1 DEF ContextInv
      <3> QED
        BY <3>1
    <2>2. ASSUME Waiting(c), c \notin scheduled
          PROVE  <<call[c].fd, call[c].dir>> \in held_in /\ call[c].dir \in statuses[call[c].fd]
      BY Zenon, <2>2, WaiterInContext
    <2>3. c \in scheduled => Waiting(c)
      BY Zenon DEF ContextInv
    <2> QED
      BY Zenon, <2>1, <2>2, <2>3
  <1>2. ASSUME NEW f \in Fds
        PROVE  interest[f] = statuses[f] \/ \E c \in late : call[c].fd = f
    <2>1. SUFFICES ASSUME interest[f] # statuses[f]
                   PROVE  \E c \in late : call[c].fd = f
      OBVIOUS
    <2>2. PICK d \in statuses[f] : d \in Dirs /\ context[f][d] \in late
      <3>1. AllLate(f) /\ statuses[f] # {} /\ statuses[f] \subseteq Dirs
        BY Zenon, <2>1 DEF InterestInv, TypeOK
      <3> QED
        BY Zenon, <3>1 DEF AllLate
    <2> QED
      BY Zenon, <2>2 DEF ContextInv
  <1> QED
    BY Zenon, <1>1, <1>2 DEF OneWakeupPerWait, RegistrationExact

(* The inductive invariant holds in every state of the socket calls. *)
THEOREM Invariance == Spec => []IInv
  BY Initially, NextStep, PTL DEF Spec

(* The variables have their types, and trigger_event() only meets contexts *)
(* that hold a coroutine.                                                  *)
THEOREM TypeCorrect == Spec => []TypeOK
  <1>1. IInv => TypeOK
    BY Zenon DEF IInv
  <1> QED
    BY <1>1, Invariance, PTL

(* However events, time-outs, cancel_event() and close() race, a waiting   *)
(* coroutine has exactly one wake-up to come.                              *)
THEOREM WakeupOnce == Spec => []OneWakeupPerWait
  BY Invariance, Exact, PTL

(* statuses is what epoll has registered, unless a late call waits. *)
THEOREM Registered == Spec => []RegistrationExact
  BY Invariance, Exact, PTL

(* No event is lost on the way to the call that waits for it. *)
THEOREM NoEventLost == Spec => []ReadyWaiterWakes
  <1>1. IInv => ReadyWaiterWakes
    BY Zenon DEF IInv
  <1> QED
    BY <1>1, Invariance, PTL
====
