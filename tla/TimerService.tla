---------------------------- MODULE TimerService ----------------------------
(***************************************************************************)
(* What TimerManager promises its users, without set, lock or thread: a    *)
(* timer has a deadline while it is pending; when the expired timers are   *)
(* collected, all whose deadline has passed and no others are handed over, *)
(* at once; a callback is live from add_timer() until it is cancelled or,  *)
(* for a one-shot timer, handed over, and never again after that.          *)
(***************************************************************************)
EXTENDS Integers

CONSTANTS Timers, NoDeadline

VARIABLES
    now,
    deadline,   \* of every pending timer
    phase,      \* of its callback: "new", "live", then "dead"
    handed      \* collected callbacks nobody has taken yet

Pending == {t \in Timers : deadline[t] # NoDeadline}
Due == {t \in Pending : deadline[t] <= now}

Init ==
    /\ now = 0
    /\ deadline = [t \in Timers |-> NoDeadline]
    /\ phase = [t \in Timers |-> "new"]
    /\ handed = {}

Pass == now' = now + 1 /\ UNCHANGED <<deadline, phase, handed>>

(* Timer t gets some deadline. *)
SetDeadline(t) ==
    /\ deadline'[t] \in Nat
    /\ deadline' = [deadline EXCEPT ![t] = deadline'[t]]

(* add_timer() *)
Start(t) ==
    /\ phase[t] = "new"
    /\ phase' = [phase EXCEPT ![t] = "live"]
    /\ SetDeadline(t)
    /\ UNCHANGED <<now, handed>>

(* reset_timer() of a timer that is not pending brings back its deadline   *)
(* and not its callback.                                                   *)
Restart(t) ==
    /\ phase[t] = "dead" /\ t \notin Pending
    /\ SetDeadline(t)
    /\ UNCHANGED <<now, phase, handed>>

(* cancel_timer() and cancel_all_timer() *)
Cancel(S) ==
    /\ S \subseteq Pending
    /\ deadline' = [t \in Timers |-> IF t \in S THEN NoDeadline ELSE deadline[t]]
    /\ phase' = [t \in Timers |-> IF t \in S THEN "dead" ELSE phase[t]]
    /\ UNCHANGED <<now, handed>>

(* all_expired_cbs(): the timers in again are loop timers. *)
Expire(again) ==
    /\ again \subseteq Due
    /\ deadline' \in [Timers -> Nat \cup {NoDeadline}]
    /\ \A t \in Timers :
          deadline'[t] = IF t \in again THEN deadline'[t]
                         ELSE IF t \in Due THEN NoDeadline ELSE deadline[t]
    /\ \A t \in again : deadline'[t] # NoDeadline /\ deadline'[t] >= now
    /\ phase' = [t \in Timers |-> IF t \in Due \ again THEN "dead" ELSE phase[t]]
    /\ handed' = handed \cup {t \in Due : phase[t] = "live"}
    /\ UNCHANGED now

(* The scheduler takes callbacks. *)
Take == handed' \subseteq handed /\ UNCHANGED <<now, deadline, phase>>

Next ==
    \/ Pass \/ Take
    \/ \E t \in Timers : Start(t) \/ Restart(t)
    \/ \E S \in SUBSET Timers : Cancel(S) \/ Expire(S)

Spec == Init /\ [][Next]_<<now, deadline, phase, handed>>
=============================================================================
