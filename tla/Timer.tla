-------------------------------- MODULE Timer --------------------------------
(***************************************************************************)
(* homework/hw2/prob3/timer.c: a kernel module whose timer callback arms    *)
(* its own timer again, against the removal of the module.                  *)
(*                                                                         *)
(* The kernel is external: an armed timer expires `left' ticks from now, is *)
(* taken off the list and its callback runs in a softirq.  On one processor *)
(* the softirq finishes before the interrupted code goes on; on several it  *)
(* runs next to it.  del_timer takes a pending timer off the list and does  *)
(* not wait for a callback that is running.                                 *)
(***************************************************************************)
EXTENDS Integers

CONSTANT TIMER_MS  \* the period, in ticks of the model

ASSUME TimerAssumption == TIMER_MS \in Nat \ {0}

VARIABLES
  smp,     \* whether the machine has more than one processor
  module,  \* "out", "init" (in timer_init), "live", "exit" (in timer_cleanup),
           \* "deleted" (del_timer has returned)
  armed,   \* `time' is on the kernel's list
  left,    \* ticks until it expires
  cb,      \* "none", "entered", or "rearmed": where timer_cb is
  since,   \* ticks since timer_cb was entered, at most TIMER_MS
  stale,   \* what still refers to a module that was freed
  crashed,
  raced    \* history: some del_timer found the callback running

timerVars == <<smp, module, armed, left, cb, since, stale, crashed, raced>>

machine == <<smp, crashed>>

(* Code outside the softirq runs when no callback does, or beside it. *)
Process == ~crashed /\ (smp \/ cb = "none")

(* A mutant: one tick too many. *)
ModTimerLate == armed' = TRUE /\ left' = TIMER_MS + 1

mod_timer == armed' = TRUE /\ left' = TIMER_MS
----------------------------------------------------------------------------
(* The module.                                                             *)

(* The module's own memory is new each time it is loaded. *)
Insmod ==
  /\ Process /\ module = "out" /\ module' = "init"
  /\ UNCHANGED <<armed, left, cb, since, stale, raced, machine>>

timer_init ==
  /\ Process /\ module = "init" /\ module' = "live"
  /\ mod_timer /\ since' = 0
  /\ UNCHANGED <<cb, stale, raced, machine>>

Rmmod ==
  /\ Process /\ module = "live" /\ module' = "exit"
  /\ UNCHANGED <<armed, left, cb, since, stale, raced, machine>>

(* A mutant: the timer is left to expire. *)
DeleteNothing ==
  /\ Process /\ module = "exit" /\ module' = "deleted"
  /\ raced' = (raced \/ cb # "none")
  /\ UNCHANGED <<armed, left, cb, since, stale, machine>>

timer_cleanup ==
  /\ Process /\ module = "exit" /\ module' = "deleted"
  /\ armed' = FALSE /\ left' = 0
  /\ raced' = (raced \/ cb # "none")
  /\ UNCHANGED <<cb, since, stale, machine>>

(* timer_cleanup has returned: the kernel frees the module's code and data. *)
FreeModule ==
  /\ Process /\ module = "deleted" /\ module' = "out"
  /\ stale' = stale \cup (IF armed THEN {"timer"} ELSE {})
                    \cup (IF cb # "none" THEN {"callback"} ELSE {})
  /\ armed' = FALSE /\ left' = 0 /\ cb' = "none" /\ since' = 0
  /\ UNCHANGED <<raced, machine>>

(* The callback of a freed module goes on, or its timer expires. *)
UseAfterFree ==
  /\ ~crashed /\ stale # {}
  /\ crashed' = TRUE
  /\ UNCHANGED <<smp, module, armed, left, cb, since, stale, raced>>
----------------------------------------------------------------------------
(* The softirq.                                                            *)

Tick ==
  /\ ~crashed
  /\ left > 0 \/ since < TIMER_MS
  /\ left' = IF left > 0 THEN left - 1 ELSE 0
  /\ since' = IF since < TIMER_MS THEN since + 1 ELSE since
  /\ UNCHANGED <<module, armed, cb, stale, raced, machine>>

Expire ==
  /\ ~crashed /\ armed /\ left = 0 /\ cb = "none"
  /\ armed' = FALSE /\ cb' = "entered" /\ since' = 0
  /\ UNCHANGED <<module, left, stale, raced, machine>>

(* Mutants: the timer is not armed again, or with nothing left to wait. *)
RearmOnce ==
  /\ ~crashed /\ cb = "entered" /\ cb' = "rearmed"
  /\ UNCHANGED <<module, armed, left, since, stale, raced, machine>>
RearmNow ==
  /\ ~crashed /\ cb = "entered" /\ cb' = "rearmed"
  /\ armed' = TRUE /\ left' = 0
  /\ UNCHANGED <<module, since, stale, raced, machine>>

Rearm ==
  /\ ~crashed /\ cb = "entered" /\ cb' = "rearmed"
  /\ mod_timer
  /\ UNCHANGED <<module, since, stale, raced, machine>>

Return ==
  /\ ~crashed /\ cb = "rearmed" /\ cb' = "none"
  /\ UNCHANGED <<module, armed, left, since, stale, raced, machine>>

timer_cb == Rearm \/ Return
----------------------------------------------------------------------------
TimerInit ==
  /\ smp \in BOOLEAN
  /\ module = "out" /\ armed = FALSE /\ left = 0 /\ cb = "none" /\ since = 0
  /\ stale = {} /\ crashed = FALSE /\ raced = FALSE

(* Nothing happens on a machine that crashed. *)
Halted == crashed /\ UNCHANGED timerVars

TimerNext ==
  \/ Insmod \/ timer_init \/ Rmmod \/ timer_cleanup \/ FreeModule
  \/ UseAfterFree \/ Halted
  \/ Tick \/ Expire \/ timer_cb

(* Time passes, and the processor that runs the timers goes on.  Nothing    *)
(* makes anyone load or remove the module.                                  *)
TimerSpec ==
  /\ TimerInit /\ [][TimerNext]_timerVars
  /\ WF_timerVars(Tick) /\ WF_timerVars(Expire) /\ WF_timerVars(timer_cb)
----------------------------------------------------------------------------
(* Properties.                                                             *)

TimerTypeOK ==
  /\ smp \in BOOLEAN /\ crashed \in BOOLEAN /\ raced \in BOOLEAN
  /\ module \in {"out", "init", "live", "exit", "deleted"}
  /\ armed \in BOOLEAN /\ left \in 0 .. TIMER_MS /\ since \in 0 .. TIMER_MS
  /\ cb \in {"none", "entered", "rearmed"}
  /\ stale \subseteq {"timer", "callback"}

(* timer.c:74: del_timer is enough on one processor, and on several unless  *)
(* it runs while the callback does: only then is the kernel left with a     *)
(* timer or a callback of a module it has freed.                            *)
OnlyARaceCrashes == crashed \/ stale # {} => smp /\ raced

(* timer.c:14, "TIMER_MS (500)": two calls are at least a period apart,     *)
(* however late the first one ran and wherever the module was reloaded.     *)
APeriodApart == [][Expire => since >= TIMER_MS]_timerVars

(* timer.c:35: while the module stays loaded the callback is called again   *)
(* and again.                                                               *)
KeepsFiring ==
  module = "live" /\ cb = "none" ~> cb = "entered" \/ module # "live" \/ crashed
=============================================================================
