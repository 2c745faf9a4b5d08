------------------------------- MODULE Prob2 -------------------------------
(***************************************************************************)
(* ex3prob2.c: a mutex, a condition with no predicate, and three sleeps     *)
(* that are to put the two threads in the right order.                      *)
(*                                                                         *)
(* Time passes in ticks of a tenth of a second.  A sleep lasts at least its *)
(* length, and a thread that can take its next step takes it at most        *)
(* MaxLate ticks later.  POSIX promises no such bound, and it lets a wait   *)
(* return with no signal: both constants are what the program needs of the  *)
(* machine it runs on.                                                      *)
(***************************************************************************)
EXTENDS Integers

CONSTANTS
  MaxLate,      \* ticks a thread that can run may be kept from running
  Spurious      \* whether pthread_cond_wait may return unsignalled

ASSUME Prob2Assumption == MaxLate \in Nat /\ Spurious \in BOOLEAN

Threads == {"main", "func", "func1"}
Nobody == "nobody"

VARIABLES
  pc,
  holder,             \* owner of the mutex
  signalled,          \* a waiter has been woken
  synchronized_data,
  tried, locked,      \* what test_func logged at lines 143 and 152, or -1
  timer,              \* what is left of a thread's sleep
  late                \* ticks a thread has been able to run and has not

shared == <<holder, signalled, synchronized_data, tried, locked>>
vars == <<pc, shared, timer, late>>

Goto(t, l) == pc' = [pc EXCEPT ![t] = l] /\ late' = [late EXCEPT ![t] = 0]
Step(t, from, to) == pc[t] = from /\ timer[t] = 0 /\ Goto(t, to)
Awake == UNCHANGED timer
usleep(t, ticks) == timer' = [timer EXCEPT ![t] = ticks]

(* pthread_mutex_lock on a normal mutex: its own owner waits forever too.   *)
lock(t) == holder = Nobody /\ holder' = t
unlock == holder' = Nobody
----------------------------------------------------------------------------
(* main: any failure is a return, which ends the process.                  *)

Return ==
  /\ pc' = [t \in Threads |-> "ended"]
  /\ timer' = [t \in Threads |-> 0] /\ late' = [t \in Threads |-> 0]
  /\ UNCHANGED shared

InitFails == pc["main"] \in {"create", "create1"} /\ Return

Create ==
  /\ pc["main"] = "create"
  /\ pc' = [pc EXCEPT !["main"] = "create1", !["func"] = "start"]
  /\ late' = [late EXCEPT !["main"] = 0, !["func"] = 0]
  /\ Awake /\ UNCHANGED shared

Create1 ==
  /\ pc["main"] = "create1"
  /\ pc' = [pc EXCEPT !["main"] = "join", !["func1"] = "start"]
  /\ late' = [late EXCEPT !["main"] = 0, !["func1"] = 0]
  /\ Awake /\ UNCHANGED shared

Exited(t) == pc[t] \in {"exit", "noAttr"}
Joined == pc["main"] = "join" /\ Exited("func") /\ Exited("func1")
Join == Joined /\ Return
----------------------------------------------------------------------------
(* test_func.                                                              *)

FuncFails == Step("func", "start", "noAttr") /\ Awake /\ UNCHANGED shared

(* A mutant: no sleep before the signal. *)
FuncSleepless == Step("func", "start", "lock") /\ Awake /\ UNCHANGED shared

FuncSleep ==
  Step("func", "start", "lock") /\ usleep("func", 20) /\ UNCHANGED shared

FuncLock ==
  /\ Step("func", "lock", "signal") /\ lock("func") /\ Awake
  /\ UNCHANGED <<signalled, synchronized_data, tried, locked>>

(* A signal nobody waits for is lost. *)
FuncSignal ==
  /\ Step("func", "signal", "unlock") /\ Awake
  /\ signalled' = (pc["func1"] = "wait")
  /\ UNCHANGED <<holder, synchronized_data, tried, locked>>

(* A mutant: no sleep between unlock and trylock. *)
FuncUnlockHasty ==
  /\ Step("func", "unlock", "try") /\ unlock /\ Awake
  /\ UNCHANGED <<signalled, synchronized_data, tried, locked>>

FuncUnlock ==
  /\ Step("func", "unlock", "try") /\ unlock /\ usleep("func", 5)
  /\ UNCHANGED <<signalled, synchronized_data, tried, locked>>

(* pthread_mutex_trylock, whose result only chooses what is logged. *)
FuncTry ==
  /\ Step("func", "try", "log") /\ Awake
  /\ holder' = IF holder = Nobody THEN "func" ELSE holder
  /\ UNCHANGED <<signalled, synchronized_data, tried, locked>>

(* Read without the mutex when trylock failed. *)
FuncLog ==
  /\ Step("func", "log", "relock") /\ Awake
  /\ tried' = synchronized_data
  /\ UNCHANGED <<holder, signalled, synchronized_data, locked>>

(* A mutant: the second read does not wait for the mutex either. *)
FuncReread ==
  /\ Step("func", "relock", "unlock2") /\ Awake
  /\ locked' = synchronized_data
  /\ UNCHANGED <<holder, signalled, synchronized_data, tried>>

FuncRelock ==
  /\ Step("func", "relock", "unlock2") /\ lock("func") /\ Awake
  /\ locked' = synchronized_data
  /\ UNCHANGED <<signalled, synchronized_data, tried>>

FuncEnd ==
  /\ Step("func", "unlock2", "exit") /\ unlock /\ Awake
  /\ UNCHANGED <<signalled, synchronized_data, tried, locked>>
----------------------------------------------------------------------------
(* test_func1.                                                             *)

Func1Lock ==
  /\ Step("func1", "start", "locked") /\ lock("func1") /\ Awake
  /\ UNCHANGED <<signalled, synchronized_data, tried, locked>>

(* pthread_cond_wait gives the mutex up and takes it again to return. *)
Func1Wait ==
  /\ Step("func1", "locked", "wait") /\ unlock /\ Awake
  /\ UNCHANGED <<signalled, synchronized_data, tried, locked>>

Func1Wake ==
  /\ Step("func1", "wait", "work") /\ (signalled \/ Spurious)
  /\ lock("func1") /\ signalled' = FALSE
  /\ usleep("func1", 50)
  /\ UNCHANGED <<synchronized_data, tried, locked>>

Func1Work ==
  /\ Step("func1", "work", "unlock") /\ Awake
  /\ synchronized_data' = synchronized_data + 1
  /\ UNCHANGED <<holder, signalled, tried, locked>>

(* A mutant: the thread ends with the mutex held. *)
Func1Keeps == Step("func1", "unlock", "exit") /\ Awake /\ UNCHANGED shared

Func1Unlock ==
  /\ Step("func1", "unlock", "exit") /\ unlock /\ Awake
  /\ UNCHANGED <<signalled, synchronized_data, tried, locked>>
----------------------------------------------------------------------------
(* Whether a thread can take its next step, sleeps aside. *)
CanRun(t) ==
  CASE pc[t] \in {"none", "ended", "exit", "noAttr"} -> FALSE
    [] pc[t] = "join" -> Joined
    [] pc[t] \in {"lock", "relock"} \/ (t = "func1" /\ pc[t] = "start") -> holder = Nobody
    [] pc[t] = "wait" -> signalled /\ holder = Nobody
    [] OTHER -> TRUE

Ready(t) == timer[t] = 0 /\ CanRun(t)

Tick ==
  /\ \E t \in Threads : timer[t] > 0 \/ Ready(t)
  /\ \A t \in Threads : Ready(t) => late[t] < MaxLate
  /\ timer' = [t \in Threads |-> IF timer[t] > 0 THEN timer[t] - 1 ELSE 0]
  /\ late' = [t \in Threads |-> IF Ready(t) THEN late[t] + 1 ELSE 0]
  /\ UNCHANGED <<pc, shared>>

Init ==
  /\ pc = [t \in Threads |-> IF t = "main" THEN "create" ELSE "none"]
  /\ holder = Nobody /\ signalled = FALSE /\ synchronized_data = 0
  /\ tried = -1 /\ locked = -1
  /\ timer = [t \in Threads |-> 0] /\ late = [t \in Threads |-> 0]

Next ==
  \/ InitFails \/ Create \/ Create1 \/ Join
  \/ FuncFails \/ FuncSleep \/ FuncLock \/ FuncSignal \/ FuncUnlock
  \/ FuncTry \/ FuncLog \/ FuncRelock \/ FuncEnd
  \/ Func1Lock \/ Func1Wait \/ Func1Wake \/ Func1Work \/ Func1Unlock
  \/ Tick

(* A machine that keeps running: some thread steps, or time passes. *)
Spec == Init /\ [][Next]_vars /\ WF_vars(Next)
----------------------------------------------------------------------------
(* Type invariant; the mutex is only ever held by a thread between its lock *)
(* and its unlock.                                                          *)
TypeOK ==
  /\ pc \in [Threads -> {"none", "create", "create1", "join", "start", "lock",
                         "signal", "unlock", "try", "log", "relock", "unlock2",
                         "locked", "wait", "work", "exit", "noAttr", "ended"}]
  /\ holder \in {Nobody, "func", "func1"} /\ signalled \in BOOLEAN
  /\ synchronized_data \in Int /\ tried \in Int /\ locked \in Int
  /\ timer \in [Threads -> 0 .. 50] /\ late \in [Threads -> 0 .. MaxLate]
  /\ pc["func"] \in {"signal", "unlock", "unlock2"} => holder = "func"
  /\ pc["func1"] \in {"locked", "work", "unlock"} => holder = "func1"
  /\ holder # Nobody => pc[holder] \notin {"start", "wait", "exit"}

(* The signal finds its waiter (ex3prob2.c:109-121): were it sent earlier   *)
(* it would be lost, for no predicate records it.                           *)
SignalIsHeard == [][FuncSignal => pc["func1"] = "wait"]_vars

(* trylock "should fail because the other thread has the lock" (line 137):  *)
(* were it to succeed, the lock of line 146 would wait for its own thread.  *)
TrylockFails == ~(pc["func"] = "log" /\ holder = "func")

(* What the program demonstrates: the value logged while the other thread   *)
(* works is the old one, the value logged under the mutex the new one.      *)
LockShowsTheChange == (tried # -1 => tried = 0) /\ (locked # -1 => locked = 1)

(* The program ends: every wait is answered and every lock is let go, unless *)
(* test_func leaves before it signals (lines 94-106), which strands main.   *)
Ends == <>(pc["main"] = "ended" \/ pc["func"] = "noAttr")
=============================================================================
