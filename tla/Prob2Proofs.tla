----------------------------- MODULE Prob2Proofs -----------------------------
(***************************************************************************)
(* Proofs about ex3prob2: what its mutex keeps on any machine, and what its *)
(* sleeps keep on one that is punctual enough.                              *)
(***************************************************************************)
EXTENDS Prob2, TLAPS

----------------------------------------------------------------------------
(* On any machine: types, and which threads are started, who may hold  *)
(* the mutex.                                                              *)

Places == {"none", "create", "create1", "join", "start", "lock", "signal", "unlock",
           "try", "log", "relock", "unlock2", "locked", "wait", "work", "exit",
           "noAttr", "ended"}

PlacesOK ==
  /\ pc \in [Threads -> Places]
  /\ pc["main"] \in {"create", "create1", "join", "ended"}
  /\ pc["func"] \in {"none", "start", "lock", "signal", "unlock", "try", "log",
                     "relock", "unlock2", "exit", "noAttr", "ended"}
  /\ pc["func1"] \in {"none", "start", "locked", "wait", "work", "unlock", "exit", "ended"}
  /\ pc["main"] = "create" => pc["func"] = "none" /\ pc["func1"] = "none"
  /\ pc["main"] = "create1" => pc["func1"] = "none"

HolderOK ==
  /\ holder \in {Nobody, "func", "func1"}
  /\ pc["func"] \in {"signal", "unlock", "unlock2"} => holder = "func"
  /\ pc["func1"] \in {"locked", "work", "unlock"} => holder = "func1"
  /\ holder = "func" => pc["func"] \in {"signal", "unlock", "log", "relock", "unlock2",
                                        "ended"}
  /\ holder = "func1" => pc["func1"] \in {"locked", "work", "unlock", "ended"}

TimesOK == timer \in [Threads -> 0 .. 50] /\ late \in [Threads -> 0 .. MaxLate]

DataOK ==
  /\ signalled \in BOOLEAN
  /\ synchronized_data \in Int /\ tried \in Int /\ locked \in Int

MutexInv == PlacesOK /\ HolderOK /\ TimesOK /\ DataOK
----------------------------------------------------------------------------
(* A step moves one thread, restarts its lateness and nothing else of pc    *)
(* and late.                                                               *)
Moves(t, l) ==
  /\ pc'[t] = l /\ late'[t] = 0
  /\ \A u \in Threads \ {t} : pc'[u] = pc[u] /\ late'[u] = late[u]
  /\ pc' \in [Threads -> Places] /\ late' \in [Threads -> 0 .. MaxLate]

LEMMA GotoMoves ==
  ASSUME PlacesOK, TimesOK, NEW t \in Threads, NEW l \in Places, Goto(t, l)
  PROVE  Moves(t, l)
  BY Prob2Assumption DEF PlacesOK, TimesOK, Goto, Moves

LEMMA SleepTypes ==
  ASSUME TimesOK, NEW t \in Threads, NEW ticks \in 0 .. 50, usleep(t, ticks)
  PROVE  /\ timer' \in [Threads -> 0 .. 50] /\ timer'[t] = ticks
         /\ \A u \in Threads \ {t} : timer'[u] = timer[u]
  BY DEF TimesOK, usleep

LEMMA TickTypes ==
  ASSUME TimesOK, Tick
  PROVE  /\ TimesOK'
         /\ \A t \in Threads : timer'[t] = IF timer[t] > 0 THEN timer[t] - 1 ELSE 0
         /\ \A t \in Threads : late'[t] = IF Ready(t) THEN late[t] + 1 ELSE 0
         /\ \A t \in Threads : Ready(t) => late[t] < MaxLate
  <1>1. \A t \in Threads : timer[t] \in 0 .. 50 /\ late[t] \in 0 .. MaxLate
    BY DEF TimesOK
  <1>2. \A t \in Threads : (IF timer[t] > 0 THEN timer[t] - 1 ELSE 0) \in 0 .. 50
    BY <1>1
  <1>3. \A t \in Threads : Ready(t) => late[t] < MaxLate
    BY DEF Tick
  <1>4. \A t \in Threads : (IF Ready(t) THEN late[t] + 1 ELSE 0) \in 0 .. MaxLate
    BY <1>1, <1>3, Prob2Assumption
  <1> QED
    BY <1>2, <1>3, <1>4 DEF Tick, TimesOK

LEMMA MutexInit == Init => MutexInv
  <1> SUFFICES ASSUME Init PROVE MutexInv
    OBVIOUS
  <1>1. PlacesOK
    BY DEF Init, PlacesOK, Places, Threads
  <1>2. HolderOK
    BY DEF Init, HolderOK, Threads, Nobody
  <1>3. TimesOK
    BY Prob2Assumption DEF Init, TimesOK
  <1>4. DataOK
    <2>1. signalled \in BOOLEAN
      BY DEF Init
    <2>2. synchronized_data \in Int /\ tried \in Int /\ locked \in Int
      BY DEF Init
    <2> QED
      BY <2>1, <2>2 DEF DataOK
  <1> QED
    BY <1>1, <1>2, <1>3, <1>4 DEF MutexInv

LEMMA MutexReturn == ASSUME MutexInv, Return PROVE MutexInv'
  <1>1. PlacesOK'
    BY DEF MutexInv, PlacesOK, Places, Return, Threads
  <1>2. HolderOK'
    BY DEF MutexInv, HolderOK, Return, Threads, Nobody, shared
  <1>3. TimesOK'
    BY Prob2Assumption DEF Return, TimesOK
  <1>4. DataOK'
    BY DEF MutexInv, DataOK, Return, shared
  <1> QED
    BY <1>1, <1>2, <1>3, <1>4 DEF MutexInv

LEMMA MutexCreate == ASSUME MutexInv, Create \/ Create1 PROVE MutexInv'
  <1>1. PlacesOK'
    BY DEF MutexInv, PlacesOK, Places, Create, Create1, Threads
  <1>2. HolderOK'
    BY DEF MutexInv, PlacesOK, HolderOK, Create, Create1, Threads, Nobody, shared
  <1>3. TimesOK'
    BY Prob2Assumption DEF MutexInv, Create, Create1, TimesOK, Awake
  <1>4. DataOK'
    BY DEF MutexInv, DataOK, Create, Create1, shared
  <1> QED
    BY <1>1, <1>2, <1>3, <1>4 DEF MutexInv

(* A step of test_func or test_func1 that keeps to PlacesOK and HolderOK.   *)
LEMMA MutexStep ==
  ASSUME MutexInv, NEW t \in Threads, NEW from \in Places, NEW to \in Places,
         Step(t, from, to), timer' \in [Threads -> 0 .. 50]
  PROVE  Moves(t, to) /\ TimesOK'
  <1>1. Moves(t, to)
    BY GotoMoves DEF MutexInv, Step
  <1> QED
    BY <1>1 DEF Moves, TimesOK

LEMMA MutexFunc ==
  ASSUME MutexInv,
         FuncFails \/ FuncSleep \/ FuncLock \/ FuncSignal \/ FuncUnlock
           \/ FuncTry \/ FuncLog \/ FuncRelock \/ FuncEnd
  PROVE  MutexInv'
  <1>1. timer' \in [Threads -> 0 .. 50]
    BY DEF MutexInv, TimesOK, FuncFails, FuncSleep, FuncLock, FuncSignal, FuncUnlock,
           FuncTry, FuncLog, FuncRelock, FuncEnd, Awake, usleep
  <1>2. PICK from \in Places, to \in Places : Step("func", from, to)
    BY DEF FuncFails, FuncSleep, FuncLock, FuncSignal, FuncUnlock,
           FuncTry, FuncLog, FuncRelock, FuncEnd, Places
  <1>3. Moves("func", to) /\ TimesOK' /\ pc["func"] = from
    BY <1>1, <1>2, MutexStep DEF Threads, Step
  <1>4. PlacesOK'
    BY <1>3 DEF MutexInv, PlacesOK, Moves, Threads, Step,
           FuncFails, FuncSleep, FuncLock, FuncSignal, FuncUnlock,
           FuncTry, FuncLog, FuncRelock, FuncEnd, Goto
  <1>5. HolderOK'
    BY <1>3 DEF MutexInv, PlacesOK, HolderOK, Moves, Threads, Nobody, Step,
           FuncFails, FuncSleep, FuncLock, FuncSignal, FuncUnlock,
           FuncTry, FuncLog, FuncRelock, FuncEnd, Goto, lock, unlock, shared
  <1>6. DataOK'
    <2>1. signalled' \in BOOLEAN
      BY DEF MutexInv, DataOK, FuncFails, FuncSleep, FuncLock, FuncSignal, FuncUnlock,
             FuncTry, FuncLog, FuncRelock, FuncEnd, shared
    <2>2. synchronized_data' \in Int /\ tried' \in Int /\ locked' \in Int
      BY DEF MutexInv, DataOK, FuncFails, FuncSleep, FuncLock, FuncSignal, FuncUnlock,
             FuncTry, FuncLog, FuncRelock, FuncEnd, shared
    <2> QED
      BY <2>1, <2>2 DEF DataOK
  <1> QED
    BY <1>3, <1>4, <1>5, <1>6 DEF MutexInv

LEMMA MutexFunc1 ==
  ASSUME MutexInv,
         Func1Lock \/ Func1Wait \/ Func1Wake \/ Func1Work \/ Func1Unlock
  PROVE  MutexInv'
  <1>1. timer' \in [Threads -> 0 .. 50]
    BY DEF MutexInv, TimesOK, Func1Lock, Func1Wait, Func1Wake, Func1Work, Func1Unlock,
           Awake, usleep
  <1>2. PICK from \in Places, to \in Places : Step("func1", from, to)
    BY DEF Func1Lock, Func1Wait, Func1Wake, Func1Work, Func1Unlock, Places
  <1>3. Moves("func1", to) /\ TimesOK' /\ pc["func1"] = from
    BY <1>1, <1>2, MutexStep DEF Threads, Step
  <1>4. PlacesOK'
    BY <1>3 DEF MutexInv, PlacesOK, Moves, Threads, Step, Goto,
           Func1Lock, Func1Wait, Func1Wake, Func1Work, Func1Unlock
  <1>5. HolderOK'
    BY <1>3 DEF MutexInv, PlacesOK, HolderOK, Moves, Threads, Nobody, Step, Goto,
           Func1Lock, Func1Wait, Func1Wake, Func1Work, Func1Unlock, lock, unlock, shared
  <1>6. DataOK'
    <2>1. signalled' \in BOOLEAN
      BY DEF MutexInv, DataOK, Func1Lock, Func1Wait, Func1Wake, Func1Work, Func1Unlock
    <2>2. synchronized_data' \in Int /\ tried' \in Int /\ locked' \in Int
      BY DEF MutexInv, DataOK, Func1Lock, Func1Wait, Func1Wake, Func1Work, Func1Unlock
    <2> QED
      BY <2>1, <2>2 DEF DataOK
  <1> QED
    BY <1>3, <1>4, <1>5, <1>6 DEF MutexInv

LEMMA MutexKept == MutexInv /\ [Next]_vars => MutexInv'
  <1> SUFFICES ASSUME MutexInv, [Next]_vars PROVE MutexInv'
    OBVIOUS
  <1>1. CASE InitFails \/ Join
    BY <1>1, MutexReturn DEF InitFails, Join
  <1>2. CASE Tick
    <2>1. TimesOK'
      BY <1>2, TickTypes DEF MutexInv
    <2> QED
      BY <1>2, <2>1 DEF MutexInv, PlacesOK, HolderOK, DataOK, Tick, shared
  <1>3. CASE UNCHANGED vars
    BY <1>3 DEF MutexInv, PlacesOK, HolderOK, DataOK, TimesOK, vars, shared
  <1> QED
    BY <1>1, <1>2, <1>3, MutexCreate, MutexFunc, MutexFunc1 DEF Next

(* The inductive invariant that holds on any machine. *)
THEOREM Invariance == Spec => []MutexInv
  BY MutexInit, MutexKept, PTL DEF Spec

(* Types, and who holds the mutex (ex3prob2.c:27-160): a thread *)
(* between its lock and its unlock, in its sleep as well, and no other.     *)
THEOREM TypeCorrect == Spec => []TypeOK
  <1>1. MutexInv => TypeOK
    <2> SUFFICES ASSUME MutexInv PROVE TypeOK
      OBVIOUS
    <2>1. holder # Nobody => pc[holder] \notin {"start", "wait", "exit"}
      BY DEF MutexInv, HolderOK, Nobody
    <2> QED
      BY <2>1 DEF MutexInv, PlacesOK, Places, HolderOK, TimesOK, DataOK, TypeOK
  <1> QED
    BY <1>1, Invariance, PTL
----------------------------------------------------------------------------
(* On a punctual machine: where the threads are, and how far the clock of   *)
(* each sleep has run.                                                      *)

Punctual == MaxLate <= 4 /\ ~Spurious

(* Who sleeps where, and that all end together. *)
StartedOK ==
  /\ pc["main"] = "join" => pc["func1"] \notin {"none", "ended"} /\ pc["func"] # "ended"
  /\ pc["func"] = "ended" => pc["main"] = "ended"
  /\ pc["func1"] = "ended" => pc["main"] = "ended"
  /\ pc["main"] = "ended" => pc["func"] = "ended" /\ pc["func1"] = "ended"
  /\ timer["main"] = 0
  /\ timer["func"] > 0 => pc["func"] \in {"lock", "try"} /\ late["func"] = 0
  /\ pc["func"] = "lock" => timer["func"] <= 20
  /\ pc["func"] = "try" => timer["func"] <= 5
  /\ timer["func1"] > 0 => pc["func1"] = "work"

(* While test_func sleeps, test_func1 gets to its wait. *)
BeforeSignal ==
  /\ pc["func"] \in {"none", "start", "lock", "signal", "noAttr"} =>
       pc["func1"] \in {"none", "start", "locked", "wait"}
  /\ pc["func"] = "lock" =>
       /\ pc["main"] = "create1" => 20 - timer["func"] <= late["main"]
       /\ pc["func1"] = "start" => 20 - timer["func"] <= MaxLate + late["func1"]
       /\ pc["func1"] = "locked" => 20 - timer["func"] <= 2 * MaxLate + late["func1"]
  /\ pc["func"] \in {"signal", "unlock"} => pc["func1"] = "wait"

(* Before test_func tries the mutex, test_func1 has woken with it, and has  *)
(* most of its sleep before it.                                             *)
AfterSignal ==
  /\ pc["func"] = "try" =>
       \/ /\ pc["func1"] = "wait" /\ holder = Nobody
          /\ timer["func"] + late["func1"] >= 5
       \/ /\ pc["func1"] = "work"
          /\ 50 - timer["func1"] <= 5 - timer["func"] + late["func"]
  /\ pc["func"] = "log" =>
       /\ pc["func1"] = "work"
       /\ 50 - timer["func1"] <= 5 + MaxLate + late["func"]
  /\ pc["func"] \in {"relock", "unlock2", "exit"} =>
       pc["func1"] \in {"work", "unlock", "exit"}

(* A signal is under way from the call until its waiter takes it. *)
SignalledOK ==
  pc["main"] # "ended" =>
    (signalled <=> pc["func"] \in {"unlock", "try"} /\ pc["func1"] = "wait")

ReadsOK ==
  /\ pc["func1"] \in {"unlock", "exit"} => synchronized_data = 1
  /\ pc["func1"] \in {"none", "start", "locked", "wait", "work"} => synchronized_data = 0
  /\ tried \in {-1, 0} /\ locked \in {-1, 1}

PlacesInTime == StartedOK /\ BeforeSignal /\ AfterSignal /\ ReadsOK
TimingInv == MutexInv /\ PlacesInTime /\ SignalledOK
----------------------------------------------------------------------------
(* What the facts about functions amount to. *)
LEMMA Ranges ==
  ASSUME MutexInv
  PROVE  \A t \in Threads :
           /\ timer[t] \in Int /\ 0 <= timer[t] /\ timer[t] <= 50
           /\ late[t] \in Int /\ 0 <= late[t] /\ late[t] <= MaxLate
  BY Prob2Assumption DEF MutexInv, TimesOK

(* A step that moves t and sets no clock. *)
Awakes(t, to) ==
  /\ pc'[t] = to /\ late'[t] = 0 /\ timer[t] = 0
  /\ \A u \in Threads \ {t} : pc'[u] = pc[u] /\ late'[u] = late[u]
  /\ \A u \in Threads : timer'[u] = timer[u]

LEMMA StepAwakes ==
  ASSUME MutexInv, NEW t \in Threads, NEW from \in Places, NEW to \in Places,
         Step(t, from, to), Awake
  PROVE  Awakes(t, to) /\ pc[t] = from
  <1>1. timer' = timer
    BY DEF Awake
  <1>2. Moves(t, to)
    BY <1>1, MutexStep DEF MutexInv, TimesOK
  <1> QED
    BY <1>1, <1>2 DEF Awakes, Step, Moves

(* A step that moves t and puts it to sleep. *)
Sleeps(t, to, ticks) ==
  /\ pc'[t] = to /\ late'[t] = 0 /\ timer[t] = 0 /\ timer'[t] = ticks
  /\ \A u \in Threads \ {t} :
       pc'[u] = pc[u] /\ late'[u] = late[u] /\ timer'[u] = timer[u]

LEMMA StepSleeps ==
  ASSUME MutexInv, NEW t \in Threads, NEW from \in Places, NEW to \in Places,
         NEW ticks \in 0 .. 50, Step(t, from, to), usleep(t, ticks)
  PROVE  Sleeps(t, to, ticks) /\ pc[t] = from
  <1>1. /\ timer' \in [Threads -> 0 .. 50] /\ timer'[t] = ticks
        /\ \A u \in Threads \ {t} : timer'[u] = timer[u]
    BY SleepTypes DEF MutexInv
  <1>2. Moves(t, to)
    BY <1>1, MutexStep
  <1> QED
    BY <1>1, <1>2 DEF Sleeps, Step, Moves

LEMMA TimingInit == Init => TimingInv
  <1> SUFFICES ASSUME Init PROVE TimingInv
    OBVIOUS
  <1>1. /\ pc["main"] = "create" /\ pc["func"] = "none" /\ pc["func1"] = "none"
        /\ \A t \in Threads : timer[t] = 0
        /\ synchronized_data = 0 /\ tried = -1 /\ locked = -1
    BY DEF Init, Threads
  <1>2. StartedOK /\ BeforeSignal /\ AfterSignal /\ ReadsOK
    BY <1>1 DEF StartedOK, BeforeSignal, AfterSignal, ReadsOK, Threads
  <1>3. SignalledOK
    BY <1>1 DEF Init, SignalledOK
  <1> QED
    BY <1>2, <1>3, MutexInit DEF TimingInv, PlacesInTime

LEMMA TimingReturn == ASSUME TimingInv, Return PROVE PlacesInTime' /\ SignalledOK'
  <1>1. /\ \A t \in Threads : pc'[t] = "ended" /\ timer'[t] = 0
        /\ tried' = tried /\ locked' = locked
    BY DEF Return, shared
  <1>2. pc'["main"] = "ended" /\ pc'["func"] = "ended" /\ pc'["func1"] = "ended"
    BY <1>1 DEF Threads
  <1>3. StartedOK' /\ BeforeSignal' /\ AfterSignal' /\ ReadsOK'
    BY <1>1, <1>2
       DEF TimingInv, PlacesInTime, StartedOK, BeforeSignal, AfterSignal, ReadsOK, Threads
  <1>4. SignalledOK'
    BY <1>2 DEF SignalledOK
  <1> QED
    BY <1>3, <1>4 DEF PlacesInTime

(* Both threads are created before either has gone far. *)
LEMMA TimingCreate ==
  ASSUME Punctual, TimingInv, Create \/ Create1
  PROVE  PlacesInTime' /\ SignalledOK'
  <1> USE DEF TimingInv, PlacesInTime
  <1>1. /\ pc'["main"] = IF pc["main"] = "create" THEN "create1" ELSE "join"
        /\ pc'["func"] = IF pc["main"] = "create" THEN "start" ELSE pc["func"]
        /\ pc'["func1"] = IF pc["main"] = "create" THEN "none" ELSE "start"
        /\ pc["main"] \in {"create", "create1"}
        /\ pc["func1"] = "none" /\ (pc["main"] = "create" => pc["func"] = "none")
    BY DEF Create, Create1, MutexInv, PlacesOK, Threads
  <1>2. /\ late'["main"] = 0
        /\ pc["main"] = "create1" => late'["func"] = late["func"] /\ late'["func1"] = 0
        /\ timer' = timer /\ holder' = holder /\ synchronized_data' = synchronized_data
        /\ tried' = tried /\ locked' = locked
    BY DEF Create, Create1, MutexInv, TimesOK, Threads, Awake, shared
  <1>3. StartedOK' /\ BeforeSignal' /\ AfterSignal' /\ ReadsOK'
    BY <1>1, <1>2, Ranges, Prob2Assumption
       DEF Punctual, StartedOK, BeforeSignal, AfterSignal, ReadsOK, Threads
  <1>4. SignalledOK'
    <2>1. signalled' = signalled
      BY DEF Create, Create1, shared
    <2>2. ~signalled
      BY <1>1 DEF SignalledOK
    <2> QED
      BY <1>1, <2>1, <2>2 DEF SignalledOK
  <1> QED
    BY <1>3, <1>4

(* test_func before its signal: test_func1 has had time to get to its wait. *)
LEMMA TimingFuncBefore ==
  ASSUME Punctual, TimingInv, FuncFails \/ FuncSleep \/ FuncLock \/ FuncSignal
  PROVE  PlacesInTime' /\ SignalledOK'
  <1> USE DEF TimingInv, PlacesInTime
  <1>1. CASE FuncFails
    <2>1. Awakes("func", "noAttr") /\ pc["func"] = "start"
      BY <1>1, StepAwakes DEF FuncFails, Threads, Places
    <2>2. UNCHANGED shared
      BY <1>1 DEF FuncFails
    <2>3. StartedOK' /\ BeforeSignal' /\ AfterSignal' /\ ReadsOK'
      BY <2>1, <2>2, Ranges, Prob2Assumption
         DEF Awakes, shared, StartedOK, BeforeSignal, AfterSignal, ReadsOK, Threads
    <2>4. SignalledOK'
      BY <2>1, <2>2 DEF Awakes, shared, SignalledOK, Threads
    <2> QED
      BY <2>3, <2>4
  <1>2. CASE FuncSleep
    <2>1. Sleeps("func", "lock", 20) /\ pc["func"] = "start"
      <3>1. Step("func", "start", "lock") /\ usleep("func", 20)
        BY <1>2 DEF FuncSleep
      <3>2. "func" \in Threads /\ "start" \in Places /\ "lock" \in Places /\ 20 \in 0 .. 50
        BY DEF Threads, Places
      <3> QED
        BY <3>1, <3>2, StepSleeps
    <2>2. UNCHANGED shared
      BY <1>2 DEF FuncSleep
    <2>3. StartedOK' /\ BeforeSignal' /\ AfterSignal' /\ ReadsOK'
      BY <2>1, <2>2, Ranges, Prob2Assumption
         DEF Sleeps, shared, StartedOK, BeforeSignal, AfterSignal, ReadsOK, Threads
    <2>4. SignalledOK'
      BY <2>1, <2>2 DEF Sleeps, shared, SignalledOK, Threads
    <2> QED
      BY <2>3, <2>4
  <1>3. CASE FuncLock
    <2>1. Awakes("func", "signal") /\ pc["func"] = "lock"
      BY <1>3, StepAwakes DEF FuncLock, Threads, Places
    <2>2. /\ synchronized_data' = synchronized_data /\ tried' = tried /\ locked' = locked
          /\ (signalled' <=> signalled)
      BY <1>3 DEF FuncLock
    <2>3. pc["func1"] = "wait"
      <3>1. timer["func"] = 0 /\ pc["main"] \notin {"create", "ended"}
        BY <2>1 DEF Awakes, MutexInv, PlacesOK, StartedOK
      <3>2. pc["main"] # "create1" /\ pc["func1"] \notin {"start", "locked"}
        BY <2>1, <3>1, Ranges, Prob2Assumption DEF BeforeSignal, Punctual, Threads
      <3> QED
        BY <2>1, <3>1, <3>2 DEF BeforeSignal, StartedOK, MutexInv, PlacesOK
    <2>4. StartedOK' /\ BeforeSignal' /\ AfterSignal' /\ ReadsOK'
      BY <2>1, <2>2, <2>3, Ranges, Prob2Assumption
         DEF Awakes, StartedOK, BeforeSignal, AfterSignal, ReadsOK, Threads
    <2>5. SignalledOK'
      BY <2>1, <2>2 DEF Awakes, SignalledOK, Threads
    <2> QED
      BY <2>4, <2>5
  <1>4. CASE FuncSignal
    <2>1. Awakes("func", "unlock") /\ pc["func"] = "signal"
      BY <1>4, StepAwakes DEF FuncSignal, Threads, Places
    <2>2. /\ holder' = holder /\ synchronized_data' = synchronized_data
          /\ tried' = tried /\ locked' = locked
      BY <1>4 DEF FuncSignal
    <2>3. StartedOK' /\ BeforeSignal' /\ AfterSignal' /\ ReadsOK'
      BY <2>1, <2>2, Ranges, Prob2Assumption
         DEF Awakes, StartedOK, BeforeSignal, AfterSignal, ReadsOK, Threads
    <2>4. signalled'
      BY <1>4, <2>1 DEF FuncSignal, BeforeSignal
    <2>5. SignalledOK'
      BY <2>1, <2>4 DEF Awakes, BeforeSignal, SignalledOK, Threads
    <2> QED
      BY <2>3, <2>5
  <1> QED
    BY <1>1, <1>2, <1>3, <1>4

(* test_func after its signal: test_func1 is in its own sleep while the     *)
(* mutex is tried and the data read.                                        *)
LEMMA TimingFuncAfter ==
  ASSUME Punctual, TimingInv,
         FuncUnlock \/ FuncTry \/ FuncLog \/ FuncRelock \/ FuncEnd
  PROVE  PlacesInTime' /\ SignalledOK'
  <1> USE DEF TimingInv, PlacesInTime
  <1>1. CASE FuncUnlock
    <2>1. Sleeps("func", "try", 5) /\ pc["func"] = "unlock"
      <3>1. Step("func", "unlock", "try") /\ usleep("func", 5)
        BY <1>1 DEF FuncUnlock
      <3>2. "func" \in Threads /\ "unlock" \in Places /\ "try" \in Places /\ 5 \in 0 .. 50
        BY DEF Threads, Places
      <3> QED
        BY <3>1, <3>2, StepSleeps
    <2>2. /\ holder' = Nobody /\ synchronized_data' = synchronized_data
          /\ tried' = tried /\ locked' = locked /\ (signalled' <=> signalled)
      BY <1>1 DEF FuncUnlock, unlock
    <2>3. StartedOK' /\ BeforeSignal' /\ AfterSignal' /\ ReadsOK'
      BY <2>1, <2>2, Ranges, Prob2Assumption
         DEF Sleeps, StartedOK, BeforeSignal, AfterSignal, ReadsOK, Threads
    <2>4. SignalledOK'
      BY <2>1, <2>2 DEF Sleeps, SignalledOK, Threads
    <2> QED
      BY <2>3, <2>4
  <1>2. CASE FuncTry
    <2>1. Awakes("func", "log") /\ pc["func"] = "try"
      BY <1>2, StepAwakes DEF FuncTry, Threads, Places
    <2>2. /\ synchronized_data' = synchronized_data /\ tried' = tried /\ locked' = locked
          /\ (signalled' <=> signalled)
      BY <1>2 DEF FuncTry
    <2>3. pc["func1"] = "work"
      BY <2>1, Ranges, Prob2Assumption DEF Awakes, AfterSignal, Punctual, Threads
    <2>4. StartedOK' /\ BeforeSignal' /\ AfterSignal' /\ ReadsOK'
      BY <2>1, <2>2, <2>3, Ranges, Prob2Assumption
         DEF Awakes, StartedOK, BeforeSignal, AfterSignal, ReadsOK, Threads
    <2>5. SignalledOK'
      BY <2>1, <2>2, <2>3 DEF Awakes, SignalledOK, Threads
    <2> QED
      BY <2>4, <2>5
  <1>3. CASE FuncLog
    <2>1. Awakes("func", "relock") /\ pc["func"] = "log"
      BY <1>3, StepAwakes DEF FuncLog, Threads, Places
    <2>2. /\ synchronized_data' = synchronized_data /\ locked' = locked
          /\ tried' = synchronized_data /\ (signalled' <=> signalled)
      BY <1>3 DEF FuncLog
    <2>3. StartedOK' /\ BeforeSignal' /\ AfterSignal' /\ ReadsOK'
      BY <2>1, <2>2, Ranges, Prob2Assumption
         DEF Awakes, StartedOK, BeforeSignal, AfterSignal, ReadsOK, Threads
    <2>4. SignalledOK'
      BY <2>1, <2>2 DEF Awakes, SignalledOK, Threads
    <2> QED
      BY <2>3, <2>4
  <1>4. CASE FuncRelock
    <2>1. Awakes("func", "unlock2") /\ pc["func"] = "relock"
      BY <1>4, StepAwakes DEF FuncRelock, Threads, Places
    <2>2. /\ synchronized_data' = synchronized_data /\ tried' = tried
          /\ locked' = synchronized_data /\ (signalled' <=> signalled)
          /\ holder = Nobody
      BY <1>4 DEF FuncRelock, lock
    <2>3. pc["func1"] = "exit"
      BY <2>1, <2>2 DEF AfterSignal, MutexInv, HolderOK, Nobody
    <2>4. StartedOK' /\ BeforeSignal' /\ AfterSignal' /\ ReadsOK'
      BY <2>1, <2>2, <2>3, Ranges, Prob2Assumption
         DEF Awakes, StartedOK, BeforeSignal, AfterSignal, ReadsOK, Threads
    <2>5. SignalledOK'
      BY <2>1, <2>2 DEF Awakes, SignalledOK, Threads
    <2> QED
      BY <2>4, <2>5
  <1>5. CASE FuncEnd
    <2>1. Awakes("func", "exit") /\ pc["func"] = "unlock2"
      BY <1>5, StepAwakes DEF FuncEnd, Threads, Places
    <2>2. /\ synchronized_data' = synchronized_data /\ tried' = tried
          /\ locked' = locked /\ (signalled' <=> signalled)
      BY <1>5 DEF FuncEnd
    <2>3. StartedOK' /\ BeforeSignal' /\ AfterSignal' /\ ReadsOK'
      BY <2>1, <2>2, Ranges, Prob2Assumption
         DEF Awakes, StartedOK, BeforeSignal, AfterSignal, ReadsOK, Threads
    <2>4. SignalledOK'
      BY <2>1, <2>2 DEF Awakes, SignalledOK, Threads
    <2> QED
      BY <2>3, <2>4
  <1> QED
    BY <1>1, <1>2, <1>3, <1>4, <1>5

(* test_func1: it wakes only when it was signalled, and its sleep outlasts  *)
(* what test_func does before its second lock.                              *)
LEMMA TimingFunc1 ==
  ASSUME Punctual, TimingInv,
         Func1Lock \/ Func1Wait \/ Func1Wake \/ Func1Work \/ Func1Unlock
  PROVE  PlacesInTime' /\ SignalledOK'
  <1> USE DEF TimingInv, PlacesInTime
  <1>1. CASE Func1Lock
    <2>1. Awakes("func1", "locked") /\ pc["func1"] = "start"
      BY <1>1, StepAwakes DEF Func1Lock, Threads, Places
    <2>2. /\ synchronized_data' = synchronized_data /\ tried' = tried /\ locked' = locked
          /\ (signalled' <=> signalled)
      BY <1>1 DEF Func1Lock
    <2>3. StartedOK' /\ BeforeSignal' /\ AfterSignal' /\ ReadsOK'
      BY <2>1, <2>2, Ranges, Prob2Assumption
         DEF Awakes, StartedOK, BeforeSignal, AfterSignal, ReadsOK, Threads
    <2>4. SignalledOK'
      BY <2>1, <2>2 DEF Awakes, SignalledOK, Threads
    <2> QED
      BY <2>3, <2>4
  <1>2. CASE Func1Wait
    <2>1. Awakes("func1", "wait") /\ pc["func1"] = "locked"
      BY <1>2, StepAwakes DEF Func1Wait, Threads, Places
    <2>2. /\ synchronized_data' = synchronized_data /\ tried' = tried /\ locked' = locked
          /\ (signalled' <=> signalled)
      BY <1>2 DEF Func1Wait
    <2>3. pc["func"] \notin {"unlock", "try"}
      BY <2>1 DEF BeforeSignal, AfterSignal
    <2>4. StartedOK' /\ BeforeSignal' /\ AfterSignal' /\ ReadsOK'
      BY <2>1, <2>2, <2>3, Ranges, Prob2Assumption
         DEF Awakes, StartedOK, BeforeSignal, AfterSignal, ReadsOK, Threads
    <2>5. SignalledOK'
      BY <2>1, <2>2, <2>3 DEF Awakes, SignalledOK, Threads
    <2> QED
      BY <2>4, <2>5
  <1>3. CASE Func1Wake
    <2>1. Sleeps("func1", "work", 50) /\ pc["func1"] = "wait"
      <3>1. Step("func1", "wait", "work") /\ usleep("func1", 50)
        BY <1>3 DEF Func1Wake
      <3>2. "func1" \in Threads /\ "wait" \in Places /\ "work" \in Places /\ 50 \in 0 .. 50
        BY DEF Threads, Places
      <3> QED
        BY <3>1, <3>2, StepSleeps
    <2>2. /\ synchronized_data' = synchronized_data /\ tried' = tried /\ locked' = locked
          /\ holder = Nobody
      BY <1>3 DEF Func1Wake, lock
    <2>3. signalled /\ ~signalled'
      BY <1>3 DEF Func1Wake, Punctual
    <2>4. pc["main"] # "ended"
      BY <2>1 DEF StartedOK
    <2>5. pc["func"] = "try"
      <3>1. pc["func"] \in {"unlock", "try"}
        BY <2>3, <2>4 DEF SignalledOK
      <3> QED
        BY <2>2, <3>1 DEF MutexInv, HolderOK, Nobody
    <2>6. StartedOK' /\ BeforeSignal' /\ AfterSignal' /\ ReadsOK'
      BY <2>1, <2>2, <2>5, Ranges, Prob2Assumption
         DEF Sleeps, StartedOK, BeforeSignal, AfterSignal, ReadsOK, Threads
    <2>7. SignalledOK'
      BY <2>1, <2>3 DEF Sleeps, SignalledOK, Threads
    <2> QED
      BY <2>6, <2>7
  <1>4. CASE Func1Work
    <2>1. Awakes("func1", "unlock") /\ pc["func1"] = "work"
      BY <1>4, StepAwakes DEF Func1Work, Threads, Places
    <2>2. /\ synchronized_data' = synchronized_data + 1 /\ tried' = tried
          /\ locked' = locked /\ (signalled' <=> signalled)
      BY <1>4 DEF Func1Work
    <2>3. pc["func"] \notin {"try", "log"}
      BY <2>1, Ranges, Prob2Assumption DEF Awakes, AfterSignal, Punctual, Threads
    <2>4. StartedOK' /\ BeforeSignal' /\ AfterSignal' /\ ReadsOK'
      BY <2>1, <2>2, <2>3, Ranges, Prob2Assumption
         DEF Awakes, StartedOK, BeforeSignal, AfterSignal, ReadsOK, Threads
    <2>5. SignalledOK'
      BY <2>1, <2>2 DEF Awakes, SignalledOK, Threads
    <2> QED
      BY <2>4, <2>5
  <1>5. CASE Func1Unlock
    <2>1. Awakes("func1", "exit") /\ pc["func1"] = "unlock"
      BY <1>5, StepAwakes DEF Func1Unlock, Threads, Places
    <2>2. /\ synchronized_data' = synchronized_data /\ tried' = tried /\ locked' = locked
          /\ (signalled' <=> signalled)
      BY <1>5 DEF Func1Unlock
    <2>3. StartedOK' /\ BeforeSignal' /\ AfterSignal' /\ ReadsOK'
      BY <2>1, <2>2, Ranges, Prob2Assumption
         DEF Awakes, StartedOK, BeforeSignal, AfterSignal, ReadsOK, Threads
    <2>4. SignalledOK'
      BY <2>1, <2>2 DEF Awakes, SignalledOK, Threads
    <2> QED
      BY <2>3, <2>4
  <1> QED
    BY <1>1, <1>2, <1>3, <1>4, <1>5

(* Who is kept waiting by nothing but the machine. *)
LEMMA WhoIsReady ==
  ASSUME TimingInv
  PROVE  /\ pc["main"] = "create1" => Ready("main")
         /\ pc["func"] \in {"try", "log"} /\ timer["func"] = 0 => Ready("func")
         /\ pc["func"] = "lock" /\ pc["func1"] = "start" => Ready("func1")
         /\ pc["func1"] = "locked" => Ready("func1")
         /\ pc["func"] = "try" /\ pc["func1"] = "wait" => Ready("func1")
  <1> USE DEF TimingInv, PlacesInTime
  <1>1. pc["func1"] # "work" => timer["func1"] = 0
    BY Ranges DEF StartedOK, Threads
  <1>2. pc["main"] = "create1" => Ready("main")
    BY DEF StartedOK, Ready, CanRun
  <1>3. pc["func"] \in {"try", "log"} /\ timer["func"] = 0 => Ready("func")
    BY DEF Ready, CanRun
  <1>4. pc["func"] = "lock" /\ pc["func1"] = "start" => Ready("func1")
    <2>1. pc["func"] = "lock" /\ pc["func1"] = "start" => holder = Nobody
      BY DEF MutexInv, HolderOK
    <2> QED
      BY <1>1, <2>1 DEF Ready, CanRun
  <1>5. pc["func1"] = "locked" => Ready("func1")
    BY <1>1 DEF Ready, CanRun
  <1>6. ASSUME pc["func"] = "try", pc["func1"] = "wait" PROVE Ready("func1")
    <2>1. holder = Nobody /\ pc["main"] # "ended"
      BY <1>6 DEF AfterSignal, StartedOK
    <2>2. signalled
      BY <1>6, <2>1 DEF SignalledOK
    <2>3. CanRun("func1") = (signalled /\ holder = Nobody)
      BY <1>6 DEF CanRun
    <2> QED
      BY <1>1, <1>6, <2>1, <2>2, <2>3 DEF Ready
  <1> QED
    BY <1>2, <1>3, <1>4, <1>5, <1>6

LEMMA TimingTick == ASSUME Punctual, TimingInv, Tick PROVE PlacesInTime' /\ SignalledOK'
  <1> USE DEF TimingInv, PlacesInTime
  <1>1. /\ pc' = pc /\ holder' = holder /\ synchronized_data' = synchronized_data
        /\ tried' = tried /\ locked' = locked /\ (signalled' <=> signalled)
    BY DEF Tick, shared
  <1>2. \A t \in Threads :
          /\ timer'[t] = IF timer[t] > 0 THEN timer[t] - 1 ELSE 0
          /\ timer[t] > 0 => late'[t] = 0
          /\ Ready(t) => late'[t] = late[t] + 1 /\ late[t] < MaxLate
    BY TickTypes DEF MutexInv, Ready
  <1>3. StartedOK'
    BY <1>1, <1>2, Ranges DEF StartedOK, Threads
  <1>4. BeforeSignal'
    BY <1>1, <1>2, WhoIsReady, Ranges, Prob2Assumption DEF BeforeSignal, Punctual, Threads
  <1>5. AfterSignal'
    BY <1>1, <1>2, WhoIsReady, Ranges, Prob2Assumption
       DEF AfterSignal, StartedOK, Punctual, Threads
  <1>6. ReadsOK'
    BY <1>1 DEF ReadsOK
  <1>7. SignalledOK'
    BY <1>1 DEF SignalledOK
  <1> QED
    BY <1>3, <1>4, <1>5, <1>6, <1>7

LEMMA TimingKept == ASSUME Punctual PROVE TimingInv /\ [Next]_vars => TimingInv'
  <1> SUFFICES ASSUME TimingInv, [Next]_vars PROVE PlacesInTime' /\ SignalledOK'
    BY MutexKept DEF TimingInv
  <1>1. CASE InitFails \/ Join
    BY <1>1, TimingReturn DEF InitFails, Join
  <1>2. CASE UNCHANGED vars
    <2>1. StartedOK' /\ BeforeSignal' /\ AfterSignal' /\ ReadsOK'
      BY <1>2 DEF TimingInv, PlacesInTime, StartedOK, BeforeSignal, AfterSignal, ReadsOK,
                  vars, shared
    <2>2. pc' = pc /\ (signalled' <=> signalled)
      BY <1>2 DEF vars, shared
    <2>3. SignalledOK'
      BY <2>2 DEF TimingInv, SignalledOK
    <2> QED
      BY <2>1, <2>3 DEF PlacesInTime
  <1> QED
    BY <1>1, <1>2, TimingCreate, TimingFuncBefore, TimingFuncAfter, TimingFunc1, TimingTick
       DEF Next

(* On a punctual machine the threads meet as the sleeps of ex3prob2.c mean  *)
(* them to: each thread's place, and how long it has been there, agree with *)
(* the other's.                                                             *)
THEOREM InTime == ASSUME Punctual PROVE Spec => []TimingInv
  BY TimingInit, TimingKept, PTL DEF Spec

(* ex3prob2.c:137, "should fail because the other thread has the lock": on   *)
(* a punctual machine trylock never gets the mutex, which the next lock     *)
(* would wait for forever.                                                  *)
THEOREM TrylockMustFail == ASSUME Punctual PROVE Spec => []TrylockFails
  <1>1. TimingInv => TrylockFails
    BY DEF TimingInv, PlacesInTime, MutexInv, HolderOK, AfterSignal, TrylockFails
  <1> QED
    BY <1>1, InTime, PTL

(* ex3prob2.c:143 and 152: the value logged without the mutex is the old    *)
(* one, the value logged under it the new one.                              *)
THEOREM LockShows == ASSUME Punctual PROVE Spec => []LockShowsTheChange
  <1>1. TimingInv => LockShowsTheChange
    BY DEF TimingInv, PlacesInTime, ReadsOK, LockShowsTheChange
  <1> QED
    BY <1>1, InTime, PTL

(* ex3prob2.c:109-121: the signal finds its waiter, which no predicate      *)
(* would tell of it later.                                                  *)
THEOREM SignalHeard == ASSUME Punctual PROVE Spec => SignalIsHeard
  <1>1. TimingInv /\ [Next]_vars => [FuncSignal => pc["func1"] = "wait"]_vars
    BY DEF TimingInv, PlacesInTime, BeforeSignal, FuncSignal, Step
  <1> QED
    BY <1>1, InTime, PTL DEF Spec, SignalIsHeard
=============================================================================
