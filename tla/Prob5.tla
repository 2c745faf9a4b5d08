-------------------------------- MODULE Prob5 --------------------------------
(***************************************************************************)
(* The program ex3prob5: main copies stdin to a file until SIGINT, SIGUSR1  *)
(* asks child 1 for a count of the file and SIGUSR2 asks child 2 for a      *)
(* print of it.  Handlers post semaphores the children wait on.  What the   *)
(* threads do with the counts is FileStats.                                 *)
(*                                                                         *)
(* Signals are sent to the process: any thread that has not ended may take  *)
(* a pending one, and a handler runs in the thread that took it, inside     *)
(* whatever that thread was doing.  A signal that is already pending is not *)
(* queued again.  No handler is installed with SA_RESTART.                  *)
(***************************************************************************)
EXTENDS FileStats

CONSTANT MaxSent  \* signals the user sends

ASSUME Prob5Assumption == MaxSent \in Nat

VARIABLES
  pcm,        \* where main is
  input,      \* main's `input'
  alive,      \* the process exists
  installed,  \* signals that have their handler
  pending,    \* signals sent and not yet taken
  sent,       \* how many signals the user sent: bounds the model, not the code
  sem,        \* values of sigusr1 and sigusr2
  semState,   \* "none", "ready" or "destroyed"
  signal_interrupted, abort_signal

controlVars == <<pcm, input, alive, installed, pending, sent, sem, semState,
                 signal_interrupted, abort_signal>>
vars == <<statsVars, controlVars>>

Signals == {"SIGINT", "SIGUSR1", "SIGUSR2"}
Sems == {"sigusr1", "sigusr2"}
Threads == {"main", "child1", "child2"}

KeepStats == UNCHANGED statsVars
KeepData == UNCHANGED <<file, fdOk, offset, stats, owner, printed, last>>
KeepControl == alive /\ UNCHANGED controlVars

(* main goes from one statement to the next. *)
AtM(from, to) == alive /\ pcm = from /\ pcm' = to
----------------------------------------------------------------------------
(* Start: child1_init, child2_init, and the SIGINT handler.                *)

(* main returns: the process ends, whatever its threads are at. *)
Return == pcm' = "returned" /\ alive' = FALSE

(* Arguments, main's open() and child1_init's malloc() are good, or main    *)
(* returns 1.                                                               *)
Start ==
  /\ \/ AtM("start", "sigaction1") /\ UNCHANGED alive
     \/ alive /\ pcm = "start" /\ Return
  /\ KeepStats
  /\ UNCHANGED <<input, installed, pending, sent, sem, semState,
                 signal_interrupted, abort_signal>>

Sigaction(from, to, s) ==
  /\ AtM(from, to)
  /\ installed' = installed \cup {s}
  /\ KeepStats
  /\ UNCHANGED <<input, alive, pending, sent, sem, semState,
                 signal_interrupted, abort_signal>>

SemInit(from, to, m) ==
  /\ AtM(from, to)
  /\ sem' = [sem EXCEPT ![m] = 0]
  /\ semState' = [semState EXCEPT ![m] = "ready"]
  /\ KeepStats
  /\ UNCHANGED <<input, alive, installed, pending, sent,
                 signal_interrupted, abort_signal>>

(* pthread_create reports an error as a positive number, and only a negative *)
(* one is looked for: child1_init succeeds without a thread.                *)
CreateChild1 ==
  /\ AtM("create1", "sigaction2")
  /\ At1("unborn", "wait") \/ At1("unborn", "absent")
  /\ KeepData
  /\ UNCHANGED <<pc2, input, alive, installed, pending, sent, sem, semState,
                 signal_interrupted, abort_signal>>

CreateChild2 ==
  /\ AtM("create2", "sigactionInt")
  /\ At2("unborn", "wait") \/ At2("unborn", "absent")
  /\ KeepData
  /\ UNCHANGED <<pc1, input, alive, installed, pending, sent, sem, semState,
                 signal_interrupted, abort_signal>>

(* sigaction() or sem_init() fails in child1_init or in child2_init: main   *)
(* returns 1, though child 1 may be running by then.                        *)
InitFails ==
  /\ alive /\ pcm \in {"sigaction1", "sem1", "sigaction2", "sem2"}
  /\ Return
  /\ KeepStats
  /\ UNCHANGED <<input, installed, pending, sent, sem, semState,
                 signal_interrupted, abort_signal>>

child1_init ==
  \/ Sigaction("sigaction1", "sem1", "SIGUSR1")
  \/ SemInit("sem1", "create1", "sigusr1")
  \/ CreateChild1

child2_init ==
  \/ Sigaction("sigaction2", "sem2", "SIGUSR2")
  \/ SemInit("sem2", "create2", "sigusr2")
  \/ CreateChild2

(* main does not look at what sigaction() returned for SIGINT. *)
RegisterInt ==
  \/ Sigaction("sigactionInt", "test", "SIGINT")
  \/ /\ AtM("sigactionInt", "test") /\ KeepStats
     /\ UNCHANGED <<input, alive, installed, pending, sent, sem, semState,
                    signal_interrupted, abort_signal>>
----------------------------------------------------------------------------
(* Main's loop and the shutdown.                                           *)

LoopTest ==
  /\ AtM("test", IF signal_interrupted THEN "abort" ELSE "getchar")
  /\ KeepStats
  /\ UNCHANGED <<input, alive, installed, pending, sent, sem, semState,
                 signal_interrupted, abort_signal>>

(* getchar() returns what the user typed, or EOF. *)
Getchar(c) ==
  /\ AtM("getchar", "write")
  /\ input' = c
  /\ KeepStats
  /\ UNCHANGED <<alive, installed, pending, sent, sem, semState,
                 signal_interrupted, abort_signal>>

WriteInput ==
  /\ AtM("write", "test")
  /\ Write(input)
  /\ UNCHANGED <<input, alive, installed, pending, sent, sem, semState,
                 signal_interrupted, abort_signal>>

SetAbort ==
  /\ AtM("abort", "kill2")
  /\ abort_signal' = TRUE
  /\ KeepStats
  /\ UNCHANGED <<input, alive, installed, pending, sent, sem, semState,
                 signal_interrupted>>

(* A mutant: one of the children is not signalled. *)
KillUsr2Only(from, to, s) ==
  /\ AtM(from, to)
  /\ pending' = pending \cup (IF s = "SIGUSR2" THEN {s} ELSE {})
  /\ KeepStats
  /\ UNCHANGED <<input, alive, installed, sent, sem, semState,
                 signal_interrupted, abort_signal>>

Kill(from, to, s) ==
  /\ AtM(from, to)
  /\ pending' = pending \cup {s}
  /\ KeepStats
  /\ UNCHANGED <<input, alive, installed, sent, sem, semState,
                 signal_interrupted, abort_signal>>

(* A mutant: the thread is not waited for. *)
JoinAnyway(from, to, pc) ==
  /\ AtM(from, to)
  /\ KeepStats
  /\ UNCHANGED <<input, alive, installed, pending, sent, sem, semState,
                 signal_interrupted, abort_signal>>

Join(from, to, pc) ==
  /\ pc = "ended"
  /\ AtM(from, to)
  /\ KeepStats
  /\ UNCHANGED <<input, alive, installed, pending, sent, sem, semState,
                 signal_interrupted, abort_signal>>

(* pthread_join on a pthread_t nobody wrote: it fails, crashes, or never    *)
(* returns.                                                                 *)
JoinGarbage(from, to, pc) ==
  /\ pc = "absent"
  /\ \/ AtM(from, to) /\ UNCHANGED alive
     \/ AtM(from, from) /\ alive' = FALSE
  /\ KeepStats
  /\ UNCHANGED <<input, installed, pending, sent, sem, semState,
                 signal_interrupted, abort_signal>>

Exit ==
  /\ alive /\ pcm = "exit" /\ Return
  /\ KeepStats
  /\ UNCHANGED <<input, installed, pending, sent, sem, semState,
                 signal_interrupted, abort_signal>>

Shutdown ==
  \/ SetAbort
  \/ Kill("kill2", "kill1", "SIGUSR2")
  \/ Kill("kill1", "join1", "SIGUSR1")
  \/ Join("join1", "join2", pc1)
  \/ Join("join2", "exit", pc2)
  \/ Exit

MainStep ==
  \/ Start \/ child1_init \/ child2_init \/ InitFails \/ RegisterInt
  \/ LoopTest \/ WriteInput \/ Shutdown
----------------------------------------------------------------------------
(* The children.                                                           *)

(* sem_wait finds a post. *)
Take(m) ==
  /\ sem[m] > 0
  /\ sem' = [sem EXCEPT ![m] = @ - 1]
  /\ UNCHANGED <<pcm, input, alive, installed, pending, sent, semState,
                 signal_interrupted, abort_signal>>

(* A mutant: child 2 destroys the semaphore child 1 does. *)
DestroyFirst(m) ==
  /\ semState' = [semState EXCEPT !["sigusr1"] = "destroyed"]
  /\ UNCHANGED <<pcm, input, alive, installed, pending, sent, sem,
                 signal_interrupted, abort_signal>>

Destroy(m) ==
  /\ semState' = [semState EXCEPT ![m] = "destroyed"]
  /\ UNCHANGED <<pcm, input, alive, installed, pending, sent, sem,
                 signal_interrupted, abort_signal>>

(* A mutant: the thread can be cancelled wherever it is. *)
LeaveAnywhere1 ==
  /\ abort_signal /\ pc1 \notin {"unborn", "absent", "cleanup", "ended"}
  /\ pc1' = "cleanup" /\ UNCHANGED pc2
  /\ KeepData /\ KeepControl

Leave1 ==
  /\ abort_signal /\ At1("check", "cleanup") /\ UNCHANGED pc2
  /\ KeepData /\ KeepControl

child1_thread ==
  \/ alive /\ Take("sigusr1") /\ Wake1
  \/ Leave1
  \/ ~abort_signal /\ Begin1 /\ KeepControl
  \/ pc1 # "check" /\ get_file_info /\ KeepControl
  \/ /\ alive /\ Destroy("sigusr1")
     /\ At1("cleanup", "ended") /\ UNCHANGED pc2 /\ KeepData

child2_thread ==
  \/ alive /\ Take("sigusr2") /\ Wake2
  \/ /\ abort_signal /\ At2("check", "cleanup") /\ UNCHANGED pc1
     /\ KeepData /\ KeepControl
  \/ ~abort_signal /\ Begin2 /\ KeepControl
  \/ pc2 # "check" /\ print_file_stats /\ KeepControl
  \/ /\ alive /\ Destroy("sigusr2")
     /\ At2("cleanup", "ended") /\ UNCHANGED pc1 /\ KeepData
----------------------------------------------------------------------------
(* Signals.                                                                *)

Send(s) ==
  /\ alive /\ sent < MaxSent
  /\ sent' = sent + 1
  /\ pending' = pending \cup {s}
  /\ KeepStats
  /\ UNCHANGED <<pcm, input, alive, installed, sem, semState,
                 signal_interrupted, abort_signal>>

(* A mutant: both handlers post the same semaphore. *)
SemOfFirst(s) == "sigusr2"

SemOf(s) == IF s = "SIGUSR1" THEN "sigusr1" ELSE "sigusr2"

Handler(s) ==
  IF s = "SIGINT"
  THEN signal_interrupted' = TRUE /\ UNCHANGED sem
  ELSE sem' = [sem EXCEPT ![SemOf(s)] = @ + 1] /\ UNCHANGED signal_interrupted

(* The call the thread is blocked in fails with EINTR: getchar() returns    *)
(* EOF, sem_wait() returns without having decremented.                      *)
Interrupts(t) ==
  CASE t = "main" ->
         /\ AtM("getchar", "write") /\ input' = EofByte /\ KeepStats
    [] t = "child1" -> sem["sigusr1"] = 0 /\ Wake1 /\ UNCHANGED <<pcm, input>>
    [] t = "child2" -> sem["sigusr2"] = 0 /\ Wake2 /\ UNCHANGED <<pcm, input>>

Running(t) ==
  CASE t = "main"   -> TRUE
    [] t = "child1" -> pc1 \notin {"unborn", "absent", "ended"}
    [] t = "child2" -> pc2 \notin {"unborn", "absent", "ended"}

Deliver(s, t) ==
  /\ alive /\ s \in pending \cap installed /\ Running(t)
  /\ pending' = pending \ {s}
  /\ Handler(s)
  /\ \/ Interrupts(t)
     \/ KeepStats /\ UNCHANGED <<pcm, input>>
  /\ UNCHANGED <<alive, installed, sent, semState, abort_signal>>

(* Without its handler a signal ends the process. *)
DefaultAction(s) ==
  /\ alive /\ s \in pending \ installed
  /\ alive' = FALSE /\ pending' = pending \ {s}
  /\ KeepStats
  /\ UNCHANGED <<pcm, input, installed, sent, sem, semState,
                 signal_interrupted, abort_signal>>

Signal(s) == DefaultAction(s) \/ \E t \in Threads : Deliver(s, t)
----------------------------------------------------------------------------
Prob5Init ==
  /\ file = <<>> /\ fdOk \in BOOLEAN /\ offset = 0
  /\ stats = Zero /\ owner = "none"
  /\ pc1 = "unborn" /\ pc2 = "unborn"
  /\ printed = Zero /\ last = Zero
  /\ pcm = "start" /\ input = EofByte /\ alive = TRUE
  /\ installed = {} /\ pending = {} /\ sent = 0
  /\ sem = [m \in Sems |-> 0] /\ semState = [m \in Sems |-> "none"]
  /\ signal_interrupted = FALSE /\ abort_signal = FALSE

JoinAbsent ==
  \/ JoinGarbage("join1", "join2", pc1)
  \/ JoinGarbage("join2", "exit", pc2)

Ended == ~alive /\ UNCHANGED vars

Prob5Next ==
  \/ MainStep \/ JoinAbsent
  \/ \E c \in Bytes : Getchar(c)
  \/ child1_thread \/ child2_thread
  \/ \E s \in Signals : Send(s) \/ Signal(s)
  \/ Ended

(* The scheduler runs every thread and delivers every pending signal.       *)
(* Nothing makes the user type.                                             *)
Prob5Spec ==
  /\ Prob5Init /\ [][Prob5Next]_vars
  /\ WF_vars(MainStep)
  /\ WF_vars(child1_thread) /\ WF_vars(child2_thread)
  /\ \A s \in Signals : WF_vars(Signal(s))

(* Standard input that always has a byte, or has ended. *)
TypingSpec == Prob5Spec /\ WF_vars(\E c \in Bytes : Getchar(c))
----------------------------------------------------------------------------
(* Properties.                                                             *)

ControlTypes ==
  /\ pcm \in {"start", "sigaction1", "sem1", "create1", "sigaction2", "sem2",
              "create2", "sigactionInt", "test", "getchar", "write", "abort",
              "kill2", "kill1", "join1", "join2", "exit", "returned"}
  /\ input \in Bytes /\ alive \in BOOLEAN
  /\ installed \subseteq Signals /\ pending \subseteq Signals
  /\ sent \in 0 .. MaxSent
  /\ sem \in [Sems -> Nat]
  /\ semState \in [Sems -> {"none", "ready", "destroyed"}]
  /\ signal_interrupted \in BOOLEAN /\ abort_signal \in BOOLEAN

ReadySems ==
  /\ Running("child1") => semState["sigusr1"] = "ready"
  /\ Running("child2") => semState["sigusr2"] = "ready"

(* Types; and each child has a semaphore to wait on as long as it runs: it  *)
(* is created after sem_init (child1.c:198, child2.c:81), whatever fails in *)
(* between, and neither child destroys the other's when it ends first.      *)
ControlTypeOK == ControlTypes /\ ReadySems

(* When main returns after the shutdown, a count that was under way has     *)
(* been finished, and the mutex is free: pthread_join waits for the         *)
(* children whatever they were at when abort_signal was set.                *)
ExitsWithFullCount ==
  pcm = "returned" /\ abort_signal /\ pc1 # "absent" /\ pc2 # "absent"
    => stats = last /\ owner = "none"

(* The threads of the program use the file, the counts and the mutex as     *)
(* those of FileStats do: no signal, wherever it lands, makes a child skip  *)
(* a step of get_file_info or print_file_stats.                             *)
Stats == INSTANCE FileStats WITH
  pc1 <- IF pc1 \in {"unborn", "absent"} THEN "wait"
         ELSE IF pc1 \in {"cleanup", "ended"} THEN "check" ELSE pc1,
  pc2 <- IF pc2 \in {"unborn", "absent"} THEN "wait"
         ELSE IF pc2 \in {"cleanup", "ended"} THEN "check" ELSE pc2

ImplementsStats == Stats!Spec

Created == pc1 # "absent" /\ pc2 # "absent"

(* ex3prob5.c:100-111: once SIGINT is seen, and as long as bytes keep       *)
(* coming, the process ends, whatever user signals are merged with main's   *)
(* own, are pending, or interrupt the children.                             *)
InterruptEndsProgram == signal_interrupted ~> ~alive \/ ~Created

(* child1.c:37-43: a SIGUSR1 that is pending when the handler is installed   *)
(* and the semaphore exists is followed by a count that starts after it,    *)
(* even when it is merged with another or arrives during a count.           *)
Requested ==
  alive /\ "SIGUSR1" \in pending \cap installed /\ semState["sigusr1"] = "ready"

RequestIsServed ==
  Requested ~> pc1 = "zero" \/ abort_signal \/ ~alive \/ ~Created

(* ex3prob5.c:89 says of main's loop: "Loop until ctrl-c is pressed".  So   *)
(* SIGINT ends the loop.                                                    *)
CtrlCEndsLoop ==
  signal_interrupted /\ Created
    ~> pcm \notin {"test", "getchar", "write"} \/ ~alive

(* child1.c:197 and child2.c:80 say of sem_init: "Create the semaphore to   *)
(* be posted by the signal handler", and each thread destroys it before it  *)
(* ends.  So no handler posts a semaphore that has been destroyed.          *)
NoPostAfterDestroy ==
  [][\A m \in Sems : semState[m] = "destroyed" => sem'[m] <= sem[m]]_vars
=============================================================================
