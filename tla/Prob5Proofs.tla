----------------------------- MODULE Prob5Proofs -----------------------------
(***************************************************************************)
(* Proofs about the program ex3prob5, for any number of signals, at any     *)
(* moment and in any thread: it uses the counts as FileStats does, so what  *)
(* is proved of FileStats holds of it, and it does not end inside a count.  *)
(***************************************************************************)
EXTENDS Prob5, TLAPS

(* What is proved of FileStats, read on this program's threads. *)
P == INSTANCE FileStatsProofs WITH
  pc1 <- IF pc1 \in {"unborn", "absent"} THEN "wait"
         ELSE IF pc1 \in {"cleanup", "ended"} THEN "check" ELSE pc1,
  pc2 <- IF pc2 \in {"unborn", "absent"} THEN "wait"
         ELSE IF pc2 \in {"cleanup", "ended"} THEN "check" ELSE pc2
----------------------------------------------------------------------------
(* Every step of the program is one of FileStats, or leaves it alone.      *)

LEMMA KeptIsStutter == KeepStats => UNCHANGED Stats!statsVars
  BY DEF KeepStats, statsVars, Stats!statsVars

(* The steps FileStats does not see: a thread that is created, or that      *)
(* leaves its loop, where FileStats has it waiting or about to check.       *)
LEMMA ThreadsComeAndGo ==
  ASSUME \/ CreateChild1 \/ CreateChild2 \/ Leave1
         \/ KeepData /\ At1("cleanup", "ended") /\ UNCHANGED pc2
         \/ KeepData /\ At2("check", "cleanup") /\ UNCHANGED pc1
         \/ KeepData /\ At2("cleanup", "ended") /\ UNCHANGED pc1
  PROVE  UNCHANGED Stats!statsVars
  <1>1. CASE \/ CreateChild1 \/ Leave1
             \/ KeepData /\ At1("cleanup", "ended") /\ UNCHANGED pc2
    <2>1. \/ pc1 = "unborn" /\ pc1' \in {"wait", "absent"}
          \/ pc1 = "check" /\ pc1' = "cleanup"
          \/ pc1 = "cleanup" /\ pc1' = "ended"
      BY <1>1 DEF CreateChild1, Leave1, At1
    <2>2. KeepData /\ UNCHANGED pc2
      BY <1>1 DEF CreateChild1, Leave1
    <2> QED
      BY <2>1, <2>2 DEF KeepData, Stats!statsVars
  <1>2. CASE \/ CreateChild2
             \/ KeepData /\ At2("check", "cleanup") /\ UNCHANGED pc1
             \/ KeepData /\ At2("cleanup", "ended") /\ UNCHANGED pc1
    <2>1. \/ pc2 = "unborn" /\ pc2' \in {"wait", "absent"}
          \/ pc2 = "check" /\ pc2' = "cleanup"
          \/ pc2 = "cleanup" /\ pc2' = "ended"
      BY <1>2 DEF CreateChild2, At2
    <2>2. KeepData /\ UNCHANGED pc1
      BY <1>2 DEF CreateChild2
    <2> QED
      BY <2>1, <2>2 DEF KeepData, Stats!statsVars
  <1> QED
    BY <1>1, <1>2

LEMMA SameCardinality == \A S : Stats!Cardinality(S) = Cardinality(S)
  BY DEF Stats!Cardinality, Cardinality

LEMMA WriteIsStep ==
  ASSUME NEW c \in Bytes, Write(c)
  PROVE  Stats!Next
  <1>1. Stats!Write(c)
    BY DEF Write, Stats!Write
  <1> QED
    BY <1>1 DEF Stats!Next, Stats!Bytes, Bytes

(* A child in its loop does what it does in FileStats. *)
LEMMA Child1IsStep ==
  ASSUME Wake1 \/ get_file_info
  PROVE  Stats!Next
  <1>1. ASSUME Wake1 PROVE Stats!Wake1
    BY <1>1 DEF Wake1, At1, Stats!Wake1, Stats!At1
  <1>2. ASSUME Begin1 PROVE Stats!Begin1
    BY <1>2 DEF Begin1, At1, Stats!Begin1, Stats!At1
  <1>3. ASSUME ZeroSome PROVE Stats!ZeroSome
    BY <1>3 DEF ZeroSome, At1, Stats!ZeroSome, Stats!At1, Fields, Stats!Fields
  <1>4. ASSUME ZeroRest PROVE Stats!ZeroRest
    BY <1>4 DEF ZeroRest, At1, Stats!ZeroRest, Stats!At1, Zero, Stats!Zero,
                Fields, Stats!Fields
  <1>5. ASSUME Lock1 PROVE Stats!Lock1
    BY <1>5 DEF Lock1, At1, Stats!Lock1, Stats!At1
  <1>6. ASSUME Read PROVE Stats!Read
    <2>1. Stats!ReadResult = ReadResult
      BY DEF Stats!ReadResult, ReadResult
    <2>2. Stats!ReadBytes = ReadBytes
      BY <2>1 DEF Stats!ReadBytes, ReadBytes
    <2>3. \A s : Stats!WordEnds(s) = WordEnds(s) /\ Stats!LineEnds(s) = LineEnds(s)
      BY DEF Stats!WordEnds, WordEnds, Stats!LineEnds, LineEnds,
             Stats!Separators, Separators
    <2>4. Stats!get_info(stats, ReadBytes, ReadResult)
            = get_info(stats, ReadBytes, ReadResult)
      BY <2>3, SameCardinality DEF Stats!get_info, get_info
    <2>5. pc1' \in {"read", "adjust"}
      BY <1>6 DEF Read
    <2> QED
      BY <1>6, <2>1, <2>2, <2>4, <2>5 DEF Read, Stats!Read
  <1>7. ASSUME Adjust PROVE Stats!Adjust
    BY <1>7 DEF Adjust, At1, Stats!Adjust, Stats!At1
  <1>8. ASSUME Unlock1 PROVE Stats!Unlock1
    BY <1>8 DEF Unlock1, At1, Stats!Unlock1, Stats!At1
  <1> QED
    BY <1>1, <1>2, <1>3, <1>4, <1>5, <1>6, <1>7, <1>8
       DEF get_file_info, Stats!get_file_info, Stats!Next

LEMMA Child2IsStep ==
  ASSUME Wake2 \/ print_file_stats
  PROVE  Stats!Next
  <1>1. ASSUME Wake2 PROVE Stats!Wake2
    BY <1>1 DEF Wake2, At2, Stats!Wake2, Stats!At2
  <1>2. ASSUME Begin2 PROVE Stats!Begin2
    BY <1>2 DEF Begin2, At2, Stats!Begin2, Stats!At2
  <1>3. ASSUME Lock2 PROVE Stats!Lock2
    BY <1>3 DEF Lock2, At2, Stats!Lock2, Stats!At2
  <1>4. ASSUME LogStats PROVE Stats!LogStats
    BY <1>4 DEF LogStats, At2, Stats!LogStats, Stats!At2
  <1>5. ASSUME Unlock2 PROVE Stats!Unlock2
    BY <1>5 DEF Unlock2, At2, Stats!Unlock2, Stats!At2
  <1> QED
    BY <1>1, <1>2, <1>3, <1>4, <1>5
       DEF print_file_stats, Stats!print_file_stats, Stats!Next

(* A handler interrupts a call, or changes nothing FileStats sees. *)
LEMMA SignalIsStep ==
  ASSUME NEW s \in Signals, Signal(s)
  PROVE  [Stats!Next]_(Stats!statsVars)
  <1>1. CASE DefaultAction(s)
    BY <1>1, KeptIsStutter DEF DefaultAction
  <1>2. ASSUME NEW t \in Threads, Deliver(s, t), ~KeepStats
        PROVE  Stats!Next
    <2>1. Interrupts(t) /\ t \in {"main", "child1", "child2"}
      BY <1>2 DEF Deliver, Threads
    <2>2. Wake1 \/ Wake2
      BY <1>2, <2>1 DEF Interrupts
    <2> QED
      BY <2>2, Child1IsStep, Child2IsStep
  <1> QED
    BY <1>1, <1>2, KeptIsStutter DEF Signal

LEMMA MainKeeps ==
  ASSUME \/ Start \/ InitFails \/ RegisterInt \/ LoopTest \/ Shutdown \/ JoinAbsent
         \/ \E from, to, s : Sigaction(from, to, s) \/ SemInit(from, to, s)
         \/ \E c \in Bytes : Getchar(c)
         \/ \E s \in Signals : Send(s)
  PROVE  KeepStats
  BY DEF Start, InitFails, RegisterInt, LoopTest, Shutdown, JoinAbsent, JoinGarbage,
         SetAbort, Kill, Join, Exit, Sigaction, SemInit, Getchar, Send

LEMMA StepIsStep ==
  ASSUME input \in Bytes, [Prob5Next]_vars
  PROVE  [Stats!Next]_(Stats!statsVars)
  <1>1. CASE MainStep
    <2>1. CASE Start \/ InitFails \/ RegisterInt \/ LoopTest \/ Shutdown
      BY <2>1, MainKeeps, KeptIsStutter
    <2>2. CASE child1_init
      BY <2>2, MainKeeps, KeptIsStutter, ThreadsComeAndGo DEF child1_init
    <2>3. CASE child2_init
      BY <2>3, MainKeeps, KeptIsStutter, ThreadsComeAndGo DEF child2_init
    <2>4. CASE WriteInput
      BY <2>4, WriteIsStep DEF WriteInput
    <2> QED
      BY <1>1, <2>1, <2>2, <2>3, <2>4 DEF MainStep
  <1>2. CASE JoinAbsent \/ \E c \in Bytes : Getchar(c)
    BY <1>2, MainKeeps, KeptIsStutter
  <1>3. CASE child1_thread
    BY <1>3, Child1IsStep, ThreadsComeAndGo DEF child1_thread, get_file_info
  <1>4. CASE child2_thread
    BY <1>4, Child2IsStep, ThreadsComeAndGo
       DEF child2_thread, print_file_stats, KeepControl
  <1>5. ASSUME NEW s \in Signals, Send(s) \/ Signal(s)
        PROVE  [Stats!Next]_(Stats!statsVars)
    BY <1>5, MainKeeps, KeptIsStutter, SignalIsStep
  <1>6. CASE UNCHANGED vars
    BY <1>6, KeptIsStutter DEF vars, KeepStats
  <1> QED
    BY <1>1, <1>2, <1>3, <1>4, <1>5, <1>6 DEF Prob5Next, Ended
----------------------------------------------------------------------------
(* The inductive invariant: the types, what FileStats keeps, and that the   *)
(* children main has joined are past their loops.                           *)

Past(pc) == pc \in {"ended", "absent"}

Joined ==
  /\ abort_signal => pcm \in {"kill2", "kill1", "join1", "join2", "exit", "returned"}
  /\ abort_signal /\ pcm \in {"join2", "exit", "returned"} => Past(pc1)
  /\ abort_signal /\ pcm \in {"exit", "returned"} => Past(pc2)

ControlInv == ControlTypes /\ Joined

LEMMA ControlInit == Prob5Init => ControlInv
  <1> SUFFICES ASSUME Prob5Init PROVE ControlInv
    OBVIOUS
  <1>1. sent \in 0 .. MaxSent /\ sem \in [Sems -> Nat]
    BY Prob5Assumption DEF Prob5Init
  <1>2. semState \in [Sems -> {"none", "ready", "destroyed"}] /\ input \in Bytes
    BY DEF Prob5Init, Bytes
  <1>3. alive \in BOOLEAN /\ signal_interrupted \in BOOLEAN /\ abort_signal \in BOOLEAN
        /\ ~abort_signal
    BY DEF Prob5Init
  <1> QED
    BY <1>1, <1>2, <1>3 DEF Prob5Init, ControlInv, ControlTypes, Joined

(* Main, before it is interrupted. *)
LEMMA StartKeepsControl ==
  ASSUME ControlInv,
         \/ Start \/ child1_init \/ child2_init \/ InitFails \/ RegisterInt
         \/ LoopTest \/ WriteInput \/ \E c \in Bytes : Getchar(c)
  PROVE  ControlInv'
  <1> USE DEF ControlInv, ControlTypes, Joined, AtM, Return
  <1>1. CASE Start \/ InitFails
    <2>1. ~abort_signal /\ ~abort_signal'
      BY <1>1 DEF Start, InitFails
    <2>2. alive' \in BOOLEAN /\ pcm' \in {"sigaction1", "returned"}
      BY <1>1 DEF Start, InitFails
    <2>3. UNCHANGED <<input, installed, pending, sent, sem, semState,
                      signal_interrupted, abort_signal>>
      BY <1>1 DEF Start, InitFails
    <2> QED
      BY <2>1, <2>2, <2>3
  <1>2. ASSUME NEW from, NEW to, NEW s, Sigaction(from, to, s), s \in Signals,
               from \in {"sigaction1", "sigaction2", "sigactionInt"},
               to \in {"sem1", "sem2", "test"}
        PROVE  ControlInv'
    <2>1. ~abort_signal /\ ~abort_signal'
      BY <1>2 DEF Sigaction
    <2>2. ControlTypes'
      BY <1>2 DEF Sigaction
    <2> QED
      BY <2>1, <2>2
  <1>3. ASSUME NEW from, NEW to, NEW m, SemInit(from, to, m), m \in Sems,
               from \in {"sem1", "sem2"}, to \in {"create1", "create2"}
        PROVE  ControlInv'
    BY <1>3 DEF SemInit
  <1>4. CASE CreateChild1 \/ CreateChild2
    BY <1>4 DEF CreateChild1, CreateChild2
  <1>5. CASE RegisterInt \/ LoopTest
    <2>1. CASE Sigaction("sigactionInt", "test", "SIGINT")
      BY <1>2, <2>1 DEF Signals
    <2>2. CASE /\ AtM("sigactionInt", "test")
               /\ UNCHANGED <<input, alive, installed, pending, sent, sem, semState,
                              signal_interrupted, abort_signal>>
      BY <2>2
    <2>3. CASE LoopTest
      <3>1. ~abort_signal /\ pcm' \in {"abort", "getchar"}
        BY <2>3 DEF LoopTest
      <3> QED
        BY <2>3, <3>1 DEF LoopTest
    <2> QED
      BY <1>5, <2>1, <2>2, <2>3 DEF RegisterInt
  <1>6. CASE WriteInput \/ \E c \in Bytes : Getchar(c)
    BY <1>6 DEF WriteInput, Getchar
  <1>7. CASE child1_init \/ child2_init
    <2>1. \/ Sigaction("sigaction1", "sem1", "SIGUSR1")
          \/ Sigaction("sigaction2", "sem2", "SIGUSR2")
          \/ SemInit("sem1", "create1", "sigusr1")
          \/ SemInit("sem2", "create2", "sigusr2")
          \/ CreateChild1 \/ CreateChild2
      BY <1>7 DEF child1_init, child2_init
    <2>2. /\ "SIGUSR1" \in Signals /\ "SIGUSR2" \in Signals
          /\ "sigusr1" \in Sems /\ "sigusr2" \in Sems
      BY DEF Signals, Sems
    <2>3. CASE Sigaction("sigaction1", "sem1", "SIGUSR1")
      BY <2>2, <2>3, <1>2
    <2>4. CASE Sigaction("sigaction2", "sem2", "SIGUSR2")
      BY <2>2, <2>4, <1>2
    <2>5. CASE SemInit("sem1", "create1", "sigusr1")
      BY <2>2, <2>5, <1>3
    <2>6. CASE SemInit("sem2", "create2", "sigusr2")
      BY <2>2, <2>6, <1>3
    <2> QED
      BY <2>1, <2>3, <2>4, <2>5, <2>6, <1>4
  <1> QED
    BY <1>1, <1>5, <1>6, <1>7

(* The shutdown goes past a join only when the thread is past its loop. *)
LEMMA ShutdownKeepsControl ==
  ASSUME ControlInv, Shutdown \/ JoinAbsent
  PROVE  ControlInv'
  <1> USE DEF ControlInv, ControlTypes, Joined, AtM, Return, Past
  <1>1. CASE SetAbort
    <2>1. abort_signal' \in BOOLEAN /\ pcm' = "kill2"
      BY <1>1 DEF SetAbort
    <2>2. UNCHANGED <<input, alive, installed, pending, sent, sem, semState,
                      signal_interrupted>>
      BY <1>1 DEF SetAbort
    <2> QED
      BY <2>1, <2>2
  <1>2. ASSUME NEW s \in Signals,
               Kill("kill2", "kill1", s) \/ Kill("kill1", "join1", s)
        PROVE  ControlInv'
    BY <1>2 DEF Kill
  <1>3. CASE Join("join1", "join2", pc1) \/ Join("join2", "exit", pc2)
    BY <1>3 DEF Join, KeepStats, statsVars
  <1>4. CASE Exit
    <2>1. alive' \in BOOLEAN /\ pcm = "exit" /\ pcm' = "returned"
      BY <1>4 DEF Exit
    <2>2. UNCHANGED <<input, installed, pending, sent, sem, semState,
                      signal_interrupted, abort_signal, pc1, pc2>>
      BY <1>4 DEF Exit, KeepStats, statsVars
    <2> QED
      BY <2>1, <2>2
  <1>5. CASE JoinAbsent
    <2>1. alive' \in BOOLEAN
      BY <1>5 DEF JoinAbsent, JoinGarbage
    <2>2. \/ pcm = "join1" /\ pcm' = "join2" /\ pc1 = "absent"
          \/ pcm = "join2" /\ pcm' = "exit" /\ pc2 = "absent"
          \/ pcm' = pcm
      BY <1>5 DEF JoinAbsent, JoinGarbage
    <2>3. UNCHANGED <<input, installed, pending, sent, sem, semState,
                      signal_interrupted, abort_signal, pc1, pc2>>
      BY <1>5 DEF JoinAbsent, JoinGarbage, KeepStats, statsVars
    <2> QED
      BY <2>1, <2>2, <2>3
  <1>6. "SIGUSR1" \in Signals /\ "SIGUSR2" \in Signals
    BY DEF Signals
  <1> QED
    BY <1>1, <1>2, <1>3, <1>4, <1>5, <1>6 DEF Shutdown

(* The children move no variable of main, and stay past their loops. *)
LEMMA ChildKeepsControl ==
  ASSUME ControlInv, child1_thread \/ child2_thread
  PROVE  ControlInv'
  <1>1. /\ UNCHANGED <<pcm, input, alive, installed, pending, sent,
                       signal_interrupted, abort_signal>>
        /\ \/ UNCHANGED sem
           \/ \E m \in Sems : sem[m] > 0 /\ sem' = [sem EXCEPT ![m] = @ - 1]
        /\ \/ UNCHANGED semState
           \/ \E m \in Sems : semState' = [semState EXCEPT ![m] = "destroyed"]
    BY DEF child1_thread, child2_thread, Take, Destroy, Leave1, KeepControl,
           controlVars, Sems
  <1>2. (Past(pc1) => pc1' = pc1) /\ (Past(pc2) => pc2' = pc2)
    BY DEF child1_thread, child2_thread, Leave1, Wake1, Wake2, get_file_info,
           print_file_stats, Begin1, ZeroSome, ZeroRest, Lock1, Read, Adjust, Unlock1,
           Begin2, Lock2, LogStats, Unlock2, At1, At2, Past
  <1>3. ControlTypes'
    BY <1>1 DEF ControlInv, ControlTypes
  <1>4. Joined'
    BY <1>1, <1>2 DEF ControlInv, Joined
  <1> QED
    BY <1>3, <1>4 DEF ControlInv

(* A handler runs in any thread, wherever it is. *)
LEMMA SignalKeepsControl ==
  ASSUME ControlInv, NEW s \in Signals, Send(s) \/ Signal(s)
  PROVE  ControlInv'
  <1>1. CASE Send(s)
    <2>1. sent' \in 0 .. MaxSent /\ pending' \subseteq Signals
      <3>1. sent' = sent + 1 /\ sent < MaxSent /\ sent \in 0 .. MaxSent
        BY <1>1 DEF Send, ControlInv, ControlTypes
      <3>2. pending' = pending \cup {s} /\ pending \subseteq Signals
        BY <1>1 DEF Send, ControlInv, ControlTypes
      <3> QED
        BY <3>1, <3>2, Prob5Assumption
    <2>2. UNCHANGED <<pcm, input, alive, installed, sem, semState,
                      signal_interrupted, abort_signal, pc1, pc2>>
      BY <1>1 DEF Send, KeepStats, statsVars
    <2> QED
      BY <2>1, <2>2 DEF ControlInv, ControlTypes, Joined
  <1>2. CASE DefaultAction(s)
    <2>1. alive' \in BOOLEAN
      BY <1>2 DEF DefaultAction
    <2> QED
      BY <1>2, <2>1 DEF DefaultAction, ControlInv, ControlTypes, Joined, KeepStats, statsVars
  <1>3. ASSUME NEW t \in Threads, Deliver(s, t)
        PROVE  ControlInv'
    <2>1. UNCHANGED <<alive, installed, sent, semState, abort_signal>>
          /\ pending' = pending \ {s}
      BY <1>3 DEF Deliver
    <2>2. signal_interrupted' \in BOOLEAN
      BY <1>3 DEF Deliver, Handler, ControlInv, ControlTypes
    <2>3. sem' \in [Sems -> Nat]
      <3>1. sem' = sem \/ \E m \in Sems : sem' = [sem EXCEPT ![m] = @ + 1]
        BY <1>3 DEF Deliver, Handler, SemOf, Sems
      <3> QED
        BY <3>1 DEF ControlInv, ControlTypes
    <2>4. \/ UNCHANGED <<pcm, input, pc1, pc2>>
          \/ /\ pcm = "getchar" /\ pcm' = "write" /\ input' = EofByte
             /\ UNCHANGED <<pc1, pc2>>
          \/ UNCHANGED <<pcm, input, pc2>> /\ pc1 = "wait"
          \/ UNCHANGED <<pcm, input, pc1>> /\ pc2 = "wait"
      BY <1>3 DEF Deliver, Threads, Interrupts, AtM, KeepStats, statsVars,
                  Wake1, Wake2, At1, At2
    <2>5. ControlTypes'
      BY <2>1, <2>2, <2>3, <2>4 DEF ControlInv, ControlTypes, Bytes
    <2>6. Joined'
      BY <2>1, <2>4 DEF ControlInv, Joined, Past
    <2> QED
      BY <2>5, <2>6 DEF ControlInv
  <1> QED
    BY <1>1, <1>2, <1>3 DEF Signal

LEMMA ControlNext ==
  ASSUME ControlInv, [Prob5Next]_vars
  PROVE  ControlInv'
  <1>1. CASE UNCHANGED vars
    BY <1>1 DEF vars, controlVars, statsVars, ControlInv, ControlTypes, Joined
  <1>2. CASE Ended
    BY <1>1, <1>2 DEF Ended
  <1>3. CASE MainStep \/ JoinAbsent \/ \E c \in Bytes : Getchar(c)
    BY <1>3, StartKeepsControl, ShutdownKeepsControl DEF MainStep
  <1>4. CASE child1_thread \/ child2_thread
    BY <1>4, ChildKeepsControl
  <1>5. CASE \E s \in Signals : Send(s) \/ Signal(s)
    BY <1>5, SignalKeepsControl
  <1> QED
    BY <1>1, <1>2, <1>3, <1>4, <1>5 DEF Prob5Next
----------------------------------------------------------------------------
(* The semaphores: main initialises each before it creates the child that   *)
(* waits on it, and that child alone destroys it, when it ends.             *)

Born(pc) == pc \notin {"unborn", "absent", "ended"}

Readied ==
  /\ pcm \in {"start", "sigaction1", "sem1", "create1"} => pc1 = "unborn"
  /\ pcm \in {"start", "sigaction1", "sem1", "create1", "sigaction2", "sem2", "create2"}
       => pc2 = "unborn"
  /\ pcm = "create1" => semState["sigusr1"] = "ready"
  /\ pcm = "create2" => semState["sigusr2"] = "ready"
  /\ ReadySems

LEMMA ReadySemsAre ==
  ReadySems <=> /\ Born(pc1) => semState["sigusr1"] = "ready"
                /\ Born(pc2) => semState["sigusr2"] = "ready"
  BY DEF ReadySems, Running, Born

LEMMA ReadySemsAreNext ==
  ReadySems' <=> /\ Born(pc1') => semState'["sigusr1"] = "ready"
                 /\ Born(pc2') => semState'["sigusr2"] = "ready"
  BY DEF ReadySems, Running, Born

LEMMA ReadiedInit == Prob5Init => Readied
  BY ReadySemsAre DEF Prob5Init, Readied, Born

(* A step that initialises and destroys nothing, and bears no child. *)
LEMMA OldChildrenKeepReadied ==
  ASSUME Readied, UNCHANGED semState,
         pc1' = pc1 \/ Born(pc1), pc2' = pc2 \/ Born(pc2),
         \/ pcm' = pcm
         \/ pcm' \notin {"start", "sem1", "create1", "sem2", "create2"}
         \/ pcm = "sigaction1" /\ pcm' = "sem1"
         \/ pcm = "sigaction2" /\ pcm' = "sem2",
         pcm' = "sigaction1" => pcm \in {"start", "sigaction1"},
         pcm' = "sigaction2" => pcm = "sigaction2"
  PROVE  Readied'
  BY ReadySemsAre, ReadySemsAreNext DEF Readied, Born

LEMMA MainKeepsReadied ==
  ASSUME Readied, semState \in [Sems -> {"none", "ready", "destroyed"}],
         MainStep \/ JoinAbsent \/ \E c \in Bytes : Getchar(c)
  PROVE  Readied'
  <1>1. CASE Start \/ InitFails \/ RegisterInt \/ LoopTest \/ Shutdown \/ JoinAbsent
              \/ \E c \in Bytes : Getchar(c)
    <2>1. KeepStats /\ UNCHANGED semState
      BY <1>1, MainKeeps
         DEF Start, InitFails, RegisterInt, LoopTest, Shutdown, JoinAbsent, JoinGarbage,
             SetAbort, Kill, Join, Exit, Sigaction, Getchar
    <2>2. /\ \/ pcm' = pcm
             \/ pcm' \notin {"start", "sem1", "create1", "sem2", "create2"}
          /\ pcm' = "sigaction1" => pcm \in {"start", "sigaction1"}
          /\ pcm' # "sigaction2" \/ pcm = "sigaction2"
      BY <1>1 DEF Start, InitFails, RegisterInt, LoopTest, Shutdown, JoinAbsent,
         JoinGarbage, SetAbort, Kill, Join, Exit, Sigaction, Getchar, AtM, Return
    <2> QED
      BY <2>1, <2>2, OldChildrenKeepReadied DEF KeepStats, statsVars
  <1>2. CASE WriteInput
    BY <1>2, OldChildrenKeepReadied DEF WriteInput, Write, AtM
  <1>3. CASE \/ Sigaction("sigaction1", "sem1", "SIGUSR1")
             \/ Sigaction("sigaction2", "sem2", "SIGUSR2")
    BY <1>3, OldChildrenKeepReadied DEF Sigaction, AtM, KeepStats, statsVars
  <1>4. CASE SemInit("sem1", "create1", "sigusr1") \/ SemInit("sem2", "create2", "sigusr2")
    <2>1. /\ UNCHANGED <<pc1, pc2>>
          /\ \/ /\ pcm = "sem1" /\ pcm' = "create1"
                /\ semState' = [semState EXCEPT !["sigusr1"] = "ready"]
             \/ /\ pcm = "sem2" /\ pcm' = "create2"
                /\ semState' = [semState EXCEPT !["sigusr2"] = "ready"]
      BY <1>4 DEF SemInit, AtM, KeepStats, statsVars
    <2> QED
      BY <2>1, ReadySemsAre, ReadySemsAreNext DEF Readied, Born, Sems
  <1>5. CASE CreateChild1 \/ CreateChild2
    <2>1. /\ UNCHANGED semState
          /\ \/ /\ pcm = "create1" /\ pcm' = "sigaction2" /\ UNCHANGED pc2
                /\ pc1 = "unborn" /\ pc1' \in {"wait", "absent"}
             \/ /\ pcm = "create2" /\ pcm' = "sigactionInt" /\ UNCHANGED pc1
                /\ pc2 = "unborn" /\ pc2' \in {"wait", "absent"}
      BY <1>5 DEF CreateChild1, CreateChild2, AtM, At1, At2
    <2> QED
      BY <2>1, ReadySemsAre, ReadySemsAreNext DEF Readied, Born
  <1> QED
    BY <1>1, <1>2, <1>3, <1>4, <1>5 DEF MainStep, child1_init, child2_init

LEMMA ChildrenKeepReadied ==
  ASSUME Readied, semState \in [Sems -> {"none", "ready", "destroyed"}],
         child1_thread \/ child2_thread
  PROVE  Readied'
  <1>1. CASE Destroy("sigusr1") /\ At1("cleanup", "ended") /\ UNCHANGED pc2
    <2>1. /\ pc1 = "cleanup" /\ pc1' = "ended" /\ UNCHANGED <<pc2, pcm>>
          /\ semState' = [semState EXCEPT !["sigusr1"] = "destroyed"]
      BY <1>1 DEF Destroy, At1
    <2> QED
      BY <2>1, ReadySemsAre, ReadySemsAreNext DEF Readied, Born, Sems
  <1>2. CASE Destroy("sigusr2") /\ At2("cleanup", "ended") /\ UNCHANGED pc1
    <2>1. /\ pc2 = "cleanup" /\ pc2' = "ended" /\ UNCHANGED <<pc1, pcm>>
          /\ semState' = [semState EXCEPT !["sigusr2"] = "destroyed"]
      BY <1>2 DEF Destroy, At2
    <2> QED
      BY <2>1, ReadySemsAre, ReadySemsAreNext DEF Readied, Born, Sems
  <1>3. CASE \/ alive /\ Take("sigusr1") /\ Wake1
             \/ Leave1
             \/ ~abort_signal /\ Begin1 /\ KeepControl
             \/ pc1 # "check" /\ get_file_info /\ KeepControl
    <2>1. UNCHANGED <<pcm, semState, pc2>> /\ Born(pc1)
      BY <1>3 DEF Take, Leave1, KeepControl, controlVars, Wake1, get_file_info, Begin1,
         ZeroSome, ZeroRest, Lock1, Read, Adjust, Unlock1, At1, Born
    <2> QED
      BY <2>1, OldChildrenKeepReadied DEF Readied
  <1>4. CASE \/ alive /\ Take("sigusr2") /\ Wake2
             \/ abort_signal /\ At2("check", "cleanup") /\ UNCHANGED pc1 /\ KeepControl
             \/ ~abort_signal /\ Begin2 /\ KeepControl
             \/ pc2 # "check" /\ print_file_stats /\ KeepControl
    <2>1. UNCHANGED <<pcm, semState, pc1>> /\ Born(pc2)
      BY <1>4 DEF Take, KeepControl, controlVars, Wake2, print_file_stats, Begin2,
         Lock2, LogStats, Unlock2, At2, Born
    <2> QED
      BY <2>1, OldChildrenKeepReadied DEF Readied
  <1> QED
    BY <1>1, <1>2, <1>3, <1>4 DEF child1_thread, child2_thread

LEMMA SignalsKeepReadied ==
  ASSUME Readied, NEW s \in Signals, Send(s) \/ Signal(s)
  PROVE  Readied'
  <1>1. CASE Send(s) \/ DefaultAction(s)
    BY <1>1, OldChildrenKeepReadied DEF Send, DefaultAction, KeepStats, statsVars, Readied
  <1>2. ASSUME NEW t \in Threads, Deliver(s, t)
        PROVE  Readied'
    <2>1. /\ UNCHANGED semState
          /\ \/ UNCHANGED <<pcm, pc1, pc2>>
             \/ pcm = "getchar" /\ pcm' = "write" /\ UNCHANGED <<pc1, pc2>>
             \/ UNCHANGED <<pcm, pc2>> /\ pc1 = "wait"
             \/ UNCHANGED <<pcm, pc1>> /\ pc2 = "wait"
      BY <1>2 DEF Deliver, Threads, Interrupts, AtM, KeepStats, statsVars, Wake1, Wake2,
         At1, At2
    <2>2. (pc1' = pc1 \/ Born(pc1)) /\ (pc2' = pc2 \/ Born(pc2))
      BY <2>1 DEF Born
    <2> QED
      BY <2>1, <2>2, OldChildrenKeepReadied DEF Readied
  <1> QED
    BY <1>1, <1>2 DEF Signal

LEMMA ReadiedNext ==
  ASSUME ControlTypes, Readied, [Prob5Next]_vars
  PROVE  Readied'
  <1>1. semState \in [Sems -> {"none", "ready", "destroyed"}]
    BY DEF ControlTypes
  <1>2. CASE UNCHANGED vars
    BY <1>2, OldChildrenKeepReadied DEF vars, controlVars, statsVars, Readied
  <1> QED
    BY <1>1, <1>2, MainKeepsReadied, ChildrenKeepReadied, SignalsKeepReadied
       DEF Prob5Next, Ended
----------------------------------------------------------------------------
(* The invariant of the program: its own, and that of FileStats.           *)

(* Stats and P are the same module on the same threads. *)
LEMMA SameSteps ==
  /\ Stats!Init => P!Init
  /\ [Stats!Next]_(Stats!statsVars) => [P!Next]_(P!statsVars)
  BY DEF Stats!Init, P!Init, Stats!Zero, P!Zero, Stats!Fields, P!Fields,
         Stats!statsVars, P!statsVars, Stats!Next, P!Next, Stats!Bytes, P!Bytes,
         Stats!Write, P!Write, Stats!get_file_info, P!get_file_info,
         Stats!print_file_stats, P!print_file_stats, Stats!At1, P!At1, Stats!At2, P!At2,
         Stats!Wake1, P!Wake1, Stats!Begin1, P!Begin1, Stats!ZeroSome, P!ZeroSome,
         Stats!ZeroRest, P!ZeroRest, Stats!Lock1, P!Lock1, Stats!Read, P!Read,
         Stats!ReadResult, P!ReadResult, Stats!ReadBytes, P!ReadBytes,
         Stats!get_info, P!get_info, Stats!WordEnds, P!WordEnds, Stats!LineEnds,
         P!LineEnds, Stats!Separators, P!Separators, Stats!Cardinality, P!Cardinality,
         Stats!Adjust, P!Adjust, Stats!Unlock1, P!Unlock1, Stats!Wake2, P!Wake2,
         Stats!Begin2, P!Begin2, Stats!Lock2, P!Lock2, Stats!LogStats, P!LogStats,
         Stats!Unlock2, P!Unlock2

IInv == ControlInv /\ Readied /\ P!Inv

LEMMA InitIsInit == Prob5Init => Stats!Init
  BY DEF Prob5Init, Stats!Init, Zero, Stats!Zero, Fields, Stats!Fields

LEMMA IInvInit == Prob5Init => IInv
  BY ControlInit, ReadiedInit, InitIsInit, SameSteps, FileStatsAssumption, P!InvInit DEF IInv

LEMMA IInvNext == IInv /\ [Prob5Next]_vars => IInv'
  <1> SUFFICES ASSUME IInv, [Prob5Next]_vars PROVE IInv'
    OBVIOUS
  <1>1. ControlInv'
    BY ControlNext DEF IInv
  <1>5. Readied'
    BY ReadiedNext DEF IInv, ControlInv
  <1>2. input \in Bytes
    BY DEF IInv, ControlInv, ControlTypes
  <1>3. [P!Next]_(P!statsVars)
    BY <1>2, StepIsStep, SameSteps
  <1>4. P!Inv'
    BY <1>3, FileStatsAssumption, P!InvNext DEF IInv
  <1> QED
    BY <1>1, <1>4, <1>5 DEF IInv

(* The threads' places, the flags and the semaphores agree (ControlInv),    *)
(* and what FileStats keeps holds of the program's data.                    *)
THEOREM Invariance == Prob5Spec => []IInv
  BY IInvInit, IInvNext, PTL DEF Prob5Spec

(* Main and the signals stay in their ranges, and no child runs without its *)
(* semaphore, wherever the handlers run and whatever main fails at.         *)
THEOREM ControlTypeCorrect == Prob5Spec => []ControlTypeOK
  <1>1. IInv => ControlTypeOK
    BY DEF IInv, ControlInv, Readied, ControlTypeOK
  <1> QED
    BY <1>1, Invariance, PTL

(* main returns from the shutdown with no count half done and the mutex     *)
(* free: it waited for each child, and a child past its loop has settled.   *)
THEOREM ExitIsClean == Prob5Spec => []ExitsWithFullCount
  <1>1. IInv => ExitsWithFullCount
    <2> SUFFICES ASSUME IInv, pcm = "returned", abort_signal,
                        pc1 # "absent", pc2 # "absent"
                 PROVE  stats = last /\ owner = "none"
      BY DEF ExitsWithFullCount
    <2>1. pc1 = "ended" /\ pc2 = "ended"
      BY DEF IInv, ControlInv, Joined, Past
    <2>2. stats = last
      BY <2>1 DEF IInv, P!Inv, P!Settled
    <2>3. owner = "none"
      BY <2>1 DEF IInv, P!Inv, P!TypeOK, P!Counting, P!Printing
    <2> QED
      BY <2>2, <2>3
  <1> QED
    BY <1>1, Invariance, PTL

(* The threads of ex3prob5 use the file, the counts and the mutex as        *)
(* FileStats says, whatever signals are sent, and whichever thread takes    *)
(* them.                                                                    *)
THEOREM Implements == Prob5Spec => ImplementsStats
  <1>1. IInv /\ [Prob5Next]_vars => [Stats!Next]_(Stats!statsVars)
    BY StepIsStep DEF IInv, ControlInv, ControlTypes
  <1> QED
    BY <1>1, InitIsInit, Invariance, PTL DEF Prob5Spec, ImplementsStats, Stats!Spec

LEMMA ImplementsP == Prob5Spec => P!Spec
  <1>1. IInv /\ [Prob5Next]_vars => [P!Next]_(P!statsVars)
    BY StepIsStep, SameSteps DEF IInv, ControlInv, ControlTypes
  <1>2. Prob5Init => P!Init
    BY InitIsInit, SameSteps
  <1> QED
    BY <1>1, <1>2, Invariance, PTL DEF Prob5Spec, P!Spec

(* So the counts of the running program are those of the bytes read so far. *)
THEOREM ProgramCounts == Prob5Spec => []CountsThePrefix
  <1>1. P!CountsThePrefix => CountsThePrefix
    <2>1. \A S : P!Cardinality(S) = Cardinality(S)
      BY DEF P!Cardinality, Cardinality
    <2>2. P!Consumed = Consumed
      BY DEF P!Consumed, Consumed
    <2>3. /\ P!LineEnds(Consumed) = LineEnds(Consumed)
          /\ P!WordEnds(Consumed) = WordEnds(Consumed)
          /\ P!Separators(Consumed) = Separators(Consumed)
      BY DEF P!LineEnds, LineEnds, P!WordEnds, WordEnds, P!Separators, Separators
    <2> QED
      BY <2>1, <2>2, <2>3 DEF P!CountsThePrefix, CountsThePrefix, P!Counting, Counting
  <1>2. P!Spec => []P!CountsThePrefix
    BY FileStatsAssumption, P!CountsAreOfThePrefix
  <1> QED
    BY <1>1, <1>2, ImplementsP, PTL

(* And no print of the running program is of half a count. *)
THEOREM ProgramPrints == Prob5Spec => PrintsNoPartialCount
  <1> DEFINE Whole == pc2 = "print" /\ pc2' = "unlock2" =>
                        \A f \in Fields : printed'[f] \in {0, last[f]}
  <1>1. IInv /\ [Prob5Next]_vars => [Whole]_statsVars
    <2> SUFFICES ASSUME IInv, [Prob5Next]_vars, pc2 = "print", pc2' = "unlock2"
                 PROVE  \A f \in Fields : printed'[f] \in {0, last[f]}
      OBVIOUS
    <2>1. [P!Next]_(P!statsVars)
      BY StepIsStep, SameSteps DEF IInv, ControlInv, ControlTypes
    <2>2. printed' = stats
      BY <2>1 DEF P!statsVars, P!Next, P!get_file_info, P!print_file_stats, P!Write,
                  P!Wake1, P!Begin1, P!ZeroSome, P!ZeroRest, P!Lock1, P!Read, P!Adjust,
                  P!Unlock1, P!Wake2, P!Begin2, P!Lock2, P!LogStats, P!Unlock2, P!At2
    <2>3. pc1 \notin {"read", "adjust", "unlock1"}
      BY DEF IInv, P!Inv, P!TypeOK, P!Counting, P!Printing
    <2>4. \A f \in Fields : stats[f] \in {0, last[f]}
      BY <2>3 DEF IInv, P!Inv, P!TypeOK, P!Settled, P!Zero, P!Fields, Fields
    <2> QED
      BY <2>2, <2>4
  <1> QED
    BY <1>1, Invariance, PTL DEF Prob5Spec, PrintsNoPartialCount
=============================================================================
