--------------------------------- MODULE Log ---------------------------------
(***************************************************************************)
(* log.c under threads and signal handlers, as ex3prob5 uses it.            *)
(*                                                                         *)
(* log_level formats a line in buffers of its own and hands it to printf,   *)
(* or to syslog when built with SYS_LOG.  Both libraries hold a lock while  *)
(* they write.  syslog's may not be taken again by the thread that holds    *)
(* it.  printf's may, once that thread is noted as its owner: before that,  *)
(* and after the note is taken back, the thread is a stranger to its lock.  *)
(* The three handlers log before they do anything else, in whatever thread  *)
(* took the signal, wherever it was.                                        *)
(*                                                                         *)
(* A thread is a stack of frames, the code it runs below the handlers that  *)
(* interrupted it.  What Prob5 does between two log calls is left out: any  *)
(* thread may log at any time.  So is what a printf inside a printf may do  *)
(* to the stream: the standards do not allow it in a handler.               *)
(***************************************************************************)
EXTENDS Integers, Sequences, FiniteSets, SequencesExt

CONSTANTS
  Threads,
  MaxCalls,  \* log calls of the program outside handlers
  MaxSent,   \* signals sent
  Nobody     \* who holds a free lock

ASSUME LogAssumption ==
  MaxCalls \in Nat /\ MaxSent \in Nat /\ Nobody \notin Threads

VARIABLES
  SYS_LOG, LOG_LEVEL,  \* how the program was built
  stack,               \* frames of each thread
  lock,                \* the thread in printf or syslog
  pending,             \* signals sent and not taken
  noted,               \* history: signals whose last handler set its flag or
                       \* posted its semaphore
  calls, sent          \* counters that bound the model

vars == <<SYS_LOG, LOG_LEVEL, stack, lock, pending, noted, calls, sent>>
build == <<SYS_LOG, LOG_LEVEL>>

Signals == {"SIGINT", "SIGUSR1", "SIGUSR2"}

(* Where a frame is: outside log_level, at the library's lock, with the     *)
(* lock but not yet noted as its owner, with half of its line written, no   *)
(* longer the owner but with the lock, or, for a handler, past its log call. *)
Places == {"run", "wait", "taken", "half", "giving", "logged"}
Frame(code, at) == [code |-> code, at |-> at]

Top(t) == Last(stack[t])
Goto(t, at) == stack' = [stack EXCEPT ![t][Len(stack[t])].at = at]
At(t, places) == {i \in DOMAIN stack[t] : stack[t][i].at \in places}
----------------------------------------------------------------------------
(* log_level.                                                              *)

LogCall(t) ==
  /\ Top(t).at = "run" /\ calls < MaxCalls
  /\ calls' = calls + 1
  /\ Goto(t, "wait")
  /\ UNCHANGED <<build, lock, pending, noted, sent>>

(* The library's lock, log.c:155 and 158. *)
Acquire(t) ==
  /\ Top(t).at = "wait" /\ lock = Nobody
  /\ lock' = t /\ Goto(t, "taken")
  /\ UNCHANGED <<build, pending, noted, calls, sent>>

Own(t) ==
  /\ Top(t).at = "taken"
  /\ Goto(t, "half")
  /\ UNCHANGED <<build, lock, pending, noted, calls, sent>>

(* printf knows the owner of its lock; syslog does not ask. *)
Owns(t) == ~SYS_LOG /\ At(t, {"half"}) # {}

Reenter(t) ==
  /\ Top(t).at = "wait" /\ Owns(t)
  /\ Goto(t, "half")
  /\ UNCHANGED <<build, lock, pending, noted, calls, sent>>

(* A mutant: a handler has nothing to do after its line. *)
RunsOn(t) == "run"

(* Where log_level returns to. *)
Returned(t) == IF Top(t).code = "app" THEN "run" ELSE "logged"

(* The line is out.  The outermost call of the thread gives the lock back.  *)
Leave(t) ==
  /\ Top(t).at = "half"
  /\ Goto(t, IF At(t, {"half"}) = {Len(stack[t])} THEN "giving" ELSE Returned(t))
  /\ UNCHANGED <<build, lock, pending, noted, calls, sent>>

Release(t) ==
  /\ Top(t).at = "giving"
  /\ lock' = Nobody /\ Goto(t, Returned(t))
  /\ UNCHANGED <<build, pending, noted, calls, sent>>

log_level(t) == Acquire(t) \/ Own(t) \/ Reenter(t) \/ Leave(t) \/ Release(t)
----------------------------------------------------------------------------
(* Signals.                                                                *)

Send(s) ==
  /\ sent < MaxSent /\ sent' = sent + 1
  /\ pending' = pending \cup {s}
  /\ UNCHANGED <<build, stack, lock, noted, calls>>

(* A mutant: log.h compiles LOG_LOW at level 2 as well. *)
HandlerLogsLow(s) == s = "SIGINT" \/ LOG_LEVEL > 1

(* LOG_FATAL is always compiled, LOG_LOW for levels above 2. *)
HandlerLogs(s) == s = "SIGINT" \/ LOG_LEVEL > 2

(* A signal is blocked while its own handler runs in the thread. *)
Takes(t, s) == \A i \in DOMAIN stack[t] : stack[t][i].code # s

Deliver(s, t) ==
  /\ s \in pending /\ Takes(t, s)
  /\ pending' = pending \ {s}
  /\ stack' = [stack EXCEPT ![t] =
       Append(@, Frame(s, IF HandlerLogs(s) THEN "wait" ELSE "logged"))]
  /\ noted' = noted \ {s}
  /\ UNCHANGED <<build, lock, calls, sent>>

(* After its log call a handler sets signal_interrupted or posts its        *)
(* semaphore, and returns.                                                  *)
Handled(t) ==
  /\ Top(t).at = "logged"
  /\ noted' = noted \cup {Top(t).code}
  /\ stack' = [stack EXCEPT ![t] = Front(@)]
  /\ UNCHANGED <<build, lock, pending, calls, sent>>
----------------------------------------------------------------------------
Init ==
  /\ SYS_LOG \in BOOLEAN /\ LOG_LEVEL \in 2 .. 3
  /\ stack = [t \in Threads |-> <<Frame("app", "run")>>]
  /\ lock = Nobody /\ pending = {} /\ noted = {} /\ calls = 0 /\ sent = 0

Work(t) == log_level(t) \/ Handled(t)

Next ==
  \/ \E t \in Threads : LogCall(t) \/ Work(t)
  \/ \E s \in Signals : Send(s) \/ \E t \in Threads : Deliver(s, t)

(* Every thread is scheduled and every signal is delivered.                 *)
Spec ==
  /\ Init /\ [][Next]_vars
  /\ \A t \in Threads : WF_vars(Work(t))
  /\ \A s \in Signals : WF_vars(\E t \in Threads : Deliver(s, t))
----------------------------------------------------------------------------
(* Properties.                                                             *)

(* Types: under the handlers there is always the program, and a handler     *)
(* always has something left to do.                                         *)
TypeOK ==
  /\ SYS_LOG \in BOOLEAN /\ LOG_LEVEL \in 0 .. 4
  /\ \A t \in Threads :
       /\ stack[t] # <<>>
       /\ stack[t][1].code = "app" /\ stack[t][1].at \in Places \ {"logged"}
       /\ \A i \in 2 .. Len(stack[t]) :
            stack[t][i].code \in Signals /\ stack[t][i].at \in Places \ {"run"}
  /\ lock \in Threads \cup {Nobody}
  /\ pending \subseteq Signals /\ noted \subseteq Signals
  /\ calls \in 0 .. MaxCalls /\ sent \in 0 .. MaxSent

(* A thread at a lock that it has itself: it waits for ever. *)
Stuck(t) == Top(t).at = "wait" /\ lock = t /\ ~Owns(t)

(* log.h:70 with log.c:155 and 158: below level 3 the SIGUSR handlers leave  *)
(* the library alone, so a thread waits for a lock of its own only in the   *)
(* SIGINT handler, whose LOG_FATAL no level removes.  At level 3 and above, *)
(* the makefile's, any of the three may.                                    *)
QuietHandlersNeverStick ==
  LOG_LEVEL <= 2 => \A t \in Threads : Stuck(t) => Top(t).code = "SIGINT"

(* The lock is lost, and the handler of s lies below a SIGINT handler that  *)
(* waits for it.                                                            *)
Buried(s) ==
  /\ lock # Nobody /\ Stuck(lock)
  /\ \E t \in Threads : \E j \in At(t, {"wait"}) : \E i \in 1 .. j - 1 :
       stack[t][i].code = s /\ stack[t][j].code = "SIGINT"

(* child1.c:37-43, child2.c:28-34: below level 3 every request for a count  *)
(* or a print is posted in the end, whatever the threads log, wherever the  *)
(* signal is taken and also when the lock is lost or the signal is sent     *)
(* again; only a SIGINT handler that waits on top of it for a lost lock can *)
(* keep it back.                                                            *)
QuietRequestsArePosted ==
  \A s \in Signals \ {"SIGINT"} :
    LOG_LEVEL <= 2 /\ s \in pending ~> s \in noted \ pending \/ Buried(s)
=============================================================================
