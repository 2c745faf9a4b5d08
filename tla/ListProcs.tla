------------------------------ MODULE ListProcs ------------------------------
(***************************************************************************)
(* homework/hw3/prob4/list_procs.c: a kernel module that lists the kernel   *)
(* threads when it is loaded.  It climbs from the parent of the loading     *)
(* process to process 0, and from each ancestor descends into its children, *)
(* leaving out the branch it climbed up.                                    *)
(*                                                                         *)
(* It takes no lock, so tasks fork and exit under the walk.  The kernel is  *)
(* external: a new task goes to the end of its parent's list; when a task   *)
(* exits its children go to the end of the list of process 1, and it leaves *)
(* its parent's list and is freed in the same step.  Pids are not reused.   *)
(***************************************************************************)
EXTENDS Integers, Sequences, SequencesExt

CONSTANTS
  Loaded,   \* the highest pid when the module is loaded
  MaxForks, MaxExits

ASSUME ListProcsAssumption ==
  Loaded \in Nat \ (0 .. 1) /\ MaxForks \in Nat /\ MaxExits \in Nat

Pids == 0 .. Loaded + MaxForks

VARIABLES
  kids,       \* task->children, in order
  kthreads,   \* tasks with task->mm = NULL
  current,
  forks, exits,
  task, prev_task,
  stack,      \* frames of print_children, the innermost last
  times,      \* how often each task was listed
  lost        \* the walk stands on a task that was freed or moved

kernel == <<kids, kthreads, current, forks, exits>>
walk == <<task, prev_task, stack, times>>
vars == <<kernel, walk, lost>>

Children(t) == ToSet(kids[t])
Live == {0} \cup UNION {Children(t) : t \in Pids}
Parent(t) == CHOOSE p \in Pids : t \in Children(p)

(* A call of print_children(of, prev_task) and the child it stands on, `of' *)
(* itself while it stands on the head of the list.  The number of children  *)
(* it counts for the log is left out.                                       *)
Frame(of) == [of |-> of, pos |-> of]
Top == Last(stack)
Rest(f) ==
  IF f.pos = f.of THEN kids[f.of]
  ELSE LET at == SelectInSeq(kids[f.of], LAMBDA child : child = f.pos)
       IN SubSeq(kids[f.of], at + 1, Len(kids[f.of]))
----------------------------------------------------------------------------
(* list_procs_init and print_children.                                     *)

(* A mutant: the branch the walk came up is descended into again. *)
DescendsAnyway(t) == t \in kthreads

Descends(t) == prev_task # t /\ t \in kthreads

Climb ==
  /\ stack = <<>> /\ task # 0
  /\ prev_task' = task /\ task' = Parent(task)
  /\ stack' = <<Frame(Parent(task))>>
  /\ UNCHANGED <<kernel, times, lost>>

(* The innermost frame steps to its next child, and may call down to it. *)
StepTo(child, calls) ==
  stack' = [stack EXCEPT ![Len(stack)].pos = child] \o calls

(* Mutants: the loop does not advance; the child is looked at instead of    *)
(* the task; the task is descended into instead of the child.               *)
NextChildAgain ==
  /\ stack # <<>> /\ Rest(Top) # <<>>
  /\ StepTo(Top.pos, <<>>)
  /\ UNCHANGED <<kernel, task, prev_task, times, lost>>
NextChildChecked ==
  /\ stack # <<>> /\ Rest(Top) # <<>>
  /\ LET child == Head(Rest(Top))
     IN StepTo(child, IF Descends(child) THEN <<Frame(child)>> ELSE <<>>)
  /\ UNCHANGED <<kernel, task, prev_task, times, lost>>
NextChildSelf ==
  /\ stack # <<>> /\ Rest(Top) # <<>>
  /\ LET child == Head(Rest(Top))
     IN StepTo(child, IF Descends(Top.of) THEN <<Frame(Top.of)>> ELSE <<>>)
  /\ UNCHANGED <<kernel, task, prev_task, times, lost>>

NextChild ==
  /\ stack # <<>> /\ Rest(Top) # <<>>
  /\ LET child == Head(Rest(Top))
     IN StepTo(child, IF Descends(Top.of) THEN <<Frame(child)>> ELSE <<>>)
  /\ UNCHANGED <<kernel, task, prev_task, times, lost>>

(* print_children returns; its caller, if it is print_children, lists the   *)
(* child it stands on.                                                      *)
ReturnCount ==
  /\ stack # <<>> /\ Rest(Top) = <<>>
  /\ stack' = Front(stack)
  /\ times' = IF Len(stack) = 1 THEN times
              ELSE [times EXCEPT ![Top.of] = @ + 1]
  /\ UNCHANGED <<kernel, task, prev_task, lost>>

print_children == NextChild \/ ReturnCount
Walk == ~lost /\ (Climb \/ print_children)
Done == stack = <<>> /\ task = 0
----------------------------------------------------------------------------
(* The rest of the kernel.                                                 *)

(* User processes have user children. *)
Fork(p) ==
  /\ forks < MaxForks /\ forks' = forks + 1
  /\ LET new == Loaded + forks'
     IN /\ kids' = [kids EXCEPT ![p] = Append(@, new)]
        /\ \/ UNCHANGED kthreads
           \/ p \in kthreads /\ kthreads' = kthreads \cup {new}
  /\ UNCHANGED <<current, exits, walk, lost>>

(* Whether the walk will read a field of t, or the sibling link of one of   *)
(* its children, later.                                                     *)
Stands(t) ==
  \/ task = t
  \/ stack # <<>> /\ prev_task = t
  \/ \E i \in DOMAIN stack :
       stack[i].of = t \/ stack[i].pos \in {t} \cup Children(t)

Exit(t) ==
  /\ exits < MaxExits /\ exits' = exits + 1
  /\ kids' = [p \in Pids |->
       CASE p = t -> <<>>
         [] p = 1 -> RemoveFirst(kids[1], t) \o kids[t]
         [] OTHER -> RemoveFirst(kids[p], t)]
  /\ lost' = (lost \/ (~Done /\ Stands(t)))
  /\ UNCHANGED <<kthreads, current, forks, walk>>
----------------------------------------------------------------------------
(* Any tree in which parents have lower pids, process 1 is a user process   *)
(* and user processes have user children.                                   *)
Trees ==
  {p \in [1 .. Loaded -> 0 .. Loaded - 1] : \A t \in 1 .. Loaded : p[t] < t}

Init ==
  /\ \E p \in Trees :
       /\ kids = [t \in Pids |-> SetToSeq({i \in 1 .. Loaded : p[i] = t})]
       /\ kthreads \in {k \in SUBSET (0 .. Loaded) :
            0 \in k /\ 1 \notin k /\ \A t \in k \ {0} : p[t] \in k}
       /\ current \in (2 .. Loaded) \ kthreads
       /\ task = p[current]
  /\ prev_task = current
  /\ stack = <<>> /\ times = [t \in Pids |-> 0] /\ lost = FALSE
  /\ forks = 0 /\ exits = 0

(* Loading is over, or nothing is known of what it does. *)
Over == (Done \/ lost) /\ UNCHANGED vars

Next ==
  \/ Walk
  \/ \E p \in Live : Fork(p)
  \/ \E t \in Live \ {0, 1, current} : Exit(t)
  \/ Over

(* The loading process goes on.                                             *)
Spec == Init /\ [][Next]_vars /\ WF_vars(Walk)
----------------------------------------------------------------------------
(* Properties.                                                             *)

(* Types; each task is in one list, once; the frames of a walk that is not  *)
(* lost follow a branch of the tree.                                        *)
TypeOK ==
  /\ \A p \in Pids : IsInjective(kids[p]) /\ Children(p) \subseteq Pids \ {0}
  /\ \A p, q \in Pids : p # q => Children(p) \cap Children(q) = {}
  /\ kthreads \subseteq Pids /\ current \in Live
  /\ forks \in 0 .. MaxForks /\ exits \in 0 .. MaxExits
  /\ times \in [Pids -> Nat]
  /\ ~lost => /\ task \in Live
              /\ \A i \in 1 .. Len(stack) - 1 :
                   /\ stack[i].pos = stack[i + 1].of
                   /\ stack[i].pos \in Children(stack[i].of)

(* list_procs.c:30: no task is listed twice, whatever forks and exits under *)
(* the walk: a branch that was climbed is left out of the next descent.     *)
ListedOnce == \A t \in Pids : times[t] <= 1

Ancestors[t \in Live] ==
  IF t = 0 THEN {} ELSE {Parent(t)} \cup Ancestors[Parent(t)]

(* list_procs.c:17, "List find all kernel threads": every kernel thread     *)
(* that was there from the beginning and kept its place is listed, but for  *)
(* those below the parent of the loading process.                           *)
FindsKernelThreads ==
  Done /\ ~lost =>
    \A t \in (Live \cap kthreads \cap 1 .. Loaded) :
      Ancestors[t] \subseteq kthreads /\ Parent(current) \notin Ancestors[t]
        => times[t] = 1

(* list_procs.c:26 and 56: the loops end, unless a task the walk stands on  *)
(* exits: no other exit and no fork sends them round again.  Forks are      *)
(* finite here: a parent that forks without end may keep the walk at it.    *)
WalkEnds == <>(Done \/ lost)
=============================================================================
