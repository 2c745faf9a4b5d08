# Formal models of the ECEN 5013 project

TLA+ models of the C programs of this repository, the TLC runs that check them
on small instances, and TLAPS proofs of what matters most. Line numbers are
those of the files under `src/`; paths below leave out `project/app/src/`.

## The system

| Part | State | Operations | Used by |
|---|---|---|---|
| `circbuf.c` | a structure on the heap: `buffer`, `head`, `tail`, `count`, `length` | init, add, remove, peek, dump, full, empty, two destroys | unit tests |
| `linkedlist.c` | nodes on the heap: `next`, `prev`, `data` behind a sentinel | init, insert, remove, search, size, dump, destroy | unit tests |
| `ex3prob5.c` | `signal_interrupted`, `abort_signal`, the file | main loop, shutdown, SIGINT handler | starts the children |
| `child1.c` | `file_stats_info`, `file_stats_mutex`, semaphore `sigusr1` | SIGUSR1 handler, thread that counts the file, `print_file_stats` | posts from the handler |
| `child2.c` | semaphore `sigusr2` | SIGUSR2 handler, thread that prints | calls `print_file_stats` |
| `ex3prob2.c` | a mutex, a condition, `synchronized_data` | two threads and main | itself |
| `log.c` | none of its own; the library's lock | format and print, or syslog | every part, handlers too |
| `unit_circbuf.c`, `unit_linkedlist.c`, `unit_tests.c` | the container under test, payloads, random numbers | sixteen tests under cmocka | drive the containers |
| `homework/hw2/prob3/timer.c` | a kernel timer | module init and exit, callback that arms it again | the kernel |
| `homework/hw3/prob4/list_procs.c` | its place in the task tree | climb and descent when loaded | the kernel |
| `profiler.c` | arrays of start and end times, `num_timers` | init, start, stop, reset, get | nobody |

How they interact. The two containers are sequential libraries; the unit tests
are their clients and share with them the ownership of the payloads. ex3prob5 is
three threads that share a file, a structure under a mutex and two semaphores,
and that signals interrupt anywhere: main appends what it reads from stdin to
the file; SIGUSR1 makes child 1 count the file, SIGUSR2 makes child 2 log the
counts; SIGINT ends main's loop, which sets `abort_signal`, sends both signals
to its own process and joins the children. Its threads and its handlers log
through `log.c`, which takes the lock of printf or of syslog. ex3prob2 is two
threads ordered by a condition variable and sleeps. The kernel modules run
beside the kernel: a softirq calls back into `timer.c`, other processes change
the tree `list_procs.c` walks.

What is hard, and what correct means:

- circbuf: the ring's two pointers move by rules that depend on position and
  count, and an empty ring can rest in two kinds of position. Correct: it is a
  bounded queue, and hands out nothing that was not stored.
- linkedlist: pointer updates in the right order, walks that count from
  different starts, frees during a walk. Correct: next and prev agree, the heap
  holds exactly the linked nodes, and the list is a list of items.
- file statistics: the file grows while it is counted, in pieces; the counts
  are shared. Correct: a count is that of a prefix of the file, and a print
  shows whole counts.
- ex3prob5: signals that are merged, land in any thread and interrupt blocking
  calls; semaphores that outlive or do not outlive their posts. Correct: a
  request is served, SIGINT ends the program, no work is cut short.
- logging: a handler that logs may interrupt its own thread inside a log call.
  Correct: no thread waits for a lock it has itself, and a signal that is taken
  has its effect. At the makefile's log level the code does not keep this, with
  either library; the properties say where it does.
- unit tests: random sizes and contents, allocations that fail, payloads freed
  partly by the test and partly by `ll_destroy`. Correct: a test fails only
  where it must, nothing is freed twice, a test that passes leaves nothing.
- timer.c: the callback arms its timer while `del_timer` runs elsewhere.
  Correct: the callback runs on, a period apart, and nothing outlives the module.
- list_procs.c: one test both limits the descent to kernel threads and keeps it
  off the branch it climbed, with no lock. Correct: each kernel thread once.
- ex3prob2: a signal that is lost if nobody waits. Correct: the waiter waits
  when it is sent, and the program ends.

`PROJECT.json` lists the hazards line by line, with the property that covers
each, and the parts of the repository that are not modelled.

## Modules

| Module | What it is |
|---|---|
| `Fifo` | abstract: the bounded queue circbuf.h promises |
| `CircBuf` | circbuf.c; one action per call, `circbuf_destroy_free` one per turn of its loop |
| `CircBufProofs` | the ring invariant and the refinement of `Fifo` |
| `ItemList` | abstract: a list of items addressed by index |
| `LinkedList` | linkedlist.c; each call a checking step and one step per turn of its loop |
| `LinkedListProofs` | the list's inductive invariant and the refinement of `ItemList` |
| `FileStats` | the data of ex3prob5: file, counts, mutex, both children's critical sections |
| `FileStatsProofs` | its invariant and what follows from it |
| `Prob5` | the program ex3prob5: main, threads, handlers, semaphores, signals; extends and implements `FileStats` |
| `Prob5Proofs` | its control invariant and the refinement of `FileStats` |
| `Log` | log.c's library lock under threads and handlers |
| `LogProofs` | its safety properties |
| `UnitTests` | the unit tests; composes `CircBuf` and `LinkedList` as their client |
| `Prob2` | ex3prob2.c with time |
| `Prob2Proofs` | the mutex on any machine; what the program shows on a punctual one |
| `Timer` | timer.c and the kernel's timer softirq |
| `KernelProofs` | the safety properties of both kernel modules |
| `UnitTestsProofs` | that the tests are legal clients of both containers, and what the tests show |
| `ListProcs` | list_procs.c over a task tree that changes |
| `MC*` | instances for TLC; the others are run as they are |

**CircBuf.** `handle` follows one caller's pointer through its life. `head` and
`tail` are slot numbers. `malloc` may fail at either place; the second failure
leaves a structure with no buffer (`"nobuf"`), whose other fields are whatever
malloc returned. `FreshBuffer` keeps the code's memset of `length` bytes, so
that cells nobody wrote exist as `Garbage`. The client is assumed not to call
`circbuf_init` on a ring in use and not to use a destroyed one.
Refinement mapping: the queue is the items from `tail` on; during
`circbuf_destroy_free` it is what was freed followed by what is left.
`asked` is the call answered last, with its argument (the length, the payload,
whether there is a place for the item, the index), and `Fifo` has it too: the
refinement ties each answer to the call it answers. Two answers are bounded and
not fixed. `circbuf_peek` accepts index = count (its test at line 147 is `>`,
though the comment above says "Make sure there are enough items to have the
index item"): `Fifo`'s `Look` lets it return any cell, unless the ring is full,
when it is the oldest item again. And with the buffer missing, `circbuf_full` and
`circbuf_empty`, which do not look at it, answer from fields nobody wrote.

**LinkedList.** `next`, `prev`, `data` are functions on the nodes; `heap` is the
set of allocated nodes; the fields of a node that is not allocated are kept at
NULL, and `NothingLeaksOrDangles` says no walk stands on one. `chain` is a
history variable, updated where nodes are linked and unlinked and read by no
guard. `asked`, `status` and `out` are the last finished call and its answer;
`ItemList` has them too, so the refinement ties each answer to its call.
`ll_remove(REMOVE_AT_END)` on an empty list stores through the sentinel's null
`prev`: the model goes to `"crashed"`, and `ItemList` has `RemoveFromNothing`
for it, the only call that may end so. An item inserted at the index of another
lands one place after it, though linkedlist.h:63 says "index to insert":
`ItemList` states where exactly. `Compare` is the function the client gives
`ll_search`; in the instance two different payloads compare equal. Payloads are
values: the double free of a pointer stored twice is the client's, and
`UnitTests` looks at it. The client drops its handle after `ll_destroy`.

**FileStats.** `get_info`, `Read`, `Adjust` and the locks are the lines of
child1.c one to one. The memset at line 101 runs outside the mutex and races
with a print: `ZeroSome` then `ZeroRest`, with any set of fields cleared in
between. A read returns the bytes that are there, at most `Chunk` of them, 0 at
the end, or -1 when `open` failed (its result is not checked). Characters are
letters, spaces, newlines, and the byte 0xFF main writes when `getchar` returned
EOF. Waking a child is left free; `Prob5` constrains it. Two things the code does
against its comments are what the properties state: because of the unlocked
memset a print may show fields that are 0 besides those of the last count
(`PrintsNoPartialCount`), though child1.c:46 says "Prints current file stats";
and chars is one less than the bytes read, marker or no marker
(`CountsThePrefix`), though child1.c:121 speaks of "the EOF marker".

**Prob5.** `pcm`, `pc1`, `pc2` are the threads' places. A signal is pending at
most once (`pending` is a set), any thread that has started and not ended may
take it, and its handler runs in that thread. A thread blocked in `getchar` or
`sem_wait` may be interrupted with EINTR, whose result the code ignores. A
signal with no handler installed ends the process. `pthread_create` may fail
unnoticed (`"absent"`): joining that thread then fails or crashes. A
failure of main's arguments, of its open or of child1_init's malloc is one early
return (`Start`), one of sigaction or sem_init in either init another
(`InitFails`), after which child 1 may be cut off; that of SIGINT's sigaction
goes unnoticed (`RegisterInt`). `FileStats!Spec` is a PROPERTY of it: threads not yet or no
longer in their loop map to a child that waits, or that stays before its work.

**Log.** A thread is a stack of frames: the program, and above it each handler
that interrupted it. A frame waits for the library's lock (`"wait"`), has it and
is not yet noted as its owner (`"taken"`), has half a line written (`"half"`), has
taken the note back and still has the lock (`"giving"`), or, in a handler, is past
its log call and about to set its flag or post its semaphore (`"logged"`). A
signal may come at every one of them. printf's lock can be taken again by the
thread that is noted as its owner, syslog's by none. So a handler that logs may
wait for ever in both libraries: in syslog wherever it interrupted its thread,
in printf before and after the note. POSIX allows neither call in a handler, and
what a printf inside a printf does to the stream is left out. `LOG_LEVEL` decides
which handlers log: at 3 and above (the makefile has 4) all three, below only that
of SIGINT, whose `LOG_FATAL` no level removes. Levels 2 and 3 stand for the two
cases. What `Prob5` does between log calls
is left out: any thread may log at any time.

**UnitTests.** A test is a script: a sequence of calls, each with the code and the
answer it asserts. `Call` starts the next call as a step of `CircBuf` or
`LinkedList`, `Walk` lets the list go on, `assert_int_equal` compares and moves
on or abandons the test, as cmocka does. The random numbers are drawn in
`Setup`: a size, a number of removals, the contents of each payload. Payloads
have an identity and contents; `compare` looks at the contents. Which free node
malloc returns makes no difference here, so it is the lowest. `test_ll_size` does
not look at the payloads it takes off and frees, and neither does `Drop`. A test that reads
a payload whose malloc failed dies in `insert_data`.

**Timer.** `left` counts the ticks to expiry, `cb` is where the callback is.
`smp` chooses, at the start, whether module code runs beside the softirq or only
when no callback runs. `FreeModule` records in `stale` what still refers to the
freed module; `UseAfterFree` is its crash. `since` and `raced` are history: the
ticks since the last call, and whether del_timer ever ran beside a callback.

**ListProcs.** `kids` are the kernel's lists of children in their order, and
`stack` holds one frame for each active call of `print_children`. Forks append,
exits move the children of the task to process 1 and remove it, as the kernel
does; zombies and the reuse of pids are left out. When a task the walk will still read
exits, or the list entry it stands on is moved, the walk is `lost`: the code has
no lock that would exclude it and what it does next is undefined. Forks and exits
are finite here (`MaxForks`, `MaxExits`): `WalkEnds` says nothing of a walk that
children are added to faster than it visits them.

**Prob2.** A tick is a tenth of a second, so the sleeps are 20, 5 and 50 ticks.
`Tick` may not pass while a thread has been able to run for `MaxLate` ticks.
`pthread_cond_wait` releases the mutex and takes it again; with `Spurious` it
may do so unsignalled. The mutex is a normal one: its owner locking it again
waits for ever.

## Runs

| Run | Shows | Instance |
|---|---|---|
| `circbuf` | `TypeOK`, `HeadFollowsTail`, `ItemsAreStored`, `ImplementsFifo` hold | lengths 1 to 4, two payloads |
| `file_stats` | `TypeOK` (each child has the mutex in its critical section and nowhere else), `CountsThePrefix`, `PrintsNoPartialCount` hold | 3 bytes read 2 at a time |
| `prob5` | `ControlTypeOK` (a child waits or works only while its semaphore exists), `ImplementsStats`, `ExitsWithFullCount`, `InterruptEndsProgram`, `RequestIsServed` hold | 1 byte, two user signals, input always available |
| `prob5_ctrl_c` | SIGINT need not end the loop (ex3prob5.c:89) | the same, nobody obliged to type |
| `prob5_destroy` | a handler posts a destroyed semaphore (child1.c:197) | no byte, two user signals |
| `linked_list` | `ListIsLinked`, `NothingLeaksOrDangles`, `WalksCount`, `ImplementsList` hold | the sentinel and up to 3 items of three values, two of which compare equal |
| `unit_tests` | `TestsPass`, `FreedOnce`, `PassedTestsLeaveNothing` hold | rings of 4, lists of up to 5 items of two contents, one failed allocation |
| `log` | `QuietHandlersNeverStick`, `QuietRequestsArePosted` hold | two threads, two calls, three signals, both libraries, levels 2 and 3 |
| `timer` | `OnlyARaceCrashes`, `APeriodApart`, `KeepsFiring` hold | a period of 4 ticks, one or more processors |
| `list_procs` | `ListedOnce`, `FindsKernelThreads`, `WalkEnds` hold | every tree of processes 0 to 5, one fork and one exit |
| `prob2` | `SignalIsHeard`, `TrylockFails`, `LockShowsTheChange`, `Ends` hold | delays up to 4 ticks, no spurious wakeups |
| `prob2_posix` | trylock may succeed (ex3prob2.c:137), then line 146 deadlocks | delays up to 5 ticks, spurious wakeups |

What some of them say exactly. `CountsThePrefix`: characters are one less than
the bytes read and lines are exact, words lie between the words of the prefix and
the separators in it; with no file open, characters are 0, then -1 and -2, and the
rest 0. `TestsPass` is an equivalence: a test fails
exactly when an allocation failed, when `test_ll_search` filled two payloads
alike before the middle one, or when `test_ll_size` drew 0 and divided by it
(unit_linkedlist.c:272, before the loop "Make sure the random number of inserts
is > 0"). `QuietHandlersNeverStick`: below log level 3 a thread waits for a lock of
its own in the SIGINT handler and nowhere else. `QuietRequestsArePosted`: below that
level each SIGUSR that is sent is posted in the end, with the lock lost or not,
unless a SIGINT handler on top of its own handler waits for a lost lock. At level
3 and above nothing of the kind holds, and the model shows the deadlock with both
libraries. `OnlyARaceCrashes`: `del_timer` at timer.c:74 is enough unless it runs beside
the callback on another processor. The situations that are
left out by name do occur in their models.

Why the bounds are enough. Length 1 has one slot that is first and last, 2 has
no middle, 3 and 4 have one, and with `PtrBytes` 2 the memset clears half of the
cells; the proofs cover every length. Three items have a first, a middle and a
last one; indexes run from -2 to one past what fits. Three bytes in chunks
of two give a file that is split, that fits, and that grows between reads. Two
user signals with main's own two give merging, signals during the shutdown,
interrupted waits and leftover posts. `BUF_SIZE` 4 (100 in the code) has a half
and a wrap, `HALF_LIST_SIZE` 4 lets `test_ll_remove` draw the 3 it needs, and one
failed allocation reaches every allocation of every test. Three signals nest all
three handlers in one thread while the other waits. The period only orders the
ticks around the race. Six processes have a kernel chain above the loading
process, a sibling beside each link of it, and process 1; one exit or fork falls
at every step of the walk. `Indexes`, `Capacity`, `MaxSent`, `MaxCalls`,
`MaxFails`, `MaxForks`, `MaxExits` and the number of nodes bound the environment
and never the code. Nodes are symmetric:
malloc may return any free one.

Deadlock is checked except in the runs of `Prob2`, which really stops: when its
process has ended, and when `test_func` returned early (lines 94-106) and
stranded main; and in the run of `Log`, which stops when nothing is left to log
and when the lock is lost. The modules that end, crash or halt
otherwise have a step that stays there.

Fairness. `Prob5Spec` has weak fairness of main's steps, of each child and of
the delivery of each signal: the kernel schedules every thread and delivers
what is pending. No thread is favoured at the mutex: weak fairness is enough
because each side releases it and then waits on a semaphore. Nothing obliges
the user to type; `TypingSpec` adds that, for a stdin that has bytes or has
ended, and `InterruptEndsProgram` is claimed under it only. `prob5_ctrl_c` is
the counterexample without it. `Prob2` has weak fairness of its whole
next-state relation: some thread steps or time passes. `Log` has weak fairness
of each thread's work, which is enough at the lock because the calls that
compete for it are finite, and of the delivery of each signal. `Timer` has it of
time, of the softirq and of the callback, which nothing in the kernel stops, and
not of loading and removing the module. `ListProcs` has it of the loading
process. `CircBuf`, `LinkedList`, `FileStats` and `UnitTests` claim no liveness.

## Findings

Three runs end in a violation, each of a sentence of the repository that the
code does not keep; `PROJECT.json` quotes them: the SIGINT that leaves main in
getchar; the post of a destroyed semaphore; and the trylock that may succeed.
Other departures from a comment are stated exactly by properties that hold, as
told above: the bound of `circbuf_peek`, the insertion that lands one place late,
the unlocked memset, the decremented character count, and the situations below
the table of runs. list_procs.c:17 promises "all kernel
threads" and `FindsKernelThreads` leaves out those below the parent of the
loading process; the walk also lists the user processes whose parent is a kernel
thread, for it tests the `mm` of the parent (line 30).

## Proofs

`CircBufProofs` proves, from `CircBufAssumption` alone (`MaxLength` and
`PtrBytes` positive, payloads distinct from NULL and unwritten cells):

- `RingInvariant`: `RingInv` = `TypeOK` /\ `HeadFollowsTail` /\ `ItemsAreStored`
  is inductive. The parts need each other: an add writes at `NextHead`, and
  only the place of head relative to tail shows that this is the slot after the
  newest item, hence that the other items are unchanged and the new one is
  read back; a removal keeps head on the newest item only because tail cannot
  have passed it. The arithmetic of the wrapped slots is stated in lemmas of
  its own.
- `TypeCorrect`, `HeadTailAgree`, `OnlyStoredItems` follow.
- `RingImplementsFifo`: every step is a step of `Fifo` or a stutter, for every
  length, from `RingInv` and the lemmas on the items after a store and after a
  removal. Both carry the call and its argument, so an answer that belongs to
  another call or another index is no step of `Fifo`.

`FileStatsProofs` proves, from `FileStatsAssumption`, that `Inv` is inductive:
the types and the mutex, that child 1's lock and place agree, and that the
counts at each place are those of the bytes read, or those of no file. It needs the lemmas that the
separators and line ends of two consecutive pieces add up, and that appending
to the file leaves the prefix alone. `TypeCorrect`, `NoPartialPrint` and
`CountsAreOfThePrefix` follow, for every capacity, buffer size and interleaving.

`LinkedListProofs` proves, from `LinkedListAssumption` (the nodes are finitely many,
NULL is none of them and no payload), that `IInv` is inductive: the fields of
the nodes link `chain` in both directions, the heap is the chain and the
handle its first node, each loop stands on the node its counter says
(`WalksCount`), and the arguments of the running call are in order. Linking a
node in and taking one out are lemmas on sequences without repetition, shared
by all kinds of insertion and removal. `TypeCorrect`, `StaysLinked`,
`HeapIsTheList` and `LoopsCount` follow, for every number of nodes and wherever
malloc fails. `Implements`: every step is a step of `ItemList` or a stutter; the
calls that walk stutter until the step that answers, and in `ll_destroy` what
was freed followed by what is left does not change.

`Prob5Proofs` proves that the program implements `FileStats`. Its invariant is
`ControlInv`, that the types hold and that the children main has joined are
past their loops; `Readied`, that a child main has created has a semaphore until it
destroys it; and the invariant of `FileStatsProofs`, whose theorems it uses
by INSTANCE. `ControlTypeCorrect` and `ExitIsClean` follow, then `Implements`; with it
`ProgramCounts` and `ProgramPrints` carry the theorems on the counts over to
the whole program, with its signals, failures and shutdown.

`LogProofs` proves, for any threads, signals and depth of handlers, that a thread
has the lock exactly when a frame of its has taken it and not given it back, that
a frame which is not noted as the owner is the only one of its thread that has it,
that the program is the bottom frame and handlers are above it, and that only
handlers that log go to the library. `TypeCorrect` follows, and
`QuietNeverSticks`: who has the lock is inside a call below the frame that waits,
so that frame is a handler, and one that logs.

`Prob2Proofs` has two layers. `MutexInv` holds on any machine: who holds the mutex
agrees with where the threads are, and `TypeCorrect` follows. What the program
shows rests on its sleeps, and the theorems say so: under `Punctual`
(`MaxLate <= 4` and no spurious wakeups, the machine of run `prob2`) `TimingInv` bounds
how far each sleep has run at each place of the other threads, and
`TrylockMustFail`, `LockShows` and `SignalHeard` follow. The sleep of 20 ticks
outlasts three steps that are each `MaxLate` late, those of main and test_func1
up to its wait; that of 5 outlasts the one step test_func1 needs to wake; that
of 50 outlasts the rest. A machine that is 5 ticks late breaks the second, and
one with spurious wakeups, which POSIX allows, is the run `prob2_posix`.

`KernelProofs` proves, from a positive period, that `TimerInv` is inductive: with the
types and `OnlyARaceCrashes` it needs that a race needs a second processor
(`RacesNeedSmp`), that between `del_timer` and the freeing of the module a timer
or a callback is left only by a race (`DeletedIsQuiet`), and that what has passed
and what is left of a period make a whole one (`PeriodAhead`). `TimerTypeCorrect`,
`RemovalIsSafe` and `CallsApart` follow, for every period.

`KernelProofs` also proves, on any finite tree, whatever forks and exits meanwhile,
that `IInv` is inductive. The tree part: parents have lower pids, each task is in
one list of children, once. The walk part, while the walk is not lost: the
frames follow a branch of the tree, what is listed has a higher pid than the task
the climb has reached (`Below`), and a listed child of a kernel thread is one its
parent's frame is past, or its parent will not be descended into again
(`Behind`, `Finished`). An exit moves children under process 1, which is not a
kernel thread and is never descended into. `TypeCorrect` and
`NeverListedTwice` follow. `FindsThemAll` needs a second invariant, `FoundInv`: what a
frame is past is listed (`FramesListed`), and a kernel thread that is done with
has its children of that time listed (`Complete`). At the end the least task that
was missed has a parent with a lower pid that was not, which contradicts it.

`UnitTestsProofs` proves, from `UnitTestsAssumption` (a ring of at least 2 slots, `HALF_LIST_SIZE`
at least 4, some value to fill a payload with, NULL and unwritten cells no numbers
and NULL no payload), that the tests are legal clients of both containers. The invariant `Inv` is that of
`CircBufProofs`, that of `LinkedListProofs` and `ClientInv`, which says for each test and
each place `k` of its script what the containers hold before call `k` and which
payloads are live (`At(k, live)`): after three insertions the list is 1, 2, 3;
after the removals of `test_ll_remove` it is the rest in order. The scripts have a
length that depends on the sizes and on the numbers drawn, so each `At_...` is
stated by position, with lemmas on the sequence an insertion or a removal makes.
One step of the argument is the same for every test: the call is one the container
accepts where the test stands (`Turn`), the theorems about the container say what
it answers (`Outcome` for a list, in one step or in many), and that is what the
test asserts, with the containers at the next place (`Settles`). The ways
that remain for an assertion to fail are in the invariant: a failed allocation and
`SameContents`; the division by 0 is in `Setup`. `TypeCorrect`, `FreedOnceEach`,
`TestsDoPass` and `NothingLeft` follow, and `ContainersStaySound`: the containers'
own safety properties hold under the tests too, abandoned ones included, and no
test dereferences a NULL list.

Only model-checked: liveness, which the proof system does not cover: `WalkEnds`,
`KeepsFiring`, `QuietRequestsArePosted`, `InterruptEndsProgram`, `RequestIsServed` and
`Ends`. The three runs that end in a violation are counterexamples
and have no theorem.

## Plan

Done: the two containers, ex3prob5 in two layers, ex3prob2, logging, the unit
tests as clients of both containers, the two kernel modules with state; the
proofs of the safety properties of all of them and of the three refinements.
What is left to TLC is under "Only model-checked", what is left out below.

## Not modelled

The text of log lines; `fsync` and `close`; the int32 width of the counts (a file
of 2^31 bytes); `profiler.c`, which no program calls; `utilities.c`, which no
build includes; `template.c`, one pure function; `ex3prob3.c` and
`kthread_create.c`, which time library and kernel calls and share nothing;
`syscall.c`, a client of a system call outside the repository; the vendor's
start-up code. Of the kernel, `Timer` and `ListProcs` have what these modules
use of it and no more.
