------------------------------ MODULE LogProofs ------------------------------
(***************************************************************************)
(* Proofs about log.c under threads and signal handlers, for any threads,   *)
(* any number of log calls and any signals, wherever they are taken.        *)
(***************************************************************************)
EXTENDS Log, TLAPS

Frames == [code : Signals \cup {"app"}, at : Places]

StacksOK == stack \in [Threads -> Seq(Frames)] /\ \A t \in Threads : stack[t] # <<>>

(* The stack of a thread, and what the steps do to it. *)
LEMMA StackIs ==
  ASSUME StacksOK, NEW t \in Threads
  PROVE  /\ stack[t] \in Seq(Frames) /\ Len(stack[t]) \in Nat /\ Len(stack[t]) >= 1
         /\ DOMAIN stack[t] = 1 .. Len(stack[t])
         /\ Top(t) = stack[t][Len(stack[t])]
         /\ \A i \in 1 .. Len(stack[t]) : stack[t][i] \in Frames
         /\ Len(stack[t]) \in 1 .. Len(stack[t])
  <1>1. stack[t] \in Seq(Frames) /\ stack[t] # <<>>
    BY DEF StacksOK
  <1>2. Len(stack[t]) \in Nat /\ Len(stack[t]) >= 1
    BY <1>1
  <1> QED
    BY <1>1, <1>2 DEF Top, Last

(* The frames of t up to the n-th are as they were, and so are the stacks   *)
(* of the others.                                                           *)
SameUpTo(t, n) ==
  /\ stack' \in [Threads -> Seq(Frames)]
  /\ \A u \in Threads : u # t => stack'[u] = stack[u]
  /\ \A i \in 1 .. n : stack'[t][i] = stack[t][i]

LEMMA GotoIs ==
  ASSUME StacksOK, NEW t \in Threads, NEW at \in Places, Goto(t, at)
  PROVE  /\ SameUpTo(t, Len(stack[t]) - 1)
         /\ Len(stack'[t]) = Len(stack[t])
         /\ stack'[t][Len(stack[t])] = Frame(Top(t).code, at)
         /\ StacksOK'
  <1> DEFINE s == stack[t]
             n == Len(s)
             f == [s[n] EXCEPT !.at = at]
             s2 == [s EXCEPT ![n] = f]
  <1>1. /\ s \in Seq(Frames) /\ n \in Nat /\ n >= 1 /\ n \in 1 .. n
        /\ Top(t) = s[n] /\ s[n] \in Frames
    BY StackIs
  <1>2. f \in Frames /\ f = Frame(s[n].code, at)
    BY <1>1 DEF Frames, Frame
  <1>3. stack' = [stack EXCEPT ![t] = s2]
    BY DEF Goto
  <1> HIDE DEF f, n
  <1>4. /\ s2 \in Seq(Frames) /\ Len(s2) = Len(s) /\ s2[n] = f
        /\ \A i \in 1 .. n - 1 : s2[i] = s[i]
    <2>1. n \in 1 .. Len(s)
      BY <1>1 DEF n
    <2> QED
      BY <1>1, <1>2, <2>1
  <1> HIDE DEF s2
  <1>5. /\ stack' \in [Threads -> Seq(Frames)] /\ stack'[t] = s2
        /\ \A u \in Threads : u # t => stack'[u] = stack[u]
    BY <1>3, <1>4 DEF StacksOK
  <1>6. stack'[t] # <<>>
    BY <1>1, <1>4, <1>5 DEF n
  <1> QED
    BY <1>1, <1>2, <1>4, <1>5, <1>6 DEF SameUpTo, StacksOK, n

(* A handler on top of what the thread was doing. *)
LEMMA InterruptIs ==
  ASSUME StacksOK, NEW t \in Threads, NEW f \in Frames,
         stack' = [stack EXCEPT ![t] = Append(@, f)]
  PROVE  /\ SameUpTo(t, Len(stack[t]))
         /\ Len(stack'[t]) = Len(stack[t]) + 1
         /\ stack'[t][Len(stack[t]) + 1] = f
         /\ StacksOK'
  <1> DEFINE s == stack[t]
             s2 == Append(s, f)
  <1>1. s \in Seq(Frames)
    BY StackIs
  <1>2. /\ s2 \in Seq(Frames) /\ Len(s2) = Len(s) + 1 /\ s2[Len(s) + 1] = f
        /\ \A i \in 1 .. Len(s) : s2[i] = s[i]
        /\ s2 # <<>>
    BY <1>1
  <1> HIDE DEF s2
  <1>3. /\ stack' \in [Threads -> Seq(Frames)] /\ stack'[t] = s2
        /\ \A u \in Threads : u # t => stack'[u] = stack[u]
    <2>1. stack' = [stack EXCEPT ![t] = s2]
      BY DEF s2
    <2> QED
      BY <1>2, <2>1 DEF StacksOK
  <1> QED
    BY <1>2, <1>3 DEF SameUpTo, StacksOK

(* The handler on top returns. *)
LEMMA ReturnIs ==
  ASSUME StacksOK, NEW t \in Threads, Len(stack[t]) > 1,
         stack' = [stack EXCEPT ![t] = Front(@)]
  PROVE  /\ SameUpTo(t, Len(stack[t]) - 1)
         /\ Len(stack'[t]) = Len(stack[t]) - 1
         /\ StacksOK'
  <1> DEFINE s == stack[t]
             n == Len(s)
             s2 == Front(s)
  <1>1. s \in Seq(Frames) /\ n \in Nat /\ n > 1
    BY StackIs
  <1>2. /\ s2 \in Seq(Frames) /\ Len(s2) = n - 1
        /\ \A i \in 1 .. n - 1 : s2[i] = s[i]
        /\ s2 # <<>>
    <2> DEFINE k == n - 1
    <2>1. k \in Nat /\ k >= 1 /\ s2 = SubSeq(s, 1, k) /\ k <= Len(s)
      BY <1>1 DEF Front
    <2> HIDE DEF k, s2
    <2>2. s2 \in Seq(Frames) /\ Len(s2) = k /\ \A i \in 1 .. k : s2[i] = s[i]
      BY <1>1, <2>1
    <2>3. s2 # <<>>
      BY <2>1, <2>2
    <2> QED
      BY <2>2, <2>3 DEF k
  <1> HIDE DEF s2
  <1>3. /\ stack' \in [Threads -> Seq(Frames)] /\ stack'[t] = s2
        /\ \A u \in Threads : u # t => stack'[u] = stack[u]
    <2>1. stack' = [stack EXCEPT ![t] = s2]
      BY DEF s2
    <2> QED
      BY <1>2, <2>1 DEF StacksOK
  <1> QED
    BY <1>2, <1>3 DEF SameUpTo, StacksOK
----------------------------------------------------------------------------
(* The inductive invariant.                                                *)

(* What can be at the i-th place of a stack: the program is at the bottom,  *)
(* the handlers above it, and only those that log go to the library.        *)
Holding == {"taken", "half", "giving"}

FrameOK(i, f) ==
  IF i = 1 THEN f.code = "app" /\ f.at \in {"run", "wait"} \cup Holding
  ELSE /\ f.code \in Signals /\ f.at \in {"wait", "logged"} \cup Holding
       /\ f.at # "logged" => HandlerLogs(f.code)

ShapeOK ==
  \A t \in Threads : \A i \in 1 .. Len(stack[t]) : FrameOK(i, stack[t][i])

(* The lock is held by the thread that has a frame with it; a frame that is *)
(* not noted as the owner is alone with it.                                 *)
Alone == {"taken", "giving"}

LockOK ==
  /\ lock \in Threads \cup {Nobody}
  /\ \A t \in Threads : At(t, Holding) # {} <=> lock = t
  /\ \A t \in Threads : \A i \in At(t, Alone) : At(t, Holding) = {i}

RestOK ==
  /\ SYS_LOG \in BOOLEAN /\ LOG_LEVEL \in 2 .. 3
  /\ pending \subseteq Signals /\ noted \subseteq Signals
  /\ calls \in 0 .. MaxCalls /\ sent \in 0 .. MaxSent

IInv == StacksOK /\ ShapeOK /\ LockOK /\ RestOK

LEMMA AtIs ==
  ASSUME StacksOK, NEW t \in Threads, NEW P
  PROVE  At(t, P) = {i \in 1 .. Len(stack[t]) : stack[t][i].at \in P}
  BY StackIs DEF At

LEMMA AtSplits ==
  ASSUME NEW t
  PROVE  /\ At(t, Holding) = At(t, Alone) \cup At(t, {"half"})
         /\ At(t, Alone) \cap At(t, {"half"}) = {}
  BY DEF At, Holding, Alone

(* A step that leaves the first k frames of t, with at most one above them. *)
Reshaped(t, k) ==
  /\ k \in Nat /\ k <= Len(stack[t]) /\ SameUpTo(t, k)
  /\ Len(stack'[t]) \in {k, k + 1} /\ StacksOK'

LEMMA ShapeKept ==
  ASSUME StacksOK, ShapeOK, UNCHANGED build, NEW t \in Threads, NEW k, Reshaped(t, k),
         Len(stack'[t]) = k + 1 => FrameOK(k + 1, stack'[t][k + 1])
  PROVE  ShapeOK'
  <1> SUFFICES ASSUME NEW u \in Threads, NEW i \in 1 .. Len(stack'[u])
               PROVE  FrameOK(i, stack[u][i])'
    BY DEF ShapeOK
  <1>1. FrameOK(i, stack'[u][i])
    <2>1. CASE u # t
      BY <2>1 DEF Reshaped, SameUpTo, ShapeOK
    <2>2. CASE u = t
      <3>1. \/ i \in 1 .. k /\ i \in 1 .. Len(stack[t])
            \/ Len(stack'[t]) = k + 1 /\ i = k + 1
        BY <2>2, StackIs DEF Reshaped
      <3> QED
        BY <2>2, <3>1 DEF Reshaped, SameUpTo, ShapeOK
    <2> QED
      BY <2>1, <2>2
  <1> QED
    BY <1>1 DEF FrameOK, HandlerLogs, build

LEMMA AtKept ==
  ASSUME StacksOK, NEW t \in Threads, NEW k, Reshaped(t, k), NEW P
  PROVE  /\ \A u \in Threads : u # t => At(u, P)' = At(u, P)
         /\ At(t, P)' = {i \in At(t, P) : i <= k}
                           \cup {i \in {k + 1} : /\ Len(stack'[t]) = k + 1
                                                 /\ stack'[t][k + 1].at \in P}
  <1>1. ASSUME NEW u \in Threads
        PROVE  At(u, P)' = {i \in 1 .. Len(stack'[u]) : stack'[u][i].at \in P}
    <2>1. stack'[u] \in Seq(Frames)
      BY DEF Reshaped, StacksOK
    <2>2. DOMAIN stack'[u] = 1 .. Len(stack'[u])
      BY <2>1
    <2> QED
      BY <2>2 DEF At
  <1>2. \A u \in Threads : u # t => At(u, P)' = At(u, P)
    <2> SUFFICES ASSUME NEW u \in Threads, u # t PROVE At(u, P)' = At(u, P)
      OBVIOUS
    <2>1. stack'[u] = stack[u]
      BY DEF Reshaped, SameUpTo
    <2>2. /\ At(u, P)' = {i \in 1 .. Len(stack'[u]) : stack'[u][i].at \in P}
          /\ At(u, P) = {i \in 1 .. Len(stack[u]) : stack[u][i].at \in P}
      BY <1>1, AtIs
    <2> QED
      BY <2>1, <2>2
  <1>3. At(t, P)' = {i \in At(t, P) : i <= k}
                      \cup {i \in {k + 1} : /\ Len(stack'[t]) = k + 1
                                            /\ stack'[t][k + 1].at \in P}
    <2>1. /\ k \in Nat /\ Len(stack[t]) \in Nat /\ k <= Len(stack[t])
          /\ Len(stack'[t]) \in {k, k + 1}
          /\ \A i \in 1 .. k : stack'[t][i] = stack[t][i]
      BY StackIs DEF Reshaped, SameUpTo
    <2>2. At(t, P) = {i \in 1 .. Len(stack[t]) : stack[t][i].at \in P}
      BY AtIs
    <2>3. At(t, P)' = {i \in 1 .. Len(stack'[t]) : stack'[t][i].at \in P}
      BY <1>1
    <2>4. ASSUME NEW i
          PROVE  i \in At(t, P)' <=>
                   \/ i \in At(t, P) /\ i <= k
                   \/ /\ i = k + 1 /\ Len(stack'[t]) = k + 1
                      /\ stack'[t][k + 1].at \in P
      BY <2>1, <2>2, <2>3
    <2> QED
      BY <2>4
  <1> QED
    BY <1>2, <1>3

LEMMA IInvInit == Init => IInv
  <1> SUFFICES ASSUME Init PROVE IInv
    OBVIOUS
  <1> DEFINE f == Frame("app", "run")
  <1>1. f \in Frames /\ f.code = "app" /\ f.at = "run"
    BY DEF Frame, Frames, Places
  <1>2. stack = [t \in Threads |-> <<f>>]
    BY DEF Init
  <1> HIDE DEF f
  <1>3. \A t \in Threads : /\ stack[t] \in Seq(Frames) /\ stack[t] # <<>>
                           /\ Len(stack[t]) = 1 /\ stack[t][1] = f
    BY <1>1, <1>2
  <1>4. StacksOK
    BY <1>2, <1>3 DEF StacksOK
  <1>5. ShapeOK
    BY <1>1, <1>3 DEF ShapeOK, FrameOK
  <1>6. \A t \in Threads : At(t, Holding) = {} /\ At(t, Alone) = {}
    BY <1>1, <1>3, <1>4, AtIs DEF Holding, Alone
  <1>7. LockOK
    BY <1>6, LogAssumption DEF LockOK, Init
  <1>8. RestOK
    <2>1. SYS_LOG \in BOOLEAN /\ LOG_LEVEL \in 2 .. 3 /\ pending = {} /\ noted = {}
      BY DEF Init
    <2>2. calls \in 0 .. MaxCalls /\ sent \in 0 .. MaxSent
      BY LogAssumption DEF Init
    <2> QED
      BY <2>1, <2>2 DEF RestOK
  <1> QED
    BY <1>4, <1>5, <1>7, <1>8 DEF IInv

(* A step that gives no frame the lock and takes it from none. *)
LEMMA QuietKeepsLock ==
  ASSUME LockOK, UNCHANGED lock,
         \A u \in Threads : At(u, Holding)' = At(u, Holding) /\ At(u, Alone)' = At(u, Alone)
  PROVE  LockOK'
  BY DEF LockOK

(* A step of the frames of t. *)
LEMMA StepKeepsLock ==
  ASSUME LockOK, NEW t \in Threads, lock \in {t, Nobody}, lock' \in {t, Nobody},
         \A u \in Threads : u # t => /\ At(u, Holding)' = At(u, Holding)
                                    /\ At(u, Alone)' = At(u, Alone),
         At(t, Holding)' # {} <=> lock' = t,
         \A i \in At(t, Alone)' : At(t, Holding)' = {i}
  PROVE  LockOK'
  <1>1. Nobody \notin Threads
    BY LogAssumption
  <1>2. \A u \in Threads : (At(u, Holding) # {} <=> lock = u)'
    BY <1>1 DEF LockOK
  <1>3. ASSUME NEW u \in Threads
        PROVE  (\A i \in At(u, Alone) : At(u, Holding) = {i})'
    <2>1. CASE u = t
      BY <2>1
    <2>2. CASE u # t
      BY <2>2 DEF LockOK
    <2> QED
      BY <2>1, <2>2
  <1>4. (lock \in Threads \cup {Nobody})'
    OBVIOUS
  <1> QED
    BY <1>2, <1>3, <1>4 DEF LockOK

LEMMA TopIs ==
  ASSUME IInv, NEW t \in Threads, NEW n, n = Len(stack[t])
  PROVE  /\ StacksOK /\ ShapeOK /\ LockOK /\ n \in Nat /\ n >= 1 /\ Top(t) = stack[t][n]
         /\ FrameOK(n, Top(t)) /\ Top(t) \in Frames
         /\ \A P : n \in At(t, P) <=> Top(t).at \in P
         /\ \A P : \A i \in At(t, P) : i \in Nat /\ i <= n
  <1>1. StacksOK /\ ShapeOK /\ LockOK
    BY DEF IInv
  <1>2. /\ n \in Nat /\ n >= 1 /\ Top(t) = stack[t][n] /\ n \in 1 .. Len(stack[t])
        /\ Top(t) \in Frames
    BY <1>1, StackIs
  <1>3. FrameOK(n, Top(t))
    BY <1>1, <1>2 DEF ShapeOK
  <1>4. ASSUME NEW P
        PROVE  /\ n \in At(t, P) <=> Top(t).at \in P
               /\ \A i \in At(t, P) : i \in Nat /\ i <= n
    <2>1. At(t, P) = {i \in 1 .. Len(stack[t]) : stack[t][i].at \in P}
      BY <1>1, AtIs
    <2> QED
      BY <1>2, <2>1
  <1> QED
    BY <1>1, <1>2, <1>3, <1>4

(* Who has the lock while a frame of t is in the library. *)
LEMMA HoldersAre ==
  ASSUME LockOK, NEW t \in Threads, At(t, Holding) # {}
  PROVE  /\ lock = t
         /\ At(t, {"half"}) # {} => At(t, Alone) = {}
         /\ \A i \in At(t, Alone) : At(t, Holding) = {i}
  <1>1. lock = t /\ \A i \in At(t, Alone) : At(t, Holding) = {i}
    BY DEF LockOK
  <1>2. ASSUME NEW j \in At(t, {"half"}), NEW i \in At(t, Alone) PROVE FALSE
    BY <1>1, <1>2, AtSplits
  <1> QED
    BY <1>1, <1>2

(* The frame on top goes to another place. *)
LEMMA GotoKeeps ==
  ASSUME IInv, UNCHANGED build, NEW t \in Threads, NEW at \in Places, Goto(t, at),
         NEW n, n = Len(stack[t]), FrameOK(n, Frame(Top(t).code, at)), NEW P
  PROVE  /\ StacksOK' /\ ShapeOK'
         /\ \A u \in Threads : u # t => At(u, P)' = At(u, P)
         /\ At(t, P)' = IF at \in P THEN At(t, P) \cup {n} ELSE At(t, P) \ {n}
  <1> DEFINE k == n - 1
  <1>1. /\ StacksOK /\ ShapeOK /\ n \in Nat /\ n >= 1
        /\ \A i \in At(t, P) : i \in Nat /\ i <= n
    BY TopIs
  <1>2. /\ SameUpTo(t, Len(stack[t]) - 1) /\ Len(stack'[t]) = Len(stack[t])
        /\ stack'[t][Len(stack[t])] = Frame(Top(t).code, at) /\ StacksOK'
    BY <1>1, GotoIs
  <1>3. k + 1 = n /\ k \in Nat /\ k <= n
    BY <1>1
  <1>4. Reshaped(t, k)
    BY <1>2, <1>3 DEF Reshaped
  <1>5. stack'[t][n] = Frame(Top(t).code, at) /\ stack'[t][n].at = at
    BY <1>2 DEF Frame
  <1>6. Len(stack'[t]) = k + 1 => FrameOK(k + 1, stack'[t][k + 1])
    BY <1>3, <1>5
  <1> HIDE DEF k
  <1>7. ShapeOK'
    BY <1>1, <1>4, <1>6, ShapeKept
  <1>8. /\ \A u \in Threads : u # t => At(u, P)' = At(u, P)
        /\ At(t, P)' = {i \in At(t, P) : i <= k}
                          \cup {i \in {k + 1} : /\ Len(stack'[t]) = k + 1
                                                /\ stack'[t][k + 1].at \in P}
    BY <1>1, <1>4, AtKept
  <1>9. {i \in At(t, P) : i <= k} = At(t, P) \ {n}
    BY <1>1, <1>3
  <1>10. {i \in {k + 1} : Len(stack'[t]) = k + 1 /\ stack'[t][k + 1].at \in P}
           = IF at \in P THEN {n} ELSE {}
    BY <1>2, <1>3, <1>5
  <1>11. At(t, P)' = (At(t, P) \ {n}) \cup (IF at \in P THEN {n} ELSE {})
    BY <1>8, <1>9, <1>10
  <1>12. At(t, P)' = IF at \in P THEN At(t, P) \cup {n} ELSE At(t, P) \ {n}
    BY <1>11
  <1> QED
    BY <1>2, <1>7, <1>8, <1>12

(* What a step of the frame on top, which may go to the place at, does to   *)
(* the stacks and to the frames that have the lock.                         *)
Moves(t, n, at) ==
  /\ StacksOK' /\ ShapeOK'
  /\ \A u \in Threads : u # t => /\ At(u, Holding)' = At(u, Holding)
                                 /\ At(u, Alone)' = At(u, Alone)
  /\ At(t, Holding)' = IF at \in Holding THEN At(t, Holding) \cup {n}
                       ELSE At(t, Holding) \ {n}
  /\ At(t, Alone)' = IF at \in Alone THEN At(t, Alone) \cup {n} ELSE At(t, Alone) \ {n}

LEMMA GotoMoves ==
  ASSUME IInv, UNCHANGED build, NEW t \in Threads, NEW at \in Places, Goto(t, at),
         NEW n, n = Len(stack[t]), FrameOK(n, Frame(Top(t).code, at))
  PROVE  Moves(t, n, at)
  <1>1. /\ StacksOK' /\ ShapeOK'
        /\ \A u \in Threads : u # t => At(u, Holding)' = At(u, Holding)
        /\ At(t, Holding)' = IF at \in Holding THEN At(t, Holding) \cup {n}
                             ELSE At(t, Holding) \ {n}
    BY GotoKeeps
  <1>2. /\ \A u \in Threads : u # t => At(u, Alone)' = At(u, Alone)
        /\ At(t, Alone)' = IF at \in Alone THEN At(t, Alone) \cup {n}
                           ELSE At(t, Alone) \ {n}
    BY GotoKeeps
  <1> QED
    BY <1>1, <1>2 DEF Moves

LEMMA LogCallKeepsInv ==
  ASSUME IInv, NEW t \in Threads, LogCall(t)
  PROVE  IInv'
  <1>1. PICK n : n = Len(stack[t])
    OBVIOUS
  <1>2. /\ FrameOK(n, Top(t)) /\ Top(t).at = "run" /\ LockOK
        /\ \A P : n \in At(t, P) <=> Top(t).at \in P
        /\ Goto(t, "wait") /\ "wait" \in Places /\ UNCHANGED build
    BY <1>1, TopIs DEF LogCall, Places
  <1>3. FrameOK(n, Frame(Top(t).code, "wait"))
    BY <1>2 DEF FrameOK, Frame, Holding
  <1>4. Moves(t, n, "wait")
    BY <1>1, <1>2, <1>3, GotoMoves
  <1>5. n \notin At(t, Holding) /\ n \notin At(t, Alone)
    BY <1>2 DEF Holding, Alone
  <1>6. "wait" \notin Holding /\ "wait" \notin Alone
    BY DEF Holding, Alone
  <1>7. \A u \in Threads : At(u, Holding)' = At(u, Holding) /\ At(u, Alone)' = At(u, Alone)
    BY <1>4, <1>5, <1>6 DEF Moves
  <1>8. LockOK'
    BY <1>2, <1>7, QuietKeepsLock DEF LogCall
  <1>9. calls' \in 0 .. MaxCalls
    <2>1. calls \in 0 .. MaxCalls /\ calls < MaxCalls /\ calls' = calls + 1
      BY DEF IInv, RestOK, LogCall
    <2> QED
      BY <2>1, LogAssumption
  <1>10. RestOK'
    BY <1>9 DEF IInv, RestOK, LogCall, build
  <1> QED
    BY <1>4, <1>8, <1>10 DEF IInv, Moves

LEMMA AcquireKeepsInv ==
  ASSUME IInv, NEW t \in Threads, Acquire(t)
  PROVE  IInv'
  <1>1. PICK n : n = Len(stack[t])
    OBVIOUS
  <1>2. /\ FrameOK(n, Top(t)) /\ Top(t).at = "wait" /\ Goto(t, "taken") /\ LockOK
        /\ "taken" \in Places /\ UNCHANGED build /\ lock = Nobody /\ lock' = t
    BY <1>1, TopIs DEF Acquire, Places
  <1>3. FrameOK(n, Frame(Top(t).code, "taken"))
    BY <1>2 DEF FrameOK, Frame, Holding
  <1>4. Moves(t, n, "taken")
    BY <1>1, <1>2, <1>3, GotoMoves
  <1>5. At(t, Holding) = {} /\ At(t, Alone) = {}
    BY <1>2, LogAssumption, AtSplits DEF LockOK
  <1>6. "taken" \in Holding /\ "taken" \in Alone
    BY DEF Holding, Alone
  <1>7. At(t, Holding)' = {n} /\ At(t, Alone)' = {n}
    BY <1>4, <1>5, <1>6 DEF Moves
  <1>8. LockOK'
    BY <1>2, <1>4, <1>7, StepKeepsLock DEF Moves
  <1>9. RestOK'
    BY DEF IInv, RestOK, Acquire, build
  <1> QED
    BY <1>4, <1>8, <1>9 DEF IInv, Moves

LEMMA OwnKeepsInv ==
  ASSUME IInv, NEW t \in Threads, Own(t)
  PROVE  IInv'
  <1>1. PICK n : n = Len(stack[t])
    OBVIOUS
  <1>2. /\ FrameOK(n, Top(t)) /\ Top(t).at = "taken" /\ Goto(t, "half") /\ LockOK
        /\ \A P : n \in At(t, P) <=> Top(t).at \in P
        /\ "half" \in Places /\ UNCHANGED build /\ UNCHANGED lock
    BY <1>1, TopIs DEF Own, Places
  <1>3. FrameOK(n, Frame(Top(t).code, "half"))
    BY <1>2 DEF FrameOK, Frame, Holding
  <1>4. Moves(t, n, "half")
    BY <1>1, <1>2, <1>3, GotoMoves
  <1>5. n \in At(t, Alone) /\ n \in At(t, Holding)
    BY <1>2 DEF Alone, Holding
  <1>6. lock = t /\ At(t, Holding) = {n} /\ At(t, Alone) \subseteq {n}
    BY <1>2, <1>5, HoldersAre
  <1>7. "half" \in Holding /\ "half" \notin Alone
    BY DEF Holding, Alone
  <1>8. At(t, Holding)' = {n} /\ At(t, Alone)' = {}
    BY <1>4, <1>6, <1>7 DEF Moves
  <1>9. LockOK'
    BY <1>2, <1>4, <1>6, <1>8, StepKeepsLock DEF Moves
  <1>10. RestOK'
    BY DEF IInv, RestOK, Own, build
  <1> QED
    BY <1>4, <1>9, <1>10 DEF IInv, Moves

LEMMA ReenterKeepsInv ==
  ASSUME IInv, NEW t \in Threads, Reenter(t)
  PROVE  IInv'
  <1>1. PICK n : n = Len(stack[t])
    OBVIOUS
  <1>2. /\ FrameOK(n, Top(t)) /\ Top(t).at = "wait" /\ Goto(t, "half") /\ LockOK
        /\ "half" \in Places /\ UNCHANGED build /\ UNCHANGED lock
        /\ At(t, {"half"}) # {}
    BY <1>1, TopIs DEF Reenter, Owns, Places
  <1>3. FrameOK(n, Frame(Top(t).code, "half"))
    BY <1>2 DEF FrameOK, Frame, Holding
  <1>4. Moves(t, n, "half")
    BY <1>1, <1>2, <1>3, GotoMoves
  <1>5. At(t, Holding) # {}
    BY <1>2, AtSplits
  <1>6. lock = t /\ At(t, Alone) = {}
    BY <1>2, <1>5, HoldersAre
  <1>7. "half" \in Holding /\ "half" \notin Alone
    BY DEF Holding, Alone
  <1>8. At(t, Holding)' # {} /\ At(t, Alone)' = {}
    BY <1>4, <1>6, <1>7 DEF Moves
  <1>9. LockOK'
    BY <1>2, <1>4, <1>6, <1>8, StepKeepsLock DEF Moves
  <1>10. RestOK'
    BY DEF IInv, RestOK, Reenter, build
  <1> QED
    BY <1>4, <1>9, <1>10 DEF IInv, Moves

(* log_level returns to the program, or to the rest of the handler. *)
LEMMA ReturnedIs ==
  ASSUME NEW t, NEW n, FrameOK(n, Top(t)), Top(t).at \in Holding
  PROVE  /\ Returned(t) \in Places /\ Returned(t) \notin Holding
         /\ Returned(t) \notin Alone /\ FrameOK(n, Frame(Top(t).code, Returned(t)))
  <1>1. "app" \notin Signals
    BY DEF Signals
  <1> QED
    BY <1>1 DEF FrameOK, Frame, Places, Holding, Alone, Returned

LEMMA LeaveKeepsInv ==
  ASSUME IInv, NEW t \in Threads, Leave(t)
  PROVE  IInv'
  <1>1. PICK n : n = Len(stack[t])
    OBVIOUS
  <1>2. /\ FrameOK(n, Top(t)) /\ Top(t).at = "half" /\ LockOK
        /\ \A P : n \in At(t, P) <=> Top(t).at \in P
        /\ UNCHANGED build /\ UNCHANGED lock
        /\ Goto(t, IF At(t, {"half"}) = {n} THEN "giving" ELSE Returned(t))
    BY <1>1, TopIs DEF Leave
  <1>3. n \in At(t, {"half"}) /\ n \in At(t, Holding)
    BY <1>2 DEF Holding
  <1>4. lock = t /\ At(t, Alone) = {}
    BY <1>2, <1>3, HoldersAre
  <1>5. At(t, Holding) = At(t, {"half"})
    BY <1>4, AtSplits
  <1>6. CASE At(t, {"half"}) = {n}
    <2>1. FrameOK(n, Frame(Top(t).code, "giving")) /\ Goto(t, "giving")
          /\ "giving" \in Places
      BY <1>2, <1>6 DEF FrameOK, Frame, Holding, Places
    <2>2. Moves(t, n, "giving")
      BY <1>1, <1>2, <2>1, GotoMoves
    <2>3. "giving" \in Holding /\ "giving" \in Alone
      BY DEF Holding, Alone
    <2>4. At(t, Holding)' = {n} /\ At(t, Alone)' = {n}
      BY <1>4, <1>5, <1>6, <2>2, <2>3 DEF Moves
    <2>5. LockOK'
      BY <1>2, <1>4, <2>2, <2>4, StepKeepsLock DEF Moves
    <2> QED
      BY <2>2, <2>5 DEF IInv, RestOK, Leave, build, Moves
  <1>7. CASE At(t, {"half"}) # {n}
    <2>1. PICK at : at = Returned(t)
      OBVIOUS
    <2>2. /\ at \in Places /\ at \notin Holding /\ at \notin Alone /\ Goto(t, at)
          /\ FrameOK(n, Frame(Top(t).code, at))
      BY <1>2, <1>7, <2>1, ReturnedIs DEF Holding
    <2>3. Moves(t, n, at)
      BY <1>1, <1>2, <2>2, GotoMoves
    <2>4. At(t, Holding)' # {} /\ At(t, Alone)' = {}
      BY <1>3, <1>4, <1>5, <1>7, <2>2, <2>3 DEF Moves
    <2>5. LockOK'
      BY <1>2, <1>4, <2>3, <2>4, StepKeepsLock DEF Moves
    <2> QED
      BY <2>3, <2>5 DEF IInv, RestOK, Leave, build, Moves
  <1> QED
    BY <1>6, <1>7

LEMMA ReleaseKeepsInv ==
  ASSUME IInv, NEW t \in Threads, Release(t)
  PROVE  IInv'
  <1>1. PICK n : n = Len(stack[t])
    OBVIOUS
  <1>2. PICK at : at = Returned(t)
    OBVIOUS
  <1>3. /\ FrameOK(n, Top(t)) /\ Top(t).at = "giving" /\ LockOK
        /\ \A P : n \in At(t, P) <=> Top(t).at \in P
        /\ UNCHANGED build /\ lock' = Nobody /\ Goto(t, at)
    BY <1>1, <1>2, TopIs DEF Release
  <1>4. /\ at \in Places /\ at \notin Holding /\ at \notin Alone
        /\ FrameOK(n, Frame(Top(t).code, at))
    BY <1>2, <1>3, ReturnedIs DEF Holding
  <1>5. Moves(t, n, at)
    BY <1>1, <1>3, <1>4, GotoMoves
  <1>6. n \in At(t, Alone) /\ n \in At(t, Holding)
    BY <1>3 DEF Alone, Holding
  <1>7. lock = t /\ At(t, Holding) = {n} /\ At(t, Alone) \subseteq {n}
    BY <1>3, <1>6, HoldersAre
  <1>8. At(t, Holding)' = {} /\ At(t, Alone)' = {} /\ lock' # t
    BY <1>3, <1>4, <1>5, <1>7, LogAssumption DEF Moves
  <1>9. LockOK'
    BY <1>3, <1>5, <1>7, <1>8, StepKeepsLock DEF Moves
  <1>10. RestOK'
    BY DEF IInv, RestOK, Release, build
  <1> QED
    BY <1>5, <1>9, <1>10 DEF IInv, Moves

(* Frames that come and go above the others, without the lock. *)
LEMMA HandlersKeepLock ==
  ASSUME IInv, NEW t \in Threads, NEW k, Reshaped(t, k), UNCHANGED lock,
         k < Len(stack[t]) => Top(t).at \notin Holding /\ k + 1 = Len(stack[t]),
         Len(stack'[t]) = k + 1 => stack'[t][k + 1].at \notin Holding
  PROVE  LockOK'
  <1>1. PICK n : n = Len(stack[t])
    OBVIOUS
  <1>2. /\ StacksOK /\ LockOK /\ n \in Nat /\ k \in Nat /\ k <= n
        /\ \A P : n \in At(t, P) <=> Top(t).at \in P
        /\ \A P : \A i \in At(t, P) : i \in Nat /\ i <= n
    BY <1>1, TopIs DEF Reshaped
  <1>3. StacksOK
    BY <1>2
  <1>4. ASSUME NEW P, P \subseteq Holding
        PROVE  \A u \in Threads : At(u, P)' = At(u, P)
    <2>1. /\ \A u \in Threads : u # t => At(u, P)' = At(u, P)
          /\ At(t, P)' = {i \in At(t, P) : i <= k}
                            \cup {i \in {k + 1} : /\ Len(stack'[t]) = k + 1
                                                  /\ stack'[t][k + 1].at \in P}
      BY <1>3, AtKept
    <2>2. {i \in {k + 1} : Len(stack'[t]) = k + 1 /\ stack'[t][k + 1].at \in P} = {}
      BY <1>4
    <2>3. k < n => n \notin At(t, P) /\ k + 1 = n
      BY <1>1, <1>2, <1>4
    <2>4. \A i \in At(t, P) : i <= k
      BY <1>2, <2>3
    <2> QED
      BY <2>1, <2>2, <2>4
  <1>5. \A u \in Threads : At(u, Holding)' = At(u, Holding)
    BY <1>4
  <1>6. \A u \in Threads : At(u, Alone)' = At(u, Alone)
    BY <1>4 DEF Alone, Holding
  <1> QED
    BY <1>2, <1>5, <1>6, QuietKeepsLock

LEMMA DeliverKeepsInv ==
  ASSUME IInv, NEW t \in Threads, NEW s \in Signals, Deliver(s, t)
  PROVE  IInv'
  <1> DEFINE n == Len(stack[t])
             f == Frame(s, IF HandlerLogs(s) THEN "wait" ELSE "logged")
  <1>1. StacksOK /\ ShapeOK /\ n \in Nat /\ n >= 1
    BY TopIs
  <1>2. f \in Frames /\ f.at \notin Holding /\ FrameOK(n + 1, f)
    <2>1. n + 1 # 1
      BY <1>1
    <2>2. /\ f.code = s /\ f.at \in {"wait", "logged"}
          /\ f.at # "logged" => HandlerLogs(s)
      BY DEF Frame
    <2>3. f \in Frames
      BY DEF Frame, Frames, Places
    <2> HIDE DEF f
    <2> QED
      BY <2>1, <2>2, <2>3 DEF FrameOK, Holding
  <1>3. stack' = [stack EXCEPT ![t] = Append(@, f)] /\ UNCHANGED build /\ UNCHANGED lock
    BY DEF Deliver
  <1> HIDE DEF f
  <1>4. /\ SameUpTo(t, n) /\ Len(stack'[t]) = n + 1 /\ stack'[t][n + 1] = f /\ StacksOK'
    BY <1>1, <1>2, <1>3, InterruptIs
  <1>5. Reshaped(t, n) /\ ~(n < Len(stack[t]))
    BY <1>1, <1>4 DEF Reshaped
  <1> HIDE DEF n
  <1>6. ShapeOK'
    BY <1>1, <1>2, <1>3, <1>4, <1>5, ShapeKept
  <1>7. LockOK'
    BY <1>2, <1>3, <1>4, <1>5, HandlersKeepLock
  <1>8. RestOK'
    BY DEF IInv, RestOK, Deliver, build
  <1> QED
    BY <1>4, <1>6, <1>7, <1>8 DEF IInv

LEMMA HandledKeepsInv ==
  ASSUME IInv, NEW t \in Threads, Handled(t)
  PROVE  IInv'
  <1> DEFINE n == Len(stack[t])
             k == n - 1
  <1>1. /\ StacksOK /\ ShapeOK /\ n \in Nat /\ n >= 1 /\ FrameOK(n, Top(t))
        /\ Top(t).at = "logged" /\ UNCHANGED lock
        /\ stack' = [stack EXCEPT ![t] = Front(@)] /\ UNCHANGED build
    BY TopIs DEF Handled
  <1>2. n > 1 /\ Top(t).code \in Signals /\ Top(t).at \notin Holding
    <2>1. n # 1 /\ Top(t).code \in Signals /\ Top(t).at \notin Holding
      BY <1>1 DEF FrameOK, Holding
    <2> HIDE DEF n
    <2> QED
      BY <1>1, <2>1
  <1>3. /\ SameUpTo(t, k) /\ Len(stack'[t]) = k /\ StacksOK'
    BY <1>1, <1>2, ReturnIs
  <1>4. Reshaped(t, k) /\ Len(stack'[t]) # k + 1 /\ k + 1 = Len(stack[t])
    BY <1>1, <1>2, <1>3 DEF Reshaped
  <1> HIDE DEF n, k
  <1>5. ShapeOK'
    BY <1>1, <1>4, ShapeKept
  <1>6. LockOK'
    BY <1>1, <1>2, <1>4, HandlersKeepLock
  <1>7. RestOK'
    BY <1>2 DEF IInv, RestOK, Handled, build
  <1> QED
    BY <1>3, <1>5, <1>6, <1>7 DEF IInv

LEMMA UnchangedKeepsInv ==
  ASSUME IInv, UNCHANGED <<build, stack, lock>>, RestOK'
  PROVE  IInv'
  <1>1. StacksOK' /\ ShapeOK'
    BY DEF IInv, StacksOK, ShapeOK, FrameOK, HandlerLogs, build
  <1>2. LockOK'
    BY QuietKeepsLock DEF IInv, At, build
  <1> QED
    BY <1>1, <1>2 DEF IInv

LEMMA IInvNext == IInv /\ [Next]_vars => IInv'
  <1> SUFFICES ASSUME IInv, [Next]_vars PROVE IInv'
    OBVIOUS
  <1>1. ASSUME NEW s \in Signals, Send(s) PROVE IInv'
    <2>1. sent \in 0 .. MaxSent /\ sent < MaxSent /\ sent' = sent + 1
      BY <1>1 DEF IInv, RestOK, Send
    <2>2. sent' \in 0 .. MaxSent
      BY <2>1, LogAssumption
    <2>3. RestOK'
      BY <1>1, <2>2 DEF IInv, RestOK, Send, build
    <2> QED
      BY <1>1, <2>3, UnchangedKeepsInv DEF Send
  <1>2. CASE UNCHANGED vars
    <2>1. RestOK'
      BY <1>2 DEF IInv, RestOK, vars
    <2> QED
      BY <1>2, <2>1, UnchangedKeepsInv DEF vars, build
  <1> QED
    BY <1>1, <1>2, LogCallKeepsInv, AcquireKeepsInv, OwnKeepsInv, ReenterKeepsInv,
       LeaveKeepsInv, ReleaseKeepsInv, HandledKeepsInv, DeliverKeepsInv
       DEF Next, Work, log_level
----------------------------------------------------------------------------
(* The theorems.                                                           *)

(* The lock of the library belongs to the frames that took it and have not  *)
(* given it back, and the frames of a thread nest as its handlers do.       *)
THEOREM Invariance == Spec => []IInv
  BY IInvInit, IInvNext, PTL DEF Spec

(* Under the handlers there is always the program, and a handler on the     *)
(* stack has something left to do, for any thread and any signals.          *)
THEOREM TypeCorrect == Spec => []TypeOK
  <1>1. IInv => TypeOK
    <2> SUFFICES ASSUME IInv PROVE TypeOK
      OBVIOUS
    <2>1. ASSUME NEW t \in Threads
          PROVE  /\ stack[t] # <<>>
                 /\ stack[t][1].code = "app" /\ stack[t][1].at \in Places \ {"logged"}
                 /\ \A i \in 2 .. Len(stack[t]) :
                      /\ stack[t][i].code \in Signals
                      /\ stack[t][i].at \in Places \ {"run"}
      <3>1. StacksOK /\ ShapeOK /\ Len(stack[t]) \in Nat /\ Len(stack[t]) >= 1
        BY StackIs DEF IInv
      <3>2. FrameOK(1, stack[t][1])
        BY <3>1 DEF ShapeOK
      <3>3. ASSUME NEW i \in 2 .. Len(stack[t])
            PROVE  FrameOK(i, stack[t][i]) /\ i # 1
        BY <3>1 DEF ShapeOK
      <3>4. stack[t] # <<>>
        BY <3>1 DEF StacksOK
      <3> QED
        BY <3>2, <3>3, <3>4 DEF FrameOK, Places, Holding
    <2>2. lock \in Threads \cup {Nobody}
      BY DEF IInv, LockOK
    <2>3. LOG_LEVEL \in 0 .. 4
      BY DEF IInv, RestOK
    <2> QED
      BY <2>1, <2>2, <2>3 DEF TypeOK, IInv, RestOK
  <1> QED
    BY <1>1, Invariance, PTL

(* Below level 3 only the SIGINT handler can wait for a lock of its own     *)
(* thread, for any threads and any signals, with printf and with syslog:    *)
(* whoever holds the lock is inside a call that was interrupted, so the     *)
(* frame that waits is a handler, and one that logs.                        *)
THEOREM QuietNeverSticks == Spec => []QuietHandlersNeverStick
  <1>1. IInv => QuietHandlersNeverStick
    <2> SUFFICES ASSUME IInv, LOG_LEVEL <= 2, NEW t \in Threads, Stuck(t)
                 PROVE  Top(t).code = "SIGINT"
      BY DEF QuietHandlersNeverStick
    <2>1. PICK n : n = Len(stack[t])
      OBVIOUS
    <2>2. lock = t /\ Top(t).at = "wait"
      BY DEF Stuck
    <2>3. /\ LockOK /\ n \in Nat /\ FrameOK(n, Top(t))
          /\ n \notin At(t, Holding)
          /\ \A i \in At(t, Holding) : i \in Nat /\ i <= n
      BY <2>1, <2>2, TopIs DEF Holding
    <2>4. PICK j \in At(t, Holding) : TRUE
      BY <2>2, <2>3 DEF LockOK
    <2>5. j \in 1 .. Len(stack[t])
      BY <2>4, AtIs DEF IInv
    <2>6. n # 1
      <3>1. j # n /\ j <= n /\ n \in Nat
        BY <2>3, <2>4
      <3>2. j \in Nat /\ j >= 1
        BY <2>1, <2>3, <2>5
      <3> QED
        BY <3>1, <3>2
    <2>7. HandlerLogs(Top(t).code) /\ LOG_LEVEL \in 2 .. 3
      BY <2>2, <2>3, <2>6 DEF FrameOK, IInv, RestOK
    <2> QED
      BY <2>7 DEF HandlerLogs
  <1> QED
    BY <1>1, Invariance, PTL
=============================================================================
