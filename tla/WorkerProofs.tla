----------------------------- MODULE WorkerProofs -----------------------------
(***************************************************************************)
(* The safety properties of Worker, for any number of workers and callers. *)
(*                                                                         *)
(* The argument.  The thread changes m_state in two steps at the end of its*)
(* loop -- exchange, put back -- and takes no lock, so what it exchanged   *)
(* matters: it is never Starting, because a start is asked for only when   *)
(* m_state says Stopped, and then the thread is past its exchange          *)
(* (StoppedIsIdle).  So the put back never overwrites a kill that came in  *)
(* between, and a kill is held in m_state or in ex, because nobody else    *)
(* changes m_state while terminate() has the lock.                         *)
(***************************************************************************)
EXTENDS Worker, TLAPS

ThreadLabels == {"none", "top", "enter", "run", "exchange", "restore", "parked", "ended"}

\* What the variables range over.
Types ==
    /\ m_state \in [Workers -> WorkerState]
    /\ m_work \in [Workers -> BOOLEAN]
    /\ x_work \in [Workers -> Callers \cup {NoOne}]
    /\ thread \in [Workers -> ThreadLabels]
    /\ ex \in [Workers -> WorkerState]
    /\ call \in [Callers -> {"idle", "start", "stop", "terminate"}]

\* A caller holds a lock exactly while it is in a call, and then just one.
LockHeld == \A c \in Callers : call[c] = "idle" <=> \A w \in Workers : x_work[w] # c
OneLock == \A v, w \in Workers : x_work[v] = x_work[w] => v = w \/ x_work[v] = NoOne

\* The thread exists as long as m_work does, and it never exchanges a start: putting
\* one back would overwrite the kill that came after the exchange.
ThreadThere == \A w \in Workers : m_work[w] <=> thread[w] # "none"
NoStartInEx == \A w \in Workers : thread[w] = "restore" => ex[w] # "Starting"

IInv == /\ Types /\ LockHeld /\ OneLock /\ ThreadThere /\ NoStartInEx
        /\ StoppedIsIdle /\ StartIsNotSwallowed /\ KillIsKept

-----------------------------------------------------------------------------
LEMMA InitIInv == WorkerInit => IInv
  BY WorkerAssumption
  DEF WorkerInit, IInv, Types, ThreadLabels, WorkerState, LockHeld, OneLock, ThreadThere,
      NoStartInEx, StoppedIsIdle, StartIsNotSwallowed, KillIsKept, InCall

-----------------------------------------------------------------------------
(* The callers.                                                              *)

\* A call that begins takes a free lock: nobody holds two.
LEMMA EnterLocks ==
  ASSUME Types, LockHeld, OneLock, NEW c \in Callers, NEW w \in Workers,
         NEW op \in {"start", "stop", "terminate"}, Enter(c, w, op)
  PROVE  /\ x_work' \in [Workers -> Callers \cup {NoOne}]
         /\ call' \in [Callers -> {"idle", "start", "stop", "terminate"}]
         /\ LockHeld' /\ OneLock'
  BY WorkerAssumption DEF Types, LockHeld, OneLock, Enter

\* A call that returns leaves its caller without a lock.
LEMMA ReturnUnlocks ==
  ASSUME Types, LockHeld, OneLock, NEW c \in Callers, NEW w \in Workers,
         x_work[w] = c, Return(c, w)
  PROVE  /\ x_work' \in [Workers -> Callers \cup {NoOne}]
         /\ call' \in [Callers -> {"idle", "start", "stop", "terminate"}]
         /\ LockHeld' /\ OneLock'
  BY WorkerAssumption DEF Types, LockHeld, OneLock, Return

LEMMA CallBegins ==
  ASSUME IInv, NEW c \in Callers, NEW w \in Workers,
         StartBegin(c, w) \/ StopBegin(c, w) \/ TerminateBegin(c, w)
  PROVE  IInv'
<1> USE DEF IInv
<1>1. CASE StartBegin(c, w)
  <2>1. LockHeld' /\ OneLock' /\ Types'
    BY <1>1, EnterLocks DEF StartBegin, Types, AskToStart, CompareExchange, WorkerState,
                            ThreadLabels
  <2>2. StoppedIsIdle'
    BY <1>1 DEF StartBegin, Types, StoppedIsIdle, AskToStart, CompareExchange
  <2>3. StartIsNotSwallowed'
    BY <1>1 DEF StartBegin, Types, StoppedIsIdle, StartIsNotSwallowed, AskToStart,
                CompareExchange
  <2>4. KillIsKept'
    BY <1>1, WorkerAssumption
    DEF StartBegin, Enter, Types, KillIsKept, InCall, AskToStart, CompareExchange
  <2>5. ThreadThere' /\ NoStartInEx'
    BY <1>1 DEF StartBegin, Types, ThreadThere, NoStartInEx
  <2> QED BY <2>1, <2>2, <2>3, <2>4, <2>5
<1>2. CASE StopBegin(c, w)
  <2>1. LockHeld' /\ OneLock' /\ Types'
    BY <1>2, EnterLocks DEF StopBegin, Types, AskToStop, CompareExchange, WorkerState
  <2>2. StoppedIsIdle' /\ StartIsNotSwallowed'
    BY <1>2 DEF StopBegin, Types, StoppedIsIdle, StartIsNotSwallowed, AskToStop,
                CompareExchange
  <2>3. KillIsKept'
    BY <1>2, WorkerAssumption
    DEF StopBegin, Enter, Types, KillIsKept, InCall, AskToStop, CompareExchange
  <2>4. ThreadThere' /\ NoStartInEx'
    BY <1>2 DEF StopBegin, Types, ThreadThere, NoStartInEx
  <2> QED BY <2>1, <2>2, <2>3, <2>4
<1>3. CASE TerminateBegin(c, w)
  <2>1. LockHeld' /\ OneLock' /\ Types'
    BY <1>3, EnterLocks DEF TerminateBegin, Types, WorkerState
  <2>2. StoppedIsIdle' /\ StartIsNotSwallowed'
    BY <1>3 DEF TerminateBegin, Types, StoppedIsIdle, StartIsNotSwallowed
  <2>3. KillIsKept'
    BY <1>3, WorkerAssumption DEF TerminateBegin, Enter, Types, LockHeld, KillIsKept, InCall
  <2>4. ThreadThere' /\ NoStartInEx'
    BY <1>3 DEF TerminateBegin, Types, ThreadThere, NoStartInEx
  <2> QED BY <2>1, <2>2, <2>3, <2>4
<1> QED BY <1>1, <1>2, <1>3

LEMMA CallReturns ==
  ASSUME IInv, NEW c \in Callers, NEW w \in Workers, CallEnds(c, w)
  PROVE  IInv'
<1> USE DEF IInv
<1>1. x_work[w] = c /\ Return(c, w) /\ m_state' = m_state /\ ex' = ex
  BY DEF CallEnds, StartEnd, StopEnd, TerminateEnd, InCall
<1>2. LockHeld' /\ OneLock' /\ Types'
  BY <1>1, ReturnUnlocks
  DEF Types, ThreadLabels, CallEnds, StartEnd, StopEnd, TerminateEnd
<1>3. StoppedIsIdle' /\ StartIsNotSwallowed'
  BY <1>1 DEF Types, StoppedIsIdle, StartIsNotSwallowed, CallEnds, StartEnd, StopEnd,
              TerminateEnd
<1>4. KillIsKept'
  BY <1>1, WorkerAssumption
  DEF Types, LockHeld, OneLock, KillIsKept, InCall, Return, CallEnds, StartEnd, StopEnd,
      TerminateEnd
<1>5. ThreadThere' /\ NoStartInEx'
  BY <1>1 DEF Types, ThreadThere, NoStartInEx, CallEnds, StartEnd, StopEnd, TerminateEnd
<1> QED BY <1>2, <1>3, <1>4, <1>5

-----------------------------------------------------------------------------
(* The thread.  It takes no lock.                                            *)

LEMMA ThreadKeepsLocks ==
  ASSUME LockHeld, OneLock, UNCHANGED <<x_work, call>>
  PROVE  LockHeld' /\ OneLock'
  BY DEF LockHeld, OneLock

LEMMA ThreadSteps ==
  ASSUME IInv, NEW w \in Workers, ThreadStep(w) \/ LeaveLoop(w)
  PROVE  IInv'
<1> USE DEF IInv
<1>1. UNCHANGED <<x_work, call, m_work>>
  BY DEF ThreadStep, Top, EnterLoop, Exchange, Restore, Unpark, LeaveLoop
<1>2. LockHeld' /\ OneLock'
  BY <1>1, ThreadKeepsLocks
<1>3. Types'
  BY <1>1 DEF Types, ThreadLabels, WorkerState, ThreadStep, Top, EnterLoop, CompareExchange,
              Exchange, Restore, Unpark, LeaveLoop
<1>4. StoppedIsIdle'
  BY DEF Types, StoppedIsIdle, ThreadStep, Top, EnterLoop, CompareExchange, Exchange,
         Restore, PutBack, Unpark, LeaveLoop
<1>5. StartIsNotSwallowed'
  BY <1>1 DEF Types, StartIsNotSwallowed, ThreadStep, Top, EnterLoop, CompareExchange,
              Exchange, Restore, PutBack, Unpark, LeaveLoop
\* The kill goes from m_state to ex in the exchange and comes back in the put back.
<1>6. KillIsKept'
  <2> USE <1>1 DEF Types, KillIsKept, InCall
  <2>1. CASE Exchange(w)
    BY <2>1 DEF Exchange
  <2>2. CASE Restore(w)
    BY <2>2 DEF Restore, PutBack, NoStartInEx
  <2>3. CASE Top(w) \/ EnterLoop(w) \/ Unpark(w) \/ LeaveLoop(w)
    BY <2>3 DEF Top, EnterLoop, CompareExchange, Unpark, LeaveLoop
  <2> QED BY <2>1, <2>2, <2>3 DEF ThreadStep
<1>7. ThreadThere'
  BY <1>1 DEF Types, ThreadThere, ThreadStep, Top, EnterLoop, Exchange, Restore, Unpark,
              LeaveLoop
<1>8. NoStartInEx'
  BY <1>1 DEF Types, ThreadThere, NoStartInEx, StartIsNotSwallowed, ThreadStep, Top,
              EnterLoop, Exchange, Restore, Unpark, LeaveLoop
<1> QED BY <1>2, <1>3, <1>4, <1>5, <1>6, <1>7, <1>8

-----------------------------------------------------------------------------
LEMMA NextIInv == IInv /\ [Next]_workerVars => IInv'
<1> SUFFICES ASSUME IInv, [Next]_workerVars PROVE IInv'
  OBVIOUS
<1>1. CASE Next
  BY <1>1, ThreadSteps, CallBegins, CallReturns DEF Next
<1>2. CASE UNCHANGED workerVars
  BY <1>2 DEF workerVars, IInv, Types, LockHeld, OneLock, ThreadThere, NoStartInEx,
              StoppedIsIdle, StartIsNotSwallowed, KillIsKept, InCall
<1> QED BY <1>1, <1>2

LEMMA Invariance == Spec => []IInv
  BY InitIInv, NextIInv, PTL DEF Spec

\* The variables keep their types, and a caller holds a lock exactly while it is in
\* a call (the Guards of Worker.cpp:33, 87 and 102).
THEOREM TypeCorrect == Spec => []TypeOK
<1>1. IInv => TypeOK
  BY DEF IInv, Types, LockHeld, TypeOK, ThreadLabels
<1> QED BY <1>1, Invariance, PTL

\* stopWorking() returns (Worker.cpp:94) only when the work loop is over and will not
\* be entered again before the next start.
THEOREM StoppedWorkerIsIdle == Spec => []StoppedIsIdle
<1>1. IInv => StoppedIsIdle
  BY DEF IInv
<1> QED BY <1>1, Invariance, PTL

\* No start is swallowed by the exchange of a loop that is ending (Worker.cpp:67).
THEOREM NoStartSwallowed == Spec => []StartIsNotSwallowed
<1>1. IInv => StartIsNotSwallowed
  BY DEF IInv
<1> QED BY <1>1, Invariance, PTL

\* terminate() is never waiting for a thread that has forgotten the kill
\* (Worker.cpp:69, 108).
THEOREM NoKillLost == Spec => []KillIsKept
<1>1. IInv => KillIsKept
  BY DEF IInv
<1> QED BY <1>1, Invariance, PTL
=============================================================================
