-------------------------------- MODULE Worker --------------------------------
(***************************************************************************)
(* libdevcore/Worker: a thread that runs a work loop when asked to, and the*)
(* calls that start, stop and end it.                                      *)
(*                                                                         *)
(* A call holds the lock x_work from its first step to its return, and     *)
(* waits for the thread by polling the atomic m_state.  The thread takes no*)
(* lock: it moves m_state by compare-and-swap and by exchange, and between *)
(* two of its accesses the callers run.                                    *)
(*                                                                         *)
(* What a work loop does is left open: it ends when it finds shouldStop(), *)
(* by itself, or by an exception.                                          *)
(***************************************************************************)
CONSTANTS
    Workers,
    Callers,    \* the threads that call a worker's operations
    NoOne       \* the holder of a free lock

ASSUME WorkerAssumption == NoOne \notin Callers

VARIABLES
    m_state,    \* worker -> WorkerState
    m_work,     \* worker -> whether the std::thread exists
    x_work,     \* worker -> the caller that holds the lock
    thread,     \* worker -> where its thread is
    ex,         \* worker -> the state its thread exchanged for Stopped
    call        \* caller -> the operation it is in

workerVars == <<m_state, m_work, x_work, thread, ex, call>>

WorkerState == {"Starting", "Started", "Stopping", "Stopped", "Killing"}

WorkerInit ==
    /\ m_state = [w \in Workers |-> "Starting"]
    /\ m_work = [w \in Workers |-> FALSE]
    /\ x_work = [w \in Workers |-> NoOne]
    /\ thread = [w \in Workers |-> "none"]
    /\ ex = [w \in Workers |-> "Starting"]
    /\ call = [c \in Callers |-> "idle"]

-----------------------------------------------------------------------------
(* The callers.                                                              *)

\* compare_exchange_strong on m_state[w].
CompareExchange(w, from, to) ==
    m_state' = [m_state EXCEPT ![w] = IF @ = from THEN to ELSE @]

Enter(c, w, op) ==
    /\ call[c] = "idle" /\ x_work[w] = NoOne
    /\ call' = [call EXCEPT ![c] = op]
    /\ x_work' = [x_work EXCEPT ![w] = c]

\* Fault: the lock is not given back.
Return_locked(c, w) ==
    /\ call' = [call EXCEPT ![c] = "idle"]
    /\ UNCHANGED x_work
Return(c, w) ==
    /\ call' = [call EXCEPT ![c] = "idle"]
    /\ x_work' = [x_work EXCEPT ![w] = NoOne]

InCall(c, w, op) == x_work[w] = c /\ call[c] = op

\* With a thread there: ask it to start, if it has stopped.
\* Fault: ask it whatever it is doing.
AskToStart_always(w) == m_state' = [m_state EXCEPT ![w] = "Starting"]
AskToStart(w) == CompareExchange(w, "Stopped", "Starting")

StartBegin(c, w) ==
    /\ Enter(c, w, "start")
    /\ IF m_work[w]
       THEN AskToStart(w) /\ UNCHANGED <<m_work, thread>>
       ELSE /\ m_state' = [m_state EXCEPT ![w] = "Starting"]
            /\ m_work' = [m_work EXCEPT ![w] = TRUE]
            /\ thread' = [thread EXCEPT ![w] = "top"]
    /\ UNCHANGED ex

StartEnd(c, w) ==
    /\ InCall(c, w, "start") /\ m_state[w] # "Starting"
    /\ Return(c, w)
    /\ UNCHANGED <<m_state, m_work, thread, ex>>

\* Fault: the caller declares it stopped.
AskToStop_done(w) == CompareExchange(w, "Started", "Stopped")
AskToStop(w) == CompareExchange(w, "Started", "Stopping")

\* Without a thread the call returns at once.
StopBegin(c, w) ==
    /\ m_work[w]
    /\ Enter(c, w, "stop")
    /\ AskToStop(w)
    /\ UNCHANGED <<m_work, thread, ex>>

StopEnd(c, w) ==
    /\ InCall(c, w, "stop") /\ m_state[w] = "Stopped"
    /\ Return(c, w)
    /\ UNCHANGED <<m_state, m_work, thread, ex>>

\* The destructor.
TerminateBegin(c, w) ==
    /\ m_work[w]
    /\ Enter(c, w, "terminate")
    /\ m_state' = [m_state EXCEPT ![w] = "Killing"]
    /\ UNCHANGED <<m_work, thread, ex>>

\* join() returns.
TerminateEnd(c, w) ==
    /\ InCall(c, w, "terminate") /\ thread[w] = "ended"
    /\ Return(c, w)
    /\ m_work' = [m_work EXCEPT ![w] = FALSE]
    /\ thread' = [thread EXCEPT ![w] = "none"]
    /\ UNCHANGED <<m_state, ex>>

CallEnds(c, w) == StartEnd(c, w) \/ StopEnd(c, w) \/ TerminateEnd(c, w)

-----------------------------------------------------------------------------
(* The thread.                                                               *)

\* while (m_state != Killing)
Top(w) ==
    /\ thread[w] = "top"
    /\ thread' = [thread EXCEPT ![w] = IF m_state[w] = "Killing" THEN "ended" ELSE "enter"]
    /\ UNCHANGED <<m_state, m_work, x_work, ex, call>>

\* Started, unless it is being killed: the loop is entered in either case.
EnterLoop(w) ==
    /\ thread[w] = "enter"
    /\ CompareExchange(w, "Starting", "Started")
    /\ thread' = [thread EXCEPT ![w] = "run"]
    /\ UNCHANGED <<m_work, x_work, ex, call>>

shouldStop(w) == m_state[w] # "Started"

\* workLoop() returns, or throws.
LeaveLoop(w) ==
    /\ thread[w] = "run"
    /\ thread' = [thread EXCEPT ![w] = "exchange"]
    /\ UNCHANGED <<m_state, m_work, x_work, ex, call>>

\* ex = m_state.exchange(Stopped)
Exchange(w) ==
    /\ thread[w] = "exchange"
    /\ ex' = [ex EXCEPT ![w] = m_state[w]]
    /\ m_state' = [m_state EXCEPT ![w] = "Stopped"]
    /\ thread' = [thread EXCEPT ![w] = "restore"]
    /\ UNCHANGED <<m_work, x_work, call>>

\* Fault: a kill that came while the loop was ending is not put back.
PutBack_start(s) == s = "Starting"
PutBack(s) == s \in {"Killing", "Starting"}

\* What was exchanged is put back if it asked for something; ex leaves its scope.
Restore(w) ==
    /\ thread[w] = "restore"
    /\ m_state' = [m_state EXCEPT ![w] = IF PutBack(ex[w]) THEN ex[w] ELSE @]
    /\ ex' = [ex EXCEPT ![w] = "Starting"]
    /\ thread' = [thread EXCEPT ![w] = "parked"]
    /\ UNCHANGED <<m_work, x_work, call>>

\* while (m_state == Stopped) sleep
Unpark(w) ==
    /\ thread[w] = "parked" /\ m_state[w] # "Stopped"
    /\ thread' = [thread EXCEPT ![w] = "top"]
    /\ UNCHANGED <<m_state, m_work, x_work, ex, call>>

\* Every step of the thread but those of its work loop.
ThreadStep(w) == Top(w) \/ EnterLoop(w) \/ Exchange(w) \/ Restore(w) \/ Unpark(w)

-----------------------------------------------------------------------------
Next ==
    \/ \E w \in Workers : ThreadStep(w) \/ LeaveLoop(w)
    \/ \E c \in Callers, w \in Workers :
          StartBegin(c, w) \/ StopBegin(c, w) \/ TerminateBegin(c, w) \/ CallEnds(c, w)

\* The threads are scheduled, and a work loop looks at shouldStop() again and again.
Fairness ==
    /\ \A w \in Workers : WF_workerVars(ThreadStep(w))
                          /\ WF_workerVars(shouldStop(w) /\ LeaveLoop(w))
    /\ \A c \in Callers, w \in Workers : WF_workerVars(CallEnds(c, w))

Spec == WorkerInit /\ [][Next]_workerVars /\ Fairness

-----------------------------------------------------------------------------
\* Whoever is in a call holds one lock, and who is in none holds none.
TypeOK ==
    /\ m_state \in [Workers -> WorkerState]
    /\ m_work \in [Workers -> BOOLEAN]
    /\ x_work \in [Workers -> Callers \cup {NoOne}]
    /\ thread \in [Workers -> {"none", "top", "enter", "run", "exchange", "restore",
                               "parked", "ended"}]
    /\ ex \in [Workers -> WorkerState]
    /\ call \in [Callers -> {"idle", "start", "stop", "terminate"}]
    /\ \A c \in Callers : call[c] = "idle" <=> \A w \in Workers : x_work[w] # c

\* What stopWorking() waits for (Worker.cpp:94): when m_state says Stopped, the
\* thread is out of its work loop and cannot be back in it before a start.
StoppedIsIdle ==
    \A w \in Workers : m_state[w] = "Stopped" => thread[w] \in {"restore", "parked"}

\* A request to start is never made under a loop that is still running or ending,
\* whose exchange would swallow it: the thread meets it at the top of its own loop.
StartIsNotSwallowed ==
    \A w \in Workers : m_work[w] /\ m_state[w] = "Starting" =>
                           thread[w] \in {"top", "enter", "parked", "restore"}

\* A kill is never lost: from the moment terminate() has asked for it until it has
\* joined the thread, m_state says Killing, or the thread is about to put it back.
KillIsKept ==
    \A c \in Callers, w \in Workers :
        InCall(c, w, "terminate") =>
            m_state[w] = "Killing" \/ (thread[w] = "restore" /\ ex[w] = "Killing")

\* Every call returns, whatever the thread is doing when it is made (Worker.cpp:81, 94, 108).
EveryCallReturns == \A c \in Callers : call[c] # "idle" ~> call[c] = "idle"

-----------------------------------------------------------------------------
(* Promises of the code's comments that TLC finds broken.                   *)

\* "Starts worker thread; causes startedWorking() to be called." (Worker.h:69): a
\* start either finds the work loop running or makes the thread enter it.
StartIsHeard ==
    [][\A c \in Callers, w \in Workers :
          StartBegin(c, w) => m_state'[w] = "Starting" \/ thread[w] = "run"]_workerVars
=============================================================================
