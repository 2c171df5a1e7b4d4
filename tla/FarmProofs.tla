------------------------------ MODULE FarmProofs ------------------------------
(***************************************************************************)
(* The farm's safety properties, for any number of miners and headers.     *)
(*                                                                         *)
(* The argument.  Only the holder of x_minerWork goes through the miners   *)
(* (LockTells), and all it does to their Workers is to call them, so what  *)
(* WorkerProofs proves of a Worker holds of every miner's                  *)
(* (WorkersKeepTheirs).  A miner searches for the work it copied, which is *)
(* its own or none, unless the holder has given it other work; then the    *)
(* holder stops it before it goes on, and m_state says Stopped only when   *)
(* the loop is over (WorkIsPassedOn).  The work of a miner is the farm's or*)
(* none but for the finder of a solution, which is past its search.  A     *)
(* thread exists only for a miner that does, and stop() forgets a miner    *)
(* only after it has joined its thread (ThreadsBelong).                    *)
(***************************************************************************)
EXTENDS Farm, TLAPS

\* The Workers of the miners, with what is proved of them.
WP == INSTANCE WorkerProofs WITH Workers <- Miners, Callers <- Threads

Labels == {"out", "search", "nonce", "verify", "stream", "trylock", "others", "reset", "break"}
Searching == {"search", "nonce", "verify", "stream", "trylock"}
Works == Headers \cup {NoWork}
Holding == {"setting", "settingAgain", "creating", "stopping"}
Visits == {NotVisiting} \cup [miner : Miners, step : {"stop", "start", "join"}]

Types ==
    /\ x_minerWork \in Threads \cup {NoOne}
    /\ farmWork \in Works /\ wp \in Works
    /\ m_miners \subseteq Miners
    /\ minerWork \in [Miners -> Works] /\ w \in [Miners -> Works]
    /\ loop \in [Miners -> Labels]
    /\ todo \in [Threads -> SUBSET Miners]
    /\ visit \in [Threads -> Visits]
    /\ pc \in {"idle", "setWork", "start", "setAgain"} \cup Holding

\* Who holds x_minerWork is seen from where its threads are, and only its holder
\* goes through the miners, through those that exist.
LockTells ==
    /\ x_minerWork = Client <=> pc \in Holding
    /\ \A m \in Miners : x_minerWork = m <=> loop[m] = "others"
    /\ \A t \in Threads : ~AllVisited(t) => x_minerWork = t
    /\ \A t \in Threads : /\ todo[t] \subseteq m_miners
                          /\ visit[t] # NotVisiting => visit[t].miner \in m_miners
                          /\ At(t, "join") <=> t = Client /\ pc = "stopping" /\ visit[t] # NotVisiting

\* A work loop is run by a thread, and a thread belongs to a miner that exists; the
\* miners that stop() has been to are without one.
ThreadsBelong ==
    \A m \in Miners :
        /\ loop[m] # "out" => thread[m] = "run"
        /\ thread[m] # "none" => m \in m_miners
        /\ pc = "stopping" /\ thread[m] # "none" =>
              m \in todo[Client] \/ (At(Client, "join") /\ visit[Client].miner = m)

\* A miner is searching for its own work, unless the holder of the lock is about to
\* stop it; its work is the farm's or none, unless the holder has yet to bring it,
\* or it is the finder, which will drop it.
WorkIsPassedOn ==
    /\ pc \in {"setting", "settingAgain"} => farmWork = wp
    /\ \A m \in Miners :
        /\ loop[m] \in Searching =>
              \/ w[m] \in {NoWork, minerWork[m]}
              \/ \E t \in Threads : At(t, "stop") /\ visit[t].miner = m
        /\ m \in m_miners /\ pc # "stopping" =>
              \/ minerWork[m] \in {NoWork, farmWork}
              \/ \E t \in Threads : m \in todo[t]
              \/ loop[m] = "reset"
        /\ loop[m] = "others" =>
              \A n \in m_miners \ {m} : n \in todo[m] \/ minerWork[n] = NoWork

FInv == Types /\ LockTells /\ ThreadsBelong /\ WorkIsPassedOn

-----------------------------------------------------------------------------
LEMMA ThreadFacts ==
  /\ NoOne \notin Threads /\ Client \in Threads /\ Client \notin Miners
  /\ Miners \subseteq Threads /\ NoOne \notin Miners /\ NoWork \notin Headers
  BY FarmAssumption DEF Threads

\* The two instances of Worker are one.
LEMMA SameWorkers ==
  /\ W!WorkerInit <=> WP!WorkerInit
  /\ W!Next <=> WP!Next
  BY DEF W!WorkerInit, WP!WorkerInit, W!Next, WP!Next,
         W!ThreadStep, W!LeaveLoop, W!StartBegin, W!StopBegin, W!TerminateBegin, W!CallEnds,
         WP!ThreadStep, WP!LeaveLoop, WP!StartBegin, WP!StopBegin, WP!TerminateBegin, WP!CallEnds,
         W!Top, W!EnterLoop, W!Exchange, W!Restore, W!Unpark, W!StartEnd, W!StopEnd, W!TerminateEnd,
         WP!Top, WP!EnterLoop, WP!Exchange, WP!Restore, WP!Unpark, WP!StartEnd, WP!StopEnd, WP!TerminateEnd,
         W!CompareExchange, WP!CompareExchange, W!Enter, WP!Enter, W!Return, WP!Return, W!InCall, WP!InCall,
         W!AskToStart, WP!AskToStart, W!AskToStop, WP!AskToStop, W!PutBack, WP!PutBack

LEMMA WorkersKeepTheirs ==
  ASSUME WP!IInv, [W!Next]_workers
  PROVE  WP!IInv'
<1>0. WP!WorkerAssumption
  BY ThreadFacts DEF WP!WorkerAssumption
<1>1. WP!IInv /\ [WP!Next]_WP!workerVars => WP!IInv'
  BY <1>0, WP!NextIInv
<1>2. [WP!Next]_WP!workerVars
  <2>1. CASE W!Next
    BY <2>1, SameWorkers
  <2>2. CASE UNCHANGED workers
    BY <2>2 DEF workers, WP!workerVars
  <2> QED BY <2>1, <2>2
<1> QED BY <1>1, <1>2

LEMMA WorkerFacts ==
  ASSUME WP!IInv, NEW m \in Miners
  PROVE  /\ thread \in [Miners -> WP!ThreadLabels]
         /\ m_work[m] <=> thread[m] # "none"
         /\ m_state[m] = "Stopped" => thread[m] \in {"restore", "parked"}
  BY DEF WP!IInv, WP!Types, WP!ThreadThere, WP!StoppedIsIdle

\* What a call does to the thread of the miner it is made to.
LEMMA CallsAndThreads ==
  ASSUME WP!IInv, NEW t \in Threads, NEW m \in Miners
  PROVE  /\ W!StartBegin(t, m) => \A n \in Miners : thread'[n] = thread[n] \/
                                       (n = m /\ thread[n] = "none" /\ thread'[n] = "top")
         /\ W!TerminateEnd(t, m) => /\ \A n \in Miners \ {m} : thread'[n] = thread[n]
                                    /\ thread'[m] = "none" /\ thread[m] = "ended"
         /\ W!StartEnd(t, m) => UNCHANGED thread
         /\ W!StopBegin(t, m) => UNCHANGED thread
         /\ W!StopEnd(t, m) => UNCHANGED thread /\ thread[m] \in {"restore", "parked"}
         /\ W!TerminateBegin(t, m) => UNCHANGED thread
<1>1. thread \in [Miners -> WP!ThreadLabels] /\ (m_work[m] <=> thread[m] # "none")
  BY WorkerFacts
<1>2. W!StartBegin(t, m) => \A n \in Miners : thread'[n] = thread[n] \/
                                (n = m /\ thread[n] = "none" /\ thread'[n] = "top")
  BY <1>1 DEF W!StartBegin
<1>3. W!TerminateEnd(t, m) => /\ \A n \in Miners \ {m} : thread'[n] = thread[n]
                              /\ thread'[m] = "none" /\ thread[m] = "ended"
  BY <1>1 DEF W!TerminateEnd
<1>4. W!StopEnd(t, m) => UNCHANGED thread /\ thread[m] \in {"restore", "parked"}
  BY WorkerFacts DEF W!StopEnd
<1>5. /\ W!StartEnd(t, m) => UNCHANGED thread
      /\ W!StopBegin(t, m) => UNCHANGED thread
      /\ W!TerminateBegin(t, m) => UNCHANGED thread
  BY DEF W!StartEnd, W!StopBegin, W!TerminateBegin
<1> QED BY <1>2, <1>3, <1>4, <1>5

LEMMA VisitFacts ==
  ASSUME Types, NEW t \in Threads
  PROVE  /\ visit[t] # NotVisiting =>
               /\ visit[t].miner \in Miners /\ visit[t].step \in {"stop", "start", "join"}
               /\ visit[t] = [miner |-> visit[t].miner, step |-> visit[t].step]
         /\ At(t, "stop") \/ At(t, "start") \/ At(t, "join") => visit[t] # NotVisiting
         /\ visit[t] = NotVisiting => ~At(t, "stop") /\ ~At(t, "start") /\ ~At(t, "join")
  BY DEF Types, Visits, NotVisiting, At

-----------------------------------------------------------------------------
(* The farm's steps are steps of its Workers.                                *)

LEMMA VisitsAreWorkerSteps ==
  ASSUME Types, NEW t \in Threads, NEW new, VisitMiner(t, new)
  PROVE  [W!Next]_workers
<1>1. CASE \E m \in todo[t] : SetMinerWork(t, m, new) /\ UNCHANGED workers
  BY <1>1
<1>2. CASE StopMiner(t, new)
  <2>1. visit[t].miner \in Miners
    BY <1>2, VisitFacts DEF StopMiner
  <2> QED BY <1>2, <2>1 DEF StopMiner, W!Next, W!CallEnds
<1>3. CASE StartMiner(t)
  <2>1. visit[t].miner \in Miners
    BY <1>3, VisitFacts DEF StartMiner
  <2> QED BY <1>3, <2>1 DEF StartMiner, W!Next, W!CallEnds
<1> QED BY <1>1, <1>2, <1>3 DEF VisitMiner

LEMMA FarmStepsAreWorkerSteps ==
  ASSUME Types, [Next]_vars
  PROVE  [W!Next]_workers
<1> USE ThreadFacts
<1>1. CASE ClientCall
  BY <1>1 DEF ClientCall, GenerateSeal, CancelGeneration
<1>2. CASE SetWork \/ StartFarm \/ (\E m \in Miners : CreateMiner(m)) \/ Stopped
  BY <1>2 DEF SetWork, StartFarm, CreateMiner, Stopped
<1>3. CASE SetEach
  BY <1>3, VisitsAreWorkerSteps DEF SetEach
<1>4. CASE CreateMiners
  BY <1>4, VisitsAreWorkerSteps DEF CreateMiners
<1>5. CASE DestroyMiner
  <2>1. todo[Client] \subseteq Miners
    BY DEF Types
  <2>2. At(Client, "join") => visit[Client].miner \in Miners
    BY VisitFacts
  <2> QED BY <1>5, <2>1, <2>2 DEF DestroyMiner, Destroy, W!Next, W!CallEnds
<1>6. ASSUME NEW m \in Miners, MinerStep(m) \/ Find(m) PROVE [W!Next]_workers
  <2>1. CASE ThreadStep(m)
    BY <2>1 DEF ThreadStep, W!Next
  <2>2. CASE EndLoop(m)
    BY <2>2 DEF EndLoop, W!Next
  <2>3. CASE StopOthers(m)
    BY <2>3, VisitsAreWorkerSteps DEF StopOthers
  <2>4. CASE \/ BeginLoop(m) \/ Find(m) \/ SetNonce(m) \/ QuickVerifySeal(m)
             \/ SealGenerated(m) \/ LockBusy(m) \/ TryLock(m) \/ ResetOwnWork(m)
    BY <2>4 DEF BeginLoop, Find, SetNonce, QuickVerifySeal, SealGenerated, LockBusy, TryLock,
                ResetOwnWork
  <2> QED BY <1>6, <2>1, <2>2, <2>3, <2>4 DEF MinerStep
<1>7. CASE UNCHANGED vars
  BY <1>7 DEF vars
<1> QED BY <1>1, <1>2, <1>3, <1>4, <1>5, <1>6, <1>7 DEF Next, ClientStep

-----------------------------------------------------------------------------
LEMMA InitFInv == Init => FInv
<1> SUFFICES ASSUME Init PROVE FInv
  OBVIOUS
<1> USE ThreadFacts DEF Init
<1>1. Types
  BY DEF Types, Works, Labels, Visits
<1>2. LockTells
  BY DEF LockTells, AllVisited, Holding, At, NotVisiting
<1>3. ThreadsBelong
  BY DEF ThreadsBelong, W!WorkerInit
<1>4. WorkIsPassedOn
  BY DEF WorkIsPassedOn, Searching
<1> QED BY <1>1, <1>2, <1>3, <1>4 DEF FInv

-----------------------------------------------------------------------------
(* The loop over the miners, by the holder of the lock.                      *)

\* Nobody else has a miner left to go to or in hand.
LEMMA OthersAreNotVisiting ==
  ASSUME LockTells, NEW t \in Threads, x_minerWork = t
  PROVE  \A s \in Threads \ {t} : todo[s] = {} /\ visit[s] = NotVisiting
  BY DEF LockTells, AllVisited

LEMMA SetMinerWorkKeeps ==
  ASSUME FInv, NEW t \in Threads, NEW m \in todo[t], NEW new \in Works,
         x_minerWork = t, new \in {NoWork, farmWork}, t \in Miners => new = NoWork,
         pc # "stopping",
         SetMinerWork(t, m, new), UNCHANGED <<workers, farm, loop, w, pc, wp>>
  PROVE  FInv'
<1> USE ThreadFacts DEF FInv, workers, farm
<1>1. /\ visit[t] = NotVisiting /\ m \in m_miners /\ m \in Miners
      /\ todo' = [todo EXCEPT ![t] = @ \ {m}]
      /\ minerWork' = [minerWork EXCEPT ![m] = new]
      /\ IF new # NoWork \/ minerWork[m] # NoWork
         THEN visit' = [visit EXCEPT ![t] = [miner |-> m, step |-> "stop"]]
         ELSE visit' = visit
  BY DEF SetMinerWork, AfterWork, Hand, Types, LockTells
<1>2. Types'
  BY <1>1 DEF Types, Visits
<1>3. \A s \in Threads \ {t} : todo[s] = {} /\ visit[s] = NotVisiting
  BY OthersAreNotVisiting
<1>4. LockTells'
  BY <1>1, <1>3 DEF LockTells, AllVisited, At, NotVisiting, Types
<1>5. ThreadsBelong'
  BY DEF ThreadsBelong
<1>6. WorkIsPassedOn'
  <2>1. ASSUME NEW n \in Miners, loop[n] \in Searching
        PROVE  \/ w[n] \in {NoWork, minerWork'[n]}
               \/ \E s \in Threads : At(s, "stop")' /\ visit'[s].miner = n
    <3>1. CASE n = m /\ (new # NoWork \/ minerWork[m] # NoWork)
      BY <1>1, <3>1 DEF At, Types
    <3>2. CASE n = m /\ new = NoWork /\ minerWork[m] = NoWork
      BY <1>1, <1>3, <2>1, <3>2 DEF WorkIsPassedOn, At, NotVisiting, Types
    <3>3. CASE n # m
      BY <1>1, <1>3, <2>1, <3>3 DEF WorkIsPassedOn, At, NotVisiting, Types
    <3> QED BY <3>1, <3>2, <3>3
  <2>2. ASSUME NEW n \in Miners, n \in m_miners
        PROVE  \/ minerWork'[n] \in {NoWork, farmWork}
               \/ \E s \in Threads : n \in todo'[s]
               \/ loop[n] = "reset"
    BY <1>1, <1>3, <2>2 DEF WorkIsPassedOn, Types
  <2>3. ASSUME NEW k \in Miners, loop[k] = "others", NEW n \in m_miners \ {k}
        PROVE  n \in todo'[k] \/ minerWork'[n] = NoWork
    <3>1. k = t
      BY <2>3 DEF LockTells
    <3> QED BY <1>1, <2>3, <3>1 DEF WorkIsPassedOn, Types
  <2> QED BY <2>1, <2>2, <2>3 DEF WorkIsPassedOn
<1> QED BY <1>2, <1>4, <1>5, <1>6

\* The visit goes on to the start, or ends, when the thread is not in its loop.
LEMMA VisitGoesOn ==
  ASSUME FInv, NEW t \in Threads, x_minerWork = t, pc # "stopping",
         visit[t] # NotVisiting, At(t, "stop") => loop[visit[t].miner] = "out",
         visit' = [visit EXCEPT ![t] = NotVisiting] \/
         visit' = [visit EXCEPT ![t] = [miner |-> visit[t].miner, step |-> "start"]],
         UNCHANGED <<farm, loop, w, pc, wp, todo, minerWork>>, ThreadsBelong'
  PROVE  FInv'
<1> USE ThreadFacts DEF FInv, farm
<1>1. Types'
  BY VisitFacts DEF Types, Visits
<1>2. \A s \in Threads \ {t} : todo[s] = {} /\ visit[s] = NotVisiting
  BY OthersAreNotVisiting
<1>3. LockTells'
  BY <1>2, VisitFacts DEF LockTells, AllVisited, At, NotVisiting, Types
<1>4. WorkIsPassedOn'
  <2>1. ASSUME NEW n \in Miners, loop[n] \in Searching
        PROVE  w[n] \in {NoWork, minerWork[n]}
    BY <1>2, <2>1 DEF WorkIsPassedOn, At, NotVisiting, Searching
  <2> QED BY <2>1 DEF WorkIsPassedOn
<1> QED BY <1>1, <1>3, <1>4

LEMMA VisitStays ==
  ASSUME FInv, UNCHANGED <<farm, loop, w, pc, wp, todo, visit, minerWork>>, ThreadsBelong'
  PROVE  FInv'
<1> USE DEF FInv, farm
<1>1. Types' /\ LockTells' /\ WorkIsPassedOn'
  BY DEF Types, LockTells, WorkIsPassedOn, At, AllVisited
<1> QED BY <1>1

LEMMA StopMinerKeeps ==
  ASSUME WP!IInv, FInv, NEW t \in Threads, NEW new, x_minerWork = t, pc # "stopping",
         StopMiner(t, new), UNCHANGED <<farm, loop, w, pc, wp>>
  PROVE  FInv'
<1> USE ThreadFacts DEF FInv
<1> DEFINE m == visit[t].miner
<1>1. /\ At(t, "stop") /\ UNCHANGED <<todo, minerWork>> /\ visit[t] # NotVisiting
      /\ m \in Miners /\ m \in m_miners
  BY VisitFacts DEF StopMiner, LockTells
<1>2. CASE W!StopBegin(t, m) /\ UNCHANGED visit
  <2>1. UNCHANGED thread
    BY <1>1, <1>2, CallsAndThreads
  <2>2. ThreadsBelong'
    BY <1>1, <1>2, <2>1 DEF ThreadsBelong, farm, At
  <2> QED BY <1>1, <1>2, <2>2, VisitStays DEF farm
<1>3. ASSUME \/ ~m_work[m] /\ UNCHANGED workers
             \/ W!StopEnd(t, m),
             visit' = [visit EXCEPT ![t] = IF new = NoWork THEN NotVisiting
                                           ELSE [miner |-> m, step |-> "start"]]
      PROVE  FInv'
  <2>1. UNCHANGED thread /\ thread[m] \in {"none", "restore", "parked"}
    BY <1>1, <1>3, WorkerFacts, CallsAndThreads DEF workers
  <2>2. loop[m] = "out"
    BY <1>1, <2>1 DEF ThreadsBelong
  <2>3. ThreadsBelong'
    BY <1>1, <2>1 DEF ThreadsBelong, farm
  <2> QED BY <1>1, <1>3, <2>2, <2>3, VisitGoesOn
<1> QED BY <1>2, <1>3 DEF StopMiner

LEMMA StartMinerKeeps ==
  ASSUME WP!IInv, FInv, NEW t \in Threads, x_minerWork = t, pc # "stopping",
         StartMiner(t), UNCHANGED <<farm, loop, w, pc, wp>>
  PROVE  FInv'
<1> USE ThreadFacts DEF FInv
<1> DEFINE m == visit[t].miner
<1>1. /\ At(t, "start") /\ ~At(t, "stop") /\ UNCHANGED <<todo, minerWork>>
      /\ visit[t] # NotVisiting /\ m \in Miners /\ m \in m_miners
  BY VisitFacts DEF StartMiner, LockTells, At
<1>2. CASE W!StartBegin(t, m) /\ UNCHANGED visit
  <2>1. \A n \in Miners : thread'[n] = thread[n] \/
                          (n = m /\ thread[n] = "none" /\ thread'[n] = "top")
    BY <1>1, <1>2, CallsAndThreads
  <2>2. ThreadsBelong'
    BY <1>1, <1>2, <2>1 DEF ThreadsBelong, farm, At
  <2> QED BY <1>1, <1>2, <2>2, VisitStays DEF farm
<1>3. CASE W!StartEnd(t, m) /\ Handled(t)
  <2>1. UNCHANGED thread
    BY <1>1, <1>3, CallsAndThreads
  <2>2. ThreadsBelong'
    BY <1>1, <2>1 DEF ThreadsBelong, farm
  <2> QED BY <1>1, <1>3, <2>2, VisitGoesOn DEF Handled
<1> QED BY <1>2, <1>3 DEF StartMiner

LEMMA VisitMinerKeeps ==
  ASSUME WP!IInv, FInv, NEW t \in Threads, NEW new \in Works,
         x_minerWork = t, new \in {NoWork, farmWork}, t \in Miners => new = NoWork,
         pc # "stopping",
         VisitMiner(t, new), UNCHANGED <<farm, loop, w, pc, wp>>
  PROVE  FInv'
  BY SetMinerWorkKeeps, StopMinerKeeps, StartMinerKeeps DEF VisitMiner

-----------------------------------------------------------------------------
(* The client's steps.                                                       *)

LEMMA ClientCallKeeps ==
  ASSUME FInv, ClientCall
  PROVE  FInv'
<1> USE ThreadFacts DEF FInv, workers, farm
<1>1. CASE \E h \in Headers : GenerateSeal(h)
  <2>1. /\ pc = "idle" /\ pc' = "setWork" /\ wp' \in Headers
        /\ UNCHANGED <<workers, farm, minerWork, loop, w, todo, visit>>
    BY <1>1 DEF GenerateSeal
  <2>2. Types' /\ LockTells' /\ ThreadsBelong' /\ WorkIsPassedOn'
    BY <2>1 DEF Types, Works, LockTells, AllVisited, At, Holding, ThreadsBelong, WorkIsPassedOn
  <2> QED BY <2>2
<1>2. CASE CancelGeneration
  <2>1. /\ pc = "idle" /\ x_minerWork = NoOne /\ x_minerWork' = Client /\ pc' = "stopping"
        /\ todo' = [todo EXCEPT ![Client] = m_miners]
        /\ UNCHANGED <<workers, farmWork, m_miners, minerWork, loop, w, visit, wp>>
    BY <1>2 DEF CancelGeneration, Lock
  <2>2. Types'
    BY <2>1 DEF Types, Holding
  <2>3. \A t \in Threads : todo[t] = {} /\ visit[t] = NotVisiting
    BY <2>1 DEF LockTells, AllVisited
  <2>4. LockTells'
    BY <2>1, <2>3 DEF LockTells, AllVisited, At, NotVisiting, Holding, Types
  <2>5. ThreadsBelong'
    BY <2>1 DEF ThreadsBelong, Types
  <2>6. WorkIsPassedOn'
    BY <2>1, <2>3 DEF WorkIsPassedOn, At, NotVisiting, Types, LockTells
  <2> QED BY <2>2, <2>4, <2>5, <2>6
<1> QED BY <1>1, <1>2 DEF ClientCall

\* With the lock free, every miner's work is the farm's or none.
LEMMA FreeLock ==
  ASSUME FInv, x_minerWork = NoOne
  PROVE  /\ \A t \in Threads : todo[t] = {} /\ visit[t] = NotVisiting
         /\ \A m \in Miners : loop[m] \in Searching => w[m] \in {NoWork, minerWork[m]}
         /\ \A m \in Miners : loop[m] # "others"
         /\ pc \notin Holding
<1> USE ThreadFacts DEF FInv
<1>1. \A t \in Threads : todo[t] = {} /\ visit[t] = NotVisiting
  BY DEF LockTells, AllVisited
<1>2. \A m \in Miners : loop[m] \in Searching => w[m] \in {NoWork, minerWork[m]}
  BY <1>1 DEF WorkIsPassedOn, At, NotVisiting
<1> QED BY <1>1, <1>2 DEF LockTells

LEMMA SetWorkKeeps ==
  ASSUME FInv, SetWork
  PROVE  FInv'
<1> USE ThreadFacts DEF FInv, workers, farm
<1>1. pc \in {"setWork", "setAgain"}
      /\ UNCHANGED <<workers, m_miners, minerWork, loop, w, visit>>
  BY DEF SetWork
<1>2. CASE farmWork = wp
  <2>1. /\ UNCHANGED <<x_minerWork, farmWork, todo>>
        /\ pc' \in {"start", "idle"} /\ wp' \in {NoWork, wp}
    BY <1>1, <1>2 DEF SetWork, Called, NextCall
  <2>2. Types' /\ LockTells' /\ ThreadsBelong' /\ WorkIsPassedOn'
    BY <1>1, <2>1 DEF Types, Works, LockTells, AllVisited, At, Holding, ThreadsBelong,
                      WorkIsPassedOn
  <2> QED BY <2>2
<1>3. CASE farmWork # wp
  <2>1. /\ x_minerWork = NoOne /\ x_minerWork' = Client /\ farmWork' = wp
        /\ pc' \in {"setting", "settingAgain"} /\ wp' = wp
        /\ todo' = [todo EXCEPT ![Client] = m_miners]
    BY <1>3 DEF SetWork, Lock
  <2>2. Types'
    BY <1>1, <2>1 DEF Types, Holding
  <2>3. LockTells'
    BY <1>1, <2>1, FreeLock DEF LockTells, AllVisited, At, NotVisiting, Holding, Types
  <2>4. ThreadsBelong'
    BY <1>1, <2>1 DEF ThreadsBelong
  <2>5. WorkIsPassedOn'
    BY <1>1, <2>1, FreeLock DEF WorkIsPassedOn, Types
  <2> QED BY <2>2, <2>3, <2>4, <2>5
<1> QED BY <1>2, <1>3

\* The client gives the lock back when it has been to all miners.
LEMMA UnlockKeeps ==
  ASSUME FInv, x_minerWork = Client, AllVisited(Client), pc # "stopping", x_minerWork' = NoOne,
         pc' \in {"start", "idle", "setAgain"}, wp' \in {NoWork, wp},
         UNCHANGED <<workers, farmWork, m_miners, minerWork, loop, w, todo, visit>>
  PROVE  FInv'
<1> USE ThreadFacts DEF FInv, workers
<1>1. \A t \in Threads : todo[t] = {} /\ visit[t] = NotVisiting
  BY OthersAreNotVisiting DEF AllVisited
<1>2. Types'
  BY DEF Types, Works
<1>3. LockTells'
  BY <1>1 DEF LockTells, AllVisited, At, NotVisiting, Holding
<1>4. ThreadsBelong'
  BY DEF ThreadsBelong
<1>5. WorkIsPassedOn'
  BY <1>1 DEF WorkIsPassedOn, At, NotVisiting
<1> QED BY <1>2, <1>3, <1>4, <1>5

LEMMA SetEachKeeps ==
  ASSUME WP!IInv, FInv, SetEach
  PROVE  FInv'
<1> USE ThreadFacts DEF FInv
<1>1. /\ pc \in {"setting", "settingAgain"} /\ x_minerWork = Client
      /\ farmWork = wp /\ wp \in Works /\ pc # "stopping"
      /\ UNCHANGED <<farmWork, m_miners, loop, w>>
  BY DEF SetEach, LockTells, WorkIsPassedOn, Types, Holding
<1>2. CASE VisitMiner(Client, wp) /\ UNCHANGED <<x_minerWork, pc, wp>>
  BY <1>1, <1>2, VisitMinerKeeps DEF farm
<1>3. CASE /\ AllVisited(Client) /\ Unlock /\ Called(NextCall(pc))
           /\ UNCHANGED <<workers, todo, visit, minerWork>>
  <2>1. pc' \in {"start", "idle"} /\ wp' \in {NoWork, wp}
    BY <1>1, <1>3 DEF Called, NextCall
  <2> QED BY <1>1, <1>3, <2>1, UnlockKeeps DEF Unlock
<1> QED BY <1>2, <1>3 DEF SetEach

LEMMA StartFarmKeeps ==
  ASSUME FInv, StartFarm
  PROVE  FInv'
<1> USE ThreadFacts DEF FInv, workers
<1>1. /\ pc = "start" /\ UNCHANGED <<workers, farmWork, m_miners, minerWork, loop, w, todo,
                                     visit, wp>>
  BY DEF StartFarm
<1>2. CASE pc' = "setAgain" /\ UNCHANGED x_minerWork
  <2>1. Types' /\ LockTells' /\ ThreadsBelong' /\ WorkIsPassedOn'
    BY <1>1, <1>2 DEF Types, LockTells, AllVisited, At, Holding, ThreadsBelong, WorkIsPassedOn
  <2> QED BY <2>1
<1>3. CASE x_minerWork = NoOne /\ x_minerWork' = Client /\ pc' = "creating"
  <2>1. Types' /\ ThreadsBelong'
    BY <1>1, <1>3 DEF Types, Holding, ThreadsBelong
  <2>2. LockTells'
    BY <1>1, <1>3, FreeLock DEF LockTells, AllVisited, At, NotVisiting, Holding
  <2>3. WorkIsPassedOn'
    BY <1>1, <1>3, FreeLock DEF WorkIsPassedOn
  <2> QED BY <2>1, <2>2, <2>3
<1> QED BY <1>2, <1>3 DEF StartFarm, Lock

LEMMA CreateMinerKeeps ==
  ASSUME FInv, NEW m \in Miners, CreateMiner(m)
  PROVE  FInv'
<1> USE ThreadFacts DEF FInv, workers
<1>1. /\ pc = "creating" /\ x_minerWork = Client /\ AllVisited(Client) /\ m \notin m_miners
      /\ m_miners' = m_miners \cup {m}
      /\ minerWork' = [minerWork EXCEPT ![m] = NoWork]
      /\ todo' = [todo EXCEPT ![Client] = {m}]
      /\ UNCHANGED <<workers, x_minerWork, farmWork, loop, w, visit, pc, wp>>
  BY DEF CreateMiner, LockTells, Holding
<1>2. \A t \in Threads : todo[t] = {} /\ visit[t] = NotVisiting
  BY <1>1, OthersAreNotVisiting DEF AllVisited
<1>3. thread[m] = "none" /\ loop[m] = "out"
  BY <1>1 DEF ThreadsBelong
<1>4. Types'
  BY <1>1 DEF Types, Works
<1>5. LockTells'
  BY <1>1, <1>2 DEF LockTells, AllVisited, At, NotVisiting, Types
<1>6. ThreadsBelong'
  BY <1>1 DEF ThreadsBelong
<1>7. WorkIsPassedOn'
  <2>1. \A k \in Miners : loop[k] # "others"
    BY <1>1 DEF LockTells
  <2>2. ASSUME NEW n \in Miners, loop[n] \in Searching
        PROVE  w[n] \in {NoWork, minerWork'[n]}
    BY <1>1, <1>2, <1>3, <2>2 DEF WorkIsPassedOn, At, NotVisiting, Searching, Types
  <2>3. ASSUME NEW n \in m_miners \cup {m}
        PROVE  minerWork'[n] \in {NoWork, farmWork} \/ loop[n] = "reset"
    BY <1>1, <1>2, <2>3 DEF WorkIsPassedOn, Types
  <2> QED BY <1>1, <2>1, <2>2, <2>3 DEF WorkIsPassedOn
<1> QED BY <1>4, <1>5, <1>6, <1>7

LEMMA CreateMinersKeeps ==
  ASSUME WP!IInv, FInv, CreateMiners
  PROVE  FInv'
<1> USE ThreadFacts DEF FInv
<1>1. /\ pc = "creating" /\ x_minerWork = Client /\ farmWork \in Works
      /\ UNCHANGED <<farmWork, m_miners, loop, w, wp>>
  BY DEF CreateMiners, LockTells, Types, Holding
<1>2. CASE VisitMiner(Client, farmWork) /\ UNCHANGED <<x_minerWork, pc>>
  BY <1>1, <1>2, VisitMinerKeeps DEF farm
<1>3. CASE /\ AllVisited(Client) /\ Unlock /\ pc' = "setAgain"
           /\ UNCHANGED <<workers, todo, visit, minerWork>>
  BY <1>1, <1>3, UnlockKeeps DEF Unlock
<1> QED BY <1>2, <1>3 DEF CreateMiners

LEMMA DestroyMinerKeeps ==
  ASSUME WP!IInv, FInv, DestroyMiner
  PROVE  FInv'
<1> USE ThreadFacts DEF FInv, farm
<1>1. /\ pc = "stopping" /\ x_minerWork = Client
      /\ UNCHANGED <<farm, minerWork, loop, w, pc, wp>>
  BY DEF DestroyMiner, LockTells, Holding
<1>2. \A t \in Threads \ {Client} : todo[t] = {} /\ visit[t] = NotVisiting
  BY <1>1, OthersAreNotVisiting
\* stop() stops no miner's loop: it kills.
<1>3. \A t \in Threads : ~At(t, "stop")
  BY <1>1, <1>2, VisitFacts DEF LockTells, At, NotVisiting
<1>4. \A k \in Miners : loop[k] # "others"
  BY <1>1 DEF LockTells
<1>5. ASSUME NEW m \in todo[Client], visit[Client] = NotVisiting, Destroy(m),
             todo' = [todo EXCEPT ![Client] = @ \ {m}]
      PROVE  FInv'
  <2>1. m \in Miners /\ m \in m_miners
    BY <1>5 DEF Types, LockTells
  <2>2. /\ UNCHANGED thread
        /\ \/ thread[m] = "none" /\ UNCHANGED visit
           \/ visit' = [visit EXCEPT ![Client] = [miner |-> m, step |-> "join"]]
    BY <1>5, <2>1, WorkerFacts, CallsAndThreads DEF Destroy, Hand, workers
  <2>3. Types'
    BY <1>1, <1>5, <2>1, <2>2 DEF Types, Visits
  <2>4. LockTells'
    BY <1>1, <1>2, <1>5, <2>1, <2>2 DEF LockTells, AllVisited, At, NotVisiting, Types
  <2>5. ThreadsBelong'
    BY <1>1, <1>5, <2>1, <2>2 DEF ThreadsBelong, At, NotVisiting, Types
  <2>6. WorkIsPassedOn'
    BY <1>1, <1>3, <1>4, <1>5, <2>1 DEF WorkIsPassedOn
  <2> QED BY <2>3, <2>4, <2>5, <2>6
<1>6. CASE /\ At(Client, "join") /\ W!TerminateEnd(Client, visit[Client].miner)
           /\ Handled(Client) /\ UNCHANGED todo
  <2> DEFINE m == visit[Client].miner
  <2>1. m \in Miners /\ visit[Client] # NotVisiting
    BY <1>6, VisitFacts
  <2>2. /\ \A n \in Miners \ {m} : thread'[n] = thread[n]
        /\ thread'[m] = "none" /\ thread[m] = "ended"
        /\ visit' = [visit EXCEPT ![Client] = NotVisiting]
    BY <1>6, <2>1, CallsAndThreads DEF Handled
  <2>3. Types'
    BY <1>1, <1>6, <2>2 DEF Types, Visits
  <2>4. LockTells'
    BY <1>1, <1>2, <1>6, <2>2 DEF LockTells, AllVisited, At, NotVisiting, Types
  <2>5. ThreadsBelong'
    BY <1>1, <1>6, <2>1, <2>2 DEF ThreadsBelong, At, NotVisiting, Types
  <2>6. WorkIsPassedOn'
    BY <1>1, <1>3, <1>4, <1>6 DEF WorkIsPassedOn
  <2> QED BY <2>3, <2>4, <2>5, <2>6
<1> QED BY <1>5, <1>6 DEF DestroyMiner

\* When all miners have been destroyed, no thread and so no loop is left.
LEMMA StoppedKeeps ==
  ASSUME FInv, Stopped
  PROVE  FInv'
<1> USE ThreadFacts DEF FInv, workers
<1>1. /\ pc = "stopping" /\ x_minerWork = Client /\ AllVisited(Client)
      /\ m_miners' = {} /\ farmWork' = NoWork /\ x_minerWork' = NoOne /\ pc' = "idle"
      /\ UNCHANGED <<workers, minerWork, loop, w, todo, visit, wp>>
  BY DEF Stopped, Unlock, LockTells, Holding
<1>2. \A t \in Threads : todo[t] = {} /\ visit[t] = NotVisiting
  BY <1>1, OthersAreNotVisiting DEF AllVisited
<1>3. \A m \in Miners : thread[m] = "none" /\ loop[m] = "out"
  BY <1>1, <1>2 DEF ThreadsBelong, At, NotVisiting
<1>4. Types'
  BY <1>1 DEF Types, Works
<1>5. LockTells'
  BY <1>1, <1>2, <1>3 DEF LockTells, AllVisited, At, NotVisiting, Holding
<1>6. ThreadsBelong' /\ WorkIsPassedOn'
  BY <1>1, <1>3 DEF ThreadsBelong, WorkIsPassedOn, Searching
<1> QED BY <1>4, <1>5, <1>6

-----------------------------------------------------------------------------
(* The miners' threads.                                                      *)

LEMMA ThreadStepKeeps ==
  ASSUME WP!IInv, FInv, NEW m \in Miners, ThreadStep(m)
  PROVE  FInv'
<1> USE DEF FInv, farm
<1>1. UNCHANGED <<farm, minerWork, loop, w, todo, visit, pc, wp>>
  BY DEF ThreadStep
<1>2. /\ thread[m] \notin {"run", "none"}
      /\ \A n \in Miners \ {m} : thread'[n] = thread[n]
  BY WorkerFacts DEF ThreadStep, W!ThreadStep, W!Top, W!EnterLoop, W!Exchange, W!Restore,
                     W!Unpark
<1>3. ThreadsBelong'
  BY <1>1, <1>2 DEF ThreadsBelong, At
<1> QED BY <1>1, <1>3, VisitStays

LEMMA BeginLoopKeeps ==
  ASSUME FInv, NEW m \in Miners, BeginLoop(m)
  PROVE  FInv'
<1> USE ThreadFacts DEF FInv, workers, farm
<1>1. /\ thread[m] = "run" /\ loop[m] = "out"
      /\ w' = [w EXCEPT ![m] = minerWork[m]] /\ loop' = [loop EXCEPT ![m] = "search"]
      /\ UNCHANGED <<workers, farm, minerWork, todo, visit, pc, wp>>
  BY DEF BeginLoop, Go
<1>2. Types' /\ ThreadsBelong'
  BY <1>1 DEF Types, Labels, ThreadsBelong, At
<1>3. LockTells'
  BY <1>1 DEF LockTells, AllVisited, At, Types
<1>4. WorkIsPassedOn'
  BY <1>1 DEF WorkIsPassedOn, At, Types
<1> QED BY <1>2, <1>3, <1>4

\* Any way out of the loop: the thread is still at its end, and is not the holder.
LEMMA EndLoopKeeps ==
  ASSUME WP!IInv, FInv, NEW m \in Miners, EndLoop(m)
  PROVE  FInv'
<1> USE ThreadFacts DEF FInv, farm
<1>1. /\ loop[m] \in {"search", "break"} /\ thread[m] = "run"
      /\ thread' = [thread EXCEPT ![m] = "exchange"]
      /\ w' = [w EXCEPT ![m] = NoWork] /\ loop' = [loop EXCEPT ![m] = "out"]
      /\ UNCHANGED <<farm, minerWork, todo, visit, pc, wp>>
  BY DEF EndLoop, W!LeaveLoop, Go
<1>2. Types'
  BY <1>1 DEF Types, Labels, Works
<1>3. LockTells'
  BY <1>1 DEF LockTells, AllVisited, At, Types
<1>4. ThreadsBelong'
  BY <1>1, WorkerFacts DEF ThreadsBelong, At, Types
<1>5. WorkIsPassedOn'
  BY <1>1 DEF WorkIsPassedOn, At, Types, Searching
<1> QED BY <1>2, <1>3, <1>4, <1>5

\* Steps from one place of the search to another.
LEMMA SearchKeeps ==
  ASSUME FInv, NEW m \in Miners, loop[m] \in Searching, NEW l \in Searching, Go(m, l),
         UNCHANGED <<workers, farm, minerWork, w, todo, visit, pc, wp>>
  PROVE  FInv'
<1> USE ThreadFacts DEF FInv, workers, farm, Go
<1>1. Types' /\ ThreadsBelong'
  BY DEF Types, Labels, Searching, ThreadsBelong, At
<1>2. LockTells'
  BY DEF LockTells, AllVisited, At, Types, Searching
<1>3. WorkIsPassedOn'
  BY DEF WorkIsPassedOn, At, Types, Searching
<1> QED BY <1>1, <1>2, <1>3

LEMMA TryLockKeeps ==
  ASSUME FInv, NEW m \in Miners, TryLock(m)
  PROVE  FInv'
<1> USE ThreadFacts DEF FInv, workers
<1>1. /\ loop[m] = "trylock" /\ x_minerWork = NoOne /\ x_minerWork' = m
      /\ todo' = [todo EXCEPT ![m] = m_miners \ {m}]
      /\ loop' = [loop EXCEPT ![m] = "others"]
      /\ UNCHANGED <<workers, farmWork, m_miners, minerWork, w, visit, pc, wp>>
  BY DEF TryLock, Lock, OtherMiners, Go
<1>2. Types'
  BY <1>1 DEF Types, Labels
<1>3. LockTells'
  BY <1>1, FreeLock DEF LockTells, AllVisited, At, NotVisiting, Types
<1>4. ThreadsBelong'
  BY <1>1, FreeLock DEF ThreadsBelong, At, Types, Holding
<1>5. WorkIsPassedOn'
  <2>1. ASSUME NEW n \in Miners, loop'[n] \in Searching PROVE w[n] \in {NoWork, minerWork[n]}
    BY <1>1, <2>1, FreeLock DEF Types, Searching
  <2>2. ASSUME NEW n \in Miners, n \in m_miners, pc # "stopping"
        PROVE  minerWork[n] \in {NoWork, farmWork} \/ loop'[n] = "reset"
    BY <1>1, <2>2, FreeLock DEF WorkIsPassedOn, Types
  <2>3. ASSUME NEW k \in Miners, loop'[k] = "others", NEW n \in m_miners \ {k}
        PROVE  n \in todo'[k]
    BY <1>1, <2>3, FreeLock DEF Types
  <2> QED BY <1>1, <2>1, <2>2, <2>3 DEF WorkIsPassedOn
<1> QED BY <1>2, <1>3, <1>4, <1>5

\* When the finder has been to the others, no miner but itself has work; then the
\* farm has none either.
LEMMA StopOthersKeeps ==
  ASSUME WP!IInv, FInv, NEW m \in Miners, StopOthers(m)
  PROVE  FInv'
<1> USE ThreadFacts DEF FInv
<1>1. /\ loop[m] = "others" /\ x_minerWork = m /\ pc \notin Holding /\ pc # "stopping"
      /\ UNCHANGED <<m_miners, w, pc, wp>>
  BY DEF StopOthers, LockTells, Holding
<1>2. CASE VisitMiner(m, NoWork) /\ UNCHANGED <<x_minerWork, farmWork, loop>>
  BY <1>1, <1>2, VisitMinerKeeps DEF farm, Works
<1>3. CASE /\ AllVisited(m) /\ Unlock /\ farmWork' = NoWork /\ Go(m, "reset")
           /\ UNCHANGED <<workers, todo, visit, minerWork>>
  <2> USE DEF workers
  <2>1. \A t \in Threads : todo[t] = {} /\ visit[t] = NotVisiting
    BY <1>1, <1>3, OthersAreNotVisiting DEF AllVisited
  <2>2. x_minerWork' = NoOne /\ loop' = [loop EXCEPT ![m] = "reset"]
    BY <1>3 DEF Unlock, Go
  <2>3. Types' /\ ThreadsBelong'
    BY <1>1, <1>3, <2>2 DEF Types, Works, Labels, ThreadsBelong, At
  <2>4. LockTells'
    BY <1>1, <1>3, <2>1, <2>2 DEF LockTells, AllVisited, At, NotVisiting, Types
  <2>5. WorkIsPassedOn'
    <3>1. \A n \in m_miners \ {m} : minerWork[n] = NoWork
      BY <1>1, <2>1 DEF WorkIsPassedOn
    <3>2. \A k \in Miners : loop'[k] # "others"
      BY <1>1, <2>2 DEF LockTells, Types
    <3>3. ASSUME NEW n \in Miners, loop'[n] \in Searching PROVE w[n] \in {NoWork, minerWork[n]}
      BY <1>1, <2>1, <2>2, <3>3 DEF WorkIsPassedOn, At, NotVisiting, Types, Searching
    <3>4. loop'[m] = "reset" /\ pc' \notin {"setting", "settingAgain"}
      BY <1>1, <2>2 DEF Types, Holding
    <3> QED BY <1>1, <1>3, <3>1, <3>2, <3>3, <3>4 DEF WorkIsPassedOn
  <2> QED BY <2>3, <2>4, <2>5
<1> QED BY <1>2, <1>3 DEF StopOthers

LEMMA ResetOwnWorkKeeps ==
  ASSUME FInv, NEW m \in Miners, ResetOwnWork(m)
  PROVE  FInv'
<1> USE ThreadFacts DEF FInv, workers, farm
<1>1. /\ loop[m] = "reset"
      /\ minerWork' = [minerWork EXCEPT ![m] = NoWork] /\ loop' = [loop EXCEPT ![m] = "break"]
      /\ UNCHANGED <<workers, farm, w, todo, visit, pc, wp>>
  BY DEF ResetOwnWork, Go
<1>2. Types' /\ ThreadsBelong'
  BY <1>1 DEF Types, Works, Labels, ThreadsBelong, At
<1>3. LockTells'
  BY <1>1 DEF LockTells, AllVisited, At, Types
<1>4. WorkIsPassedOn'
  BY <1>1 DEF WorkIsPassedOn, At, Types, Searching
<1> QED BY <1>2, <1>3, <1>4

LEMMA MinerStepKeeps ==
  ASSUME WP!IInv, FInv, NEW m \in Miners, MinerStep(m) \/ Find(m)
  PROVE  FInv'
<1>1. CASE Find(m) \/ SetNonce(m) \/ QuickVerifySeal(m) \/ SealGenerated(m) \/ LockBusy(m)
  <2>1. \E l \in Searching : loop[m] \in Searching /\ Go(m, l)
    BY <1>1 DEF Find, SetNonce, QuickVerifySeal, SealGenerated, LockBusy, Searching
  <2>2. UNCHANGED <<workers, farm, minerWork, w, todo, visit, pc, wp>>
    BY <1>1 DEF Find, SetNonce, QuickVerifySeal, SealGenerated, LockBusy
  <2> QED BY <2>1, <2>2, SearchKeeps
<1> QED BY <1>1, ThreadStepKeeps, BeginLoopKeeps, EndLoopKeeps, TryLockKeeps, StopOthersKeeps,
           ResetOwnWorkKeeps DEF MinerStep

-----------------------------------------------------------------------------
(* The theorems.                                                             *)

LEMMA FarmInvariant == Spec => [](WP!IInv /\ FInv)
<1>1. Init => WP!IInv /\ FInv
  <2>1. WP!WorkerAssumption
    BY ThreadFacts DEF WP!WorkerAssumption
  <2>2. WP!WorkerInit => WP!IInv
    BY <2>1, WP!InitIInv
  <2> QED BY <2>2, SameWorkers, InitFInv DEF Init
<1>2. WP!IInv /\ FInv /\ [Next]_vars => (WP!IInv /\ FInv)'
  <2> SUFFICES ASSUME WP!IInv, FInv, [Next]_vars PROVE WP!IInv' /\ FInv'
    OBVIOUS
  <2>1. WP!IInv'
    BY FarmStepsAreWorkerSteps, WorkersKeepTheirs DEF FInv
  <2>2. CASE ClientCall
    BY <2>2, ClientCallKeeps, <2>1
  <2>3. CASE ClientStep
    BY <2>3, <2>1, SetWorkKeeps, SetEachKeeps, StartFarmKeeps, CreateMinerKeeps, CreateMinersKeeps,
       DestroyMinerKeeps, StoppedKeeps DEF ClientStep
  <2>4. CASE \E m \in Miners : MinerStep(m) \/ Find(m)
    BY <2>4, <2>1, MinerStepKeeps
  <2>5. CASE UNCHANGED vars
    <3>1. ThreadsBelong'
      BY <2>5 DEF vars, workers, farm, FInv, ThreadsBelong, At
    <3> QED BY <2>1, <2>5, <3>1, VisitStays DEF vars
  <2> QED BY <2>2, <2>3, <2>4, <2>5 DEF Next
<1> QED BY <1>1, <1>2, PTL DEF Spec

\* Every variable keeps its type, a work loop runs in a thread, only the holder of
\* x_minerWork goes through the miners, and after cancelGeneration() no thread of a
\* miner is left: for any number of miners.
THEOREM FarmStaysConsistent == Spec => []FarmConsistent
<1>1. WP!IInv => W!TypeOK
  BY DEF WP!IInv, WP!Types, WP!LockHeld, W!TypeOK, WP!ThreadLabels, W!WorkerState, WP!WorkerState
<1>2. WP!IInv /\ FInv => FarmConsistent
  BY <1>1 DEF FInv, Types, Works, Labels, LockTells, ThreadsBelong, FarmConsistent, TypeOK,
              NoOrphans
<1> QED BY <1>2, FarmInvariant, PTL

\* When x_minerWork is free, no thread is looking for a header that the farm no
\* longer has in work: setWork() has waited for the loop of every miner whose work it
\* changed.
THEOREM MiningIsNeverStale == Spec => []NoStaleMining
<1>1. FInv => NoStaleMining
  <2> SUFFICES ASSUME FInv, x_minerWork = NoOne, NEW m \in Miners, loop[m] \in Searching
               PROVE  w[m] \in {farmWork, NoWork}
    BY DEF NoStaleMining, Searching
  <2>1. m \in m_miners /\ loop[m] # "reset" /\ pc # "stopping"
    BY FreeLock DEF FInv, ThreadsBelong, Searching, Holding
  <2> QED BY <2>1, FreeLock DEF FInv, WorkIsPassedOn
<1> QED BY <1>1, FarmInvariant, PTL

\* The farm uses its miners' Workers as Worker.tla says they are used: whatever it
\* does to them is a call of startWorking(), stopWorking() or terminate().
THEOREM FarmIsWorkers == Spec => W!WorkerInit /\ [][W!Next]_workers
<1>1. FInv /\ [Next]_vars => [W!Next]_workers
  BY FarmStepsAreWorkerSteps DEF FInv
<1>2. Init => W!WorkerInit
  BY DEF Init
<1> QED BY <1>1, <1>2, FarmInvariant, PTL DEF Spec
=============================================================================
