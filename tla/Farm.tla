--------------------------------- MODULE Farm ---------------------------------
(***************************************************************************)
(* The ethash farm of one client: GenericFarm, its GenericMiners (each an  *)
(* EthashCPUMiner, whose thread is a Worker) and the part of Ethash that   *)
(* gives them work and takes their solutions.                              *)
(*                                                                         *)
(* The client's thread calls generateSeal() and cancelGeneration(), which  *)
(* stop and start the miners' threads while they hold the farm's lock. The *)
(* miners' threads call back: they write Ethash::m_sealing with no lock at *)
(* all, and only try to take the farm's.  Readers of the farm's counters   *)
(* may hold it shared at any time.                                         *)
(*                                                                         *)
(* A header is a model value; a proof is named by the header it is for and *)
(* by its finder; mixHash and nonce are its two halves.                    *)
(***************************************************************************)
EXTENDS FiniteSets

CONSTANTS Miners, Headers, Client, NoOne, NoWork

ASSUME FarmAssumption ==
    Client \notin Miners /\ NoOne \notin Miners \cup {Client} /\ NoWork \notin Headers

VARIABLES
    m_state, m_work, x_work, thread, ex, call,  \* the miners' Workers
    x_minerWork,    \* the holder of the farm's lock
    farmWork,       \* GenericFarm::m_work
    m_miners,       \* the miners that exist
    minerWork,      \* miner -> GenericMiner::m_work
    loop,           \* miner -> where it is in workLoop()
    w,              \* miner -> the work it copied there
    m_sealing,      \* Ethash::m_sealing: [header, mixHash, nonce]
    todo,           \* thread -> the miners its loop over m_miners has left
    visit,          \* thread -> what it does to the miner it has in hand
    pc,             \* where the client is
    wp              \* the header it is to have sealed

Threads == Miners \cup {Client}
W == INSTANCE Worker WITH Workers <- Miners, Callers <- Threads

workers == <<m_state, m_work, x_work, thread, ex, call>>
farm == <<x_minerWork, farmWork, m_miners>>
vars == <<workers, farm, m_sealing, minerWork, loop, w, todo, visit, pc, wp>>

Proof(h, m) == <<h, m>>
NoProof == <<NoWork, NoOne>>
NotVisiting == [miner |-> NoOne, step |-> "none"]

Init ==
    /\ W!WorkerInit
    /\ x_minerWork = NoOne /\ farmWork = NoWork /\ m_miners = {}
    /\ minerWork = [m \in Miners |-> NoWork]
    /\ loop = [m \in Miners |-> "out"]
    /\ w = [m \in Miners |-> NoWork]
    /\ m_sealing = [header |-> NoWork, mixHash |-> NoProof, nonce |-> NoProof]
    /\ todo = [t \in Threads |-> {}]
    /\ visit = [t \in Threads |-> NotVisiting]
    /\ pc = "idle" /\ wp = NoWork

-----------------------------------------------------------------------------
(* GenericMiner::setWork(), called by a thread that holds x_minerWork.       *)

Hand(t, m, step) == visit' = [visit EXCEPT ![t] = [miner |-> m, step |-> step]]
At(t, step) == visit[t].step = step
Handled(t) == visit' = [visit EXCEPT ![t] = NotVisiting]

\* The step after the work is written: a miner that got none and had none is left
\* alone.
\* Fault: the miner that has work goes on with it.
AfterWork_running(new, old) == IF new # NoWork /\ old = NoWork THEN "stop" ELSE "done"
AfterWork(new, old) == IF new # NoWork \/ old # NoWork THEN "stop" ELSE "done"

SetMinerWork(t, m, new) ==
    /\ visit[t] = NotVisiting /\ m \in todo[t]
    /\ todo' = [todo EXCEPT ![t] = @ \ {m}]
    /\ minerWork' = [minerWork EXCEPT ![m] = new]
    /\ IF AfterWork(new, minerWork[m]) = "stop"
       THEN Hand(t, m, "stop") ELSE UNCHANGED visit

\* pause(), and the stopWorking() of kickOff(), which finds the worker stopped.
StopMiner(t, new) ==
    LET m    == visit[t].miner
        next == IF new = NoWork THEN NotVisiting ELSE [miner |-> m, step |-> "start"]
    IN  /\ At(t, "stop")
        /\ \/ /\ ~m_work[m]
              /\ visit' = [visit EXCEPT ![t] = next]
              /\ UNCHANGED workers
           \/ W!StopBegin(t, m) /\ UNCHANGED visit
           \/ W!StopEnd(t, m) /\ visit' = [visit EXCEPT ![t] = next]
        /\ UNCHANGED <<todo, minerWork>>

\* The startWorking() of kickOff().
StartMiner(t) ==
    LET m == visit[t].miner
    IN  /\ At(t, "start")
        /\ \/ W!StartBegin(t, m) /\ UNCHANGED visit
           \/ W!StartEnd(t, m) /\ Handled(t)
        /\ UNCHANGED <<todo, minerWork>>

\* The loop over the miners, as far as another thread can see it.
VisitMiner(t, new) ==
    \/ \E m \in todo[t] : SetMinerWork(t, m, new) /\ UNCHANGED workers
    \/ StopMiner(t, new)
    \/ StartMiner(t)

AllVisited(t) == todo[t] = {} /\ visit[t] = NotVisiting

-----------------------------------------------------------------------------
(* The client's thread.                                                      *)

\* Fault: the lock is taken without waiting for it.
Lock_none(t) == x_minerWork' = t
Lock(t) == x_minerWork = NoOne /\ x_minerWork' = t
Unlock == x_minerWork' = NoOne

\* generateSeal(): m_sealing = _bi, while miners may be at it.
GenerateSeal(h) ==
    /\ pc = "idle"
    /\ m_sealing' = [header |-> h, mixHash |-> NoProof, nonce |-> NoProof]
    /\ wp' = h
    /\ pc' = "setWork"
    /\ UNCHANGED <<workers, farm, minerWork, loop, w, todo, visit>>

\* The next call of generateSeal(), or its return.
NextCall(p) == IF p \in {"setWork", "setting"} THEN "start" ELSE "idle"
Called(next) == pc' = next /\ wp' = IF next = "idle" THEN NoWork ELSE wp

\* setWork(), before and after start(): nothing to do for the header in work.
SetWork ==
    /\ pc \in {"setWork", "setAgain"}
    /\ IF farmWork = wp
       THEN /\ x_minerWork = NoOne
            /\ Called(NextCall(pc))
            /\ UNCHANGED <<x_minerWork, farmWork, todo>>
       ELSE /\ Lock(Client)
            /\ farmWork' = wp
            /\ todo' = [todo EXCEPT ![Client] = m_miners]
            /\ pc' = IF pc = "setWork" THEN "setting" ELSE "settingAgain"
            /\ UNCHANGED wp
    /\ UNCHANGED <<workers, m_miners, m_sealing, minerWork, loop, w, visit>>

SetEach ==
    /\ pc \in {"setting", "settingAgain"}
    /\ \/ VisitMiner(Client, wp) /\ UNCHANGED <<x_minerWork, pc, wp>>
       \/ /\ AllVisited(Client) /\ Unlock
          /\ Called(NextCall(pc))
          /\ UNCHANGED <<workers, todo, visit, minerWork>>
    /\ UNCHANGED <<farmWork, m_miners, m_sealing, loop, w>>

\* start(): with miners there already, nothing.
StartFarm ==
    /\ pc = "start"
    /\ IF m_miners # {}
       THEN x_minerWork = NoOne /\ pc' = "setAgain" /\ UNCHANGED x_minerWork
       ELSE Lock(Client) /\ pc' = "creating"
    /\ UNCHANGED <<workers, farmWork, m_miners, m_sealing, minerWork, loop, w, todo, visit, wp>>

\* One miner after the other is made and given the farm's work.
CreateMiner(m) ==
    /\ pc = "creating" /\ AllVisited(Client) /\ m \notin m_miners
    /\ m_miners' = m_miners \cup {m}
    /\ minerWork' = [minerWork EXCEPT ![m] = NoWork]
    /\ todo' = [todo EXCEPT ![Client] = {m}]
    /\ UNCHANGED <<workers, x_minerWork, farmWork, m_sealing, loop, w, visit, pc, wp>>

CreateMiners ==
    /\ pc = "creating"
    /\ \/ VisitMiner(Client, farmWork) /\ UNCHANGED <<x_minerWork, pc>>
       \/ /\ AllVisited(Client) /\ m_miners = Miners
          /\ Unlock /\ pc' = "setAgain"
          /\ UNCHANGED <<workers, todo, visit, minerWork>>
    /\ UNCHANGED <<farmWork, m_miners, m_sealing, loop, w, wp>>

\* cancelGeneration(): stop() destroys the miners, which ends their threads.
CancelGeneration ==
    /\ pc = "idle" /\ Lock(Client)
    /\ todo' = [todo EXCEPT ![Client] = m_miners]
    /\ pc' = "stopping"
    /\ UNCHANGED <<workers, farmWork, m_miners, m_sealing, minerWork, loop, w, visit, wp>>

\* Fault: the miner is dropped and its thread left to itself.
Destroy_detached(m) == UNCHANGED <<workers, visit>>
Destroy(m) == IF m_work[m] THEN W!TerminateBegin(Client, m) /\ Hand(Client, m, "join")
              ELSE UNCHANGED <<workers, visit>>

DestroyMiner ==
    /\ pc = "stopping"
    /\ \/ \E m \in todo[Client] :
             /\ visit[Client] = NotVisiting
             /\ Destroy(m)
             /\ todo' = [todo EXCEPT ![Client] = @ \ {m}]
       \/ /\ At(Client, "join")
          /\ W!TerminateEnd(Client, visit[Client].miner)
          /\ Handled(Client) /\ UNCHANGED todo
    /\ UNCHANGED <<farm, m_sealing, minerWork, loop, w, pc, wp>>

Stopped ==
    /\ pc = "stopping" /\ AllVisited(Client)
    /\ m_miners' = {} /\ farmWork' = NoWork
    /\ Unlock
    /\ pc' = "idle"
    /\ UNCHANGED <<workers, m_sealing, minerWork, loop, w, todo, visit, wp>>

ClientCall == (\E h \in Headers : GenerateSeal(h)) \/ CancelGeneration
ClientStep ==
    SetWork \/ SetEach \/ StartFarm \/ (\E m \in Miners : CreateMiner(m)) \/ CreateMiners
        \/ DestroyMiner \/ Stopped

-----------------------------------------------------------------------------
(* The miners' threads: EthashCPUMiner::workLoop().                          *)

Go(m, label) == loop' = [loop EXCEPT ![m] = label]

BeginLoop(m) ==
    /\ thread[m] = "run" /\ loop[m] = "out"
    /\ w' = [w EXCEPT ![m] = minerWork[m]]
    /\ Go(m, "search")
    /\ UNCHANGED <<workers, farm, m_sealing, minerWork, todo, visit, pc, wp>>

EndLoop(m) ==
    /\ \/ loop[m] = "search" /\ W!shouldStop(m)
       \/ loop[m] = "break"
    /\ W!LeaveLoop(m)
    /\ w' = [w EXCEPT ![m] = NoWork]
    /\ Go(m, "out")
    /\ UNCHANGED <<farm, m_sealing, minerWork, todo, visit, pc, wp>>

\* A value below the boundary.  Empty work has the boundary 0: no value is.  The
\* handler of onSolutionFound runs: first setMixHash(m_sealing, ...),
Find(m) ==
    /\ loop[m] = "search" /\ ~W!shouldStop(m) /\ w[m] # NoWork
    /\ m_sealing' = [m_sealing EXCEPT !.mixHash = Proof(w[m], m)]
    /\ Go(m, "nonce")
    /\ UNCHANGED <<workers, farm, minerWork, w, todo, visit, pc, wp>>

\* then setNonce(m_sealing, ...),
SetNonce(m) ==
    /\ loop[m] = "nonce"
    /\ m_sealing' = [m_sealing EXCEPT !.nonce = Proof(w[m], m)]
    /\ Go(m, "verify")
    /\ UNCHANGED <<workers, farm, minerWork, w, todo, visit, pc, wp>>

Sealed(header) ==
    header.mixHash = header.nonce /\ \E m \in Miners : header.nonce = Proof(header.header, m)

\* then quickVerifySeal(m_sealing),
QuickVerifySeal(m) ==
    /\ loop[m] = "verify"
    /\ Go(m, IF Sealed(m_sealing) THEN "stream" ELSE "search")
    /\ UNCHANGED <<workers, farm, m_sealing, minerWork, w, todo, visit, pc, wp>>

\* and m_onSealGenerated(), external, with the bytes m_sealing has by then.
SealGenerated(m) ==
    /\ loop[m] = "stream"
    /\ Go(m, "trylock")
    /\ UNCHANGED <<workers, farm, m_sealing, minerWork, w, todo, visit, pc, wp>>

\* x_minerWork.try_lock() fails when another thread, or a reader, holds the lock.
LockBusy(m) ==
    /\ loop[m] = "trylock"
    /\ Go(m, "search")
    /\ UNCHANGED <<workers, farm, m_sealing, minerWork, w, todo, visit, pc, wp>>

\* Fault: the finder stops itself as well.
OtherMiners_all(m) == m_miners
OtherMiners(m) == m_miners \ {m}

TryLock(m) ==
    /\ loop[m] = "trylock" /\ Lock(m)
    /\ todo' = [todo EXCEPT ![m] = OtherMiners(m)]
    /\ Go(m, "others")
    /\ UNCHANGED <<workers, farmWork, m_miners, m_sealing, minerWork, w, visit, pc, wp>>

\* m->setWork() for the other miners; then the farm has no work.
StopOthers(m) ==
    /\ loop[m] = "others"
    /\ \/ VisitMiner(m, NoWork) /\ UNCHANGED <<x_minerWork, farmWork, loop>>
       \/ /\ AllVisited(m) /\ Unlock
          /\ farmWork' = NoWork
          /\ Go(m, "reset")
          /\ UNCHANGED <<workers, todo, visit, minerWork>>
    /\ UNCHANGED <<m_miners, m_sealing, w, pc, wp>>

\* GenericMiner::submitProof() resets the finder's own work, whatever it is by now.
ResetOwnWork(m) ==
    /\ loop[m] = "reset"
    /\ minerWork' = [minerWork EXCEPT ![m] = NoWork]
    /\ Go(m, "break")
    /\ UNCHANGED <<workers, farm, m_sealing, w, todo, visit, pc, wp>>

ThreadStep(m) ==
    W!ThreadStep(m) /\ UNCHANGED <<farm, m_sealing, minerWork, loop, w, todo, visit, pc, wp>>

MinerStep(m) ==
    \/ ThreadStep(m) \/ BeginLoop(m) \/ EndLoop(m) \/ SetNonce(m) \/ QuickVerifySeal(m)
    \/ SealGenerated(m) \/ LockBusy(m) \/ TryLock(m) \/ StopOthers(m) \/ ResetOwnWork(m)

Next == ClientCall \/ ClientStep \/ \E m \in Miners : MinerStep(m) \/ Find(m)

\* Every thread is scheduled; nothing makes a miner find a solution.
Fairness == WF_vars(ClientStep) /\ \A m \in Miners : WF_vars(MinerStep(m))

Spec == Init /\ [][Next]_vars /\ Fairness

-----------------------------------------------------------------------------
TypeOK ==
    /\ W!TypeOK
    /\ x_minerWork \in Threads \cup {NoOne} /\ farmWork \in Headers \cup {NoWork}
    /\ m_miners \subseteq Miners
    /\ minerWork \in [Miners -> Headers \cup {NoWork}]
    /\ w \in [Miners -> Headers \cup {NoWork}]
    /\ loop \in [Miners -> {"out", "search", "nonce", "verify", "stream", "trylock",
                             "others", "reset", "break"}]
    /\ \A m \in Miners : loop[m] # "out" => thread[m] = "run"
    /\ \A t \in Threads : ~AllVisited(t) => x_minerWork = t

\* The farm uses its Workers as Worker.tla describes them, and under the farm's
\* fairness every call of theirs returns: no thread waits for one that waits for it.
WorkersWork == W!Spec

\* generateSeal() and cancelGeneration() return, whatever the miners are doing: the
\* reason why submitProof() only tries to take the lock (GenericFarm.h:169).
ClientReturns == pc # "idle" ~> pc = "idle"

\* Once setWork(), or the solution of another miner, has given up x_minerWork, no
\* thread is still looking for a header that the farm no longer has in work.
NoStaleMining ==
    x_minerWork = NoOne =>
        \A m \in Miners : loop[m] \in {"search", "nonce", "verify", "stream", "trylock"} =>
                              w[m] \in {farmWork, NoWork}

\* After cancelGeneration() no thread of a miner is left.
NoOrphans ==
    x_minerWork = NoOne => \A m \in Miners \ m_miners : thread[m] = "none"

\* What the farm, its miners and their Workers know of each other agrees.
FarmConsistent == TypeOK /\ NoOrphans

-----------------------------------------------------------------------------
(* Promises of the code's comments that TLC finds broken.                   *)

\* "Sets the current mining mission." (GenericFarm.h:64): when the lock is free, the
\* work of the farm is the work of every miner.
MinersHaveTheWork ==
    x_minerWork = NoOne /\ farmWork # NoWork =>
        \A m \in m_miners : minerWork[m] = farmWork

\* "Provides a valid header" (GenericFarm.h:152): what is passed on is sealed.
GeneratedIsSealed ==
    [][\A m \in Miners : SealGenerated(m) => Sealed(m_sealing)]_vars

\* "@return true iff the solution was good" (GenericFarm.h:164): a miner whose
\* solution was passed on stops searching.
GoodSolutionEndsSearch ==
    [][\A m \in Miners : loop[m] = "trylock" => loop'[m] \in {"trylock", "others"}]_vars
=============================================================================
