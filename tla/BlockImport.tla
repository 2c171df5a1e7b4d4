------------------------------ MODULE BlockImport ------------------------------
(***************************************************************************)
(* The block queue at work: the verifier threads, the client's thread      *)
(* (Client::doWork, BlockChain::sync, Client::tick), the threads that      *)
(* bring blocks (the network, a miner) and BlockChainSync, which pauses    *)
(* when the queue is full.                                                 *)
(*                                                                         *)
(* Of BlockChain::import only the checks that decide the fate of the block *)
(* are here: whether enacting it fails for good (InvalidState) or with a   *)
(* TransientError, which any block may meet a bounded number of times.     *)
(***************************************************************************)
EXTENDS BlockQueue

CONSTANTS
    InvalidState,   \* the blocks that cannot be enacted on their parent's state
    Ours,           \* the blocks this node may mine: import(..., isOurs = true)
    m_syncAmount,   \* how many blocks one sync drains
    MaxTime,        \* bound on the clock
    MaxFuture,      \* bound on the length of m_future
    MaxTransients,  \* bound on the number of TransientErrors
    MaxClears,      \* bound on the number of BlockQueue::clear() calls
    MaxRetries,     \* bound on the number of retryAllUnknown() calls
    MayStop         \* whether the node may be shut down

ASSUME ImportAssumption ==
    /\ InvalidState \subseteq Blocks /\ Ours \subseteq Blocks
    /\ m_syncAmount \in Nat \ {0}
    /\ {MaxTime, MaxFuture, MaxTransients, MaxClears, MaxRetries} \subseteq Nat
    /\ MayStop \in BOOLEAN

VARIABLES
    clientPc,       \* where the client's thread is
    blocks,         \* the drained blocks sync() has yet to import
    badBlocks,      \* those of this batch that failed, in order
    wasFull,        \* drain()'s local of that name
    more,           \* doneDrain()'s result, before it is stored
    todo,           \* tick()'s local of that name
    syncWaiting,    \* BlockChainSync::m_state is SyncState::Waiting
    transients, clears, retries \* what has been used up of the bounds

clientVars == <<clientPc, blocks, badBlocks, wasFull, more, todo>>
boundVars  == <<transients, clears, retries>>
vars       == <<bqVars, clientVars, syncWaiting, boundVars>>

Init ==
    /\ BQInit
    /\ clientPc = "work" /\ blocks = <<>> /\ badBlocks = <<>> /\ wasFull = FALSE
    /\ more = FALSE /\ todo = <<>>
    /\ syncWaiting = FALSE
    /\ transients = 0 /\ clears = 0 /\ retries = 0

At(pc) == clientPc = pc
Goto(pc) == clientPc' = pc

-----------------------------------------------------------------------------
(* Client::doWork: a sync when m_syncBlockQueue was set, then a tick.        *)

TakeFlag ==
    /\ At("work") /\ m_syncBlockQueue
    /\ m_syncBlockQueue' = FALSE
    /\ Goto("drain")
    /\ UNCHANGED <<setVars, queueVars, diffVars, loopVars, threadVars, m_future, chain, now,
                   blocks, badBlocks, wasFull, more, todo, syncWaiting, boundVars>>

\* BlockChain::sync: _bq.drain(blocks, _max).
Drain ==
    /\ At("drain")
    /\ drain(m_syncAmount)
    /\ blocks' = drainOut(m_syncAmount)
    /\ badBlocks' = <<>>
    /\ wasFull' = knownFull
    /\ Goto("room")
    /\ UNCHANGED <<more, todo, syncWaiting, boundVars>>

\* The end of drain(), after m_lock is released: m_onRoomAvailable resumes the
\* download.
RoomAvailable ==
    /\ At("room")
    /\ syncWaiting' = IF wasFull /\ ~knownFull THEN FALSE ELSE syncWaiting
    /\ Goto("import")
    /\ UNCHANGED <<bqVars, blocks, badBlocks, wasFull, more, todo, boundVars>>

\* One block of sync()'s loop.  The outcome of BlockChain::import is the
\* exception it throws; `continue' leaves the do-while(false), so a block that
\* met FutureTime or TransientError is not tried again.
NextBlock(bad) ==
    /\ At("import") /\ blocks # <<>>
    /\ blocks' = Tail(blocks)
    /\ badBlocks' = badBlocks \o bad
    /\ UNCHANGED <<setVars, queueVars, diffVars, loopVars, threadVars, m_future,
                   m_syncBlockQueue, now, clientPc, wasFull, more, todo, syncWaiting,
                   clears, retries>>

Importable(b) == ~isKnown(b) /\ isKnown(Parent[b]) /\ Timestamp[b] <= now

AlreadyHaveBlock ==
    /\ blocks # <<>> /\ isKnown(Head(blocks))
    /\ NextBlock(<<>>) /\ UNCHANGED <<chain, transients>>

UnknownParent ==
    /\ blocks # <<>> /\ ~isKnown(Head(blocks)) /\ ~isKnown(Parent[Head(blocks)])
    /\ NextBlock(<<Head(blocks)>>) /\ UNCHANGED <<chain, transients>>

FutureTime ==
    /\ blocks # <<>> /\ ~isKnown(Head(blocks)) /\ isKnown(Parent[Head(blocks)])
    /\ Timestamp[Head(blocks)] > now
    /\ NextBlock(<<>>) /\ UNCHANGED <<chain, transients>>

TransientError ==
    /\ blocks # <<>> /\ Importable(Head(blocks)) /\ transients < MaxTransients
    /\ NextBlock(<<>>)
    /\ transients' = transients + 1
    /\ UNCHANGED chain

BadBlock ==
    /\ blocks # <<>> /\ Importable(Head(blocks)) /\ Head(blocks) \in InvalidState
    /\ NextBlock(<<Head(blocks)>>) /\ UNCHANGED <<chain, transients>>

GoodBlock ==
    /\ blocks # <<>> /\ Importable(Head(blocks)) /\ Head(blocks) \notin InvalidState
    /\ NextBlock(<<>>)
    /\ chain' = chain \cup {Head(blocks)}
    /\ UNCHANGED transients

ImportNext == \/ AlreadyHaveBlock \/ UnknownParent \/ FutureTime
              \/ TransientError \/ BadBlock \/ GoodBlock

DoneDrain ==
    /\ At("import") /\ blocks = <<>>
    /\ doneDrain(badBlocks)
    /\ badBlocks' = <<>>
    /\ Goto("drained")
    /\ UNCHANGED <<blocks, wasFull, more, todo, syncWaiting, boundVars>>

\* Its result.
Drained ==
    /\ At("drained")
    /\ Updated
    /\ more' = (m_readySet # {})
    /\ Goto("assign")
    /\ UNCHANGED <<blocks, badBlocks, wasFull, todo, syncWaiting, boundVars>>

\* Client::syncBlockQueue: tie(ir, m_syncBlockQueue, count) = bc().sync(...).
AssignFlag ==
    /\ At("assign")
    /\ m_syncBlockQueue' = more
    /\ more' = FALSE
    /\ wasFull' = FALSE
    /\ Goto("tick")
    /\ UNCHANGED <<setVars, queueVars, diffVars, loopVars, threadVars, m_future, chain, now,
                   blocks, badBlocks, todo, syncWaiting, boundVars>>

\* Client::tick runs at most once a second: whenever it would have nothing to
\* do, the thread is back at the start of doWork.
NoTick ==
    /\ At("tick")
    /\ Goto("work")
    /\ UNCHANGED <<bqVars, blocks, badBlocks, wasFull, more, todo, syncWaiting, boundVars>>

Tick ==
    /\ At("tick") \/ (At("work") /\ ~m_syncBlockQueue)
    /\ DueCount > 0
    /\ tick
    /\ todo' = tickTodo
    /\ Goto("tock")
    /\ UNCHANGED <<blocks, badBlocks, wasFull, more, syncWaiting, boundVars>>

TickImport ==
    /\ At("tock") /\ todo # <<>>
    /\ import(Head(todo), FALSE)
    /\ todo' = Tail(todo)
    /\ IF todo' = <<>> THEN Goto("work") ELSE UNCHANGED clientPc
    /\ UNCHANGED <<blocks, badBlocks, wasFull, more, syncWaiting, boundVars>>

-----------------------------------------------------------------------------
(* The other threads.                                                       *)

\* A block arrives: from a peer, or from this node's miner.
Arrive(b, isOurs) ==
    /\ ~m_deleting
    /\ isOurs => b \in Ours
    /\ Len(m_future) < MaxFuture
    /\ import(b, isOurs)
    /\ UNCHANGED <<clientVars, syncWaiting, boundVars>>

\* BlockChainSync::requestBlocks finds the queue full and pauses the download.
PauseSync ==
    /\ knownFull /\ ~syncWaiting
    /\ syncWaiting' = TRUE
    /\ UNCHANGED <<bqVars, clientVars, boundVars>>

\* BlockChainSync::restartSync: the state is Idle or NotSynced afterwards.
Clear ==
    /\ clears < MaxClears
    /\ clear
    /\ clears' = clears + 1
    /\ syncWaiting' = FALSE
    /\ UNCHANGED <<clientVars, transients, retries>>

\* Client::retryUnknown.
RetryUnknown ==
    /\ retries < MaxRetries
    /\ RetryAllUnknown
    /\ retries' = retries + 1
    /\ UNCHANGED <<clientVars, syncWaiting, transients, clears>>

LockedStep ==
    /\ NoteReady \/ RetryStep \/ CollectBad \/ MoreBad \/ (~At("drained") /\ Updated)
    /\ UNCHANGED <<clientVars, syncWaiting, boundVars>>

AdvanceClock ==
    /\ now < MaxTime
    /\ now' = now + 1
    /\ UNCHANGED <<setVars, queueVars, diffVars, loopVars, threadVars, m_future,
                   m_syncBlockQueue, chain, clientVars, syncWaiting, boundVars>>

\* ~Client stops its thread, then the queue is destroyed: ~BlockQueue, stop().
Stop ==
    /\ MayStop /\ clientPc \in {"work", "tick"} /\ m_lock = "free"
    /\ SetDeleting
    /\ Goto("stopping")
    /\ UNCHANGED <<blocks, badBlocks, wasFull, more, todo, syncWaiting, boundVars>>

StopNotify ==
    /\ At("stopping")
    /\ NotifyDeleting
    /\ Goto("joining")
    /\ UNCHANGED <<blocks, badBlocks, wasFull, more, todo, syncWaiting, boundVars>>

StopJoin ==
    /\ At("joining")
    /\ \A v \in Verifiers : verifierPc[v] = "done"
    /\ Goto("stopped")
    /\ UNCHANGED <<bqVars, blocks, badBlocks, wasFull, more, todo, syncWaiting, boundVars>>

Verifier(v) ==
    /\ TakeJob(v) \/ VerifyThrows(v) \/ VerifyReturns(v) \/ OnReady(v)
    /\ UNCHANGED <<clientVars, syncWaiting, boundVars>>

ClientStep == \/ TakeFlag \/ Drain \/ RoomAvailable \/ ImportNext \/ DoneDrain \/ Drained
              \/ AssignFlag \/ NoTick \/ Tick \/ TickImport

StopStep == StopNotify \/ StopJoin

Next == \/ ClientStep \/ LockedStep \/ StopStep \/ Stop
        \/ \E v \in Verifiers : Verifier(v)
        \/ \E b \in Blocks, isOurs \in BOOLEAN : Arrive(b, isOurs)
        \/ PauseSync \/ Clear \/ RetryUnknown \/ AdvanceClock

\* Threads run on: the client, the verifiers, whoever holds m_lock and whoever
\* stops the queue.  A verifier gets m_lock, a boost::shared_mutex, when it is
\* released again and again, as the client's thread does.  Nothing promises that
\* blocks arrive, or that time passes.
Fairness == /\ WF_vars(ClientStep) /\ WF_vars(LockedStep) /\ WF_vars(StopStep)
            /\ \A v \in Verifiers : SF_vars(Verifier(v))

Spec == Init /\ [][Next]_vars /\ Fairness
=============================================================================
