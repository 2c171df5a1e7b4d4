--------------------------- MODULE BlockImportProps ---------------------------
(***************************************************************************)
(* What the block queue and the client promise each other, as properties   *)
(* of BlockImport.                                                         *)
(***************************************************************************)
EXTENDS BlockImport, TLC

TypeOK ==
    /\ BQTypeOK
    /\ clientPc \in {"work", "drain", "room", "import", "drained", "assign", "tick",
                     "tock", "stopping", "joining", "stopped"}
    /\ blocks \in Seq(Blocks) /\ badBlocks \in Seq(Blocks)
    /\ wasFull \in BOOLEAN /\ more \in BOOLEAN
    /\ todo \in Seq(Blocks)
    /\ At("tock") <=> todo # <<>>
    /\ syncWaiting \in BOOLEAN
    /\ transients \in 0..MaxTransients /\ clears \in 0..MaxClears /\ retries \in 0..MaxRetries

-----------------------------------------------------------------------------
(* Safety.                                                                  *)

\* The blocks on their way through the queue, first come first.
InOrder == m_verified \o [i \in DOMAIN m_verifying |-> m_verifying[i].hash] \o m_unverified

\* BlockQueue::invariants(), in full: the ready set is what the three queues
\* hold, no block is in them twice.  (The code compares the sizes only, in debug
\* builds only; a clear() and removeIf break it, see the README.)
ReadyIsQueued ==
    m_lock # "moreBad" => m_readySet = Queued /\ knownCount = Cardinality(m_readySet)

\* The four sets are disjoint: no interleaving of verifiers, imports and drains
\* gives a block two statuses, so the order of the tests in import() and
\* blockStatus() does not matter.
OneStatus ==
    /\ m_readySet \cap m_drainingSet = {} /\ m_readySet \cap m_unknownSet = {}
    /\ m_readySet \cap m_knownBad = {}    /\ m_drainingSet \cap m_unknownSet = {}
    /\ m_drainingSet \cap m_knownBad = {} /\ m_unknownSet \cap m_knownBad = {}
    /\ m_unknownSet = UNION {RangeOf(m_unknown[p]) : p \in Hashes}

\* What the sets, the queues and the threads are, and that a block has one status.
Consistent == TypeOK /\ OneStatus

\* "The queue should guarantee everything in the right order" (BlockChain.cpp:443):
\* whatever the order in which verifiers finish, the parent of every block on its
\* way to the chain is in the chain, ahead of it, or known or about to be bad.
ParentsFirst ==
    LET way == blocks \o InOrder
    IN  \A i \in DOMAIN way :
            \/ isKnown(Parent[way[i]])
            \/ Parent[way[i]] \in m_knownBad \cup RangeOf(badBlocks)
            \/ \E j \in 1..(i - 1) : way[j] = Parent[way[i]]

\* A block waits in m_unknown only for a parent nobody has brought yet: it is
\* released or condemned with its parent, never left behind.
UnknownWaits ==
    m_lock = "free" =>
        \A b \in m_unknownSet : ~ParentKnown(b) /\ Parent[b] \notin m_knownBad

\* "Set of blocks that we know will never be valid" (BlockQueue.h:310): a block is
\* held bad only if it, or an ancestor of it, fails verification or enactment.
AncestorOrSelf(b) ==
    {h \in Hashes : \A S \in SUBSET Hashes :
        (b \in S /\ \A x \in S \cap Blocks : Parent[x] \in S) => h \in S}

BadIsJustified ==
    \A b \in m_knownBad : b \in Blocks /\ AncestorOrSelf(b) \cap (Invalid \cup InvalidState) # {}

\* m_difficulty counts at least every block the queue holds, so that doneDrain's
\* m_difficulty -= m_drainingDifficulty never wraps around.
DifficultyCovers ==
    /\ m_drainingDifficulty = Cardinality(m_drainingSet)
    /\ m_difficulty >= Cardinality(m_readySet) + Cardinality(m_drainingSet)
                        + Cardinality(m_unknownSet) + Len(m_future)

\* A job that is not finished has a verifier working on it, and the first job is
\* one of those: finishing it is what moves the jobs behind it.
FirstJobRuns ==
    m_lock = "free" =>
        /\ \A e \in RangeOf(m_verifying) :
                e.done \/ \E v \in Verifiers : verifierWork[v] = e.hash
        /\ m_verifying # <<>> => ~Head(m_verifying).done

\* A verifier sleeps only while there is nothing to verify, or the thread that
\* queued the work has yet to notify: no wakeup is lost.
SleepersHaveNoWork ==
    (Asleep = Verifiers /\ m_lock = "free") => m_unverified = <<>>

\* Work that is queued is under way, or will be as soon as the lock is free.
WorkIsTaken == FirstJobRuns /\ SleepersHaveNoWork

-----------------------------------------------------------------------------
(* Actions.                                                                 *)

\* BlockStatus: the detailed queue implements what QueueStatus promises.
Status == INSTANCE BlockStatus WITH
            Faulty <- Invalid \cup InvalidState,
            status <- [b \in Blocks |-> blockStatus(b)]

StatusSpec == Status!Spec

-----------------------------------------------------------------------------
(* Liveness.                                                                *)

\* Every block accepted is verified, or found bad, unless the queue is stopped: the
\* verifiers never stall.
EveryBlockVerified ==
    \A b \in Blocks :
        b \in m_readySet ~> (b \notin m_readySet \/ b \in RangeOf(m_verified) \/ m_deleting)

\* stop() returns: every verifier, working or asleep, sees m_deleting.
StopReturns == At("stopping") ~> At("stopped")

-----------------------------------------------------------------------------
(* Promises of the code's comments that TLC finds broken.                   *)

\* "Called when a subsequent call to import blocks will return a non-empty
\* container" (BlockQueue.h:312): a verifier that makes the first block available
\* is about to call m_onReady.
ReadyIsSignalled ==
    [][(m_verified = <<>> /\ m_verified' # <<>>)
        => \E v \in Verifiers : verifierPc'[v] = "signal"]_vars

\* "Magically called when m_bq needs syncing" (Client.h:274): verified blocks are
\* taken by the client.
VerifiedIsTaken == m_verified # <<>> ~> m_verified = <<>>

\* "Block downloading paused. Waiting for block queue to process blocks and free
\* space" (CommonNet.h:93): when there is space again, the download resumes.
PauseEnds == (syncWaiting /\ ~knownFull) ~> (~syncWaiting \/ knownFull)

\* "Total difficulty of blocks in the queue" (BlockQueue.h:325).
DifficultyIsTotal ==
    m_difficulty = Cardinality(m_readySet) + Cardinality(m_drainingSet)
                    + Cardinality(m_unknownSet) + Len(m_future)
=============================================================================
