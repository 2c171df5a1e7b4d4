------------------------------ MODULE BlockQueue ------------------------------
(***************************************************************************)
(* dev::eth::BlockQueue (libethereum/BlockQueue.{h,cpp}): the queue that   *)
(* takes blocks from the network, verifies them on several threads and     *)
(* hands them, in order, to the thread that imports them into the chain.   *)
(*                                                                         *)
(* A block is identified with its hash.  Its payload is abstracted to what *)
(* the queue looks at: the parent, the timestamp and whether verifyBlock   *)
(* throws.  Every block has difficulty 1, so that m_difficulty counts      *)
(* blocks.  A malformed block is rejected before it touches any state and  *)
(* is therefore not among Blocks.                                          *)
(*                                                                         *)
(* Locks.  m_lock is held by import() from beginning to end; what can run  *)
(* inside an import is only a verifier that takes m_verification alone to  *)
(* dequeue a job.  So every operation is one step, except the loops over   *)
(* blocks (noteReady_WITH_LOCK, retryAllUnknown, updateBad_WITH_LOCK): these*)
(* take one step per iteration, with m_lock held.                          *)
(*                                                                         *)
(* The removed jobs that SizedBlockQueue::removeIf returns are what        *)
(* std::remove_if leaves behind the end of the queue: not the removed jobs,*)
(* but the last ones, from which a job that was kept has been moved away.  *)
(* Every block has an empty list of uncles, as most blocks have.           *)
(***************************************************************************)
EXTENDS Integers, Sequences, FiniteSets

CONSTANTS
    Blocks,       \* the hashes of the blocks that may be imported
    Genesis,      \* the hash of the genesis block, always in the chain
    Parent,       \* Parent[b]: the parent hash in the header of b
    Timestamp,    \* Timestamp[b]: the time in the header of b
    Invalid,      \* the blocks for which verifyBlock(OutOfOrderChecks) throws
    Verifiers,    \* the verifier threads
    NoBlock,      \* the job of a verifier that has none
    EmptyListSHA3,\* sha3Uncles of every block
    c_maxKnownCount \* the limit behind knownFull()

Hashes == Blocks \cup {Genesis}

ASSUME BlocksAssumption ==
    /\ IsFiniteSet(Blocks)
    /\ Genesis \notin Blocks
    /\ NoBlock \notin Blocks /\ EmptyListSHA3 \notin Blocks \cup {Genesis}
    /\ Parent \in [Blocks -> Hashes]
    /\ Timestamp \in [Blocks -> Nat]
    /\ Invalid \subseteq Blocks
    /\ Verifiers # {}         \* the constructor starts one thread at least
    /\ c_maxKnownCount \in Nat

VARIABLES
    m_readySet, m_drainingSet, m_unknownSet, m_knownBad, \* sets of hashes
    m_unknown,      \* parent hash -> the blocks waiting for it, oldest first
    m_future,       \* the blocks of the future, ordered by timestamp
    m_verified,     \* hashes, in order, ready for import into the chain
    m_verifying,    \* [hash, done]: placeholders and finished results
    m_unverified,   \* hashes, in order, waiting for a verifier
    m_difficulty, m_drainingDifficulty,
    m_deleting,     \* exit condition of the verifiers
    m_lock,         \* "free", or the loop that holds m_lock between two steps
    goodQueue,      \* worklist of noteReady_WITH_LOCK
    badLeft,        \* the blocks updateBad_WITH_LOCK is yet to be called for
    notify,         \* noteReady_WITH_LOCK has queued something
    verifierPc,     \* where each verifier thread is in verifierBody
    verifierWork,   \* the job each verifier thread holds
    m_syncBlockQueue, \* what the client's onReady handler sets
    chain,          \* m_bc: the blocks isKnown() answers true for
    now             \* utcTime()

setVars    == <<m_readySet, m_drainingSet, m_unknownSet, m_knownBad, m_unknown>>
queueVars  == <<m_verified, m_verifying, m_unverified>>
diffVars   == <<m_difficulty, m_drainingDifficulty>>
loopVars   == <<m_lock, goodQueue, badLeft, notify>>
threadVars == <<verifierPc, verifierWork, m_deleting>>
bqVars     == <<setVars, queueVars, diffVars, loopVars, threadVars, m_future,
                m_syncBlockQueue, chain, now>>

-----------------------------------------------------------------------------
(* The containers.                                                          *)

RangeOf(s) == {s[i] : i \in DOMAIN s}

\* SizedBlockQueue::removeIf: s without its elements in S, order kept.  (It is
\* SelectSeq, in a form the proofs can reason about.)
Without(s, S) ==
    LET kept   == {i \in DOMAIN s : s[i] \notin S}
        nth(k) == CHOOSE i \in kept : Cardinality({j \in kept : j <= i}) = k
    IN  [k \in 1..Cardinality(kept) |-> s[nth(k)]]

Job(h, done) == [hash |-> h, done |-> done]
JobSet == [hash : Blocks, done : BOOLEAN]

\* The hashes in the three verification queues.
Queued == RangeOf(m_verified) \cup RangeOf(m_unverified)
            \cup {e.hash : e \in RangeOf(m_verifying)}

knownCount == Len(m_verified) + Len(m_unverified) + Len(m_verifying)
knownFull  == knownCount > c_maxKnownCount

\* m_future.insert: a multimap keeps equal keys in the order of insertion.
InsertFuture(b) ==
    LET due(f) == {i \in DOMAIN f : Timestamp[f[i]] <= Timestamp[b]}
        k      == Cardinality(due(m_future))
    IN  SubSeq(m_future, 1, k) \o <<b>> \o SubSeq(m_future, k + 1, Len(m_future))

isKnown(h) == h \in chain \cup {Genesis}

\* Faults: a parent that itself waits in m_unknown counts as known; any does.
ParentKnown_unknown(b) ==
    Parent[b] \in m_readySet \cup m_drainingSet \cup m_unknownSet \/ isKnown(Parent[b])
ParentKnown_any(b) == TRUE

\* The parent is in the chain, being imported or on its way.
ParentKnown(b) == Parent[b] \in m_readySet \cup m_drainingSet \/ isKnown(Parent[b])

-----------------------------------------------------------------------------
(* Init, with an empty queue, all verifier threads about to look for work   *)
(* and a chain that holds the genesis block only.                           *)
BQInit ==
    /\ m_readySet = {} /\ m_drainingSet = {} /\ m_unknownSet = {} /\ m_knownBad = {}
    /\ m_unknown = [p \in Hashes |-> <<>>]
    /\ m_future = <<>>
    /\ m_verified = <<>> /\ m_verifying = <<>> /\ m_unverified = <<>>
    /\ m_difficulty = 0 /\ m_drainingDifficulty = 0
    /\ m_deleting = FALSE
    /\ m_lock = "free" /\ goodQueue = <<>> /\ badLeft = <<>> /\ notify = FALSE
    /\ verifierPc = [v \in Verifiers |-> "check"]
    /\ verifierWork = [v \in Verifiers |-> NoBlock]
    /\ m_syncBlockQueue = FALSE
    /\ chain = {}
    /\ now = 0

-----------------------------------------------------------------------------
(* m_moreToVerify.                                                          *)

Asleep == {v \in Verifiers : verifierPc[v] = "asleep"}
Wake(V) == verifierPc' = [v \in Verifiers |-> IF v \in V THEN "check" ELSE verifierPc[v]]

\* Faults: no thread is notified.
NotifyAll_lost == Wake({})
NotifyOne_lost == Wake({})

NotifyAll == Wake(Asleep)
NotifyOne == IF Asleep = {} THEN Wake({}) ELSE \E v \in Asleep : Wake({v})

-----------------------------------------------------------------------------
(* updateBad_WITH_LOCK, called for each block of a list that has just been   *)
(* put into m_knownBad.                                                      *)

\* The call of updateBad_WITH_LOCK for the blocks bs, one after the other.
UpdateBad(bs) == m_lock' = (IF bs = <<>> THEN "updated" ELSE "updateBad") /\ badLeft' = bs

\* collectUnknownBad_WITH_BOTH_LOCKS for each of R: the blocks that wait for one
\* of R, or for a block that waits for it.
Orphans(unknown, R) ==
    {h \in Blocks : \A N \in SUBSET Blocks :
        (\A p \in R \cup N : p \in Hashes => RangeOf(unknown[p]) \subseteq N) => h \in N}

\* What updateBad_WITH_LOCK works on.
BadView == [verified |-> m_verified, verifying |-> m_verifying, unverified |-> m_unverified,
            ready |-> m_readySet, unknownSet |-> m_unknownSet, unknown |-> m_unknown,
            bad |-> m_knownBad]

SetBadView(q) ==
    /\ m_verified' = q.verified /\ m_verifying' = q.verifying /\ m_unverified' = q.unverified
    /\ m_readySet' = q.ready /\ m_unknownSet' = q.unknownSet /\ m_unknown' = q.unknown
    /\ m_knownBad' = q.bad

\* Fault: what waits for a bad block goes on waiting.
collectUnknownBad_none(q, R) == q
collectUnknownBad(q, R) ==
    LET orphans == Orphans(q.unknown, R)
    IN  [q EXCEPT !.bad = @ \cup orphans, !.unknownSet = @ \ orphans,
                  !.unknown = [p \in Hashes |-> IF p \in R \cup orphans THEN <<>> ELSE @[p]]]

\* R is what a removeIf has returned.
Condemn(q, R) ==
    collectUnknownBad([q EXCEPT !.bad = @ \cup R, !.ready = @ \ R], R)

\* The last places of s, as many as removing S from s leaves free.
LastPlaces(s, S) == (Len(Without(s, S)) + 1)..Len(s)

LostHash(h, bad) == Parent[h] \in bad \/ h \in bad

\* sha3Uncles is the block's own hash in a placeholder, and not in a finished job.
LostJob(e, bad) == Parent[e.hash] \in bad \/ (IF e.done THEN EmptyListSHA3 ELSE e.hash) \in bad

BadVerified(q) ==
    LET S == {h \in Blocks : LostHash(h, q.bad)}
    IN  Condemn([q EXCEPT !.verified = Without(@, S)],
                {q.verified[i] : i \in LastPlaces(q.verified, S)})

BadUnverified(q) ==
    LET S == {h \in Blocks : LostHash(h, q.bad)}
    IN  Condemn([q EXCEPT !.unverified = Without(@, S)],
                {q.unverified[i] : i \in LastPlaces(q.unverified, S)})

\* A finished job that was kept has lost its block data to its new place: what is
\* left of it looks like a placeholder, whose sha3Uncles names the block.
BadVerifying(q) ==
    LET S         == {e \in JobSet : LostJob(e, q.bad)}
        hashOf(e) == IF e.done /\ e \notin S THEN EmptyListSHA3 ELSE e.hash
    IN  Condemn([q EXCEPT !.verifying = Without(@, S)],
                {hashOf(q.verifying[i]) : i \in LastPlaces(q.verifying, S)})

\* updateBad_WITH_LOCK(Head(badLeft)), up to its loop.
CollectBad ==
    /\ m_lock = "updateBad"
    /\ SetBadView(collectUnknownBad(BadView, {Head(badLeft)}))
    /\ badLeft' = Tail(badLeft)
    /\ m_lock' = "moreBad"
    /\ UNCHANGED <<m_drainingSet, diffVars, goodQueue, notify, threadVars, m_future,
                   m_syncBlockQueue, chain, now>>

\* One turn of its loop; the last one finds nothing more.
MoreBad ==
    /\ m_lock = "moreBad"
    /\ \E q \in {BadUnverified(BadVerified(BadView))} : SetBadView(BadVerifying(q))
    /\ IF queueVars' # queueVars THEN UNCHANGED m_lock
       ELSE m_lock' = IF badLeft = <<>> THEN "updated" ELSE "updateBad"
    /\ UNCHANGED <<m_drainingSet, diffVars, goodQueue, badLeft, notify, threadVars, m_future,
                   m_syncBlockQueue, chain, now>>

\* The caller of updateBad_WITH_LOCK returns and releases m_lock.
Updated ==
    /\ m_lock = "updated"
    /\ m_lock' = "free"
    /\ UNCHANGED <<setVars, queueVars, diffVars, goodQueue, badLeft, notify, threadVars,
                   m_future, m_syncBlockQueue, chain, now>>

-----------------------------------------------------------------------------
(* import(), called with m_lock free and held throughout.                   *)

\* Faults: one of the sets is not consulted.
AlreadyKnown_draining(b) == b \in m_readySet \cup m_unknownSet \cup m_knownBad
AlreadyKnown_bad(b)      == b \in m_readySet \cup m_drainingSet \cup m_unknownSet

AlreadyKnown(b) == b \in m_readySet \cup m_drainingSet \cup m_unknownSet \cup m_knownBad

\* utcTime() is behind the block: m_future does not mark the block as known.
QueueForFuture(b) ==
    /\ m_future' = InsertFuture(b)
    /\ m_difficulty' = m_difficulty + 1
    /\ UNCHANGED <<setVars, queueVars, loopVars, verifierPc>>

RefuseBadChain(b) ==
    /\ m_knownBad' = m_knownBad \cup {b}
    /\ UpdateBad(<<b>>)
    /\ UNCHANGED <<m_readySet, m_drainingSet, m_unknownSet, m_unknown, queueVars,
                   m_difficulty, m_future, goodQueue, notify, verifierPc>>

QueueUnknown(b) ==
    /\ m_unknown' = [m_unknown EXCEPT ![Parent[b]] = Append(@, b)]
    /\ m_unknownSet' = m_unknownSet \cup {b}
    /\ m_difficulty' = m_difficulty + 1
    /\ UNCHANGED <<m_readySet, m_drainingSet, m_knownBad, queueVars, m_future, loopVars,
                   verifierPc>>

\* The last thing this branch does is noteReady_WITH_LOCK(b), whose steps follow.
QueueReady(b) ==
    /\ m_unverified' = Append(m_unverified, b)
    /\ NotifyOne
    /\ m_readySet' = m_readySet \cup {b}
    /\ m_difficulty' = m_difficulty + 1
    /\ m_lock' = "noteReady" /\ goodQueue' = <<b>>
    /\ UNCHANGED <<m_drainingSet, m_unknownSet, m_knownBad, m_unknown, m_verified,
                   m_verifying, m_future, badLeft, notify>>

import(b, isOurs) ==
    /\ m_lock = "free"
    /\ IF AlreadyKnown(b) \/ isKnown(b)
       THEN UNCHANGED <<setVars, queueVars, m_difficulty, m_future, loopVars, verifierPc>>
       ELSE IF Timestamp[b] > now /\ ~isOurs THEN QueueForFuture(b)
       ELSE IF Parent[b] \in m_knownBad      THEN RefuseBadChain(b)
       ELSE IF ~ParentKnown(b)               THEN QueueUnknown(b)
       ELSE QueueReady(b)
    /\ UNCHANGED <<m_drainingDifficulty, verifierWork, m_deleting, m_syncBlockQueue,
                   chain, now>>

\* Fault: the released blocks do not enter the ready set.
NewReady_none(p) == {}
NewReady(p) == RangeOf(m_unknown[p])

\* Moves the blocks waiting for p to m_unverified.
ReleaseUnknown(p) ==
    /\ m_unverified' = m_unverified \o m_unknown[p]
    /\ m_unknown' = [m_unknown EXCEPT ![p] = <<>>]
    /\ m_unknownSet' = m_unknownSet \ RangeOf(m_unknown[p])
    /\ m_readySet' = m_readySet \cup NewReady(p)
    /\ UNCHANGED <<m_drainingSet, m_knownBad, m_verified, m_verifying, m_future, diffVars,
                   badLeft, verifierWork, m_deleting, m_syncBlockQueue, chain, now>>

\* The worklist once p is done: the released blocks may have blocks waiting too.
NextGood(p) == Tail(goodQueue) \o m_unknown[p]

\* One turn of the loop of noteReady_WITH_LOCK; leaving it notifies and unlocks.
NoteReady ==
    /\ m_lock = "noteReady"
    /\ LET p    == Head(goodQueue)
           some == notify \/ m_unknown[p] # <<>>
       IN  /\ ReleaseUnknown(p)
           /\ goodQueue' = NextGood(p)
           /\ IF goodQueue' = <<>>
              THEN /\ m_lock' = "free" /\ notify' = FALSE
                   /\ IF some THEN NotifyAll ELSE Wake({})
              ELSE m_lock' = m_lock /\ notify' = some /\ Wake({})

\* One turn of the loop of retryAllUnknown.  The first key of m_unknown is the
\* least hash: any of them.
RetryAllUnknown ==
    /\ m_lock = "free"
    /\ m_lock' = "retryAllUnknown"
    /\ UNCHANGED <<setVars, queueVars, diffVars, goodQueue, badLeft, notify, threadVars,
                   m_future, m_syncBlockQueue, chain, now>>

RetryStep ==
    /\ m_lock = "retryAllUnknown"
    /\ \/ \E p \in Hashes :
            /\ m_unknown[p] # <<>>
            /\ ReleaseUnknown(p)
            /\ NotifyOne
            /\ UNCHANGED <<m_lock, goodQueue, notify>>
       \/ /\ \A p \in Hashes : m_unknown[p] = <<>>
          /\ NotifyAll
          /\ m_lock' = "free"
          /\ UNCHANGED <<setVars, queueVars, diffVars, goodQueue, badLeft, notify,
                         verifierWork, m_deleting, m_future, m_syncBlockQueue, chain, now>>

-----------------------------------------------------------------------------
(* verifierBody.  A thread that finds no work sleeps on m_moreToVerify.      *)

\* Fault: a thread keeps the job it is done with.
StepVerifier_keep(v, pc, work) ==
    /\ verifierPc' = [verifierPc EXCEPT ![v] = pc]
    /\ verifierWork' = [verifierWork EXCEPT ![v] = IF work = NoBlock THEN @ ELSE work]

StepVerifier(v, pc, work) ==
    /\ verifierPc' = [verifierPc EXCEPT ![v] = pc]
    /\ verifierWork' = [verifierWork EXCEPT ![v] = work]

\* Needs m_verification only: it also runs inside an import.
TakeJob(v) ==
    /\ verifierPc[v] = "check" /\ m_lock # "moreBad"
    /\ \/ m_deleting /\ StepVerifier(v, "done", NoBlock) /\ UNCHANGED queueVars
       \/ /\ ~m_deleting /\ m_unverified = <<>>
          /\ StepVerifier(v, "asleep", NoBlock) /\ UNCHANGED queueVars
       \/ /\ ~m_deleting /\ m_unverified # <<>>
          /\ StepVerifier(v, "verify", Head(m_unverified))
          /\ m_unverified' = Tail(m_unverified)
          /\ m_verifying' = Append(m_verifying, Job(Head(m_unverified), FALSE))
          /\ UNCHANGED m_verified
    /\ UNCHANGED <<setVars, diffVars, loopVars, m_deleting, m_future, m_syncBlockQueue,
                   chain, now>>

\* drainVerified_WITH_BOTH_LOCKS on the jobs js, with the bad blocks known: the
\* finished jobs at the front go to m_verified, or to m_knownBad when their
\* parent is, or has just become, bad.
\* Fault: `if' instead of `while'.
DonePrefix_one(js) == IF js # <<>> /\ js[1].done THEN 1 ELSE 0

DonePrefix(js) ==
    CHOOSE n \in 0..Len(js) : /\ \A i \in 1..n : js[i].done
                              /\ n < Len(js) => ~js[n + 1].done

BadPrefix(js, known) ==
    LET Front     == 1..DonePrefix(js)
        closed(I) == \A k \in Front :
                        (\/ Parent[js[k].hash] \in known
                         \/ \E j \in I : j < k /\ js[j].hash = Parent[js[k].hash]) => k \in I
    IN  {k \in Front : \A I \in SUBSET Front : closed(I) => k \in I}

drainVerified(js, known, ready) ==
    LET n   == DonePrefix(js)
        bad == BadPrefix(js, known)
        out == [k \in 1..n |-> js[k].hash]
        badHashes == {out[k] : k \in bad}
    IN  /\ m_verifying' = SubSeq(js, n + 1, Len(js))
        /\ m_verified' = m_verified \o Without(out, badHashes)
        /\ m_knownBad' = known \cup badHashes
        /\ m_readySet' = ready \ badHashes

\* verifyBlock throws.  The jobs drained here raise no m_onReady.
VerifyThrows(v) ==
    LET h == verifierWork[v]
    IN  /\ verifierPc[v] = "verify" /\ h \in Invalid
        /\ m_lock = "free"
        /\ drainVerified(Without(m_verifying, {Job(h, FALSE)}), m_knownBad \cup {h},
                         m_readySet \ {h})
        /\ StepVerifier(v, "check", NoBlock)
        /\ UNCHANGED <<m_drainingSet, m_unknownSet, m_unknown, m_unverified, diffVars,
                       loopVars, m_deleting, m_future, m_syncBlockQueue, chain, now>>

\* verifyBlock returns.  When the thread's own placeholder is first, it is a
\* finished job like any other; else the placeholder, if it is still there,
\* becomes a finished job and nothing is drained.
VerifyReturns(v) ==
    LET h    == verifierWork[v]
        mine == {i \in DOMAIN m_verifying : m_verifying[i] = Job(h, FALSE)}
        done == [i \in DOMAIN m_verifying |->
                    IF i \in mine /\ \A j \in mine : i <= j THEN Job(h, TRUE)
                                                            ELSE m_verifying[i]]
    IN  /\ verifierPc[v] = "verify" /\ h \notin Invalid
        /\ m_lock = "free"
        /\ IF 1 \in mine
           THEN /\ drainVerified(done, m_knownBad, m_readySet)
                /\ StepVerifier(v, "signal", NoBlock)
           ELSE /\ m_verifying' = done
                /\ StepVerifier(v, "check", NoBlock)
                /\ UNCHANGED <<m_readySet, m_knownBad, m_verified>>
        /\ UNCHANGED <<m_drainingSet, m_unknownSet, m_unknown, m_unverified, diffVars,
                       loopVars, m_deleting, m_future, m_syncBlockQueue, chain, now>>

\* m_onReady(), after both locks are released: Client::onBlockQueueReady.
OnReady(v) ==
    /\ verifierPc[v] = "signal"
    /\ m_syncBlockQueue' = TRUE
    /\ StepVerifier(v, "check", NoBlock)
    /\ UNCHANGED <<setVars, queueVars, diffVars, loopVars, m_deleting, m_future, chain, now>>

-----------------------------------------------------------------------------
(* The remaining operations.                                                *)

\* Fault: the difficulty of the draining blocks survives.
clearDifficulty_draining == m_difficulty' = 0 /\ UNCHANGED m_drainingDifficulty
clearDifficulty == m_difficulty' = 0 /\ m_drainingDifficulty' = 0

clear ==
    /\ m_lock = "free"
    /\ m_readySet' = {} /\ m_drainingSet' = {} /\ m_unknownSet' = {}
    /\ m_unknown' = [p \in Hashes |-> <<>>]
    /\ m_verified' = <<>> /\ m_unverified' = <<>> /\ m_verifying' = <<>>
    /\ m_future' = <<>>
    /\ clearDifficulty
    /\ UNCHANGED <<m_knownBad, loopVars, threadVars, m_syncBlockQueue, chain, now>>

\* stop(): the flag is set under m_verification, the threads are notified
\* afterwards, then joined.
SetDeleting ==
    /\ ~m_deleting
    /\ m_deleting' = TRUE
    /\ UNCHANGED <<setVars, queueVars, diffVars, loopVars, verifierPc, verifierWork, m_future,
                   m_syncBlockQueue, chain, now>>

NotifyDeleting ==
    /\ m_deleting /\ NotifyAll
    /\ UNCHANGED <<setVars, queueVars, diffVars, loopVars, verifierWork, m_deleting, m_future,
                   m_syncBlockQueue, chain, now>>

\* drain(o_out, max) up to the release of m_lock, and what it hands over.
drainOut(max) ==
    IF m_drainingSet = {}
    THEN SubSeq(m_verified, 1, IF max < Len(m_verified) THEN max ELSE Len(m_verified))
    ELSE <<>>

drain(max) ==
    LET out == drainOut(max)
    IN  /\ m_lock = "free"
        /\ IF m_drainingSet = {}
           THEN /\ m_verified' = SubSeq(m_verified, Len(out) + 1, Len(m_verified))
                /\ m_drainingSet' = RangeOf(out)
                /\ m_drainingDifficulty' = Len(out)
                /\ m_readySet' = m_readySet \ RangeOf(out)
           ELSE UNCHANGED <<m_verified, m_drainingSet, m_drainingDifficulty, m_readySet>>
        /\ UNCHANGED <<m_unknownSet, m_knownBad, m_unknown, m_verifying, m_unverified,
                       m_difficulty, loopVars, threadVars, m_future, m_syncBlockQueue, chain,
                       now>>

\* doneDrain(bad), up to the calls of updateBad_WITH_LOCK.  Its result, before it
\* releases m_lock, is whether there are ready blocks.
doneDrain(bad) ==
    /\ m_lock = "free"
    /\ m_drainingSet' = {}
    /\ m_difficulty' = m_difficulty - m_drainingDifficulty
    /\ m_drainingDifficulty' = 0
    /\ m_knownBad' = m_knownBad \cup RangeOf(bad)
    /\ UpdateBad(bad)
    /\ UNCHANGED <<m_readySet, m_unknownSet, m_unknown, queueVars, goodQueue, notify,
                   threadVars, m_future, m_syncBlockQueue, chain, now>>

\* tick(), up to the calls of import: takes the blocks whose time has come.
DueCount == Cardinality({i \in DOMAIN m_future : Timestamp[m_future[i]] <= now})
tickTodo == SubSeq(m_future, 1, DueCount)

tick ==
    /\ m_lock = "free"
    /\ m_future' = SubSeq(m_future, DueCount + 1, Len(m_future))
    /\ UNCHANGED <<setVars, queueVars, diffVars, loopVars, threadVars, m_syncBlockQueue,
                   chain, now>>

-----------------------------------------------------------------------------
(* blockStatus(h), and the state as an outside caller sees it.               *)
blockStatus(h) ==
    IF h \in m_readySet         THEN "Ready"
    ELSE IF h \in m_drainingSet THEN "Importing"
    ELSE IF h \in m_unknownSet  THEN "UnknownParent"
    ELSE IF h \in m_knownBad    THEN "Bad"
    ELSE "Unknown"

BQTypeOK ==
    /\ m_readySet \subseteq Blocks /\ m_drainingSet \subseteq Blocks
    /\ m_unknownSet \subseteq Blocks /\ m_knownBad \subseteq Blocks \cup {EmptyListSHA3}
    /\ m_unknown \in [Hashes -> Seq(Blocks)]
    /\ m_future \in Seq(Blocks)
    /\ m_verified \in Seq(Blocks) /\ m_unverified \in Seq(Blocks)
    /\ m_verifying \in Seq(JobSet)
    /\ m_difficulty \in Int /\ m_drainingDifficulty \in Nat
    /\ m_deleting \in BOOLEAN
    /\ m_lock \in {"free", "noteReady", "retryAllUnknown", "updateBad", "moreBad", "updated"}
    /\ badLeft \in Seq(Blocks)
    /\ m_lock = "updateBad" => badLeft # <<>>
    /\ goodQueue \in Seq(Blocks) /\ notify \in BOOLEAN
    /\ m_lock = "noteReady" <=> goodQueue # <<>>
    /\ verifierPc \in [Verifiers -> {"check", "asleep", "verify", "signal", "done"}]
    /\ verifierWork \in [Verifiers -> Blocks \cup {NoBlock}]
    /\ \A v \in Verifiers : verifierPc[v] = "verify" <=> verifierWork[v] # NoBlock
    /\ m_syncBlockQueue \in BOOLEAN
    /\ chain \subseteq Blocks
    /\ now \in Nat
=============================================================================
