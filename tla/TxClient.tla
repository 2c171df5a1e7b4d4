------------------------------ MODULE TxClient ------------------------------
(***************************************************************************)
(* Client and its transaction queue: the work thread that executes queued  *)
(* transactions into the block being mined, and follows the chain.         *)
(*                                                                         *)
(* Three kinds of thread meet here.  Anybody imports transactions (the     *)
(* queue's verifiers, RPC) or clears the pending ones; a miner hands in a  *)
(* sealed block; the work thread runs doWork again and again.  pc is where *)
(* it stands, and it stops at every point at which it holds none of the    *)
(* locks the others need.                                                  *)
(*                                                                         *)
(* A chain is the sequence of its blocks, a block the sequence of its      *)
(* transactions; longer is heavier.  The blocks come from BlockImport,     *)
(* which is not repeated here: a batch of them is there at any time.       *)
(***************************************************************************)
EXTENDS TransactionQueue, Sequences

SX == INSTANCE SequencesExt

CONSTANTS
    Chains,             \* the chains there may be, but for the genesis, <<>>
    MaxBatch,           \* bound: how many blocks are drained at a time
    c_maxSyncTransactions

ASSUME BoundsAssumption == MaxBatch \in Nat /\ c_maxSyncTransactions \in Nat
ASSUME ChainsAssumption == Chains \subseteq Seq(Seq(Txs)) \ {<<>>}
\* The limits of the queue are TransactionQueue's matter.
ASSUME RoomAssumption ==
    Cardinality(Txs) <= m_limit /\ Cardinality(Txs) <= m_futureLimit

VARIABLES
    imported, chain,            \* the BlockChain: every chain known, and the best
    base, working, committed, sealed,   \* m_preSeal; m_working on top of it
    m_postSeal, ownBlock,       \* its transactions; its chain once it is sealed
    m_syncTransactionQueue, m_needStateReset,
    pc, calls,                  \* the work thread; what it still has to tell the queue
    ts, unfit, pos, goodTxs, receipts,  \* the locals of Block::sync
    late, outbid, owed          \* history, see History

chainVars == <<imported, chain>>
workVars == <<base, working, committed, sealed>>
postVars == <<m_postSeal, ownBlock>>
flagVars == <<m_syncTransactionQueue, m_needStateReset>>
syncVars == <<ts, unfit, pos, goodTxs, receipts>>
historyVars == <<late, outbid, owed>>
vars == <<tqVars, chainVars, workVars, postVars, flagVars, pc, calls, syncVars, historyVars>>

Init ==
    /\ TQInit
    /\ imported = {<<>>} /\ chain = <<>>
    /\ base = <<>> /\ working = <<>> /\ committed = FALSE /\ sealed = FALSE
    /\ m_postSeal = <<>> /\ ownBlock = <<>>
    /\ m_syncTransactionQueue = FALSE /\ m_needStateReset = FALSE
    /\ pc = "start" /\ calls = <<>>
    /\ ts = <<>> /\ unfit = {} /\ pos = 1 /\ goodTxs = 0 /\ receipts = 0
    /\ late = {} /\ outbid = {} /\ owed = {}

-----------------------------------------------------------------------------
Elements(s) == SX!ToSet(s)
TxsOf(blocks) == Elements(SX!FlattenSeq(blocks))

\* The nonce an account's next transaction has to have.
\* Fault: only the chain is asked.
Required_base(t) == Cardinality({u \in TxsOf(base) : from[u] = from[t]})
Required(t) == Cardinality({u \in TxsOf(base) \cup Elements(working) : from[u] = from[t]})

\* What the queue tells the client: m_onReady and m_onReplaced.
Signals(ready, replaced) ==
    /\ m_syncTransactionQueue' = (m_syncTransactionQueue \/ ready)
    /\ m_needStateReset' = (m_needStateReset \/ replaced)

\* Fault: the event is raised where a future transaction is replaced.
Replaced_future(t) == Rivals(t).future # {}
Replaced(t) == Rivals(t).current # {}

Import(t, retry) ==
    \/ /\ import(t, retry)
       /\ Signals(TRUE, Replaced(t))
    \/ /\ ~(Admitted(t, retry) /\ Outbids(t))
       /\ UNCHANGED <<tqVars, flagVars>>

\* A call of the work thread, of onDeadBlocks, onChainChanged or resyncStateFromChain.
DeadCall(t) == [dead |-> TRUE, tx |-> t]
GoodCall(t) == [dead |-> FALSE, tx |-> t]
Perform(call) ==
    \E t \in Txs :
       \/ /\ call = DeadCall(t)
          /\ Import(t, TRUE)
       \/ /\ call = GoodCall(t)
          /\ dropGood(t)
          /\ Signals(Following(future, t) # {}, FALSE)

-----------------------------------------------------------------------------
(* Other threads.                                                           *)

\* A verifier that is done with a transaction, or submitTransaction().
Submit(t) ==
    /\ Admitted(t, FALSE) /\ Outbids(t)
    /\ Import(t, FALSE)
    /\ UNCHANGED <<chainVars, workVars, postVars, pc, calls, syncVars>>

\* clearPending().  x_postSeal is held by resyncStateFromChain() while it resubmits.
clearPending ==
    /\ pc # "resubmit" /\ m_postSeal # <<>>
    /\ clear
    /\ m_postSeal' = <<>> /\ ownBlock' = <<>>
    /\ UNCHANGED <<chainVars, workVars, flagVars, pc, calls, syncVars>>

\* submitSealed(), in a miner's thread.  x_working is held throughout Block::sync.
submitSealed ==
    /\ pc # "pass" /\ committed /\ ~sealed
    /\ sealed' = TRUE
    /\ m_postSeal' = working /\ ownBlock' = Append(base, working)
    /\ UNCHANGED <<tqVars, chainVars, base, working, committed, flagVars, pc, calls, syncVars>>
-----------------------------------------------------------------------------
(* The work thread.                                                         *)

\* The batches a sync may drain: chains whose parents are known, or come before.
Batches ==
    {b \in UNION {[1..n -> Chains \ imported] : n \in 1..MaxBatch} :
        \A i \in DOMAIN b : /\ SX!Front(b[i]) \in imported \cup {b[j] : j \in 1..(i - 1)}
                            /\ \A j \in 1..(i - 1) : b[j] # b[i]}

Common(c, d) == Len(SX!LongestCommonPrefix({c, d}))
Dead(c, d) == SX!Reverse(SubSeq(c, Common(c, d) + 1, Len(c)))

\* BlockChain::sync over a batch, from the head c: the new head, what was dead on the
\* way, and whether anything came alive.
Routed(r, d) ==
    IF Len(d) > Len(r.head)
    THEN [head |-> d, dead |-> r.dead \o Dead(r.head, d), live |-> TRUE]
    ELSE r
Synced(b, c) == SX!FoldLeft(Routed, [head |-> c, dead |-> <<>>, live |-> FALSE], b)

MapCalls(Call(_), txs) == [i \in DOMAIN txs |-> Call(txs[i])]

\* onDeadBlocks, then the good transactions: those of every block imported, whether it is
\* in the chain or beside it.
ChainCalls(dead, good) == MapCalls(DeadCall, dead) \o MapCalls(GoodCall, good)

syncBlockQueue ==
    /\ pc = "start"
    /\ \E b \in Batches :
          LET r == Synced(b, chain) IN
          /\ imported' = imported \cup Elements(b)
          /\ chain' = r.head
          /\ IF r.live
             THEN /\ pc' = "calls"
                  /\ calls' = ChainCalls(SX!FlattenSeq(r.dead),
                                         SX!FlattenSeq([i \in DOMAIN b |-> SX!Last(b[i])]))
             ELSE pc' = "reset" /\ UNCHANGED calls
    /\ UNCHANGED <<tqVars, workVars, postVars, flagVars, syncVars>>

noBlocks ==
    /\ pc = "start" /\ pc' = "reset"
    /\ UNCHANGED <<tqVars, chainVars, workVars, postVars, flagVars, calls, syncVars>>

\* onChainChanged, and the resubmission of resyncStateFromChain: one call.
NextCall ==
    /\ pc \in {"calls", "resubmit"} /\ calls # <<>>
    /\ Perform(Head(calls))
    /\ calls' = Tail(calls)
    /\ UNCHANGED <<chainVars, workVars, postVars, pc, syncVars>>

\* What the work thread forgets of m_working, for m_preSeal.
Fresh == working' = <<>> /\ committed' = FALSE /\ sealed' = FALSE

\* What is resubmitted when the new head is parent.  Fault: nothing.
Resubmitted_none(parent) == <<>>
Resubmitted(parent) == IF ownBlock = parent THEN <<>> ELSE m_postSeal

\* resyncStateFromChain(), up to the resubmission; isMajorSyncing() is the network's.
resyncStateFromChain ==
    /\ pc = "calls" /\ calls = <<>>
    /\ \/ pc' = "reset" /\ UNCHANGED <<workVars, flagVars, calls>>      \* isMajorSyncing()
       \/ IF base # chain
          THEN /\ base' = chain /\ Fresh
               /\ calls' = MapCalls(DeadCall, Resubmitted(chain))
               /\ pc' = "resubmit"
               /\ UNCHANGED flagVars
          ELSE /\ pc' = "reset"
               /\ Signals(TRUE, FALSE)
               /\ UNCHANGED <<workVars, calls>>
    /\ UNCHANGED <<tqVars, chainVars, postVars, syncVars>>

resyncDone ==
    /\ pc = "resubmit" /\ calls = <<>>
    /\ m_postSeal' = working /\ ownBlock' = <<>>
    /\ Signals(TRUE, FALSE)
    /\ pc' = "reset"
    /\ UNCHANGED <<tqVars, chainVars, workVars, calls, syncVars>>

resetState ==
    /\ pc = "reset"
    /\ IF m_needStateReset
       THEN /\ Fresh /\ m_postSeal' = <<>> /\ ownBlock' = <<>>
            /\ Signals(TRUE, FALSE)
            /\ pc' = "clear"
       ELSE pc' = "check" /\ UNCHANGED <<working, committed, sealed, postVars, flagVars>>
    /\ UNCHANGED <<tqVars, chainVars, base, calls, syncVars>>

resetDone ==
    /\ pc = "clear" /\ pc' = "check"
    /\ m_needStateReset' = FALSE
    /\ UNCHANGED <<tqVars, chainVars, workVars, postVars, m_syncTransactionQueue, calls, syncVars>>

\* The tests before syncTransactionQueue(); isSyncing() and m_remoteWorking may be true.
checkSync ==
    /\ pc = "check"
    /\ \/ pc' = "rejig" /\ UNCHANGED flagVars
       \/ /\ ~sealed /\ m_syncTransactionQueue
          /\ m_syncTransactionQueue' = FALSE
          /\ pc' = "sync" /\ UNCHANGED m_needStateReset
    /\ UNCHANGED <<tqVars, chainVars, workVars, postVars, calls, syncVars>>

\* The miner was faster.
skipSync ==
    /\ pc = "sync" /\ sealed /\ pc' = "rejig"
    /\ UNCHANGED <<tqVars, chainVars, workVars, postVars, flagVars, calls, syncVars>>
-----------------------------------------------------------------------------
(* Block::sync(TransactionQueue), with x_working held.                      *)

\* topTransactions().
InOrder(S) == [i \in 1..Cardinality(S) |->
                  CHOOSE t \in S : Cardinality({u \in S : <<u, t>> \in order}) = i - 1]
topTransactions(limit, avoid) ==
    LET all == InOrder(current \ avoid)
    IN  SubSeq(all, 1, IF Len(all) < limit THEN Len(all) ELSE limit)

\* unfit: for which the block has no gas left, or which bid a little less than is asked.
syncBegin ==
    /\ pc = "sync" /\ ~sealed
    /\ ts' = topTransactions(c_maxSyncTransactions, Elements(working))
    /\ unfit' \in SUBSET Elements(ts')
    /\ pos' = 1 /\ goodTxs' = 0 /\ receipts' = 0
    /\ pc' = "pass"
    /\ UNCHANGED <<tqVars, chainVars, workVars, postVars, flagVars, calls>>

Drop(t) == drop(t) \/ (t \notin m_known /\ UNCHANGED tqVars)
SetFuture(t) == setFuture(t) \/ (t \notin current /\ UNCHANGED tqVars)
waiting(t) == Cardinality({u \in byNonce \cup future : from[u] = from[t]})

\* One transaction of the snapshot.
execute(t) ==
    /\ nonce[t] = Required(t)
    /\ working' = Append(working, t) /\ committed' = FALSE
    /\ goodTxs' = goodTxs + 1 /\ receipts' = receipts + 1
    /\ UNCHANGED tqVars
\* Bids less than 90 %, has more gas than any block, or cannot be executed.
reject(t) ==
    /\ Drop(t)
    /\ UNCHANGED <<working, committed, goodTxs, receipts>>
wrongNonce(t) ==
    /\ nonce[t] # Required(t)
    /\ IF nonce[t] < Required(t) \/ nonce[t] > Required(t) + waiting(t) THEN Drop(t)
       ELSE SetFuture(t)
    /\ UNCHANGED <<working, committed, goodTxs, receipts>>

syncOne ==
    /\ pc = "pass" /\ pos <= Len(ts)
    /\ pos' = pos + 1
    /\ \E t \in Txs :
          /\ ts[pos] = t
          /\ IF t \in Elements(working) \cup unfit
             THEN UNCHANGED <<tqVars, working, committed, goodTxs, receipts>>
             ELSE execute(t) \/ reject(t) \/ wrongNonce(t)
    /\ UNCHANGED <<chainVars, base, sealed, postVars, flagVars, pc, calls, ts, unfit>>

\* What sync() returns when the snapshot is done with, or the deadline is over.
\* Fault: a deadline is taken for the end.
MoreToCome_full(deadline) == Len(ts) = c_maxSyncTransactions
MoreToCome(deadline) == deadline \/ Len(ts) = c_maxSyncTransactions

\* The end of a pass.  The flag is assigned: a transaction that was imported meanwhile
\* has set it for nothing.
syncPass ==
    /\ pc = "pass" /\ pos > Len(ts)
    /\ \/ \E deadline \in BOOLEAN :
             /\ IF deadline THEN ts # <<>> ELSE goodTxs = Len(ts)
             /\ m_syncTransactionQueue' = MoreToCome(deadline)
             /\ pc' = IF receipts = 0 THEN "rejig" ELSE "publish"
             /\ ts' = <<>> /\ unfit' = {} /\ pos' = 1 /\ goodTxs' = 0
             /\ UNCHANGED receipts
       \/ /\ goodTxs < Len(ts)
          /\ pos' = 1 /\ goodTxs' = 0
          /\ UNCHANGED <<m_syncTransactionQueue, pc, ts, unfit, receipts>>
    /\ UNCHANGED <<tqVars, chainVars, workVars, postVars, m_needStateReset, calls>>

\* The rest of syncTransactionQueue(): m_postSeal = m_working, ...
Posted == m_postSeal' = working /\ ownBlock' = IF sealed THEN Append(base, working) ELSE <<>>
publish ==
    /\ pc = "publish" /\ Posted /\ pc' = "announce"
    /\ UNCHANGED <<tqVars, chainVars, workVars, flagVars, calls, syncVars>>

\* ... and the watches are told of m_postSeal.pending()[i], for every new receipt.
announce ==
    /\ pc = "announce" /\ pc' = "rejig"
    /\ receipts' = 0
    /\ UNCHANGED <<tqVars, chainVars, workVars, postVars, flagVars, calls, ts, unfit, pos, goodTxs>>

\* rejigSealing(); whether it is time to seal is the engine's.
rejigSealing ==
    /\ pc = "rejig" /\ pc' = "start"
    /\ \/ UNCHANGED <<committed, postVars>>
       \/ ~sealed /\ committed' = TRUE /\ Posted
    /\ UNCHANGED <<tqVars, chainVars, base, working, sealed, flagVars, calls, syncVars>>

-----------------------------------------------------------------------------
WorkThread ==
    \/ syncBlockQueue \/ noBlocks \/ NextCall \/ resyncStateFromChain \/ resyncDone
    \/ resetState \/ resetDone \/ checkSync \/ skipSync
    \/ syncBegin \/ syncOne \/ syncPass \/ publish \/ announce \/ rejigSealing
Others == (\E t \in Txs : Submit(t)) \/ clearPending \/ submitSealed

\* late: what has become current since the last snapshot.
\* outbid: what was current when it was replaced, and is in a block or in a snapshot.
\* owed: what a change of the chain may not lose: the transactions of dead blocks and the
\* pending ones, but for the slots that the blocks just imported have filled.
History ==
    /\ late' = IF pc = "sync" /\ pc' = "pass" THEN {}
               ELSE (late \cup (current' \ current)) \cap current'
    /\ outbid' = (outbid \cup {t \in current \ current' : InSlot(current' \ current, t) # {}})
                     \cap ((Elements(working') \cup Elements(ts')) \ current')
    /\ owed' = IF pc = "start" /\ pc' = "calls"
               THEN LET new == UNION {Elements(SX!Last(c)) : c \in imported' \ imported}
                    IN  {t \in (TxsOf(chain) \ TxsOf(chain')) \cup Elements(m_postSeal) :
                            InSlot(new, t) = {}}
               ELSE IF pc' = "reset" \/ (current' = {} /\ m_known' = {}) THEN {} ELSE owed

Next == (WorkThread \/ Others) /\ History

Spec == Init /\ [][Next]_vars

-----------------------------------------------------------------------------
(* Properties.                                                              *)

\* Every transaction in m_working has the nonce that the chain and those before it leave.
ClientTypeOK ==
    /\ chain \in imported /\ base \in imported
    /\ Elements(working) \subseteq Txs /\ Elements(m_postSeal) \subseteq Txs
    /\ \A i \in DOMAIN working :
          LET before == TxsOf(base) \cup Elements(SubSeq(working, 1, i - 1))
          IN  nonce[working[i]] = Cardinality({u \in before : from[u] = from[working[i]]})

\* When the work thread is about to sleep and nothing asks it to go on, every current
\* transaction is in the block, or has become current after the last snapshot was taken:
\* a full snapshot, a deadline, a reset and a new chain all make it come back.
IdleOwesNothing ==
    pc = "start" /\ ~m_syncTransactionQueue /\ ~sealed =>
        current \ Elements(working) \subseteq late

\* The block is one that can be mined, and complete when the work thread goes to sleep.
WorkConsistent == ClientTypeOK /\ IdleOwesNothing

\* A transaction that was outbid while it was current leaves the block being mined:
\* as long as it is there, a reset is due.
OutbidIsReset == outbid \cap Elements(working) # {} => m_needStateReset

\* A change of the chain loses no transaction that was pending or in a block that is
\* dead now: it is queued or pending again, or its slot is taken, by a queued
\* transaction or in the chain, or the queue holds it for known.
ReorgKeeps ==
    [][pc' = "reset" =>
          \A t \in owed : \/ InSlot(Queued' \cup TxsOf(chain') \cup Elements(m_postSeal'), t) # {}
                          \/ t \in m_known']_vars

-----------------------------------------------------------------------------
(* Promises of the code's comments that TLC finds broken.                   *)

\* "true iff there are more transactions to be processed" (Block.h:220).
MoreIsTrue ==
    pc = "start" /\ ~m_syncTransactionQueue /\ ~sealed => current \subseteq Elements(working)

\* "too old" (Block.cpp:343): the chain has the nonce, or a transaction in the block
\* that bids more.
KilledAreOld ==
    [][\A t \in (m_dropped' \ m_dropped) : nonce[t] < Required(t) =>
          \/ InSlot(TxsOf(base), t) # {}
          \/ \E u \in InSlot(Elements(working), t) : gasPrice[u] > gasPrice[t]]_vars

\* "Tell watches about the new transactions." (Client.cpp:456)
NewAreAnnounced ==
    pc = "announce" =>
        /\ receipts <= Len(m_postSeal)
        /\ \A i \in 1..receipts :
              m_postSeal[i] \in Elements(SubSeq(working, Len(working) - receipts + 1, Len(working)))

\* "remove transactions from m_tq nicely rather than relying on out of date nonce later
\* on" (Client.cpp:489).
MinedStaysOut ==
    [][pc' = "reset" /\ pc = "resubmit" => Queued' \cap TxsOf(chain') = {}]_vars
=============================================================================
