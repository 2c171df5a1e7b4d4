---------------------------- MODULE BlockChainSync ----------------------------
(***************************************************************************)
(* BlockChainSync: the download of a chain, headers first, from peers.     *)
(*                                                                         *)
(* Every handler holds x_sync and is one action.  A handler calls others,  *)
(* asks the block queue and asks peers, so that all it changes is one      *)
(* record, s: the members of BlockChainSync, what each EthereumPeer is     *)
(* asked for and has told of itself, and each block's status in the queue, *)
(* in the terms of BlockStatus.                                            *)
(*                                                                         *)
(* m_headers and m_bodies are maps of runs of consecutive numbers, which   *)
(* merge where they meet: one header or body per number, and a run is a    *)
(* maximal interval of numbers.  s.headers is the set of the blocks whose  *)
(* headers are there, s.bodies a function of the numbers.                  *)
(*                                                                         *)
(* A peer is a session with another node, which follows the best of its    *)
(* chains, keeps the blocks of the others, answers as EthereumHost does,   *)
(* may tell of its head and may be lost; a node that comes back is another *)
(* peer.  What a peer sends comes in order, once, or its session ends.     *)
(* Every block is valid.                                                   *)
(***************************************************************************)
EXTENDS Integers, FiniteSetsExt, SequencesExt, Functions

CONSTANTS
    Blocks, Genesis,
    Parent, number, difficulty, Body,   \* functions of a block; a body may be shared
    EmptyBody,
    Peers, Heads,   \* the blocks that may be a peer's head
    Starts,         \* the blocks that may be the head in the beginning
    Nothing,        \* no block, no request
    c_maxKnownCount

All == Blocks \cup {Genesis}

\* A finite tree, in which a number says how far a block is from the genesis.
ASSUME TreeAssumption ==
    /\ IsFiniteSet(Blocks) /\ Genesis \notin Blocks /\ number[Genesis] = 0
    /\ \A b \in Blocks : Parent[b] \in All /\ number[b] = number[Parent[b]] + 1
    /\ \A b \in All : number[b] \in Nat /\ difficulty[b] \in Nat
    /\ Heads \subseteq Blocks /\ Starts \subseteq All

\* What a peer may be asked for: bodies of no two blocks with one number.
Requests == [kind : {"BlockHeaders"}, from : Nat, count : Nat]
                \cup [kind : {"BlockBodies"},
                      of : {S \in SUBSET Blocks : \A b, c \in S : number[b] = number[c] => b = c}]

ASSUME NothingAssumption == Nothing \notin All \cup Requests

Ancestry[b \in All] == IF b = Genesis THEN {b} ELSE {b} \cup Ancestry[Parent[b]]
Line == [b \in All |-> Ancestry[b]]
Weight == [b \in All |-> FoldSet(LAMBDA c, d : d + difficulty[c], 0, Line[b])]
TotalDifficulty(b) == Weight[b]
\* The blocks with that number on the way to h: one or none.
LineAt(h, n) == {b \in Line[h] : number[b] = n}

VARIABLES
    s,
    chain, head,        \* the BlockChain: what it knows besides the genesis, and its best
    draining,           \* the block the client is importing, and how far it has come
    remote,             \* the heads a peer has had
    gone,               \* the peers that were lost
    turn                \* flips with every answer, so that every answer is a step

vars == <<s, chain, head, draining, remote, gone, turn>>

\* isKnown(): a block in the database; and one that is not above the head, either.
Stored(b) == b = Genesis \/ b \in chain
InChain(b) == b = Genesis \/ (b \in chain /\ number[b] <= number[head])
With(t, st) == {b \in Blocks : t.status[b] = st}
OnItsWay(t, b) == InChain(b) \/ b \in With(t, "Ready") \cup With(t, "Importing")

\* numberHash(): no hash above the head.
numberHash(n) == IF LineAt(head, n) = {} THEN Nothing ELSE CHOOSE b \in LineAt(head, n) : TRUE

Init ==
    /\ head \in Starts /\ chain = Line[head] \ {Genesis}
    /\ draining = [block |-> Nothing, at |-> "none"]
    /\ remote \in [Peers -> {{h} : h \in Heads}]
    /\ gone = {} /\ turn = FALSE
    /\ s = [state |-> "Idle",
            headers |-> {}, bodies |-> <<>>, idToNumber |-> <<>>,
            downloadingHeaders |-> {}, downloadingBodies |-> {},
            headerSyncPeers |-> [p \in Peers |-> {}], bodySyncPeers |-> [p \in Peers |-> {}],
            haveCommonHeader |-> FALSE,
            last |-> number[head], lastHash |-> head,
            syncingTotalDifficulty |-> 0,
            connected |-> {}, asking |-> [p \in Peers |-> Nothing],
            totalDifficulty |-> [p \in Peers |-> 0], latestHash |-> [p \in Peers |-> Genesis],
            status |-> [b \in Blocks |-> "Unknown"]]

-----------------------------------------------------------------------------
(* The block queue, as BlockQueue.tla has it.                               *)

Become(t, S, st) == [t EXCEPT !.status = [b \in Blocks |-> IF b \in S THEN st ELSE @[b]]]

\* The blocks of S that wait for b, directly or behind one another.
Behind(S, b) == {c \in S : b \in Line[c] /\ \A d \in Line[c] \ Line[b] : d \in S}

knownFull(t) == Cardinality(With(t, "Ready")) > c_maxKnownCount

importResult(t, b, body) ==
    IF t.status[b] # "Unknown" THEN "AlreadyKnown"
    ELSE IF body # Body[b] THEN "Malformed"
    ELSE IF InChain(b) THEN "AlreadyInChain"
    ELSE IF OnItsWay(t, Parent[b]) THEN "Success" ELSE "UnknownParent"

import(t, b, body) ==
    LET waiting == Behind(With(t, "UnknownParent"), b)
        result == importResult(t, b, body)
    IN  CASE result = "Success" -> Become(t, {b} \cup waiting, "Ready")
          [] result = "UnknownParent" -> Become(t, {b}, "UnknownParent")
          [] OTHER -> t

\* isActive() and difficulty().
QueuedDifficulty(t) ==
    IF With(t, "Ready") \cup With(t, "Importing") = {} THEN 0
    ELSE FoldSet(LAMBDA b, d : d + difficulty[b], 0,
                 With(t, "Ready") \cup With(t, "Importing") \cup With(t, "UnknownParent"))

-----------------------------------------------------------------------------
(* The members of BlockChainSync.                                           *)

Numbers(t) == {number[b] : b \in t.headers}
HeaderAt(t, n) == {b \in t.headers : number[b] = n}
\* The runs of a set of numbers: from n on, and the first.
RunFrom(N, n) == {k \in N : n <= k /\ n..k \subseteq N}
FirstRun(N) == RunFrom(N, Min(N))

KeepHeaders(t, N) == [t EXCEPT !.headers = {b \in @ : number[b] \in N}]
KeepBodies(t, N) == [t EXCEPT !.bodies = Restrict(@, DOMAIN @ \cap N)]

resetSync(t) ==
    [t EXCEPT !.downloadingHeaders = {}, !.downloadingBodies = {},
              !.headers = {}, !.bodies = <<>>, !.idToNumber = <<>>,
              !.headerSyncPeers = [p \in Peers |-> {}], !.bodySyncPeers = [p \in Peers |-> {}],
              !.syncingTotalDifficulty = 0, !.state = "NotSynced"]

\* With bq().clear().
restartSync(t) ==
    [resetSync(t) EXCEPT !.haveCommonHeader = FALSE, !.last = number[head], !.lastHash = head,
                         !.status = [b \in Blocks |-> "Unknown"]]

\* Fault: what was downloaded is kept.
completeSync_keep(t) == [t EXCEPT !.state = "Idle"]
completeSync(t) == [resetSync(t) EXCEPT !.state = "Idle"]

\* clearPeerDownload().  Faults: a mark of each kind is left, or those of headers.
clearPeerDownload_last(t, p) ==
    LET kept(S) == IF S = {} THEN {} ELSE {Max(S)}
    IN  [t EXCEPT !.downloadingHeaders = @ \ (t.headerSyncPeers[p] \ kept(t.headerSyncPeers[p])),
                  !.downloadingBodies = @ \ (t.bodySyncPeers[p] \ kept(t.bodySyncPeers[p])),
                  !.headerSyncPeers[p] = {}, !.bodySyncPeers[p] = {}]
clearPeerDownload_bodies(t, p) ==
    [t EXCEPT !.downloadingBodies = @ \ t.bodySyncPeers[p],
              !.headerSyncPeers[p] = {}, !.bodySyncPeers[p] = {}]
clearPeerDownload(t, p) ==
    [t EXCEPT !.downloadingHeaders = @ \ t.headerSyncPeers[p], !.headerSyncPeers[p] = {},
              !.downloadingBodies = @ \ t.bodySyncPeers[p], !.bodySyncPeers[p] = {}]

\* What EthereumPeer is asked for.
ByHash(b) == [kind |-> "BlockHeaders", from |-> number[b], count |-> 1]
ByNumber(n, count) == [kind |-> "BlockHeaders", from |-> n, count |-> count]
Bodies(S) == [kind |-> "BlockBodies", of |-> S]
Asked(t, p, request) == [t EXCEPT !.asking[p] = request]

\* requestBlocks(): bodies for the first run, ...
NeededBodies(t) ==
    IF t.haveCommonHeader /\ t.headers # {} /\ Min(Numbers(t)) = t.last + 1
    THEN FirstRun(Numbers(t)) \ (t.downloadingBodies \cup DOMAIN t.bodies)
    ELSE {}
AskBodies(t, p) ==
    LET needed == NeededBodies(t)
    IN  Asked([t EXCEPT !.bodySyncPeers[p] = needed, !.downloadingBodies = @ \cup needed],
              p, Bodies({b \in t.headers : number[b] \in needed}))

\* ... or headers, backwards one at a time until there is one in common, ...
StepBack(t) ==
    LET start == IF t.headers = {} THEN t.last ELSE Min({t.last, Min(Numbers(t)) - 1})
    IN  [t EXCEPT !.last = start, !.lastHash = numberHash(start), !.haveCommonHeader = start <= 1]

\* ... then the first gap between what is there and the next run that nobody fills.
AskHeaders(t, p) ==
    LET first == Min(Numbers(t))
        from == IF t.last + 1 < first THEN t.last + 1
                ELSE first + Cardinality(FirstRun(Numbers(t)))
        gaps == {n \in from..Max(Numbers(t)) : n \notin Numbers(t)}
        start == Min(gaps \ t.downloadingHeaders)
        needed == RunFrom(gaps, start) \ t.downloadingHeaders
    IN  IF t.headers = {} \/ gaps \subseteq t.downloadingHeaders THEN t
        ELSE Asked([t EXCEPT !.headerSyncPeers[p] = needed, !.downloadingHeaders = @ \cup needed],
                   p, ByNumber(start, Cardinality(needed)))

requestBlocks(t0, p) ==
    LET t == clearPeerDownload(t0, p)
        u == IF t.haveCommonHeader THEN t ELSE StepBack(t)
    IN  IF knownFull(t) THEN [t EXCEPT !.state = "Waiting"]
        ELSE IF NeededBodies(t) # {} THEN AskBodies(t, p)
        ELSE IF u.haveCommonHeader THEN AskHeaders(u, p)
        ELSE Asked(u, p, ByNumber(u.last, 1))

syncPeer(t, p, force) ==
    LET ours == TotalDifficulty(head) + QueuedDifficulty(t)
    IN  IF t.asking[p] # Nothing \/ t.state = "Waiting" THEN t
        ELSE IF force \/ t.totalDifficulty[p] > Max({t.syncingTotalDifficulty, ours})
        THEN Asked([t EXCEPT !.syncingTotalDifficulty = t.totalDifficulty[p],
                             !.state = IF @ \in {"Idle", "NotSynced"} THEN "Blocks" ELSE @],
                   p, ByHash(t.latestHash[p]))
        ELSE IF t.state = "Blocks" THEN requestBlocks(t, p) ELSE t

\* The peers come in the order of their ratings.  Fault: those that were lost, too.
continueSync_all(t) == {FoldLeft(LAMBDA u, p : syncPeer(u, p, FALSE), t, order) : order \in SetToSeqs(Peers)}
continueSync(t) == {FoldLeft(LAMBDA u, p : syncPeer(u, p, FALSE), t, order) : order \in SetToSeqs(t.connected)}

-----------------------------------------------------------------------------
(* Answers.                                                                 *)

\* The blocks of a set, each with its own number, from the lowest on.
InOrder(S) ==
    [i \in 1..Cardinality(S) |-> CHOOSE b \in S : Cardinality({c \in S : number[c] < number[b]}) = i - 1]

\* A result of a step of a loop that returns from its function if done.
Going(t) == [t |-> t, done |-> FALSE]
Done(t) == [t |-> t, done |-> TRUE]
Loop(Step(_, _), t, seq) ==
    FoldLeft(LAMBDA r, x : IF r.done THEN r ELSE Step(r.t, x), Going(t), seq)

\* The header of b does not follow what is there.
Mismatch(t, b) ==
    \/ \E a \in HeaderAt(t, number[b] - 1) : a # Parent[b]
    \/ number[b] = t.last + 1 /\ Parent[b] # t.lastHash

\* The headers from number n on do not follow what comes before them.  The identity
\* that is erased is that of the header just received.
ClearFollowing(t, b) ==
    LET n == number[b] + 1
        cut == RunFrom(Numbers(t), n)
        below == 0..(n - 1)
        u == [t EXCEPT !.idToNumber = Restrict(@, DOMAIN @ \ {Body[b]}),
                       !.downloadingBodies = @ \ cut, !.downloadingHeaders = @ \ cut]
    IN  KeepBodies(KeepHeaders(u, below), below)

Put(f, x, y) == [z \in DOMAIN f \cup {x} |-> IF z = x THEN y ELSE f[z]]
MergeHeader(t, b) ==
    IF Body[b] = EmptyBody
    THEN [t EXCEPT !.headers = @ \cup {b}, !.bodies = Put(@, number[b], EmptyBody)]
    ELSE [t EXCEPT !.headers = @ \cup {b}, !.idToNumber = Put(@, Body[b], number[b])]

\* Fault: a header that is there is taken, but not one that is too old.
Skipped_new(t, n) == HeaderAt(t, n) # {}
Skipped(t, n) == HeaderAt(t, n) # {} \/ (n <= t.last /\ t.haveCommonHeader)

OnHeader(t, b) ==
    LET n == number[b]
        follows == \A c \in HeaderAt(t, n + 1) : Parent[c] = b
    IN  IF Skipped(t, n) THEN Going(t)
        ELSE IF OnItsWay(t, b)
        THEN Going([t EXCEPT !.haveCommonHeader = TRUE, !.last = n, !.lastHash = b])
        ELSE IF t.haveCommonHeader /\ Mismatch(t, b) THEN Done(restartSync(t))
        ELSE Going(MergeHeader(IF t.haveCommonHeader /\ ~follows THEN ClearFollowing(t, b) ELSE t, b))

OnBody(t, body) ==
    IF body \in DOMAIN t.idToNumber /\ HeaderAt(t, t.idToNumber[body]) # {}
       /\ t.idToNumber[body] \notin DOMAIN t.bodies
    THEN Going([t EXCEPT !.idToNumber = Restrict(@, DOMAIN @ \ {body}),
                         !.bodies = Put(@, t.idToNumber[body], body)])
    ELSE Going(t)

\* collectBlocks(): a block of the first run is handed to the queue, ...
\* Fault: only its number is remembered.
NowLast_number(t, n, b) == IF n > t.last THEN [t EXCEPT !.last = n] ELSE t
NowLast(t, n, b) == IF n > t.last THEN [t EXCEPT !.last = n, !.lastHash = b] ELSE t

HandIn(t, b) ==
    LET n == number[b]
        result == importResult(t, b, t.bodies[n])
        u == import(t, b, t.bodies[n])
        isNew == n > t.last
    IN  CASE result = "Success" -> Going(NowLast(u, n, b))
          [] result = "Malformed" -> Done(restartSync(u))
          [] result = "AlreadyInChain" -> Going(u)
          [] OTHER -> Done(IF isNew THEN [resetSync(u) EXCEPT !.haveCommonHeader = FALSE] ELSE u)

\* ... as long as header and body are there.
collectBlocks(t) ==
    LET ready == FirstRun(Numbers(t)) \cap FirstRun(DOMAIN t.bodies)
        r == Loop(HandIn, t, InOrder({b \in t.headers : number[b] \in ready}))
        u == KeepBodies(KeepHeaders(r.t, Numbers(t) \ ready), DOMAIN t.bodies \ ready)
    IN  IF \/ ~t.haveCommonHeader \/ t.headers = {} \/ DOMAIN t.bodies = {}
           \/ Min(Numbers(t)) # t.last + 1 \/ Min(DOMAIN t.bodies) # t.last + 1 THEN t
        ELSE IF r.done THEN r.t
        ELSE IF u.headers = {} THEN completeSync(u) ELSE u

\* onPeerBlockHeaders and onPeerBlockBodies: before and after the items of an answer.
Received(t, p) == clearPeerDownload(Asked(t, p, Nothing), p)
OnAnswer(t, r) ==
    IF t.state # "Blocks" THEN {t}
    ELSE IF r.done THEN {r.t}
    ELSE continueSync(collectBlocks(r.t))

\* What a peer answers, as EthereumHost's blockHeaders() and blockBodies() do: from the
\* number of the hash on, the headers of its own chain, whatever hash it was asked for,
\* and the bodies of all blocks it knows; the first of them, as far as they fit.
Theirs(p) == CHOOSE h \in remote[p] : \A k \in remote[p] : TotalDifficulty(k) <= TotalDifficulty(h)
Known(p) == UNION {Line[h] : h \in remote[p]}
HeadersOf(h, request) ==
    InOrder({b \in Line[h] : number[b] \in request.from..(request.from + request.count - 1)})
SomePrefix(seq) == {SubSeq(seq, 1, n) : n \in (IF seq = <<>> THEN {0} ELSE 1..Len(seq))}

onPeerBlockHeaders(p) ==
    /\ s.asking[p] # Nothing /\ s.asking[p].kind = "BlockHeaders"
    /\ \E items \in SomePrefix(HeadersOf(Theirs(p), s.asking[p])) :
          s' \in OnAnswer(Received(s, p), Loop(OnHeader, Received(s, p), items))
    /\ turn' = ~turn
    /\ UNCHANGED <<chain, head, draining, remote, gone>>

onPeerBlockBodies(p) ==
    /\ s.asking[p] # Nothing /\ s.asking[p].kind = "BlockBodies"
    /\ \E blocks \in SomePrefix(InOrder(s.asking[p].of \cap Known(p))) :
          LET bodies == [i \in DOMAIN blocks |-> Body[blocks[i]]]
          IN  s' \in OnAnswer(Received(s, p), Loop(OnBody, Received(s, p), bodies))
    /\ turn' = ~turn
    /\ UNCHANGED <<chain, head, draining, remote, gone>>
-----------------------------------------------------------------------------
(* What peers do of themselves.                                             *)

\* onPeerStatus(), for a peer of our network.
onPeerStatus(p) ==
    /\ p \notin s.connected \cup gone
    /\ s' = syncPeer([s EXCEPT !.connected = @ \cup {p}, !.asking[p] = Nothing,
                               !.totalDifficulty[p] = TotalDifficulty(Theirs(p)),
                               !.latestHash[p] = Theirs(p)], p, FALSE)
    /\ UNCHANGED <<chain, head, draining, remote, gone, turn>>

\* onPeerAborting(): what the peer was to deliver is free again.
onPeerAborting(p) ==
    /\ p \in s.connected
    /\ s' \in continueSync(clearPeerDownload([s EXCEPT !.connected = @ \ {p}, !.asking[p] = Nothing,
                                                         !.totalDifficulty[p] = 0, !.latestHash[p] = Genesis], p))
    /\ gone' = gone \cup {p} /\ remote' = [remote EXCEPT ![p] = {Genesis}]
    /\ UNCHANGED <<chain, head, draining, turn>>

\* The block is taken without a download.
TakenOver(t, b) ==
    LET n == number[b]
        cut(N) == N \ (IF n \in N THEN RunFrom(N, n) ELSE {})
        u == [NowLast(t, n, b) EXCEPT !.downloadingBodies = @ \ {n}, !.downloadingHeaders = @ \ {n}]
        v == KeepBodies(KeepHeaders(u, cut(Numbers(t))), cut(DOMAIN t.bodies))
    IN  IF v.headers = {} THEN completeSync(v) ELSE v

\* onPeerNewBlock(): the peer sends its new head.
onPeerNewBlock(p) ==
    LET b == Theirs(p)
        result == importResult(s, b, Body[b])
        u == import(s, b, Body[b])
    IN  /\ p \in s.connected
        /\ s' = IF number[b] > s.last + 1 THEN syncPeer(s, p, TRUE)
                ELSE IF result = "Success" THEN TakenOver(u, b)
                ELSE IF result = "UnknownParent" /\ TotalDifficulty(b) > s.totalDifficulty[p]
                     THEN syncPeer(u, p, TRUE)
                ELSE u
        /\ UNCHANGED <<chain, head, draining, remote, gone, turn>>

\* onPeerNewHashes(): the peer sends the hash of its new head.
onPeerNewHashes(p) ==
    /\ p \in s.connected /\ s.asking[p] = Nothing
    /\ ~OnItsWay(s, Theirs(p)) /\ s.status[Theirs(p)] = "Unknown"
    /\ s' = syncPeer([s EXCEPT !.latestHash[p] = Theirs(p)], p, TRUE)
    /\ UNCHANGED <<chain, head, draining, remote, gone, turn>>

\* A peer finds a better chain.
Reorganise(p) ==
    /\ p \in s.connected
    /\ \E h \in Heads : /\ TotalDifficulty(h) > TotalDifficulty(Theirs(p))
                        /\ remote' = [remote EXCEPT ![p] = @ \cup {h}]
    /\ UNCHANGED <<s, chain, head, draining, gone, turn>>

-----------------------------------------------------------------------------
(* The client imports what is in the queue, one block at a time.            *)

Drain ==
    /\ draining.at = "none"
    /\ \E b \in With(s, "Ready") :
          /\ Parent[b] \notin With(s, "Ready")
          /\ s' = Become(s, {b}, "Importing")
          /\ draining' = [block |-> b, at |-> IF knownFull(s) /\ ~knownFull(s') THEN "room" ELSE "import"]
    /\ UNCHANGED <<chain, head, remote, gone, turn>>

onRoomAvailable ==
    /\ draining.at = "room"
    /\ s' \in continueSync([s EXCEPT !.state = "Blocks"])
    /\ draining' = [draining EXCEPT !.at = "import"]
    /\ UNCHANGED <<chain, head, remote, gone, turn>>

Enact ==
    /\ draining.at = "import"
    /\ LET b == draining.block
           good == Stored(Parent[b]) /\ ~InChain(b)
           best == good /\ TotalDifficulty(b) > TotalDifficulty(head)
       IN  /\ chain' = IF good THEN chain \cup {b} ELSE chain
           /\ head' = IF best THEN b ELSE head
           /\ draining' = [draining EXCEPT !.at = IF best THEN "best" ELSE "done"]
    /\ UNCHANGED <<s, remote, gone, turn>>

onBlockImported ==
    /\ draining.at = "best"
    /\ s' = NowLast(s, number[draining.block], draining.block)
    /\ draining' = [draining EXCEPT !.at = "done"]
    /\ UNCHANGED <<chain, head, remote, gone, turn>>

\* doneDrain().
DoneDrain ==
    /\ draining.at = "done"
    /\ s' = Become(s, With(s, "Importing"), "Unknown")
    /\ draining' = [block |-> Nothing, at |-> "none"]
    /\ UNCHANGED <<chain, head, remote, gone, turn>>

-----------------------------------------------------------------------------
Client == Drain \/ onRoomAvailable \/ Enact \/ onBlockImported \/ DoneDrain
Answer(p) == onPeerBlockHeaders(p) \/ onPeerBlockBodies(p)
Next ==
    \/ Client
    \/ \E p \in Peers : \/ Answer(p) \/ onPeerStatus(p) \/ onPeerAborting(p)
                        \/ onPeerNewBlock(p) \/ onPeerNewHashes(p) \/ Reorganise(p)

Spec == Init /\ [][Next]_vars
\* Fairness: the client's thread goes on while there is something to import, and a peer
\* that is asked answers (one that does not is lost: EthereumPeer::tick()).  A step of
\* the client is one that changes draining, an answer one that flips turn.
Imported ==
    /\ draining.at # "none" \/ With(s, "Ready") # {}
    /\ draining' \in [block : Blocks \cup {Nothing}, at : {"none", "room", "import", "best", "done"}]
Answered == (\E p \in Peers : s.asking[p] # Nothing) /\ turn' = ~turn
FairSpec == Spec /\ WF_draining(Imported) /\ WF_turn(Answered)
-----------------------------------------------------------------------------
(* Properties.                                                              *)

\* There is one header per number, what is asked for is on its way to a peer that is
\* there.
TypeOK ==
    /\ s.state \in {"Idle", "NotSynced", "Blocks", "Waiting"}
    /\ head \in chain \cup {Genesis} /\ s.headers \subseteq Blocks
    /\ \A b, c \in s.headers : number[b] = number[c] => b = c
    /\ \A p \in Peers : s.asking[p] # Nothing => p \in s.connected

\* Every number that is marked as being downloaded is to be delivered by a peer that
\* has been asked: a mark without such a peer keeps everybody else from asking for it,
\* and the sync stands still.
MarksHaveOwners ==
    /\ \A n \in s.downloadingHeaders : \E p \in s.connected :
          n \in s.headerSyncPeers[p] /\ s.asking[p] # Nothing /\ s.asking[p].kind = "BlockHeaders"
    /\ \A n \in s.downloadingBodies : \E p \in s.connected :
          n \in s.bodySyncPeers[p] /\ s.asking[p] # Nothing /\ s.asking[p].kind = "BlockBodies"

\* m_lastImportedBlock and m_lastImportedBlockHash are of one block, and it is stored or
\* on its way there: the header that comes next is held against that hash.
LastIsKnown ==
    s.lastHash # Nothing =>
        /\ number[s.lastHash] = s.last
        /\ Stored(s.lastHash) \/ s.lastHash \in With(s, "Ready") \cup With(s, "Importing")

\* When there is no sync there is nothing left of one: no header, body or mark that the
\* next sync, from another peer, would build upon.
IdleIsClean ==
    s.state = "Idle" => /\ s.headers = {} /\ DOMAIN s.bodies = {}
                        /\ s.downloadingHeaders = {} /\ s.downloadingBodies = {}

\* Nothing is left of a sync that has ended, and nothing is marked that nobody delivers.
SyncConsistent == TypeOK /\ MarksHaveOwners /\ IdleIsClean

\* While a common block is known the download never goes back: no answer, however late
\* and from whomever, lowers m_lastImportedBlock, but one that starts it anew from a head
\* that has no block below to look for in common (restartSync(), requestBlocks()).
LastAdvances ==
    [][s.haveCommonHeader /\ s'.haveCommonHeader
       => s'.last >= s.last \/ (s'.last = number[head] /\ s'.last <= 1)]_vars

\* A peer that is the only one there ever is, and stays, is caught up with: what it has
\* told of its chain's difficulty is reached, through forks, pauses and partial answers.
CatchesUp ==
    \A p \in Peers :
        [](gone = {} /\ s.connected \subseteq {p}) /\ <>(p \in s.connected)
        => <>[](TotalDifficulty(head) >= s.totalDifficulty[p])

(* What comments and assertions say, and TLC finds broken.                  *)

\* "Called after all blocks have been downloaded" (completeSync()).
CompletesWhole ==
    [][s.state # "Idle" /\ s'.state = "Idle" => s.syncingTotalDifficulty <= TotalDifficulty(s'.lastHash)]_vars

\* "@returns true is Sync is in progress" (isSyncing()): somebody is asked, or will be.
InProgress ==
    s.state # "Idle" ~> (s.state = "Idle" \/ \E p \in s.connected : s.asking[p] # Nothing)

\* "Highest peer difficulty" (m_syncingTotalDifficulty).
HighestPeerDifficulty ==
    s.syncingTotalDifficulty # 0 => \E p \in s.connected : s.syncingTotalDifficulty = s.totalDifficulty[p]

\* "Header is too old" (invariants()).
HeaderIsNew == s.state # "Idle" /\ s.headers # {} => s.last < Min(Numbers(s))

\* "Header download map mismatch" (invariants()).
HeaderMapsMatch == (\A p \in Peers : s.headerSyncPeers[p] = {}) <=> s.downloadingHeaders = {}

\* "validate chain" (onPeerBlockHeaders()): the headers are a chain.
HeadersLinked ==
    s.haveCommonHeader => \A b, c \in s.headers : number[c] = number[b] + 1 => Parent[c] = b

\* "Used to identify header by transactions and uncles hashes" (HeaderId): a body is
\* that of the header with its number.
BodiesMatch == \A b \in s.headers : number[b] \in DOMAIN s.bodies => s.bodies[number[b]] = Body[b]
=============================================================================
