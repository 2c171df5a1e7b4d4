----------------------------- MODULE Executive -----------------------------
(***************************************************************************)
(* The execution of transactions (Executive.cpp, ExtVM.cpp and             *)
(* State::execute): an Executive for every call and creation, each with a  *)
(* savepoint in the change log of the one State, to which it goes back     *)
(* when its code ends in an exception.  What the code computes is not      *)
(* modelled: a contract does what it likes, as long as its gas lasts.      *)
(***************************************************************************)
EXTENDS State, FiniteSetsExt

CONSTANTS Senders,           \* the accounts with a key
          Precompiled,       \* the addresses that are precompiled contracts
          Amounts, GasCosts, \* what is transferred, what is paid for gas
          EIP158,            \* is the block behind EIP158ForkBlock?
          genesis,           \* the accounts at first
          DepthLimit,        \* 1024
          MaxLog,            \* bound: how long the change log gets (gas bounds it)
          MaxTransactions    \* bound

ASSUME ExecutiveAssumption ==
    /\ Senders \subseteq Address /\ Precompiled \subseteq Address
    /\ Amounts \subseteq Balances /\ GasCosts \subseteq Balances
    /\ EIP158 \in BOOLEAN
    /\ genesis \in [Address -> Accounts \cup {None}]
    /\ DepthLimit \in Nat /\ MaxLog \in Nat /\ MaxTransactions \in Nat

VARIABLES
    m_s,             \* the State
    frames,          \* the Executives whose code is running, from the outermost
    phase,           \* "idle", "running", "rollback", "finalized"
    tx,              \* the sender, and what it has paid for gas
    suicides,        \* the suicides in what m_ext has left
    transactions

vars == <<m_s, frames, phase, tx, suicides, transactions>>

Init ==
    /\ m_s = [trie |-> genesis, cache |-> [a \in Address |-> None], log |-> <<>>,
              absent |-> {}, unchanged |-> {}]
    /\ frames = <<>> /\ phase = "idle" /\ tx = None /\ suicides = {} /\ transactions = 0

-----------------------------------------------------------------------------
(* What a State shows, and what each frame has found when it was opened.     *)
(* The frames' "saved" is not in the code: the savepoint is to stand for it. *)

Condemned(s) ==
    {a \in Address : s.cache[a] # None /\ s.cache[a].alive /\ s.cache[a].dirty /\ isEmpty(s.cache[a].data)}
AllSuicides == {a \in Address : a \in suicides \/ \E i \in DOMAIN frames : a \in frames[i].suicides}
ViewOf(s) ==
    [world |-> [a \in Address |-> AccountOf(s, a)], condemned |-> Condemned(s), suicides |-> AllSuicides]

Frame(s, a, isCreation) ==
    [address |-> a, creation |-> isCreation, savepoint |-> Len(s.log), suicides |-> {}, saved |-> ViewOf(s)]
Top == frames[Len(frames)]
me == Top.address
Under == SubSeq(frames, 1, Len(frames) - 1)

Running == phase = "running" /\ frames # <<>> /\ Len(m_s.log) < MaxLog

\* Loads evict: the state is t, less what has been evicted.
Becomes(t) == \E V \in Evictions(t) : m_s' = clearCache(t, V)

-----------------------------------------------------------------------------
(* Executive::call and Executive::create, from a state s.                    *)

\* From the savepoint on.
enterCall(s, sender, receiver, codeAddress, value) ==
    LET t == account(s, codeAddress)
    IN  \/ /\ codeAddress \notin Precompiled
           /\ Becomes(transferBalance(t, sender, receiver, value))
           /\ frames' = IF addressHasCode(t, codeAddress) THEN Append(frames, Frame(s, receiver, FALSE))
                        ELSE frames
        \/ /\ codeAddress \in Precompiled
           /\ \/ Becomes(transferBalance(s, sender, receiver, value))
              \/ Becomes(IF EIP158 THEN addBalance(s, codeAddress, 0) ELSE s)
           /\ UNCHANGED frames

\* The address made of the sender and its nonce is nobody's yet.
IsNew(s, a) ==
    /\ a \notin Senders \cup Precompiled \cup {frames[i].address : i \in DOMAIN frames}
    /\ AccountOf(s, a) # None => AccountOf(s, a).nonce = 0 /\ AccountOf(s, a).code = EmptySHA3

Endowed(s, sender, new, endowment) ==
    LET t == transferBalance(s, sender, new, endowment)
    IN  IF EIP158 THEN incNonce(t, new) ELSE t
enterCreate(s, sender, new, endowment) ==
    LET t == incNonce(s, sender)
    IN  /\ IsNew(t, new)
        /\ Becomes(Endowed(t, sender, new, endowment))
        /\ \/ frames' = Append(frames, Frame(t, new, TRUE))
           \/ UNCHANGED frames

\* initialize() and execute(): a transaction whose sender can pay for it.
execute(sender, to, value, cost) ==
    LET paid == subBalance(account(m_s, sender), sender, cost)
    IN  /\ phase = "idle" /\ transactions < MaxTransactions /\ Len(m_s.log) < MaxLog
        /\ value + cost <= balance(m_s, sender)
        /\ \/ enterCall(incNonce(paid, sender), sender, to, to, value)
           \/ enterCreate(paid, sender, to, value)
        /\ phase' = "running" /\ tx' = [sender |-> sender, cost |-> cost]
        /\ transactions' = transactions + 1
        /\ UNCHANGED suicides

-----------------------------------------------------------------------------
(* What a running contract does.                                             *)

\* CALL, CALLCODE and, without a value, DELEGATECALL.
call(codeAddress, value) ==
    /\ Running /\ Len(frames) <= DepthLimit
    /\ value <= balance(m_s, me)
    /\ \E receiver \in {codeAddress, me} :
          enterCall(account(m_s, me), me, receiver, codeAddress, value)
    /\ UNCHANGED <<phase, tx, suicides, transactions>>

\* CREATE.
create(new, endowment) ==
    /\ Running /\ Len(frames) <= DepthLimit
    /\ endowment <= balance(m_s, me)
    /\ enterCreate(m_s, me, new, endowment)
    /\ UNCHANGED <<phase, tx, suicides, transactions>>

\* SSTORE.
setStore(k, v) ==
    /\ Running
    /\ m_s' = setStorage(m_s, me, k, v)
    /\ UNCHANGED <<frames, phase, tx, suicides, transactions>>

\* BALANCE, SLOAD, EXTCODESIZE: reading brings an account into the cache.
look(a) ==
    /\ Running
    /\ Becomes(account(m_s, a))
    /\ UNCHANGED <<frames, phase, tx, suicides, transactions>>

\* go() comes to its end: the suicides are the caller's, in its turn, to lose or to pass on.
Ends(dead) ==
    LET mine == Top.suicides \cup dead
        n == Len(Under)
    IN  /\ frames' = IF n = 0 THEN <<>> ELSE [Under EXCEPT ![n].suicides = @ \cup mine]
        /\ suicides' = IF n = 0 THEN mine ELSE suicides
        /\ UNCHANGED <<phase, tx, transactions>>

\* RETURN and STOP; of a creation, what is returned is the code.
return(output) ==
    /\ Running
    /\ Top.creation \/ output = EmptySHA3
    /\ m_s' = IF Top.creation THEN setNewCode(m_s, me, output) ELSE m_s
    /\ Ends({})

\* SUICIDE.
\* Fault: what the contract has is given, and not taken from it.
GivenAway_kept(s, heir) == addBalance(s, heir, balance(s, me))
GivenAway(s, heir) ==
    LET t == addBalance(s, heir, balance(s, me)) IN subBalance(t, me, balance(t, me))
suicide(heir) ==
    LET t == GivenAway(m_s, heir)
    IN  /\ Running
        /\ Becomes(IF Top.creation THEN setNewCode(t, me, EmptySHA3) ELSE t)
        /\ Ends({me})

\* A VMException, and revert().
throw ==
    /\ phase = "running" /\ frames # <<>>
    /\ frames' = [frames EXCEPT ![Len(frames)].suicides = {}]
    /\ phase' = "rollback"
    /\ UNCHANGED <<m_s, tx, suicides, transactions>>

rollback ==
    /\ phase = "rollback"
    /\ IF Len(m_s.log) > Top.savepoint
       THEN m_s' = rollbackOne(m_s) /\ UNCHANGED <<frames, phase>>
       ELSE frames' = Under /\ phase' = "running" /\ UNCHANGED m_s
    /\ UNCHANGED <<tx, suicides, transactions>>

-----------------------------------------------------------------------------
(* The end of a transaction.                                                 *)

\* finalize(): what is left of the gas goes back, the rest to the author of the block.
Rewarded(left, author) == addBalance(addBalance(m_s, tx.sender, left), author, tx.cost - left)
finalize(author) ==
    /\ phase = "running" /\ frames = <<>>
    /\ \E left \in 0..tx.cost : Becomes(kill(Rewarded(left, author), suicides))
    /\ phase' = "finalized" /\ suicides' = {}
    /\ UNCHANGED <<frames, tx, transactions>>

\* State::execute(): Permanence::Committed, or Permanence::Reverted.
conclude ==
    /\ phase = "finalized"
    /\ m_s' \in {commit(m_s, EIP158), Abandoned(m_s)}
    /\ phase' = "idle" /\ tx' = None
    /\ UNCHANGED <<frames, suicides, transactions>>

Next ==
    \/ \E sender \in Senders, to \in Address, value \in Amounts, cost \in GasCosts :
          execute(sender, to, value, cost)
    \/ \E a \in Address, value \in Amounts : call(a, value) \/ create(a, value)
    \/ \E k \in Keys, v \in Values : setStore(k, v)
    \/ \E a \in Address : look(a) \/ suicide(a) \/ finalize(a)
    \/ \E output \in Codes \cup {EmptySHA3} : return(output)
    \/ throw \/ rollback
    \/ conclude

Spec == Init /\ [][Next]_vars
-----------------------------------------------------------------------------
(* Properties.                                                               *)

Views == [world : [Address -> Accounts \cup {None}], condemned : SUBSET Address, suicides : SUBSET Address]
Frames == [address : Address, creation : BOOLEAN, savepoint : Nat, suicides : SUBSET Address, saved : Views]
TypeOK ==
    /\ m_s \in States
    /\ frames \in Seq(Frames)
    /\ phase \in {"idle", "running", "rollback", "finalized"}
    /\ phase \in {"running", "finalized"} => tx \in [sender : Senders, cost : GasCosts]
    /\ suicides \subseteq Address /\ transactions \in 0..MaxTransactions

\* While a frame is being undone, the state is that of its savepoint already.
Undoing == phase = "rollback"
Shown == IF Undoing THEN Top.saved ELSE ViewOf(m_s)
Open == IF Undoing THEN Under ELSE frames
W == INSTANCE WorldState WITH
        RemoveEmpty <- EIP158,
        committed <- m_s.trie,
        world <- Shown.world, condemned <- Shown.condemned, suicides <- Shown.suicides,
        saved <- [i \in DOMAIN Open |-> Open[i].saved], undoing <- Undoing

\* The change log, the cache and its eviction, and the order of their steps do not show:
\* frames are kept or undone as a whole, whatever they did; only empty accounts that were
\* touched in frames that were kept are removed with the suicides (State.cpp:478, 265).
StateImplementsWorld == W!WorldSpec

\* Transfers, endowments, gas, suicides and undone frames never make money, though balances
\* wrap and a suicide gives before it takes (ExtVM.cpp:132, State.cpp:490): in all accounts
\* together there is never more than when the innermost frame was opened, then never more
\* than when the one around it was, and with what has been paid for gas and not been shared
\* out yet never more than before the transaction.
TotalIn(w) == FoldSet(LAMBDA a, sum : sum + (IF w[a] = None THEN 0 ELSE w[a].balance), 0, Address)
InEscrow == IF phase \in {"running", "rollback"} THEN tx.cost ELSE 0
NoMoneyFromNothing ==
    LET worlds == [i \in 1..(Len(Open) + 1) |-> IF i <= Len(Open) THEN Open[i].saved.world ELSE Shown.world]
    IN  /\ TotalIn(worlds[1]) + InEscrow <= TotalIn(m_s.trie)
        /\ \A i \in 1..Len(Open) : TotalIn(worlds[i + 1]) <= TotalIn(worlds[i])
=============================================================================
