------------------------------- MODULE State -------------------------------
(***************************************************************************)
(* The State of libethereum/State.cpp: accounts in a trie, a cache of      *)
(* those that have been looked at or changed, and the log of the changes,  *)
(* by which they are undone.  A state s is a record                        *)
(*   trie       m_state: the accounts in the database, None where none is  *)
(*   cache      m_cache: alive, dirty and data; None where nothing is      *)
(*   log        m_changeLog                                                *)
(*   absent     m_nonExistingAccountsCache                                 *)
(*   unchanged  m_unchangedCacheEntries, as a set                          *)
(* and an operation gives the state after it.  Storage is what is read of  *)
(* it, from the overlay or the trie; code is its hash.                     *)
(***************************************************************************)
EXTENDS Integers, Sequences, FiniteSets

CONSTANTS Address, Keys, Values, Codes,
          None, EmptySHA3,
          Word,            \* 2^256: balances are below it, and wrap
          CacheLimit       \* how long m_unchangedCacheEntries gets (1000)

ASSUME StateAssumption ==
    /\ 0 \in Values
    /\ EmptySHA3 \notin Codes
    /\ Word \in Nat \ {0} /\ CacheLimit \in Nat

\* Addresses have 160 bits.
ASSUME AddressAssumption == IsFiniteSet(Address)

Balances == 0..(Word - 1)
Accounts == [nonce : Nat, balance : Balances, code : Codes \cup {EmptySHA3}, storage : [Keys -> Values]]
CacheEntries == [alive : BOOLEAN, dirty : BOOLEAN, data : Accounts]

ASSUME NoneAssumption ==
    /\ None \notin Address \cup Keys
    /\ None \notin Accounts /\ None \notin CacheEntries

Changes == [kind : {"Storage"}, address : Address, key : Keys, value : Values]
           \cup [kind : {"Balance"}, address : Address, key : {None}, value : Balances]
           \cup [kind : {"Nonce", "Create", "NewCode", "Touch"}, address : Address, key : {None}, value : {0}]
States == [trie : [Address -> Accounts \cup {None}], cache : [Address -> CacheEntries \cup {None}],
           log : Seq(Changes), absent : SUBSET Address, unchanged : SUBSET Address]

EmptyAccounts == {d \in Accounts : d.nonce = 0 /\ d.balance = 0 /\ d.code = EmptySHA3}
isEmpty(d) == d.nonce = 0 /\ d.balance = 0 /\ d.code = EmptySHA3
Fresh(nonce, balance) ==
    [nonce |-> nonce, balance |-> balance, code |-> EmptySHA3, storage |-> [k \in Keys |-> 0]]
accountStartNonce == 0

\* Addition and negation of 256 bits.
Plus(b, v) == IF b + v < Word THEN b + v ELSE b + v - Word
Minus(v) == IF v = 0 THEN 0 ELSE Word - v

\* What s says of an account, whether it is in the cache or not: None if there is none.
AccountOf(s, a) ==
    IF s.cache[a] = None THEN s.trie[a]
    ELSE IF s.cache[a].alive THEN s.cache[a].data ELSE None
balance(s, a) == IF AccountOf(s, a) = None THEN 0 ELSE AccountOf(s, a).balance
addressHasCode(s, a) == AccountOf(s, a) # None /\ AccountOf(s, a).code # EmptySHA3

Entry(alive, dirty, d) == [alive |-> alive, dirty |-> dirty, data |-> d]
Put(s, a, entry) == [s EXCEPT !.cache = [@ EXCEPT ![a] = entry]]
Logged(s, kind, a, key, value) ==
    [s EXCEPT !.log = Append(@, [kind |-> kind, address |-> a, key |-> key, value |-> value])]

\* account(): the entry of an account is brought into the cache, or its absence noted.
account(s, a) ==
    IF s.cache[a] # None \/ a \in s.absent THEN s
    ELSE IF s.trie[a] = None THEN [s EXCEPT !.absent = @ \cup {a}]
    ELSE [Put(s, a, Entry(TRUE, FALSE, s.trie[a])) EXCEPT !.unchanged = @ \cup {a}]

\* clearCacheIfTooLarge(): when there are too many, entries leave the list at random, and the
\* cache, too, unless they are dirty by now.
Evictions(s) ==
    {V \in SUBSET s.unchanged :
        Cardinality(V) = IF Cardinality(s.unchanged) > CacheLimit THEN Cardinality(s.unchanged) - CacheLimit ELSE 0}
clearCache(s, V) ==
    [s EXCEPT !.cache = [a \in Address |->
                  IF a \in V /\ @[a] # None /\ ~@[a].dirty THEN None ELSE @[a]],
              !.unchanged = @ \ V]

\* Fault: an account that is created is not logged.
createAccount_unlogged(s, a, d) ==
    [Put(s, a, Entry(TRUE, TRUE, d)) EXCEPT !.absent = @ \ {a}]
createAccount(s, a, d) ==
    Logged([Put(s, a, Entry(TRUE, TRUE, d)) EXCEPT !.absent = @ \ {a}], "Create", a, None, 0)

\* addBalance() and incNonce() on an account that is there.
\* Fault: that an empty account is touched is not logged.
Touched_unlogged(s, a) == Put(s, a, Entry(TRUE, TRUE, s.cache[a].data))
Touched(s, a) ==
    LET e == s.cache[a]
        t == Put(s, a, Entry(e.alive, TRUE, e.data))
    IN  IF ~e.dirty /\ isEmpty(e.data) THEN Logged(t, "Touch", a, None, 0) ELSE t
Credited(s, a, v) ==
    LET e == s.cache[a]
    IN  Put(s, a, Entry(e.alive, TRUE, [e.data EXCEPT !.balance = Plus(@, v)]))
BalanceLogged(s, a, v) == IF v = 0 THEN s ELSE Logged(s, "Balance", a, None, v)

addBalance(s, a, v) ==
    LET t == account(s, a)
    IN  BalanceLogged(IF t.cache[a] = None THEN createAccount(t, a, Fresh(accountStartNonce, v))
                      ELSE Credited(Touched(t, a), a, v), a, v)

\* For those who can pay it.
subBalance(s, a, v) == IF v = 0 THEN s ELSE addBalance(account(s, a), a, Minus(v))
transferBalance(s, from, to, v) == addBalance(subBalance(s, from, v), to, v)

incNonce(s, a) ==
    LET t == account(s, a)
        e == t.cache[a]
    IN  IF e = None THEN createAccount(t, a, Fresh(accountStartNonce + 1, 0))
        ELSE Logged(Put(t, a, Entry(e.alive, TRUE, [e.data EXCEPT !.nonce = @ + 1])), "Nonce", a, None, 0)

\* Of an account that is in the cache, as the running contract is.
setStorage(s, a, k, v) ==
    LET e == s.cache[a]
    IN  Put(Logged(s, "Storage", a, k, e.data.storage[k]), a,
            Entry(e.alive, TRUE, [e.data EXCEPT !.storage = [@ EXCEPT ![k] = v]]))
setNewCode(s, a, c) ==
    LET e == s.cache[a]
    IN  Logged(Put(s, a, Entry(e.alive, e.dirty, [e.data EXCEPT !.code = c])), "NewCode", a, None, 0)

\* kill(), of several.
Dead == Entry(FALSE, TRUE, Fresh(0, 0))
kill(s, S) ==
    LET there == {a \in S : s.cache[a] # None \/ s.trie[a] # None}
    IN  [s EXCEPT !.cache = [a \in Address |-> IF a \in there THEN Dead ELSE @[a]],
                  !.absent = @ \cup (S \ there),
                  !.unchanged = @ \cup {a \in there : s.cache[a] = None}]

\* rollback(): the change that was made last, undone.
LastChange(s) == s.log[Len(s.log)]
\* Fault: what was given is given again.
Reversed_added(b, v) == Plus(b, v)
Reversed(b, v) == Plus(b, Minus(v))
Restored(e, c) ==
    CASE c.kind = "Storage" -> Entry(e.alive, TRUE, [e.data EXCEPT !.storage = [@ EXCEPT ![c.key] = c.value]])
      [] c.kind = "Balance" -> Entry(e.alive, TRUE, [e.data EXCEPT !.balance = Reversed(@, c.value)])
      [] c.kind = "Nonce" -> Entry(e.alive, TRUE, [e.data EXCEPT !.nonce = @ - 1])
      [] c.kind = "Create" -> None
      [] c.kind = "NewCode" -> Entry(e.alive, e.dirty, [e.data EXCEPT !.code = EmptySHA3])
      [] c.kind = "Touch" -> Entry(e.alive, FALSE, e.data)
rollbackOne(s) ==
    LET c == LastChange(s)
    IN  [Put(s, c.address, Restored(s.cache[c.address], c))
         EXCEPT !.log = SubSeq(@, 1, Len(@) - 1),
                !.unchanged = IF c.kind = "Touch" THEN @ \cup {c.address} ELSE @]

\* commit(): what is dirty is written to the trie, or removed from it.
removeEmptyAccounts(s) ==
    [s EXCEPT !.cache = [a \in Address |->
        IF @[a] # None /\ @[a].dirty /\ isEmpty(@[a].data) THEN Dead ELSE @[a]]]
Emptied(s) == [a \in Address |-> None]
written(s) ==
    [s EXCEPT !.trie = [a \in Address |-> IF s.cache[a] # None /\ s.cache[a].dirty THEN AccountOf(s, a) ELSE @[a]],
              !.cache = Emptied(s), !.log = <<>>, !.unchanged = {}]
commit(s, removeEmpty) == written(IF removeEmpty THEN removeEmptyAccounts(s) ELSE s)

\* The end of an execution that was only tried.
Abandoned(s) == [s EXCEPT !.cache = Emptied(s)]
=============================================================================
