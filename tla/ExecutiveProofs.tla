--------------------------- MODULE ExecutiveProofs ---------------------------
(***************************************************************************)
(* That Executive implements WorldState, for any accounts, amounts, limits *)
(* and programs.  There is a history h of what the state showed at every   *)
(* length of the change log, and undoing an entry leads one step back in   *)
(* it (History); an operation continues the history (Pushes), rollback     *)
(* walks back to the savepoint.  This needs that whatever is in the log is *)
(* about a dirty account, which is not evicted, and that the entry by      *)
(* which an account was first touched or created is the first about it     *)
(* (LogAgrees).                                                            *)
(* And that no money is made: the sum over all accounts is a recursive     *)
(* function of the sets of accounts, for which what an operation gives and *)
(* takes is shown by induction on their size (TotalMoves); it falls from   *)
(* each frame to the one in it, and to what is shown (Wealthy).            *)
(***************************************************************************)
EXTENDS Executive, FiniteSetTheorems, WellFoundedInduction, TLAPS

-----------------------------------------------------------------------------
(* What holds of a State while a transaction runs.                           *)

\* What is in the cache and not dirty is in the trie; what is noted as absent is not.
CacheAgrees(s) ==
    /\ s \in States
    /\ \A a \in Address : s.cache[a] # None /\ ~s.cache[a].dirty
                            => s.cache[a].alive /\ s.cache[a].data = s.trie[a]
    /\ \A a \in s.absent : s.cache[a] = None /\ s.trie[a] = None
Sound(s) == CacheAgrees(s) /\ \A a \in Address : s.cache[a] # None => s.cache[a].alive
IsDirty(s, a) == s.cache[a] # None /\ s.cache[a].dirty

\* What s shows of each account.
LookOf(e, stored) ==
    IF e = None THEN [data |-> stored, doomed |-> FALSE]
    ELSE [data |-> IF e.alive THEN e.data ELSE None, doomed |-> e.alive /\ e.dirty /\ isEmpty(e.data)]
Looks == [data : Accounts \cup {None}, doomed : BOOLEAN]
Seen(s) == [a \in Address |-> LookOf(s.cache[a], s.trie[a])]
CodeOf(s, a) == IF Seen(s)[a].data = None THEN EmptySHA3 ELSE Seen(s)[a].data.code

\* Above the entry "base" of the change log, every entry is about a dirty account, and the
\* one that first touches or creates an account is the first about it.
First(c) == c.kind \in {"Touch", "Create"}
LogAgrees(s, base) ==
    \A j \in (base + 1)..Len(s.log) :
       /\ IsDirty(s, s.log[j].address)
       /\ First(s.log[j]) => \A i \in (base + 1)..(j - 1) : s.log[i].address # s.log[j].address

\* Undoing an entry leads from what the state shows, v, to what it showed before, u.
Undo(trie, v, c) ==
    [v EXCEPT ![c.address] = LookOf(Restored(Entry(TRUE, TRUE, v[c.address].data), c), trie[c.address])]
LeadsBack(trie, u, v, c) ==
    /\ u = Undo(trie, v, c)
    /\ c.kind = "Touch" => u[c.address].data = trie[c.address]
    /\ c.kind = "Nonce" => v[c.address].data.nonce # 0

\* h[j] is what the state showed when the log had j entries.
Histories == [Nat -> [Address -> Looks]]
History(s, h, base) ==
    /\ h \in Histories
    /\ h[Len(s.log)] = Seen(s)
    /\ \A j \in (base + 1)..Len(s.log) : LeadsBack(s.trie, h[j - 1], h[j], s.log[j])

Traced(s, h, base) == Sound(s) /\ LogAgrees(s, base) /\ History(s, h, base)

-----------------------------------------------------------------------------
(* Records and words.                                                        *)

\* p is s with the entry e for a in its cache.
IsPut(s, a, e, p) ==
    /\ p \in States
    /\ p.trie = s.trie /\ p.log = s.log /\ p.absent = s.absent /\ p.unchanged = s.unchanged
    /\ p.cache = [s.cache EXCEPT ![a] = e]
    /\ p.cache[a] = e /\ \A b \in Address \ {a} : p.cache[b] = s.cache[b]

LEMMA PutFields ==
    ASSUME NEW s \in States, NEW a \in Address, NEW e, e \in CacheEntries \/ e = None
    PROVE  IsPut(s, a, e, Put(s, a, e))
BY DEF Put, States, IsPut

Change(kind, a, key, value) == [kind |-> kind, address |-> a, key |-> key, value |-> value]

LEMMA LoggedFields ==
    ASSUME NEW s \in States, NEW a, NEW kind, NEW key, NEW value, Change(kind, a, key, value) \in Changes
    PROVE  LET t == Logged(s, kind, a, key, value)
           IN  /\ t \in States
               /\ t.trie = s.trie /\ t.cache = s.cache
               /\ t.absent = s.absent /\ t.unchanged = s.unchanged
               /\ t.log = Append(s.log, Change(kind, a, key, value))
<1> DEFINE c == Change(kind, a, key, value)
<1>2. s.log \in Seq(Changes) /\ Append(s.log, c) \in Seq(Changes)
  <2>1. s.log \in Seq(Changes)
    BY DEF States
  <2>2. c \in Changes
    OBVIOUS
  <2> HIDE DEF c
  <2> QED BY <2>1, <2>2
<1>3. Logged(s, kind, a, key, value) = [s EXCEPT !.log = Append(s.log, c)]
  BY DEF Logged, Change
<1>4. Append(s.log, Change(kind, a, key, value)) = Append(s.log, c)
  OBVIOUS
<1> HIDE DEF c
<1> QED BY <1>2, <1>3, <1>4 DEF States

LEMMA ChangeFields ==
    ASSUME NEW a \in Address
    PROVE  /\ \A k \in Keys, v \in Values : Change("Storage", a, k, v) \in Changes
           /\ \A v \in Balances : Change("Balance", a, None, v) \in Changes
           /\ \A kind \in {"Nonce", "Create", "NewCode", "Touch"} : Change(kind, a, None, 0) \in Changes
           /\ \A kind, key, value : /\ Change(kind, a, key, value).kind = kind
                                    /\ Change(kind, a, key, value).address = a
                                    /\ Change(kind, a, key, value).key = key
                                    /\ Change(kind, a, key, value).value = value
BY DEF Change, Changes

LEMMA EntryFields ==
    ASSUME NEW alive, NEW dirty, NEW d
    PROVE  /\ Entry(alive, dirty, d).alive = alive /\ Entry(alive, dirty, d).dirty = dirty
           /\ Entry(alive, dirty, d).data = d
           /\ alive \in BOOLEAN /\ dirty \in BOOLEAN /\ d \in Accounts
                => Entry(alive, dirty, d) \in CacheEntries /\ Entry(alive, dirty, d) # None
BY NoneAssumption DEF Entry, CacheEntries

LEMMA EntryIs ==
    ASSUME NEW e \in CacheEntries
    PROVE  /\ e = Entry(e.alive, e.dirty, e.data)
           /\ e # None /\ e.alive \in BOOLEAN /\ e.dirty \in BOOLEAN /\ e.data \in Accounts
           /\ e.data # None
BY NoneAssumption DEF Entry, CacheEntries

LEMMA DirtyEntry ==
    ASSUME NEW d \in Accounts
    PROVE  /\ Entry(TRUE, TRUE, d) \in CacheEntries /\ Entry(TRUE, TRUE, d) # None
           /\ Entry(TRUE, TRUE, d).alive /\ Entry(TRUE, TRUE, d).dirty
           /\ Entry(TRUE, TRUE, d).data = d
           /\ \A stored : LookOf(Entry(TRUE, TRUE, d), stored) = [data |-> d, doomed |-> isEmpty(d)]
<1>1. Entry(TRUE, TRUE, d) \in CacheEntries /\ Entry(TRUE, TRUE, d) # None
  <2>1. \A b \in BOOLEAN : Entry(b, b, d) \in CacheEntries /\ Entry(b, b, d) # None
    BY EntryFields
  <2> QED BY <2>1
<1>2. /\ Entry(TRUE, TRUE, d).alive /\ Entry(TRUE, TRUE, d).dirty
      /\ Entry(TRUE, TRUE, d).data = d
  BY DEF Entry
<1>3. ASSUME NEW stored
      PROVE  LookOf(Entry(TRUE, TRUE, d), stored) = [data |-> d, doomed |-> isEmpty(d)]
  <2> DEFINE e == Entry(TRUE, TRUE, d)
  <2>1. e # None /\ e.alive /\ e.dirty /\ e.data = d
    BY <1>1, <1>2
  <2> HIDE DEF e
  <2>2. LookOf(e, stored) = [data |-> d, doomed |-> isEmpty(d)]
    BY <2>1 DEF LookOf, isEmpty
  <2> QED BY <2>2 DEF e
<1> QED BY <1>1, <1>2, <1>3

LEMMA CleanEntry ==
    ASSUME NEW d \in Accounts, NEW stored
    PROVE  LookOf(Entry(TRUE, FALSE, d), stored) = [data |-> d, doomed |-> FALSE]
<1> DEFINE e == Entry(TRUE, FALSE, d)
<1>1. \A f, g \in BOOLEAN : Entry(f, g, d) # None
  BY EntryFields
<1>2. e # None /\ e.alive = TRUE /\ e.dirty = FALSE /\ e.data = d
  BY <1>1 DEF Entry
<1> HIDE DEF e
<1>3. LookOf(e, stored) = [data |-> d, doomed |-> FALSE]
  BY <1>2 DEF LookOf
<1> QED BY <1>3 DEF e

\* What undoing a change makes of the entry of a dirty account.
LEMMA RestoredFacts ==
    ASSUME NEW d \in Accounts, NEW c
    PROVE  LET e == Entry(TRUE, TRUE, d)
           IN  /\ c.kind = "Create" => Restored(e, c) = None
               /\ c.kind = "Touch" => Restored(e, c) = Entry(TRUE, FALSE, d)
               /\ c.kind = "Nonce" => Restored(e, c) = Entry(TRUE, TRUE, [d EXCEPT !.nonce = @ - 1])
               /\ c.kind = "NewCode" => Restored(e, c) = Entry(TRUE, TRUE, [d EXCEPT !.code = EmptySHA3])
               /\ c.kind = "Balance" =>
                     Restored(e, c) = Entry(TRUE, TRUE, [d EXCEPT !.balance = Reversed(@, c.value)])
               /\ c.kind = "Storage" =>
                     Restored(e, c) = Entry(TRUE, TRUE, [d EXCEPT !.storage = [@ EXCEPT ![c.key] = c.value]])
<1> DEFINE e == Entry(TRUE, TRUE, d)
<1>1. e.alive = TRUE /\ e.dirty = TRUE /\ e.data = d
  BY DEF Entry
<1> HIDE DEF e
<1>2. c.kind = "Create" => Restored(e, c) = None
  BY DEF Restored
<1>3. c.kind = "Touch" => Restored(e, c) = Entry(TRUE, FALSE, d)
  BY <1>1 DEF Restored
<1>4. c.kind = "Nonce" => Restored(e, c) = Entry(TRUE, TRUE, [d EXCEPT !.nonce = @ - 1])
  BY <1>1 DEF Restored
<1>5. c.kind = "NewCode" => Restored(e, c) = Entry(TRUE, TRUE, [d EXCEPT !.code = EmptySHA3])
  BY <1>1 DEF Restored
<1>6. c.kind = "Balance" =>
         Restored(e, c) = Entry(TRUE, TRUE, [d EXCEPT !.balance = Reversed(@, c.value)])
  BY <1>1 DEF Restored
<1>7. c.kind = "Storage" =>
         Restored(e, c) = Entry(TRUE, TRUE, [d EXCEPT !.storage = [@ EXCEPT ![c.key] = c.value]])
  BY <1>1 DEF Restored
<1> QED BY <1>2, <1>3, <1>4, <1>5, <1>6, <1>7 DEF e

LEMMA WordFacts ==
    ASSUME NEW b \in Balances, NEW v \in Balances
    PROVE  /\ Plus(b, v) \in Balances /\ Minus(v) \in Balances
           /\ Plus(Plus(b, v), Minus(v)) = b
           /\ Plus(b, 0) = b /\ Plus(0, v) = v /\ 0 \in Balances
BY StateAssumption DEF Plus, Minus, Balances

LEMMA ZeroIsBalance == 0 \in Balances
BY StateAssumption DEF Balances

LEMMA DataFacts ==
    ASSUME NEW d \in Accounts
    PROVE  /\ \A b \in Balances : [d EXCEPT !.balance = b] \in Accounts
           /\ [d EXCEPT !.nonce = @ + 1] \in Accounts
           /\ \A c \in Codes \cup {EmptySHA3} : [d EXCEPT !.code = c] \in Accounts
           /\ \A k \in Keys, v \in Values : [d EXCEPT !.storage = [@ EXCEPT ![k] = v]] \in Accounts
           /\ d # None /\ d.balance \in Balances /\ d.nonce \in Nat
BY NoneAssumption DEF Accounts

LEMMA FreshFacts ==
    ASSUME NEW n \in Nat, NEW b \in Balances
    PROVE  /\ Fresh(n, b) \in Accounts
           /\ Fresh(n, b).code = EmptySHA3 /\ Fresh(n, b).balance = b /\ Fresh(n, b).nonce = n
           /\ \A v : [Fresh(n, b) EXCEPT !.balance = v] = Fresh(n, v)
BY StateAssumption DEF Fresh, Accounts

-----------------------------------------------------------------------------
(* What an operation does to a State, and to its history.                    *)

\* The accounts that are there stay, and an empty one is doomed when it is changed.
Moves(s, t) ==
    \A a \in Address :
       /\ Seen(s)[a].data # None => Seen(t)[a].data # None
       /\ /\ Seen(t)[a].data # None /\ isEmpty(Seen(t)[a].data)
          /\ Seen(t)[a].data # Seen(s)[a].data \/ Seen(s)[a].doomed
          => Seen(t)[a].doomed

\* t continues s: its log is longer, what is dirty stays dirty, codes stay but that of x, and
\* what is new in the log first touches or creates no account that was dirty.
Extends(s, t, x) ==
    /\ Sound(t) /\ t.trie = s.trie /\ Moves(s, t)
    /\ Len(s.log) <= Len(t.log)
    /\ \A j \in 1..Len(s.log) : t.log[j] = s.log[j]
    /\ \A j \in (Len(s.log) + 1)..Len(t.log) : First(t.log[j]) => ~IsDirty(s, t.log[j].address)
    /\ \A a \in Address : IsDirty(s, a) => IsDirty(t, a)
    /\ \A a \in Address : a # x => CodeOf(t, a) = CodeOf(s, a)

\* ... and its history continues that of s.
Pushes(s, t, base, x) ==
    /\ Extends(s, t, x)
    /\ \A h : Traced(s, h, base) =>
          \E g : Traced(t, g, base) /\ \A j \in 0..Len(s.log) : g[j] = h[j]

LEMMA LogTyped ==
    ASSUME NEW s \in States
    PROVE  /\ s.log \in Seq(Changes) /\ Len(s.log) \in Nat
           /\ \A j \in 1..Len(s.log) : s.log[j] \in Changes /\ s.log[j].address \in Address
<1>1. s.log \in Seq(Changes)
  BY DEF States
<1>2. \A c \in Changes : c.address \in Address
  BY DEF Changes
<1> QED BY <1>1, <1>2

LEMMA SeenFacts ==
    ASSUME NEW s \in States, NEW a \in Address
    PROVE  /\ Seen(s) \in [Address -> Looks]
           /\ Seen(s)[a] = LookOf(s.cache[a], s.trie[a])
           /\ Seen(s)[a].data = AccountOf(s, a)
           /\ Seen(s)[a].doomed <=> a \in Condemned(s)
           /\ s.trie[a] \in Accounts \cup {None} /\ s.cache[a] \in CacheEntries \cup {None}
<1>1. ASSUME NEW b \in Address PROVE LookOf(s.cache[b], s.trie[b]) \in Looks
  BY <1>1 DEF LookOf, Looks, States, CacheEntries, isEmpty
<1>2. Seen(s)[a] = LookOf(s.cache[a], s.trie[a])
  BY DEF Seen
<1>3. s.trie[a] \in Accounts \cup {None} /\ s.cache[a] \in CacheEntries \cup {None}
  BY DEF States
<1>4. Seen(s)[a].data = AccountOf(s, a)
  BY <1>2, <1>3, EntryIs DEF LookOf, AccountOf
<1>5. Seen(s)[a].doomed <=> a \in Condemned(s)
  <2>1. CASE s.cache[a] = None
    <3>1. Seen(s)[a].doomed = FALSE
      BY <1>2, <2>1 DEF LookOf
    <3> QED BY <2>1, <3>1 DEF Condemned
  <2>2. CASE s.cache[a] # None
    <3>1. Seen(s)[a].doomed = (s.cache[a].alive /\ s.cache[a].dirty /\ isEmpty(s.cache[a].data))
      BY <1>2, <2>2 DEF LookOf
    <3> QED BY <2>2, <3>1 DEF Condemned
  <2> QED BY <2>1, <2>2
<1> QED BY <1>1, <1>2, <1>3, <1>4, <1>5 DEF Seen

\* What a sound state shows of an account in the cache, and of one that is not.
LEMMA SoundFacts ==
    ASSUME NEW s, Sound(s), NEW a \in Address
    PROVE  /\ s \in States
           /\ s.cache[a] # None =>
                 /\ s.cache[a] \in CacheEntries
                 /\ s.cache[a] = Entry(TRUE, s.cache[a].dirty, s.cache[a].data)
                 /\ Seen(s)[a] = [data |-> s.cache[a].data,
                                  doomed |-> s.cache[a].dirty /\ isEmpty(s.cache[a].data)]
           /\ s.cache[a] = None => Seen(s)[a] = [data |-> s.trie[a], doomed |-> FALSE]
<1>1. s \in States
  BY DEF Sound, CacheAgrees
<1>2. Seen(s)[a] = LookOf(s.cache[a], s.trie[a]) /\ s.cache[a] \in CacheEntries \cup {None}
  BY <1>1, SeenFacts
<1>3. CASE s.cache[a] = None
  BY <1>1, <1>2, <1>3 DEF LookOf
<1>4. CASE s.cache[a] # None
  <2>1. s.cache[a] \in CacheEntries /\ s.cache[a].alive = TRUE
    BY <1>2, <1>4, EntryIs DEF Sound
  <2>2. s.cache[a] = Entry(TRUE, s.cache[a].dirty, s.cache[a].data)
    BY <2>1, EntryIs
  <2> QED BY <1>1, <1>2, <1>4, <2>1, <2>2 DEF LookOf
<1> QED BY <1>3, <1>4

LEMMA MovesTransitive ==
    ASSUME NEW s, NEW t, NEW u, Moves(s, t), Moves(t, u)
    PROVE  Moves(s, u)
<1> SUFFICES ASSUME NEW a \in Address
             PROVE  /\ Seen(s)[a].data # None => Seen(u)[a].data # None
                    /\ /\ Seen(u)[a].data # None /\ isEmpty(Seen(u)[a].data)
                       /\ Seen(u)[a].data # Seen(s)[a].data \/ Seen(s)[a].doomed
                       => Seen(u)[a].doomed
  BY DEF Moves
<1>1. /\ Seen(s)[a].data # None => Seen(t)[a].data # None
      /\ /\ Seen(t)[a].data # None /\ isEmpty(Seen(t)[a].data)
         /\ Seen(t)[a].data # Seen(s)[a].data \/ Seen(s)[a].doomed
         => Seen(t)[a].doomed
  BY DEF Moves
<1>2. /\ Seen(t)[a].data # None => Seen(u)[a].data # None
      /\ /\ Seen(u)[a].data # None /\ isEmpty(Seen(u)[a].data)
         /\ Seen(u)[a].data # Seen(t)[a].data \/ Seen(t)[a].doomed
         => Seen(u)[a].doomed
  BY DEF Moves
<1> QED BY <1>1, <1>2

LEMMA ExtendsTransitive ==
    ASSUME NEW s, NEW t, NEW u, NEW x, Sound(s), Extends(s, t, x), Extends(t, u, x)
    PROVE  Extends(s, u, x)
<1>1. s \in States /\ t \in States /\ u \in States
  BY DEF Extends, Sound, CacheAgrees
<1>2. Moves(s, u)
  BY MovesTransitive DEF Extends
<1>3. /\ Len(s.log) \in Nat /\ Len(t.log) \in Nat /\ Len(u.log) \in Nat
      /\ \A j \in 1..Len(u.log) : u.log[j].address \in Address
  BY <1>1, LogTyped
<1>4. \A j \in (Len(s.log) + 1)..Len(u.log) : First(u.log[j]) => ~IsDirty(s, u.log[j].address)
  <2> SUFFICES ASSUME NEW j \in (Len(s.log) + 1)..Len(u.log), First(u.log[j])
               PROVE  ~IsDirty(s, u.log[j].address)
    OBVIOUS
  <2>1. CASE j <= Len(t.log)
    <3>1. j \in 1..Len(t.log) /\ j \in (Len(s.log) + 1)..Len(t.log)
      BY <1>3, <2>1
    <3>2. u.log[j] = t.log[j]
      BY <3>1 DEF Extends
    <3> QED BY <3>1, <3>2 DEF Extends
  <2>2. CASE ~(j <= Len(t.log))
    <3>1. j \in (Len(t.log) + 1)..Len(u.log) /\ j \in 1..Len(u.log)
      BY <1>3, <2>2
    <3>2. ~IsDirty(t, u.log[j].address) /\ u.log[j].address \in Address
      BY <1>3, <3>1 DEF Extends
    <3> QED BY <3>2 DEF Extends
  <2> QED BY <2>1, <2>2
<1>5. \A j \in 1..Len(s.log) : u.log[j] = s.log[j]
  BY <1>3 DEF Extends
<1>6. Len(s.log) <= Len(u.log)
  BY <1>3 DEF Extends
<1>7. /\ \A a \in Address : IsDirty(s, a) => IsDirty(u, a)
      /\ \A a \in Address : a # x => CodeOf(u, a) = CodeOf(s, a)
  BY DEF Extends
<1>8. Sound(u) /\ u.trie = s.trie
  BY DEF Extends
<1> QED BY <1>2, <1>4, <1>5, <1>6, <1>7, <1>8 DEF Extends

LEMMA PushesTransitive ==
    ASSUME NEW s, NEW t, NEW u, NEW base, NEW x,
           Sound(s), Pushes(s, t, base, x), Pushes(t, u, base, x)
    PROVE  Pushes(s, u, base, x)
<1>1. Extends(s, u, x)
  BY ExtendsTransitive DEF Pushes
<1>2. ASSUME NEW h, Traced(s, h, base)
      PROVE  \E g : Traced(u, g, base) /\ \A j \in 0..Len(s.log) : g[j] = h[j]
  <2>1. PICK f : Traced(t, f, base) /\ \A j \in 0..Len(s.log) : f[j] = h[j]
    BY <1>2 DEF Pushes
  <2>2. PICK g : Traced(u, g, base) /\ \A j \in 0..Len(t.log) : g[j] = f[j]
    BY <2>1 DEF Pushes
  <2>3. Len(s.log) \in Nat /\ Len(t.log) \in Nat /\ Len(s.log) <= Len(t.log)
    BY LogTyped DEF Pushes, Extends, Sound, CacheAgrees
  <2>4. \A j \in 0..Len(s.log) : g[j] = h[j]
    BY <2>1, <2>2, <2>3
  <2> QED BY <2>2, <2>4
<1> QED BY <1>1, <1>2 DEF Pushes

-----------------------------------------------------------------------------
(* Steps that are not logged, and steps that are.                            *)

Stays(s, t) ==
    /\ Sound(t) /\ t.trie = s.trie /\ t.log = s.log /\ Seen(t) = Seen(s)
    /\ \A a \in Address : IsDirty(s, a) => IsDirty(t, a)

\* The log of t has one entry more, c, about an account that is all that has changed.
Adds(s, t, c) ==
    /\ Sound(t) /\ t.trie = s.trie /\ c \in Changes /\ t.log = Append(s.log, c)
    /\ IsDirty(t, c.address) /\ (First(c) => ~IsDirty(s, c.address))
    /\ \A b \in Address \ {c.address} : t.cache[b] = s.cache[b]
    /\ Seen(s)[c.address].data # None => Seen(t)[c.address].data # None
    /\ isEmpty(Seen(t)[c.address].data) => Seen(t)[c.address].doomed

LEMMA StayExtends ==
    ASSUME NEW s, NEW t, NEW x, Sound(s), Stays(s, t)
    PROVE  Extends(s, t, x)
<1>1. Len(s.log) \in Nat
  BY LogTyped DEF Sound, CacheAgrees
<1>2. Moves(s, t)
  BY DEF Moves, Stays
<1>3. \A a \in Address : CodeOf(t, a) = CodeOf(s, a)
  BY DEF CodeOf, Stays
<1>4. (Len(s.log) + 1)..Len(s.log) = {}
  BY <1>1
<1> QED BY <1>1, <1>2, <1>3, <1>4 DEF Extends, Stays

LEMMA StayPushes ==
    ASSUME NEW s, NEW t, NEW x, NEW base \in Nat, Sound(s), Stays(s, t)
    PROVE  Pushes(s, t, base, x)
<1>1. Extends(s, t, x)
  BY StayExtends
<1>2. ASSUME NEW h, Traced(s, h, base)
      PROVE  Traced(t, h, base)
  <2>1. \A j \in (base + 1)..Len(s.log) : s.log[j].address \in Address
    BY LogTyped DEF Sound, CacheAgrees
  <2>2. LogAgrees(t, base)
    BY <1>2, <2>1 DEF Traced, LogAgrees, Stays
  <2>3. History(t, h, base)
    BY <1>2 DEF Traced, History, Stays
  <2> QED BY <2>2, <2>3 DEF Traced, Stays
<1> QED BY <1>1, <1>2 DEF Pushes

LEMMA AddsSeen ==
    ASSUME NEW s, NEW t, NEW c, Sound(s), Adds(s, t, c)
    PROVE  /\ c.address \in Address
           /\ \A b \in Address \ {c.address} : Seen(t)[b] = Seen(s)[b] /\ (IsDirty(t, b) <=> IsDirty(s, b))
           /\ Len(s.log) \in Nat /\ Len(t.log) = Len(s.log) + 1 /\ t.log[Len(t.log)] = c
           /\ \A j \in 1..Len(s.log) : t.log[j] = s.log[j] /\ s.log[j].address \in Address
<1>1. s \in States /\ t \in States
  BY DEF Adds, Sound, CacheAgrees
<1>2. c.address \in Address
  BY DEF Adds, Changes
<1>3. \A b \in Address \ {c.address} : Seen(t)[b] = Seen(s)[b] /\ (IsDirty(t, b) <=> IsDirty(s, b))
  BY <1>1, SeenFacts DEF Adds, IsDirty
<1>4. s.log \in Seq(Changes) /\ Len(s.log) \in Nat /\ \A j \in 1..Len(s.log) : s.log[j].address \in Address
  BY <1>1, LogTyped
<1>5. t.log = Append(s.log, c) /\ c \in Changes
  BY DEF Adds
<1>6. Len(t.log) = Len(s.log) + 1 /\ t.log[Len(t.log)] = c /\ \A j \in 1..Len(s.log) : t.log[j] = s.log[j]
  BY <1>4, <1>5
<1> QED BY <1>2, <1>3, <1>4, <1>6

LEMMA AddsExtends ==
    ASSUME NEW s, NEW t, NEW c, NEW x, Sound(s), Adds(s, t, c),
           x = c.address \/ CodeOf(t, c.address) = CodeOf(s, c.address)
    PROVE  Extends(s, t, x)
<1> USE AddsSeen
<1>1. Moves(s, t)
  <2> SUFFICES ASSUME NEW a \in Address
               PROVE  /\ Seen(s)[a].data # None => Seen(t)[a].data # None
                      /\ /\ Seen(t)[a].data # None /\ isEmpty(Seen(t)[a].data)
                         /\ Seen(t)[a].data # Seen(s)[a].data \/ Seen(s)[a].doomed
                         => Seen(t)[a].doomed
    BY DEF Moves
  <2>1. CASE a = c.address
    BY <2>1 DEF Adds
  <2>2. CASE a # c.address
    <3>1. Seen(t)[a] = Seen(s)[a]
      BY <2>2
    <3> QED BY <3>1
  <2> QED BY <2>1, <2>2
<1>2. \A a \in Address : a # x => CodeOf(t, a) = CodeOf(s, a)
  <2> SUFFICES ASSUME NEW a \in Address, a # x PROVE CodeOf(t, a) = CodeOf(s, a)
    OBVIOUS
  <2>1. CASE a = c.address
    BY <2>1
  <2>2. CASE a # c.address
    <3>1. Seen(t)[a] = Seen(s)[a]
      BY <2>2
    <3> QED BY <3>1 DEF CodeOf
  <2> QED BY <2>1, <2>2
<1>3. \A a \in Address : IsDirty(s, a) => IsDirty(t, a)
  <2> SUFFICES ASSUME NEW a \in Address, IsDirty(s, a) PROVE IsDirty(t, a)
    OBVIOUS
  <2>1. CASE a = c.address
    BY <2>1 DEF Adds
  <2>2. CASE a # c.address
    BY <2>2
  <2> QED BY <2>1, <2>2
<1>4. \A j \in (Len(s.log) + 1)..Len(t.log) : First(t.log[j]) => ~IsDirty(s, t.log[j].address)
  <2>1. \A j \in (Len(s.log) + 1)..Len(t.log) : j = Len(t.log)
    OBVIOUS
  <2> QED BY <2>1 DEF Adds
<1>5. Len(s.log) <= Len(t.log) /\ \A j \in 1..Len(s.log) : t.log[j] = s.log[j]
  OBVIOUS
<1> QED BY <1>1, <1>2, <1>3, <1>4, <1>5 DEF Extends, Adds

LEMMA LogPushes ==
    ASSUME NEW s, NEW t, NEW c, NEW x, NEW base \in Nat, Sound(s), Adds(s, t, c),
           LeadsBack(s.trie, Seen(s), Seen(t), c),
           x = c.address \/ CodeOf(t, c.address) = CodeOf(s, c.address)
    PROVE  Pushes(s, t, base, x)
<1>1. Extends(s, t, x)
  BY AddsExtends
<1>2. ASSUME NEW h, Traced(s, h, base)
      PROVE  \E g : Traced(t, g, base) /\ \A j \in 0..Len(s.log) : g[j] = h[j]
  <2> DEFINE n == Len(s.log)
             g == [h EXCEPT ![n + 1] = Seen(t)]
  <2> USE AddsSeen
  <2>1. t \in States /\ Seen(t) \in [Address -> Looks]
    <3>1. t \in States
      BY DEF Adds, Sound, CacheAgrees
    <3> QED BY <3>1, SeenFacts
  <2>2. h \in Histories /\ h[n] = Seen(s)
    BY <1>2 DEF Traced, History
  <2>3. /\ g \in Histories
        /\ g[n + 1] = Seen(t) /\ \A j \in 0..n : g[j] = h[j]
    BY <2>1, <2>2 DEF Histories
  <2> HIDE DEF g
  <2>4. LogAgrees(t, base)
    <3>1. ASSUME NEW j \in (base + 1)..n
          PROVE  /\ IsDirty(t, t.log[j].address)
                 /\ First(t.log[j]) => \A i \in (base + 1)..(j - 1) : t.log[i].address # t.log[j].address
      <4>1. /\ IsDirty(s, s.log[j].address)
            /\ First(s.log[j]) => \A i \in (base + 1)..(j - 1) : s.log[i].address # s.log[j].address
        BY <1>2 DEF Traced, LogAgrees
      <4>2. \A i \in (base + 1)..j : t.log[i] = s.log[i] /\ s.log[i].address \in Address
        OBVIOUS
      <4>3. IsDirty(t, s.log[j].address)
        BY <1>1, <4>1, <4>2 DEF Extends
      <4> QED BY <4>1, <4>2, <4>3
    <3>2. IsDirty(t, t.log[n + 1].address)
      BY DEF Adds
    <3>3. ASSUME First(t.log[n + 1]), NEW i \in (base + 1)..n
          PROVE  t.log[i].address # t.log[n + 1].address
      <4>1. IsDirty(s, s.log[i].address) /\ t.log[i] = s.log[i]
        BY <1>2 DEF Traced, LogAgrees
      <4>2. ~IsDirty(s, c.address)
        BY <3>3 DEF Adds
      <4> QED BY <4>1, <4>2
    <3>4. \A j \in (base + 1)..Len(t.log) : j \in (base + 1)..n \/ j = n + 1
      OBVIOUS
    <3> QED BY <3>1, <3>2, <3>3, <3>4 DEF LogAgrees
  <2>5. History(t, g, base)
    <3>1. ASSUME NEW j \in (base + 1)..n
          PROVE  LeadsBack(t.trie, g[j - 1], g[j], t.log[j])
      <4>1. LeadsBack(s.trie, h[j - 1], h[j], s.log[j])
        BY <1>2 DEF Traced, History
      <4>2. g[j - 1] = h[j - 1] /\ g[j] = h[j] /\ t.log[j] = s.log[j] /\ t.trie = s.trie
        BY <2>3 DEF Adds
      <4> QED BY <4>1, <4>2
    <3>2. LeadsBack(t.trie, g[n], g[n + 1], t.log[n + 1])
      <4>1. g[n] = Seen(s) /\ g[n + 1] = Seen(t) /\ t.log[n + 1] = c /\ t.trie = s.trie
        BY <2>2, <2>3 DEF Adds
      <4> QED BY <4>1
    <3>3. \A j \in (base + 1)..Len(t.log) : j \in (base + 1)..n \/ j = n + 1
      OBVIOUS
    <3>4. \A j \in (base + 1)..Len(t.log) : LeadsBack(t.trie, g[j - 1], g[j], t.log[j])
      BY <3>1, <3>2, <3>3
    <3> QED BY <2>3, <3>4 DEF History
  <2>6. Traced(t, g, base)
    BY <2>4, <2>5 DEF Traced, Adds
  <2> QED BY <2>3, <2>6
<1> QED BY <1>1, <1>2 DEF Pushes

-----------------------------------------------------------------------------
(* The account a is given the data d, in the cache.                          *)

Rewrites(s, u, a, d) ==
    /\ u \in States /\ u.trie = s.trie /\ u.log = s.log
    /\ u.cache = [s.cache EXCEPT ![a] = Entry(TRUE, TRUE, d)]
    /\ u.absent = s.absent \ {a}

\* Only a's data may differ.
OnlyAt(s, t, a) == \A b \in Address \ {a} : Seen(t)[b].data = Seen(s)[b].data

Rewritten(s, u, a, d) ==
    /\ Sound(u) /\ IsDirty(u, a) /\ u.cache[a] = Entry(TRUE, TRUE, d)
    /\ Seen(u)[a] = [data |-> d, doomed |-> isEmpty(d)]
    /\ \A b \in Address \ {a} : u.cache[b] = s.cache[b] /\ Seen(u)[b] = Seen(s)[b]

LEMMA RewriteFacts ==
    ASSUME NEW s, NEW u, NEW a \in Address, NEW d \in Accounts, Sound(s), Rewrites(s, u, a, d)
    PROVE  Rewritten(s, u, a, d)
<1>1. s \in States /\ u \in States
  BY DEF Rewrites, Sound, CacheAgrees
<1>2. /\ u.cache[a] = Entry(TRUE, TRUE, d)
      /\ \A b \in Address \ {a} : u.cache[b] = s.cache[b]
  BY <1>1 DEF Rewrites, States
<1>3. Entry(TRUE, TRUE, d) # None /\ Entry(TRUE, TRUE, d).alive /\ Entry(TRUE, TRUE, d).dirty
      /\ Entry(TRUE, TRUE, d).data = d
  BY DirtyEntry
<1>4. CacheAgrees(u)
  <2>1. ASSUME NEW b \in Address, u.cache[b] # None, ~u.cache[b].dirty
        PROVE  u.cache[b].alive /\ u.cache[b].data = u.trie[b]
    <3>1. b # a
      BY <1>2, <1>3, <2>1
    <3> QED BY <1>2, <2>1, <3>1 DEF Sound, CacheAgrees, Rewrites
  <2>2. ASSUME NEW b \in u.absent
        PROVE  u.cache[b] = None /\ u.trie[b] = None
    <3>1. b \in s.absent /\ b # a /\ b \in Address
      BY <1>1, <2>2 DEF Rewrites, States
    <3> QED BY <1>2, <3>1 DEF Sound, CacheAgrees, Rewrites
  <2> QED BY <1>1, <2>1, <2>2 DEF CacheAgrees
<1>5. Sound(u)
  <2>1. ASSUME NEW b \in Address, u.cache[b] # None
        PROVE  u.cache[b].alive
    <3>1. CASE b = a
      BY <1>2, <1>3, <3>1
    <3>2. CASE b # a
      BY <1>2, <2>1, <3>2 DEF Sound
    <3> QED BY <3>1, <3>2
  <2> QED BY <1>4, <2>1 DEF Sound
<1>6. Seen(u)[a] = [data |-> d, doomed |-> isEmpty(d)]
  <2>1. Seen(u)[a] = LookOf(Entry(TRUE, TRUE, d), u.trie[a])
    BY <1>1, <1>2, SeenFacts
  <2> QED BY <2>1, DirtyEntry
<1>7. \A b \in Address \ {a} : Seen(u)[b] = Seen(s)[b]
  <2> SUFFICES ASSUME NEW b \in Address \ {a} PROVE Seen(u)[b] = Seen(s)[b]
    OBVIOUS
  <2>1. u.cache[b] = s.cache[b] /\ u.trie[b] = s.trie[b]
    BY <1>2 DEF Rewrites
  <2>2. Seen(u)[b] = LookOf(u.cache[b], u.trie[b]) /\ Seen(s)[b] = LookOf(s.cache[b], s.trie[b])
    BY DEF Seen
  <2> QED BY <2>1, <2>2
<1>8. IsDirty(u, a)
  BY <1>2, <1>3 DEF IsDirty
<1> QED BY <1>2, <1>5, <1>6, <1>7, <1>8 DEF Rewritten

LEMMA LoggedSound ==
    ASSUME NEW u, Sound(u), NEW a, NEW kind, NEW key, NEW value, Change(kind, a, key, value) \in Changes
    PROVE  LET t == Logged(u, kind, a, key, value)
           IN  /\ Sound(t) /\ Seen(t) = Seen(u) /\ t.cache = u.cache /\ t.trie = u.trie
               /\ t.log = Append(u.log, Change(kind, a, key, value))
<1> DEFINE t == Logged(u, kind, a, key, value)
<1>1. u \in States
  BY DEF Sound, CacheAgrees
<1>2. /\ t \in States /\ t.trie = u.trie /\ t.cache = u.cache /\ t.absent = u.absent
      /\ t.log = Append(u.log, Change(kind, a, key, value))
  BY <1>1, LoggedFields
<1> HIDE DEF t
<1>3. Sound(t)
  BY <1>2 DEF Sound, CacheAgrees
<1>4. Seen(t) = Seen(u)
  BY <1>2 DEF Seen
<1> QED BY <1>2, <1>3, <1>4 DEF t

LEMMA RewriteAdds ==
    ASSUME NEW s, NEW u, NEW a \in Address, NEW d \in Accounts, Sound(s), Rewrites(s, u, a, d),
           NEW kind, NEW key, NEW value, Change(kind, a, key, value) \in Changes,
           kind \in {"Touch", "Create"} => ~IsDirty(s, a)
    PROVE  LET t == Logged(u, kind, a, key, value)
           IN  Adds(s, t, Change(kind, a, key, value)) /\ Rewritten(s, t, a, d)
<1> DEFINE t == Logged(u, kind, a, key, value)
           c == Change(kind, a, key, value)
<1>1. Rewritten(s, u, a, d)
  BY RewriteFacts
<1>2. /\ Sound(t) /\ Seen(t) = Seen(u) /\ t.cache = u.cache /\ t.trie = u.trie
      /\ t.log = Append(u.log, c)
  BY <1>1, LoggedSound DEF Rewritten
<1>3. c.address = a /\ c.kind = kind /\ c \in Changes
  BY ChangeFields
<1>4. d # None
  BY NoneAssumption
<1> HIDE DEF t, c
<1>5. Rewritten(s, t, a, d)
  BY <1>1, <1>2 DEF IsDirty, Rewritten
<1>6. Adds(s, t, c)
  <2>1. t.trie = s.trie /\ t.log = Append(s.log, c)
    BY <1>2 DEF Rewrites
  <2>2. First(c) => ~IsDirty(s, c.address)
    BY <1>3 DEF First
  <2>3. Seen(t)[a].data = d /\ Seen(t)[a].doomed = isEmpty(d)
    BY <1>5 DEF Rewritten
  <2> QED BY <1>3, <1>4, <1>5, <2>1, <2>2, <2>3 DEF Adds, Rewritten
<1> QED BY <1>5, <1>6 DEF t, c

LEMMA RewritePushes ==
    ASSUME NEW s, NEW u, NEW a \in Address, NEW d \in Accounts, Sound(s), Rewrites(s, u, a, d),
           NEW kind, NEW key, NEW value, Change(kind, a, key, value) \in Changes,
           kind \in {"Touch", "Create"} => ~IsDirty(s, a),
           LookOf(Restored(Entry(TRUE, TRUE, d), Change(kind, a, key, value)), s.trie[a]) = Seen(s)[a],
           kind = "Touch" => Seen(s)[a].data = s.trie[a],
           kind = "Nonce" => d.nonce # 0,
           NEW x, x = a \/ d.code = CodeOf(s, a), NEW base \in Nat
    PROVE  Pushes(s, Logged(u, kind, a, key, value), base, x)
<1> DEFINE t == Logged(u, kind, a, key, value)
           c == Change(kind, a, key, value)
<1>1. Adds(s, t, c) /\ Rewritten(s, t, a, d)
  BY RewriteAdds
<1>2. c.address = a /\ c.kind = kind
  BY ChangeFields
<1>3. LookOf(Restored(Entry(TRUE, TRUE, d), c), s.trie[a]) = Seen(s)[a]
  OBVIOUS
<1> HIDE DEF t, c
<1>4. Seen(t)[a].data = d
  BY <1>1 DEF Rewritten
<1>5. t \in States /\ s \in States
  BY <1>1 DEF Adds, Sound, CacheAgrees
<1>6. LeadsBack(s.trie, Seen(s), Seen(t), c)
  <2>1. Seen(s) \in [Address -> Looks] /\ Seen(t) \in [Address -> Looks]
    BY <1>5, SeenFacts
  <2>2. Undo(s.trie, Seen(t), c) = [Seen(t) EXCEPT ![a] = Seen(s)[a]]
    BY <1>2, <1>3, <1>4 DEF Undo
  <2>3. [Seen(t) EXCEPT ![a] = Seen(s)[a]] = Seen(s)
    BY <1>1, <2>1 DEF Rewritten
  <2> QED BY <1>2, <1>4, <2>2, <2>3 DEF LeadsBack
<1>7. x = c.address \/ CodeOf(t, c.address) = CodeOf(s, c.address)
  <2>1. d # None
    BY NoneAssumption
  <2> QED BY <1>2, <1>4, <2>1 DEF CodeOf
<1>8. Pushes(s, t, base, x)
  BY <1>1, <1>6, <1>7, LogPushes
<1> QED BY <1>8 DEF t

-----------------------------------------------------------------------------
(* The operations of a State.                                                *)

LEMMA StateEquality ==
    ASSUME NEW s \in States, NEW t \in States,
           s.trie = t.trie, s.cache = t.cache, s.log = t.log,
           s.absent = t.absent, s.unchanged = t.unchanged
    PROVE  s = t
BY DEF States

LEMMA AccountStays ==
    ASSUME NEW s, Sound(s), NEW a \in Address
    PROVE  /\ Stays(s, account(s, a))
           /\ account(s, a).cache[a] = None => account(s, a).trie[a] = None
<1> DEFINE t == account(s, a)
<1>1. s \in States /\ s.cache[a] \in CacheEntries \cup {None} /\ s.trie[a] \in Accounts \cup {None}
  BY SeenFacts DEF Sound, CacheAgrees
<1>2. CASE s.cache[a] # None \/ a \in s.absent
  <2>1. t = s
    BY <1>2 DEF account
  <2>2. s.cache[a] = None => s.trie[a] = None
    BY <1>2 DEF Sound, CacheAgrees
  <2> QED BY <2>1, <2>2 DEF Stays
<1>3. CASE s.cache[a] = None /\ a \notin s.absent /\ s.trie[a] = None
  <2>1. t = [s EXCEPT !.absent = @ \cup {a}]
    BY <1>3 DEF account
  <2> HIDE DEF t
  <2>2. /\ t \in States /\ t.trie = s.trie /\ t.cache = s.cache /\ t.log = s.log
        /\ t.absent = s.absent \cup {a}
    BY <1>1, <2>1 DEF States
  <2>3. Sound(t)
    BY <1>3, <2>2 DEF Sound, CacheAgrees
  <2>4. Seen(t) = Seen(s)
    BY <2>2 DEF Seen
  <2>5. \A b \in Address : IsDirty(s, b) => IsDirty(t, b)
    BY <2>2 DEF IsDirty
  <2> QED BY <1>3, <2>2, <2>3, <2>4, <2>5 DEF Stays, t
<1>4. CASE s.cache[a] = None /\ a \notin s.absent /\ s.trie[a] # None
  <2> DEFINE d == s.trie[a]
             e == Entry(TRUE, FALSE, d)
             p == Put(s, a, e)
  <2>1. t = [p EXCEPT !.unchanged = @ \cup {a}]
    BY <1>4 DEF account
  <2>2. d \in Accounts
    BY <1>1, <1>4
  <2>3. e \in CacheEntries /\ e # None
    <3>1. \A f, g \in BOOLEAN : Entry(f, g, d) \in CacheEntries /\ Entry(f, g, d) # None
      BY <2>2, EntryFields
    <3> QED BY <3>1
  <2>4. e.alive /\ ~e.dirty /\ e.data = d
    BY DEF Entry
  <2>5. LookOf(e, d) = LookOf(None, d)
    <3> HIDE DEF e
    <3> QED BY <2>3, <2>4 DEF LookOf
  <2> HIDE DEF e, t
  <2>6. /\ p \in States /\ p.trie = s.trie /\ p.log = s.log /\ p.absent = s.absent
        /\ p.cache[a] = e /\ \A b \in Address \ {a} : p.cache[b] = s.cache[b]
    <3>1. IsPut(s, a, e, p)
      BY <1>1, <2>3, PutFields
    <3> QED BY <3>1 DEF IsPut
  <2> HIDE DEF p
  <2>7. /\ t \in States /\ t.trie = s.trie /\ t.log = s.log /\ t.absent = s.absent
        /\ t.cache[a] = e /\ \A b \in Address \ {a} : t.cache[b] = s.cache[b]
    BY <2>1, <2>6 DEF States
  <2>8. Sound(t)
    <3>1. ASSUME NEW b \in Address, t.cache[b] # None
          PROVE  t.cache[b].alive /\ (~t.cache[b].dirty => t.cache[b].data = t.trie[b])
      <4>1. CASE b = a
        BY <2>4, <2>7, <4>1
      <4>2. CASE b # a
        BY <2>7, <3>1, <4>2 DEF Sound, CacheAgrees
      <4> QED BY <4>1, <4>2
    <3>2. \A b \in t.absent : t.cache[b] = None /\ t.trie[b] = None
      <4>1. \A b \in s.absent : b \in Address \ {a}
        BY <1>1, <1>4 DEF States
      <4> QED BY <2>7, <4>1 DEF Sound, CacheAgrees
    <3> QED BY <2>7, <3>1, <3>2 DEF Sound, CacheAgrees
  <2>9. Seen(t) = Seen(s)
    <3>1. ASSUME NEW b \in Address
          PROVE  LookOf(t.cache[b], t.trie[b]) = LookOf(s.cache[b], s.trie[b])
      <4>1. CASE b = a
        BY <1>4, <2>5, <2>7, <4>1
      <4>2. CASE b # a
        BY <2>7, <4>2
      <4> QED BY <4>1, <4>2
    <3> QED BY <3>1 DEF Seen
  <2>10. \A b \in Address : IsDirty(s, b) => IsDirty(t, b)
    BY <1>4, <2>7 DEF IsDirty
  <2> QED BY <2>3, <2>7, <2>8, <2>9, <2>10 DEF Stays, t
<1> QED BY <1>2, <1>3, <1>4

\* What is evicted is not dirty, and so is in the trie as it was in the cache.
LEMMA ClearKeeps ==
    ASSUME NEW s, CacheAgrees(s), NEW V
    PROVE  LET t == clearCache(s, V)
           IN  /\ CacheAgrees(t) /\ t.trie = s.trie /\ t.log = s.log
               /\ Seen(t) = Seen(s) /\ \A a \in Address : IsDirty(t, a) <=> IsDirty(s, a)
               /\ Sound(s) => Sound(t) /\ Stays(s, t)
<1> DEFINE t == clearCache(s, V)
           C == [a \in Address |->
                    IF a \in V /\ s.cache[a] # None /\ ~s.cache[a].dirty THEN None ELSE s.cache[a]]
<1>1. s \in States
  BY DEF CacheAgrees
<1>2. /\ t.trie = s.trie /\ t.log = s.log /\ t.absent = s.absent /\ t.cache = C
      /\ t.unchanged = s.unchanged \ V /\ t = [s EXCEPT !.cache = C, !.unchanged = s.unchanged \ V]
  BY <1>1 DEF clearCache, States
<1>3. C \in [Address -> CacheEntries \cup {None}]
  BY <1>1 DEF States
<1>4. /\ \A a \in Address : C[a] = s.cache[a] \/ C[a] = None
      /\ \A a \in Address : C[a] # s.cache[a] => s.cache[a] # None /\ ~s.cache[a].dirty
  OBVIOUS
<1> HIDE DEF t, C
<1>5. t \in States
  BY <1>1, <1>2, <1>3 DEF States
<1>6. CacheAgrees(t)
  <2>1. ASSUME NEW a \in Address, t.cache[a] # None, ~t.cache[a].dirty
        PROVE  t.cache[a].alive /\ t.cache[a].data = t.trie[a]
    <3>1. t.cache[a] = s.cache[a]
      BY <1>2, <1>4, <2>1
    <3> QED BY <1>2, <2>1, <3>1 DEF CacheAgrees
  <2>2. ASSUME NEW a \in t.absent
        PROVE  t.cache[a] = None /\ t.trie[a] = None
    <3>1. a \in s.absent /\ a \in Address
      BY <1>1, <1>2, <2>2 DEF States
    <3>2. t.cache[a] = None
      BY <1>2, <1>4, <3>1 DEF CacheAgrees
    <3> QED BY <1>2, <3>1, <3>2 DEF CacheAgrees
  <2> QED BY <1>5, <2>1, <2>2 DEF CacheAgrees
<1>7. Seen(t) = Seen(s)
  <2>1. ASSUME NEW a \in Address
        PROVE  LookOf(t.cache[a], t.trie[a]) = LookOf(s.cache[a], s.trie[a])
    <3>1. CASE C[a] = s.cache[a]
      BY <1>2, <3>1
    <3>2. CASE C[a] # s.cache[a]
      <4>1. C[a] = None /\ s.cache[a] # None /\ ~s.cache[a].dirty
        BY <1>4, <3>2
      <4>2. s.cache[a].alive /\ s.cache[a].data = s.trie[a]
        BY <4>1 DEF CacheAgrees
      <4> QED BY <1>2, <4>1, <4>2 DEF LookOf
    <3> QED BY <3>1, <3>2
  <2> QED BY <2>1 DEF Seen
<1>8. \A a \in Address : IsDirty(t, a) <=> IsDirty(s, a)
  <2> SUFFICES ASSUME NEW a \in Address PROVE IsDirty(t, a) <=> IsDirty(s, a)
    OBVIOUS
  <2>1. CASE C[a] = s.cache[a]
    BY <1>2, <2>1 DEF IsDirty
  <2>2. CASE C[a] # s.cache[a]
    BY <1>2, <1>4, <2>2 DEF IsDirty
  <2> QED BY <2>1, <2>2
<1>9. ASSUME Sound(s) PROVE Sound(t)
  BY <1>2, <1>4, <1>6, <1>9 DEF Sound
<1>10. ASSUME Sound(s) PROVE Stays(s, t)
  BY <1>2, <1>7, <1>8, <1>9, <1>10 DEF Stays
<1> QED BY <1>2, <1>6, <1>7, <1>8, <1>9, <1>10 DEF t

LEMMA PutRewrites ==
    ASSUME NEW s, Sound(s), NEW a \in Address, s.cache[a] # None, NEW d \in Accounts
    PROVE  /\ Rewrites(s, Put(s, a, Entry(s.cache[a].alive, TRUE, d)), a, d)
           /\ Put(s, a, Entry(s.cache[a].alive, TRUE, d)).unchanged = s.unchanged
<1>1. s \in States /\ s.cache[a].alive = TRUE
  <2>1. s \in States /\ s.cache[a] \in CacheEntries
    BY SoundFacts
  <2> QED BY <2>1, EntryIs DEF Sound
<1>2. IsPut(s, a, Entry(TRUE, TRUE, d), Put(s, a, Entry(TRUE, TRUE, d)))
  BY <1>1, DirtyEntry, PutFields
<1>3. s.absent \ {a} = s.absent
  BY DEF Sound, CacheAgrees
<1> QED BY <1>1, <1>2, <1>3 DEF Rewrites, IsPut

LEMMA OnlyAtFacts ==
    ASSUME NEW s, NEW t, NEW a \in Address
    PROVE  /\ Stays(s, t) => OnlyAt(s, t, a)
           /\ \A d : Rewritten(s, t, a, d) => OnlyAt(s, t, a)
           /\ \A u : OnlyAt(s, t, a) /\ OnlyAt(t, u, a) => OnlyAt(s, u, a)
BY DEF OnlyAt, Stays, Rewritten

\* An account that is not there is created.
LEMMA CreatePushes ==
    ASSUME NEW s, Sound(s), NEW a \in Address, s.cache[a] = None, s.trie[a] = None,
           NEW n \in Nat, NEW b \in Balances, NEW x, NEW base \in Nat
    PROVE  LET t == createAccount(s, a, Fresh(n, b))
           IN  Pushes(s, t, base, x) /\ Rewritten(s, t, a, Fresh(n, b))
<1> DEFINE d == Fresh(n, b)
           u == [Put(s, a, Entry(TRUE, TRUE, d)) EXCEPT !.absent = @ \ {a}]
           c == Change("Create", a, None, 0)
<1>1. createAccount(s, a, d) = Logged(u, "Create", a, None, 0)
  BY DEF createAccount
<1>2. d \in Accounts /\ d.code = EmptySHA3
  BY FreshFacts
<1> HIDE DEF d
<1>3. Rewrites(s, u, a, d)
  <2>1. s \in States
    BY DEF Sound, CacheAgrees
  <2>2. IsPut(s, a, Entry(TRUE, TRUE, d), Put(s, a, Entry(TRUE, TRUE, d)))
    BY <1>2, <2>1, DirtyEntry, PutFields
  <2> QED BY <2>2 DEF Rewrites, IsPut, States
<1> HIDE DEF u
<1>4. c \in Changes /\ ~IsDirty(s, a)
  BY ChangeFields DEF IsDirty
<1>5. LookOf(Restored(Entry(TRUE, TRUE, d), c), s.trie[a]) = Seen(s)[a]
  <2>1. Restored(Entry(TRUE, TRUE, d), c) = None
    <3>1. c.kind = "Create"
      BY DEF Change
    <3> HIDE DEF c
    <3> QED BY <1>2, <3>1, RestoredFacts
  <2>2. Seen(s)[a] = LookOf(None, s.trie[a])
    BY SeenFacts DEF Sound, CacheAgrees
  <2> QED BY <2>1, <2>2
<1>6. d.code = CodeOf(s, a)
  <2>1. Seen(s)[a] = [data |-> s.trie[a], doomed |-> FALSE]
    BY SoundFacts
  <2> QED BY <1>2, <2>1 DEF CodeOf
<1>7. Pushes(s, Logged(u, "Create", a, None, 0), base, x)
  BY <1>2, <1>3, <1>4, <1>5, <1>6, RewritePushes
<1>8. Rewritten(s, Logged(u, "Create", a, None, 0), a, d)
  BY <1>2, <1>3, <1>4, RewriteAdds
<1> QED BY <1>1, <1>7, <1>8 DEF d

\* An account is made dirty, which is logged if it is empty.
LEMMA TouchPushes ==
    ASSUME NEW s, Sound(s), NEW a \in Address, s.cache[a] # None, NEW x, NEW base \in Nat
    PROVE  LET t == Touched(s, a)
           IN  Pushes(s, t, base, x) /\ Rewritten(s, t, a, s.cache[a].data)
<1> DEFINE d == s.cache[a].data
           u == Put(s, a, Entry(s.cache[a].alive, TRUE, d))
           c == Change("Touch", a, None, 0)
<1>1. Touched(s, a) = IF ~s.cache[a].dirty /\ isEmpty(d) THEN Logged(u, "Touch", a, None, 0) ELSE u
  BY DEF Touched
<1>2. /\ s \in States /\ s.cache[a] \in CacheEntries /\ d \in Accounts
      /\ Seen(s)[a] = [data |-> d, doomed |-> s.cache[a].dirty /\ isEmpty(d)]
  BY SoundFacts, EntryIs
<1>3. Rewrites(s, u, a, d)
  BY <1>2, PutRewrites
<1> HIDE DEF u
<1>4. CASE ~s.cache[a].dirty /\ isEmpty(d)
  <2>1. c \in Changes /\ ~IsDirty(s, a)
    BY <1>4, ChangeFields DEF IsDirty
  <2>2. Seen(s)[a] = [data |-> d, doomed |-> FALSE] /\ d = s.trie[a]
    BY <1>2, <1>4 DEF Sound, CacheAgrees
  <2>3. LookOf(Restored(Entry(TRUE, TRUE, d), c), s.trie[a]) = Seen(s)[a]
    <3>1. Restored(Entry(TRUE, TRUE, d), c) = Entry(TRUE, FALSE, d)
      <4>1. c.kind = "Touch"
        BY DEF Change
      <4> HIDE DEF c
      <4> QED BY <1>2, <4>1, RestoredFacts
    <3> QED BY <1>2, <2>2, <3>1, CleanEntry
  <2>4. d.code = CodeOf(s, a)
    BY <1>2, <2>2, EntryIs DEF CodeOf
  <2>7. Seen(s)[a].data = s.trie[a]
    BY <2>2
  <2> HIDE DEF d
  <2>5. Pushes(s, Logged(u, "Touch", a, None, 0), base, x)
    BY <1>2, <1>3, <2>1, <2>3, <2>4, <2>7, RewritePushes
  <2>6. Rewritten(s, Logged(u, "Touch", a, None, 0), a, d)
    BY <1>2, <1>3, <2>1, RewriteAdds
  <2> QED BY <1>1, <1>4, <2>5, <2>6 DEF d
<1>5. CASE ~(~s.cache[a].dirty /\ isEmpty(d))
  <2>1. Rewritten(s, u, a, d)
    BY <1>2, <1>3, RewriteFacts
  <2>2. Stays(s, u)
    <3>1. Seen(u) = Seen(s)
      <4>1. Seen(u)[a] = Seen(s)[a]
        BY <1>2, <1>5, <2>1 DEF Rewritten, isEmpty
      <4>2. \A b \in Address : Seen(u)[b] = Seen(s)[b]
        BY <2>1, <4>1 DEF Rewritten
      <4> QED BY <4>2 DEF Seen
    <3>2. \A b \in Address : IsDirty(s, b) => IsDirty(u, b)
      BY <2>1 DEF Rewritten, IsDirty
    <3> QED BY <1>3, <2>1, <3>1, <3>2 DEF Stays, Rewrites, Rewritten
  <2> QED BY <1>1, <1>5, <2>1, <2>2, StayPushes
<1> QED BY <1>4, <1>5

\* An operation on the account a.
Works(s, t, base, x, a) == Pushes(s, t, base, x) /\ OnlyAt(s, t, a) /\ IsDirty(t, a)

LEMMA WorksTransitive ==
    ASSUME NEW s, NEW t, NEW u, NEW base \in Nat, NEW x, NEW a \in Address,
           Sound(s), Stays(s, t) \/ Works(s, t, base, x, a), Works(t, u, base, x, a)
    PROVE  Works(s, u, base, x, a)
<1>1. Pushes(s, t, base, x) /\ OnlyAt(s, t, a)
  BY StayPushes, OnlyAtFacts DEF Works
<1>2. Pushes(s, u, base, x)
  BY <1>1, PushesTransitive DEF Works
<1>3. OnlyAt(s, u, a)
  BY <1>1, OnlyAtFacts DEF Works
<1> QED BY <1>2, <1>3 DEF Works

LEMMA CreditWorks ==
    ASSUME NEW s, Sound(s), NEW a \in Address, IsDirty(s, a), NEW v \in Balances, NEW x, NEW base \in Nat
    PROVE  Works(s, BalanceLogged(Credited(s, a, v), a, v), base, x, a)
<1> DEFINE old == s.cache[a].data
           d == [old EXCEPT !.balance = Plus(@, v)]
           u == Put(s, a, Entry(s.cache[a].alive, TRUE, d))
           c == Change("Balance", a, None, v)
<1>1. Credited(s, a, v) = u
  BY DEF Credited
<1>2. /\ s \in States /\ old \in Accounts /\ s.cache[a] # None
      /\ Seen(s)[a] = [data |-> old, doomed |-> s.cache[a].dirty /\ isEmpty(old)]
  BY SoundFacts, EntryIs DEF IsDirty
<1>3. Seen(s)[a] = [data |-> old, doomed |-> isEmpty(old)]
  BY <1>2 DEF IsDirty, isEmpty
<1>4. Plus(old.balance, v) \in Balances /\ old.balance \in Balances
  BY <1>2, DataFacts, WordFacts
<1>5. d \in Accounts /\ d.code = old.code
  <2>1. d \in Accounts
    BY <1>2, <1>4, DataFacts
  <2> QED BY <1>2, <2>1 DEF Accounts
<1>6. Rewrites(s, u, a, d)
  BY <1>2, <1>5, PutRewrites
<1>7. CASE v = 0
  <2>1. d = old
    <3>1. Plus(old.balance, 0) = old.balance
      BY <1>4, WordFacts
    <3> QED BY <1>2, <1>7, <3>1 DEF Accounts
  <2>2. Rewritten(s, u, a, old)
    BY <1>5, <1>6, <2>1, RewriteFacts
  <2> HIDE DEF u, d, old
  <2>3. Stays(s, u)
    <3>1. \A b \in Address : Seen(u)[b] = Seen(s)[b] /\ (IsDirty(s, b) => IsDirty(u, b))
      BY <1>3, <2>2 DEF Rewritten, IsDirty
    <3>2. Seen(u) = Seen(s)
      BY <3>1 DEF Seen
    <3> QED BY <1>6, <2>2, <3>1, <3>2 DEF Stays, Rewrites, Rewritten
  <2>4. Pushes(s, u, base, x) /\ OnlyAt(s, u, a) /\ IsDirty(u, a)
    BY <2>2, <2>3, StayPushes, OnlyAtFacts DEF Rewritten
  <2> QED BY <1>1, <1>7, <2>4 DEF BalanceLogged, Works
<1>8. CASE v # 0
  <2>1. c \in Changes /\ c.kind = "Balance" /\ c.value = v
    BY ChangeFields
  <2>2. LookOf(Restored(Entry(TRUE, TRUE, d), c), s.trie[a]) = Seen(s)[a]
    <3>1. Reversed(d.balance, v) = old.balance
      <4>1. d.balance = Plus(old.balance, v)
        BY <1>2 DEF Accounts
      <4> QED BY <1>4, <4>1, WordFacts DEF Reversed
    <3>2. [d EXCEPT !.balance = Reversed(@, v)] = old
      <4>1. [d EXCEPT !.balance = old.balance] = old
        BY <1>2 DEF Accounts
      <4> QED BY <3>1, <4>1
    <3> HIDE DEF d, c, old
    <3>3. Restored(Entry(TRUE, TRUE, d), c) = Entry(TRUE, TRUE, old)
      BY <1>5, <2>1, <3>2, RestoredFacts
    <3> QED BY <1>2, <1>3, <3>3, DirtyEntry
  <2>3. d.code = CodeOf(s, a)
    <3>1. Seen(s)[a].data = old
      BY <1>3
    <3>2. old # None
      BY <1>2, NoneAssumption
    <3> QED BY <1>5, <3>1, <3>2 DEF CodeOf
  <2> HIDE DEF u, d, old
  <2>4. Pushes(s, Logged(u, "Balance", a, None, v), base, x)
    BY <1>5, <1>6, <2>1, <2>2, <2>3, RewritePushes
  <2>5. Rewritten(s, Logged(u, "Balance", a, None, v), a, d)
    BY <1>5, <1>6, <2>1, RewriteAdds
  <2>6. BalanceLogged(u, a, v) = Logged(u, "Balance", a, None, v)
    BY <1>8 DEF BalanceLogged
  <2> QED BY <1>1, <2>4, <2>5, <2>6, OnlyAtFacts DEF Works, Rewritten
<1> QED BY <1>7, <1>8

IsCreated(t, a, d, y) ==
    /\ y \in States
    /\ y.trie = t.trie /\ y.absent = t.absent \ {a} /\ y.unchanged = t.unchanged
    /\ y.log = Append(t.log, Change("Create", a, None, 0))
    /\ y.cache = [t.cache EXCEPT ![a] = Entry(TRUE, TRUE, d)]

LEMMA CreatedFields ==
    ASSUME NEW t \in States, NEW a \in Address, NEW d \in Accounts
    PROVE  IsCreated(t, a, d, createAccount(t, a, d))
<1> DEFINE p == Put(t, a, Entry(TRUE, TRUE, d))
           o == [p EXCEPT !.absent = @ \ {a}]
<1>1. IsPut(t, a, Entry(TRUE, TRUE, d), p)
  BY DirtyEntry, PutFields
<1>2. createAccount(t, a, d) = Logged(o, "Create", a, None, 0)
  BY DEF createAccount
<1> HIDE DEF p
<1>3. /\ o \in States /\ o.trie = t.trie /\ o.absent = t.absent \ {a} /\ o.unchanged = t.unchanged
      /\ o.log = t.log /\ o.cache = [t.cache EXCEPT ![a] = Entry(TRUE, TRUE, d)]
  BY <1>1 DEF IsPut, States
<1>4. Change("Create", a, None, 0) \in Changes
  BY ChangeFields
<1> HIDE DEF o
<1>5. Logged(o, "Create", a, None, 0) \in States
  BY <1>3, <1>4, LoggedFields
<1>6. /\ Logged(o, "Create", a, None, 0).trie = o.trie
      /\ Logged(o, "Create", a, None, 0).absent = o.absent
      /\ Logged(o, "Create", a, None, 0).unchanged = o.unchanged
      /\ Logged(o, "Create", a, None, 0).cache = o.cache
      /\ Logged(o, "Create", a, None, 0).log = Append(o.log, Change("Create", a, None, 0))
  BY <1>3, <1>4, LoggedFields
<1> QED BY <1>2, <1>3, <1>5, <1>6 DEF IsCreated

\* To create an account with a balance is to create it, and to credit it.
LEMMA CreateIsCredit ==
    ASSUME NEW t \in States, NEW a \in Address, NEW v \in Balances
    PROVE  createAccount(t, a, Fresh(0, v)) = Credited(createAccount(t, a, Fresh(0, 0)), a, v)
<1> DEFINE y == createAccount(t, a, Fresh(0, v))
           u == createAccount(t, a, Fresh(0, 0))
           f == Fresh(0, v)
           z == Put(u, a, Entry(TRUE, TRUE, f))
<1>1. Fresh(0, 0) \in Accounts /\ f \in Accounts /\ [Fresh(0, 0) EXCEPT !.balance = Plus(@, v)] = f
  BY FreshFacts, WordFacts
<1>2. IsCreated(t, a, f, y) /\ IsCreated(t, a, Fresh(0, 0), u)
  BY <1>1, CreatedFields
<1> HIDE DEF u, y, f
<1>3. u.cache[a] = Entry(TRUE, TRUE, Fresh(0, 0))
  BY <1>2 DEF IsCreated, States
<1>4. Credited(u, a, v) = z
  <2>1. Entry(TRUE, TRUE, Fresh(0, 0)).data = Fresh(0, 0) /\ Entry(TRUE, TRUE, Fresh(0, 0)).alive = TRUE
    BY DEF Entry
  <2> QED BY <1>1, <1>3, <2>1 DEF Credited
<1>5. IsPut(u, a, Entry(TRUE, TRUE, f), z)
  BY <1>1, <1>2, DirtyEntry, PutFields DEF IsCreated
<1> HIDE DEF z
<1>6. z.cache = y.cache
  <2>1. t.cache \in [Address -> CacheEntries \cup {None}]
    BY DEF States
  <2>2. /\ z.cache = [u.cache EXCEPT ![a] = Entry(TRUE, TRUE, f)]
        /\ u.cache = [t.cache EXCEPT ![a] = Entry(TRUE, TRUE, Fresh(0, 0))]
        /\ y.cache = [t.cache EXCEPT ![a] = Entry(TRUE, TRUE, f)]
    BY <1>2, <1>5 DEF IsPut, IsCreated
  <2> QED BY <2>1, <2>2
<1>7. y \in States /\ z \in States /\ y.trie = z.trie /\ y.log = z.log
      /\ y.absent = z.absent /\ y.unchanged = z.unchanged
  BY <1>2, <1>5 DEF IsPut, IsCreated
<1>8. y = z
  BY <1>6, <1>7, StateEquality
<1> QED BY <1>4, <1>8 DEF y, u, f

LEMMA AddBalanceWorks ==
    ASSUME NEW s, Sound(s), NEW a \in Address, NEW v \in Balances, NEW x, NEW base \in Nat
    PROVE  Works(s, addBalance(s, a, v), base, x, a)
<1> DEFINE t == account(s, a)
<1>1. Stays(s, t) /\ Sound(t) /\ (t.cache[a] = None => t.trie[a] = None)
  BY AccountStays DEF Stays
<1>2. addBalance(s, a, v) =
         BalanceLogged(IF t.cache[a] = None THEN createAccount(t, a, Fresh(0, v))
                       ELSE Credited(Touched(t, a), a, v), a, v)
  BY DEF addBalance, accountStartNonce
<1> HIDE DEF t
<1>3. CASE t.cache[a] # None
  <2> DEFINE u == Touched(t, a)
  <2>1. Pushes(t, u, base, x) /\ Rewritten(t, u, a, t.cache[a].data)
    BY <1>1, <1>3, TouchPushes
  <2> HIDE DEF u
  <2>2. Works(t, u, base, x, a) /\ Sound(u) /\ IsDirty(u, a)
    BY <2>1, OnlyAtFacts DEF Works, Rewritten
  <2>3. Works(u, BalanceLogged(Credited(u, a, v), a, v), base, x, a)
    BY <2>2, CreditWorks
  <2>4. Works(t, BalanceLogged(Credited(u, a, v), a, v), base, x, a)
    BY <1>1, <2>2, <2>3, WorksTransitive
  <2>5. Works(s, BalanceLogged(Credited(u, a, v), a, v), base, x, a)
    BY <1>1, <2>4, WorksTransitive
  <2> QED BY <1>2, <1>3, <2>5 DEF u
<1>4. CASE t.cache[a] = None
  <2> DEFINE u == createAccount(t, a, Fresh(0, 0))
  <2>1. Pushes(t, u, base, x) /\ Rewritten(t, u, a, Fresh(0, 0))
    BY <1>1, <1>4, CreatePushes, ZeroIsBalance
  <2>2. Works(t, u, base, x, a) /\ Sound(u) /\ IsDirty(u, a)
    <3> HIDE DEF u
    <3> QED BY <2>1, OnlyAtFacts DEF Works, Rewritten
  <2>3. Works(u, BalanceLogged(Credited(u, a, v), a, v), base, x, a)
    <3> HIDE DEF u
    <3> QED BY <2>2, CreditWorks
  <2>4. createAccount(t, a, Fresh(0, v)) = Credited(u, a, v)
    BY <1>1, CreateIsCredit DEF Sound, CacheAgrees
  <2>5. Works(s, BalanceLogged(Credited(u, a, v), a, v), base, x, a)
    <3> HIDE DEF u
    <3>1. Works(t, BalanceLogged(Credited(u, a, v), a, v), base, x, a)
      BY <1>1, <2>2, <2>3, WorksTransitive
    <3> QED BY <1>1, <3>1, WorksTransitive
  <2> QED BY <1>2, <1>4, <2>4, <2>5
<1> QED BY <1>3, <1>4

LEMMA StaysItself ==
    ASSUME NEW s, Sound(s)
    PROVE  Stays(s, s)
BY DEF Stays

LEMMA SubBalancePushes ==
    ASSUME NEW s, Sound(s), NEW a \in Address, NEW v \in Balances, NEW x, NEW base \in Nat
    PROVE  Pushes(s, subBalance(s, a, v), base, x) /\ OnlyAt(s, subBalance(s, a, v), a)
<1>1. CASE v = 0
  BY <1>1, StaysItself, StayPushes, OnlyAtFacts DEF subBalance
<1>2. CASE v # 0
  <2> DEFINE t == account(s, a)
  <2>1. Stays(s, t) /\ Sound(t)
    BY AccountStays DEF Stays
  <2>2. Minus(v) \in Balances
    BY WordFacts
  <2>3. Works(s, addBalance(t, a, Minus(v)), base, x, a)
    <3> HIDE DEF t
    <3>1. Works(t, addBalance(t, a, Minus(v)), base, x, a)
      BY <2>1, <2>2, AddBalanceWorks
    <3> QED BY <2>1, <3>1, WorksTransitive
  <2> QED BY <1>2, <2>3 DEF subBalance, Works
<1> QED BY <1>1, <1>2

LEMMA TransferPushes ==
    ASSUME NEW s, Sound(s), NEW from \in Address, NEW to \in Address, NEW v \in Balances,
           NEW x, NEW base \in Nat
    PROVE  LET t == transferBalance(s, from, to, v)
           IN  Pushes(s, t, base, x) /\ IsDirty(t, to)
<1> DEFINE t == subBalance(s, from, v)
           u == addBalance(t, to, v)
<1>1. Pushes(s, t, base, x) /\ Sound(t)
  <2>1. Pushes(s, t, base, x)
    BY SubBalancePushes
  <2> HIDE DEF t
  <2> QED BY <2>1 DEF Pushes, Extends
<1>2. Pushes(t, u, base, x) /\ IsDirty(u, to)
  <2> HIDE DEF t
  <2> QED BY <1>1, AddBalanceWorks DEF Works
<1>3. transferBalance(s, from, to, v) = u
  BY DEF transferBalance
<1> HIDE DEF t, u
<1> QED BY <1>1, <1>2, <1>3, PushesTransitive

\* The nonce of an account that is not dirty is not simply undone: it was to be touched first.
LEMMA IncNonceWorks ==
    ASSUME NEW s, Sound(s), NEW a \in Address, NEW x, NEW base \in Nat
    PROVE  LET t == incNonce(s, a)
           IN  /\ Extends(s, t, x) /\ OnlyAt(s, t, a) /\ IsDirty(t, a)
               /\ IsDirty(s, a) => Pushes(s, t, base, x)
<1> DEFINE t == account(s, a)
           old == t.cache[a].data
           d == [old EXCEPT !.nonce = @ + 1]
           u == Put(t, a, Entry(t.cache[a].alive, TRUE, d))
           c == Change("Nonce", a, None, 0)
           w == Logged(u, "Nonce", a, None, 0)
<1>1. Stays(s, t) /\ Sound(t) /\ (t.cache[a] = None => t.trie[a] = None)
  BY AccountStays DEF Stays
<1>2. incNonce(s, a) = IF t.cache[a] = None THEN createAccount(t, a, Fresh(1, 0)) ELSE w
  BY DEF incNonce, accountStartNonce
<1>3. Extends(s, t, x) /\ Pushes(s, t, base, x) /\ OnlyAt(s, t, a)
  <2> HIDE DEF t
  <2> QED BY <1>1, StayExtends, StayPushes, OnlyAtFacts
<1>4. IsDirty(s, a) => IsDirty(t, a)
  <2> HIDE DEF t
  <2> QED BY <1>1 DEF Stays
<1> HIDE DEF t
<1>5. CASE t.cache[a] = None
  <2> DEFINE y == createAccount(t, a, Fresh(1, 0))
  <2>1. Pushes(t, y, base, x) /\ Rewritten(t, y, a, Fresh(1, 0))
    BY <1>1, <1>5, CreatePushes, ZeroIsBalance
  <2> HIDE DEF y
  <2>2. Pushes(s, y, base, x)
    BY <1>3, <2>1, PushesTransitive
  <2>3. OnlyAt(s, y, a) /\ IsDirty(y, a)
    BY <1>3, <2>1, OnlyAtFacts DEF Rewritten
  <2> QED BY <1>2, <1>5, <2>2, <2>3 DEF Pushes, y
<1>6. CASE t.cache[a] # None
  <2>1. /\ t \in States /\ old \in Accounts
        /\ Seen(t)[a] = [data |-> old, doomed |-> t.cache[a].dirty /\ isEmpty(old)]
    BY <1>1, <1>6, SoundFacts, EntryIs
  <2>2. d \in Accounts
    BY <2>1, DataFacts
  <2>3. d.code = old.code /\ d.nonce = old.nonce + 1 /\ old.nonce \in Nat
    BY <2>1 DEF Accounts
  <2>4. Rewrites(t, u, a, d)
    BY <1>1, <1>6, <2>2, PutRewrites
  <2>5. c \in Changes /\ c.kind = "Nonce" /\ c.address = a
    BY ChangeFields
  <2> HIDE DEF old, d, u
  <2>6. Adds(t, w, c) /\ Rewritten(t, w, a, d)
    BY <1>1, <2>2, <2>4, <2>5, RewriteAdds
  <2>7. d.code = CodeOf(t, a)
    <3>1. Seen(t)[a].data = old
      BY <2>1
    <3>2. old # None
      BY <2>1, NoneAssumption
    <3> QED BY <2>3, <3>1, <3>2 DEF CodeOf
  <2>8. CodeOf(w, a) = CodeOf(t, a)
    <3>1. Seen(w)[a].data = d
      BY <2>6 DEF Rewritten
    <3>2. d # None
      BY <2>2, NoneAssumption
    <3> QED BY <2>7, <3>1, <3>2 DEF CodeOf
  <2>9. Extends(t, w, x)
    <3> HIDE DEF w, c
    <3> QED BY <1>1, <2>5, <2>6, <2>8, AddsExtends
  <2>10. ASSUME IsDirty(s, a) PROVE Pushes(t, w, base, x)
    <3>1. Seen(t)[a] = [data |-> old, doomed |-> isEmpty(old)]
      BY <1>4, <2>1, <2>10 DEF IsDirty, isEmpty
    <3>2. LookOf(Restored(Entry(TRUE, TRUE, d), c), t.trie[a]) = Seen(t)[a]
      <4>1. [d EXCEPT !.nonce = @ - 1] = old
        <5>1. [d EXCEPT !.nonce = old.nonce] = old
          BY <2>1 DEF Accounts, d
        <5>2. d.nonce - 1 = old.nonce
          BY <2>3
        <5> QED BY <5>1, <5>2
      <4> HIDE DEF c
      <4>2. Restored(Entry(TRUE, TRUE, d), c) = Entry(TRUE, TRUE, old)
        BY <2>2, <2>5, <4>1, RestoredFacts
      <4> QED BY <2>1, <3>1, <4>2, DirtyEntry
    <3>3. d.nonce # 0
      BY <2>3
    <3> QED BY <1>1, <2>2, <2>4, <2>5, <2>7, <3>2, <3>3, RewritePushes
  <2> HIDE DEF w
  <2>11. Extends(s, w, x) /\ OnlyAt(s, w, a) /\ IsDirty(w, a)
    BY <1>3, <2>6, <2>9, ExtendsTransitive, OnlyAtFacts DEF Rewritten
  <2>12. IsDirty(s, a) => Pushes(s, w, base, x)
    BY <1>3, <2>10, PushesTransitive
  <2> QED BY <1>2, <1>6, <2>11, <2>12
<1> QED BY <1>5, <1>6

LEMMA SetStoragePushes ==
    ASSUME NEW s, Sound(s), NEW a \in Address, IsDirty(s, a), NEW k \in Keys, NEW v \in Values,
           NEW x, NEW base \in Nat
    PROVE  Pushes(s, setStorage(s, a, k, v), base, x)
<1> DEFINE old == s.cache[a].data
           d == [old EXCEPT !.storage = [@ EXCEPT ![k] = v]]
           e == Entry(s.cache[a].alive, TRUE, d)
           u == Put(s, a, e)
           c == Change("Storage", a, k, old.storage[k])
           w == Logged(u, "Storage", a, k, old.storage[k])
           l == Logged(s, "Storage", a, k, old.storage[k])
           y == Put(l, a, e)
<1>1. /\ s \in States /\ old \in Accounts /\ s.cache[a] # None
      /\ Seen(s)[a] = [data |-> old, doomed |-> s.cache[a].dirty /\ isEmpty(old)]
  BY SoundFacts, EntryIs DEF IsDirty
<1>2. Seen(s)[a] = [data |-> old, doomed |-> isEmpty(old)]
  BY <1>1 DEF IsDirty, isEmpty
<1>3. d \in Accounts
  BY <1>1, DataFacts
<1>4. d.code = old.code /\ d.storage = [old.storage EXCEPT ![k] = v] /\ old.storage \in [Keys -> Values]
  BY <1>1 DEF Accounts
<1>5. Rewrites(s, u, a, d) /\ u.unchanged = s.unchanged
  BY <1>1, <1>3, PutRewrites
<1>6. c \in Changes /\ c.kind = "Storage" /\ c.address = a /\ c.key = k /\ c.value = old.storage[k]
  BY <1>4, ChangeFields
<1>7. setStorage(s, a, k, v) = y
  BY DEF setStorage
<1>8. y = w
  <2>1. /\ l \in States /\ l.trie = s.trie /\ l.cache = s.cache
        /\ l.absent = s.absent /\ l.unchanged = s.unchanged /\ l.log = Append(s.log, c)
    <3> HIDE DEF old, d, e, u, w, y
    <3> QED BY <1>1, <1>6, LoggedFields
  <2>2. e \in CacheEntries
    <3>1. s.cache[a] \in CacheEntries
      BY SoundFacts DEF IsDirty
    <3>2. s.cache[a].alive \in BOOLEAN
      BY <3>1, EntryIs
    <3> HIDE DEF d
    <3> QED BY <1>3, <3>2, EntryFields
  <2>3. u \in States
    BY <1>5 DEF Rewrites
  <2> HIDE DEF l, e
  <2>4. IsPut(l, a, e, y)
    BY <2>1, <2>2, PutFields
  <2>5. IsPut(s, a, e, u)
    BY <1>1, <2>2, PutFields
  <2> HIDE DEF y, u
  <2>6. /\ w \in States /\ w.trie = u.trie /\ w.cache = u.cache
        /\ w.absent = u.absent /\ w.unchanged = u.unchanged /\ w.log = Append(u.log, c)
    BY <1>6, <2>3, LoggedFields
  <2> HIDE DEF w, c
  <2>7. /\ y \in States /\ y.trie = w.trie /\ y.cache = w.cache /\ y.log = w.log
        /\ y.absent = w.absent /\ y.unchanged = w.unchanged
    BY <2>1, <2>4, <2>5, <2>6 DEF IsPut
  <2> QED BY <2>6, <2>7, StateEquality
<1>9. Pushes(s, w, base, x)
  <2>1. LookOf(Restored(Entry(TRUE, TRUE, d), c), s.trie[a]) = Seen(s)[a]
    <3>1. [d EXCEPT !.storage = [@ EXCEPT ![c.key] = c.value]] = old
      <4>1. [d.storage EXCEPT ![k] = old.storage[k]] = old.storage
        BY <1>4
      <4>2. [d EXCEPT !.storage = old.storage] = old
        BY <1>1 DEF Accounts
      <4> QED BY <1>6, <4>1, <4>2
    <3> HIDE DEF d, c, old
    <3>2. Restored(Entry(TRUE, TRUE, d), c) = Entry(TRUE, TRUE, old)
      BY <1>3, <1>6, <3>1, RestoredFacts
    <3> QED BY <1>1, <1>2, <3>2, DirtyEntry
  <2>2. d.code = CodeOf(s, a)
    <3>1. Seen(s)[a].data = old
      BY <1>2
    <3>2. old # None
      BY <1>1, NoneAssumption
    <3> QED BY <1>4, <3>1, <3>2 DEF CodeOf
  <2> HIDE DEF u, d, old
  <2> QED BY <1>3, <1>5, <1>6, <2>1, <2>2, RewritePushes
<1> HIDE DEF y, w
<1> QED BY <1>7, <1>8, <1>9

\* The code that a creation leaves: there was none.
LEMMA SetCodePushes ==
    ASSUME NEW s, Sound(s), NEW a \in Address, IsDirty(s, a), CodeOf(s, a) = EmptySHA3,
           NEW code \in Codes \cup {EmptySHA3}, NEW base \in Nat
    PROVE  Pushes(s, setNewCode(s, a, code), base, a)
<1> DEFINE old == s.cache[a].data
           d == [old EXCEPT !.code = code]
           u == Put(s, a, Entry(s.cache[a].alive, TRUE, d))
           c == Change("NewCode", a, None, 0)
           w == Logged(u, "NewCode", a, None, 0)
<1>1. /\ s \in States /\ old \in Accounts /\ s.cache[a] # None /\ s.cache[a] \in CacheEntries
      /\ Seen(s)[a] = [data |-> old, doomed |-> s.cache[a].dirty /\ isEmpty(old)]
  BY SoundFacts, EntryIs DEF IsDirty
<1>2. Seen(s)[a] = [data |-> old, doomed |-> isEmpty(old)] /\ s.cache[a].dirty = TRUE
  BY <1>1, EntryIs DEF IsDirty, isEmpty
<1>3. d \in Accounts
  BY <1>1, DataFacts
<1>4. old.code = EmptySHA3
  <2>1. Seen(s)[a].data = old
    BY <1>2
  <2>2. old # None
    BY <1>1, NoneAssumption
  <2> QED BY <2>1, <2>2 DEF CodeOf
<1>5. Rewrites(s, u, a, d)
  BY <1>1, <1>3, PutRewrites
<1>6. c \in Changes /\ c.kind = "NewCode"
  BY ChangeFields
<1>7. setNewCode(s, a, code) = w
  BY <1>2 DEF setNewCode
<1>8. LookOf(Restored(Entry(TRUE, TRUE, d), c), s.trie[a]) = Seen(s)[a]
  <2>1. [d EXCEPT !.code = EmptySHA3] = old
    BY <1>1, <1>4 DEF Accounts
  <2> HIDE DEF d, c, old
  <2>2. Restored(Entry(TRUE, TRUE, d), c) = Entry(TRUE, TRUE, old)
    BY <1>3, <1>6, <2>1, RestoredFacts
  <2> QED BY <1>1, <1>2, <2>2, DirtyEntry
<1> HIDE DEF u, d, old
<1>9. Pushes(s, w, base, a)
  BY <1>3, <1>5, <1>6, <1>8, RewritePushes
<1> QED BY <1>7, <1>9

-----------------------------------------------------------------------------
(* Undoing a change.                                                         *)

LEMMA ChangeKinds ==
    ASSUME NEW c \in Changes
    PROVE  /\ c.address \in Address
           /\ c.kind \in {"Storage", "Balance", "Nonce", "Create", "NewCode", "Touch"}
           /\ c.kind = "Storage" => c.key \in Keys /\ c.value \in Values
           /\ c.kind = "Balance" => c.value \in Balances
BY DEF Changes

\* The entry of a dirty account, restored.
LEMMA RestoredEntry ==
    ASSUME NEW d \in Accounts, NEW c \in Changes, c.kind = "Nonce" => d.nonce # 0
    PROVE  LET e == Restored(Entry(TRUE, TRUE, d), c)
           IN  /\ \/ c.kind = "Create" /\ e = None
                  \/ c.kind = "Touch" /\ e = Entry(TRUE, FALSE, d) /\ e \in CacheEntries
                  \/ ~First(c) /\ \E f \in Accounts : e = Entry(TRUE, TRUE, f)
               /\ ~First(c) /\ d.code = EmptySHA3 =>
                     \E f \in Accounts : e = Entry(TRUE, TRUE, f) /\ f.code = EmptySHA3
<1> DEFINE e == Restored(Entry(TRUE, TRUE, d), c)
<1>1. CASE c.kind = "Create"
  BY <1>1, RestoredFacts DEF First
<1>2. CASE c.kind = "Touch"
  <2>1. \A f, g \in BOOLEAN : Entry(f, g, d) \in CacheEntries
    BY EntryFields
  <2>2. Entry(TRUE, FALSE, d) \in CacheEntries
    BY <2>1
  <2> QED BY <1>2, <2>2, RestoredFacts DEF First
<1>3. ASSUME NEW f \in Accounts, e = Entry(TRUE, TRUE, f), ~First(c),
             d.code = EmptySHA3 => f.code = EmptySHA3
      PROVE  /\ ~First(c) /\ \E g \in Accounts : e = Entry(TRUE, TRUE, g)
             /\ ~First(c) /\ d.code = EmptySHA3 =>
                     \E g \in Accounts : e = Entry(TRUE, TRUE, g) /\ g.code = EmptySHA3
  BY <1>3
<1>4. CASE c.kind = "Nonce"
  <2> DEFINE f == [d EXCEPT !.nonce = @ - 1]
  <2>1. d.nonce \in Nat /\ d.nonce # 0
    BY <1>4, DataFacts
  <2>2. f \in Accounts /\ f.code = d.code
    BY <2>1 DEF Accounts
  <2>3. e = Entry(TRUE, TRUE, f) /\ ~First(c)
    BY <1>4, RestoredFacts DEF First
  <2> HIDE DEF f, e
  <2> QED BY <1>3, <2>2, <2>3 DEF e
<1>5. CASE c.kind = "NewCode"
  <2> DEFINE f == [d EXCEPT !.code = EmptySHA3]
  <2>1. f \in Accounts /\ f.code = EmptySHA3
    BY DEF Accounts
  <2>2. e = Entry(TRUE, TRUE, f) /\ ~First(c)
    BY <1>5, RestoredFacts DEF First
  <2> HIDE DEF f, e
  <2> QED BY <1>3, <2>1, <2>2 DEF e
<1>6. CASE c.kind = "Balance"
  <2> DEFINE f == [d EXCEPT !.balance = Reversed(@, c.value)]
  <2>1. Reversed(d.balance, c.value) \in Balances
    <3>1. d.balance \in Balances /\ c.value \in Balances
      BY <1>6, ChangeKinds, DataFacts
    <3> QED BY <3>1, WordFacts DEF Reversed
  <2>2. f \in Accounts /\ f.code = d.code
    BY <2>1 DEF Accounts
  <2>3. e = Entry(TRUE, TRUE, f) /\ ~First(c)
    BY <1>6, RestoredFacts DEF First
  <2> HIDE DEF f, e
  <2> QED BY <1>3, <2>2, <2>3 DEF e
<1>7. CASE c.kind = "Storage"
  <2> DEFINE f == [d EXCEPT !.storage = [@ EXCEPT ![c.key] = c.value]]
  <2>1. c.key \in Keys /\ c.value \in Values
    BY <1>7, ChangeKinds
  <2>2. f \in Accounts /\ f.code = d.code
    BY <2>1 DEF Accounts
  <2>3. e = Entry(TRUE, TRUE, f) /\ ~First(c)
    BY <1>7, RestoredFacts DEF First
  <2> HIDE DEF f, e
  <2> QED BY <1>3, <2>2, <2>3 DEF e
<1> QED BY <1>1, <1>2, <1>4, <1>5, <1>6, <1>7, ChangeKinds

LEMMA RollbackTraced ==
    ASSUME NEW s, NEW h, NEW base \in Nat, Traced(s, h, base), base < Len(s.log)
    PROVE  LET t == rollbackOne(s)
               c == LastChange(s)
           IN  /\ Traced(t, h, base) /\ t.trie = s.trie
               /\ Len(t.log) = Len(s.log) - 1 /\ \A j \in 1..Len(t.log) : t.log[j] = s.log[j]
               /\ \A a \in Address : (First(c) => a # c.address) =>
                     /\ IsDirty(s, a) => IsDirty(t, a)
                     /\ CodeOf(s, a) = EmptySHA3 => CodeOf(t, a) = EmptySHA3
<1> DEFINE t == rollbackOne(s)
           n == Len(s.log)
           c == s.log[n]
           x == c.address
           d == s.cache[x].data
           e == Restored(Entry(TRUE, TRUE, d), c)
           p == Put(s, x, e)
<1>1. Sound(s) /\ s \in States /\ n \in Nat /\ n \in (base + 1)..n /\ n \in 1..n
  BY LogTyped DEF Traced, Sound, CacheAgrees
<1>2. c \in Changes /\ x \in Address /\ LastChange(s) = c
  BY <1>1, LogTyped DEF LastChange
<1>3. IsDirty(s, x) /\ (First(c) => \A i \in (base + 1)..(n - 1) : s.log[i].address # x)
  BY <1>1 DEF Traced, LogAgrees
<1>4. /\ d \in Accounts /\ s.cache[x] = Entry(TRUE, TRUE, d)
      /\ Seen(s)[x] = [data |-> d, doomed |-> s.cache[x].dirty /\ isEmpty(d)]
  <2>1. s.cache[x] # None
    BY <1>3 DEF IsDirty
  <2>2. /\ s.cache[x] \in CacheEntries /\ s.cache[x] = Entry(TRUE, s.cache[x].dirty, d)
        /\ Seen(s)[x] = [data |-> d, doomed |-> s.cache[x].dirty /\ isEmpty(d)]
    BY <1>1, <1>2, <2>1, SoundFacts
  <2>3. s.cache[x].dirty = TRUE /\ d \in Accounts
    BY <1>3, <2>2, EntryIs DEF IsDirty
  <2> QED BY <2>2, <2>3
<1>5. /\ h \in Histories /\ h[n] = Seen(s) /\ LeadsBack(s.trie, h[n - 1], h[n], c)
  BY <1>1 DEF Traced, History
<1>6. /\ h[n - 1] = [Seen(s) EXCEPT ![x] = LookOf(e, s.trie[x])]
      /\ c.kind = "Touch" => h[n - 1][x].data = s.trie[x]
      /\ c.kind = "Nonce" => d.nonce # 0
  <2>1. Seen(s)[x].data = d
    BY <1>4
  <2> QED BY <1>5, <2>1 DEF LeadsBack, Undo
<1>7. /\ \/ c.kind = "Create" /\ e = None
         \/ c.kind = "Touch" /\ e = Entry(TRUE, FALSE, d) /\ e \in CacheEntries
         \/ ~First(c) /\ \E f \in Accounts : e = Entry(TRUE, TRUE, f)
      /\ ~First(c) /\ d.code = EmptySHA3 =>
            \E f \in Accounts : e = Entry(TRUE, TRUE, f) /\ f.code = EmptySHA3
  BY <1>2, <1>4, <1>6, RestoredEntry
<1>8. t = [p EXCEPT !.log = SubSeq(@, 1, Len(@) - 1),
                    !.unchanged = IF c.kind = "Touch" THEN @ \cup {x} ELSE @]
  BY <1>2, <1>4 DEF rollbackOne
<1> HIDE DEF e
<1>9. e = None \/ e \in CacheEntries
  BY <1>7, DirtyEntry
<1>10. IsPut(s, x, e, p)
  BY <1>1, <1>2, <1>9, PutFields
<1> HIDE DEF p, t, d
<1>11. SubSeq(s.log, 1, n - 1) \in Seq(Changes) /\ Len(SubSeq(s.log, 1, n - 1)) = n - 1
       /\ \A j \in 1..(n - 1) : SubSeq(s.log, 1, n - 1)[j] = s.log[j]
  <2>1. s.log \in Seq(Changes) /\ n - 1 \in Nat /\ n - 1 <= n
    BY <1>1, LogTyped
  <2> QED BY <2>1
<1>12. /\ t \in States /\ t.trie = s.trie /\ t.absent = s.absent
       /\ t.log = SubSeq(s.log, 1, n - 1)
       /\ t.cache[x] = e /\ \A b \in Address \ {x} : t.cache[b] = s.cache[b]
  <2>1. p.log = s.log /\ p.unchanged \subseteq Address
    BY <1>10 DEF IsPut, States
  <2>2. t = [p EXCEPT !.log = SubSeq(s.log, 1, n - 1),
                      !.unchanged = IF c.kind = "Touch" THEN @ \cup {x} ELSE @]
    BY <1>8, <2>1
  <2> QED BY <1>2, <1>10, <1>11, <2>1, <2>2 DEF IsPut, States
<1>13. Len(t.log) = n - 1 /\ \A j \in 1..(n - 1) : t.log[j] = s.log[j]
  BY <1>11, <1>12
<1>14. /\ Seen(t)[x] = LookOf(e, s.trie[x])
       /\ \A b \in Address \ {x} : Seen(t)[b] = Seen(s)[b]
       /\ Seen(s) \in [Address -> Looks] /\ Seen(t) \in [Address -> Looks]
  <2>1. Seen(s) \in [Address -> Looks] /\ Seen(t) \in [Address -> Looks]
    BY <1>1, <1>2, <1>12, SeenFacts
  <2>2. Seen(t)[x] = LookOf(e, s.trie[x])
    BY <1>2, <1>12 DEF Seen
  <2>3. ASSUME NEW b \in Address \ {x} PROVE Seen(t)[b] = Seen(s)[b]
    BY <1>12 DEF Seen
  <2> QED BY <2>1, <2>2, <2>3
<1>15. Seen(t) = h[n - 1]
  BY <1>2, <1>6, <1>14
<1>16. Sound(t)
  <2>1. e # None => /\ e.alive
                    /\ ~e.dirty => e.data = s.trie[x]
    <3>1. CASE c.kind = "Create" /\ e = None
      BY <3>1
    <3>2. CASE c.kind = "Touch" /\ e = Entry(TRUE, FALSE, d) /\ e \in CacheEntries
      <4>1. e.alive = TRUE /\ e.data = d
        BY <3>2, EntryFields DEF Entry
      <4>2. LookOf(e, s.trie[x]) = [data |-> d, doomed |-> FALSE]
        BY <1>4, <3>2, CleanEntry
      <4>3. h[n - 1][x].data = d
        BY <1>2, <1>14, <1>15, <4>2
      <4> QED BY <1>6, <3>2, <4>1, <4>3
    <3>3. CASE ~First(c) /\ \E f \in Accounts : e = Entry(TRUE, TRUE, f)
      BY <3>3, DirtyEntry
    <3> QED BY <1>7, <3>1, <3>2, <3>3
  <2>2. ASSUME NEW b \in Address, t.cache[b] # None
        PROVE  t.cache[b].alive /\ (~t.cache[b].dirty => t.cache[b].data = t.trie[b])
    <3>1. CASE b = x
      BY <1>12, <2>1, <2>2, <3>1
    <3>2. CASE b # x
      BY <1>1, <1>12, <2>2, <3>2 DEF Sound, CacheAgrees
    <3> QED BY <3>1, <3>2
  <2>3. \A b \in t.absent : t.cache[b] = None /\ t.trie[b] = None
    <3>1. \A b \in s.absent : b \in Address /\ b # x /\ s.cache[b] = None /\ s.trie[b] = None
      BY <1>1, <1>3 DEF States, Sound, CacheAgrees, IsDirty
    <3> QED BY <1>12, <3>1
  <2> QED BY <1>12, <2>2, <2>3 DEF Sound, CacheAgrees
<1>17. ASSUME NEW a \in Address, First(c) => a # x, IsDirty(s, a)
       PROVE  IsDirty(t, a)
  <2>1. CASE a = x
    <3>1. \E f \in Accounts : e = Entry(TRUE, TRUE, f)
      BY <1>7, <1>17, <2>1 DEF First
    <3> QED BY <1>12, <2>1, <3>1, DirtyEntry DEF IsDirty
  <2>2. CASE a # x
    BY <1>12, <1>17, <2>2 DEF IsDirty
  <2> QED BY <2>1, <2>2
<1>18. ASSUME NEW a \in Address, First(c) => a # x, CodeOf(s, a) = EmptySHA3
       PROVE  CodeOf(t, a) = EmptySHA3
  <2>1. CASE a = x
    <3>1. d.code = EmptySHA3
      <4>1. Seen(s)[x].data = d /\ d # None
        BY <1>4, NoneAssumption
      <4> QED BY <1>18, <2>1, <4>1 DEF CodeOf
    <3>2. PICK f \in Accounts : e = Entry(TRUE, TRUE, f) /\ f.code = EmptySHA3
      BY <1>7, <1>18, <2>1, <3>1
    <3>3. Seen(t)[x] = [data |-> f, doomed |-> isEmpty(f)]
      BY <1>14, <3>2, DirtyEntry
    <3>4. Seen(t)[x].data = f
      BY <3>3
    <3> QED BY <2>1, <3>2, <3>4 DEF CodeOf
  <2>2. CASE a # x
    <3>1. Seen(t)[a] = Seen(s)[a]
      BY <1>14, <2>2
    <3> QED BY <1>18, <3>1 DEF CodeOf
  <2> QED BY <2>1, <2>2
<1>19. LogAgrees(t, base)
  <2> SUFFICES ASSUME NEW j \in (base + 1)..Len(t.log)
               PROVE  /\ IsDirty(t, t.log[j].address)
                      /\ First(t.log[j]) => \A i \in (base + 1)..(j - 1) : t.log[i].address # t.log[j].address
    BY DEF LogAgrees
  <2>1. j \in (base + 1)..n /\ j \in 1..n /\ j \in (base + 1)..(n - 1)
    BY <1>1, <1>13
  <2>2. \A i \in (base + 1)..j : t.log[i] = s.log[i]
    BY <1>1, <1>13
  <2>3. t.log[j] = s.log[j] /\ s.log[j].address \in Address
    BY <1>1, <2>1, <2>2, LogTyped
  <2>4. /\ IsDirty(s, s.log[j].address)
        /\ First(s.log[j]) => \A i \in (base + 1)..(j - 1) : s.log[i].address # s.log[j].address
    BY <2>1 DEF Traced, LogAgrees
  <2>5. First(c) => s.log[j].address # x
    BY <1>3, <2>1
  <2> QED BY <1>17, <2>2, <2>3, <2>4, <2>5
<1>20. History(t, h, base)
  <2>1. \A j \in (base + 1)..(n - 1) : LeadsBack(s.trie, h[j - 1], h[j], s.log[j]) /\ t.log[j] = s.log[j]
    BY <1>1, <1>13 DEF Traced, History
  <2> QED BY <1>5, <1>12, <1>13, <1>15, <2>1 DEF History
<1>21. Traced(t, h, base)
  BY <1>16, <1>19, <1>20 DEF Traced
<1> QED BY <1>2, <1>12, <1>13, <1>17, <1>18, <1>21 DEF t

-----------------------------------------------------------------------------
(* The frames that are open: those that go on are the first "open" of them,  *)
(* the last may be one that is being undone.                                 *)

Continues(s, t, x) == \A base \in Nat : Pushes(s, t, base, x)

FramesAgree(s, fs, open) ==
    /\ \A i \in 1..Len(fs) : fs[i].savepoint <= Len(s.log)
    /\ \A i, j \in 1..Len(fs) : i < j => fs[i].savepoint <= fs[j].savepoint
    /\ \A i \in 1..open : IsDirty(s, fs[i].address)
    /\ \A i, j \in 1..Len(fs) : i < j =>
          \A l \in (fs[j].savepoint + 1)..Len(s.log) :
             First(s.log[l]) => s.log[l].address # fs[i].address
    /\ \A i \in 1..open : fs[i].creation => CodeOf(s, fs[i].address) = EmptySHA3
    /\ \A i, j \in 1..Len(fs) : i < j /\ fs[j].creation => fs[i].address # fs[j].address

\* The savepoints are where h shows what was saved.
SuicidesIn(fs, n) == {a \in Address : \E j \in 1..n : a \in fs[j].suicides}
HasSaved(f, v) ==
    /\ f.saved.world = [a \in Address |-> v[a].data]
    /\ f.saved.condemned = {a \in Address : v[a].doomed}
SavedAgree(fs, h) ==
    \A i \in 1..Len(fs) :
       HasSaved(fs[i], h[fs[i].savepoint]) /\ fs[i].saved.suicides = SuicidesIn(fs, i - 1)

FramesInv(s, fs, open) ==
    /\ FramesAgree(s, fs, open)
    /\ \E h : Traced(s, h, fs[1].savepoint) /\ SavedAgree(fs, h)

LEMMA ContinuesFacts ==
    ASSUME NEW s, NEW t, NEW x, Sound(s), Continues(s, t, x)
    PROVE  /\ Extends(s, t, x) /\ Sound(t) /\ t.trie = s.trie
           /\ \A u : Continues(t, u, x) => Continues(s, u, x)
           /\ \A u : Stays(t, u) => Continues(s, u, x)
<1>1. Pushes(s, t, 0, x)
  BY DEF Continues
<1>2. Extends(s, t, x)
  BY <1>1 DEF Pushes
<1>3. Sound(t) /\ t.trie = s.trie
  BY <1>2 DEF Extends
<1>4. ASSUME NEW u, Continues(t, u, x) PROVE Continues(s, u, x)
  BY <1>4, PushesTransitive DEF Continues
<1>5. ASSUME NEW u, Stays(t, u) PROVE Continues(s, u, x)
  <2> SUFFICES ASSUME NEW base \in Nat PROVE Pushes(s, u, base, x)
    BY DEF Continues
  <2>1. Pushes(t, u, base, x)
    BY <1>3, <1>5, StayPushes
  <2>2. Pushes(s, t, base, x)
    BY DEF Continues
  <2> QED BY <2>1, <2>2, PushesTransitive
<1> QED BY <1>2, <1>3, <1>4, <1>5

LEMMA FramesTyped ==
    ASSUME NEW fs \in Seq(Frames), NEW i \in 1..Len(fs)
    PROVE  /\ fs[i] \in Frames /\ fs[i].address \in Address /\ fs[i].savepoint \in Nat
           /\ fs[i].suicides \subseteq Address /\ fs[i].saved \in Views /\ fs[i].creation \in BOOLEAN
           /\ Len(fs) \in Nat /\ 1 \in 1..Len(fs)
<1>1. fs[i] \in Frames /\ Len(fs) \in Nat /\ 1 \in 1..Len(fs)
  OBVIOUS
<1> QED BY <1>1 DEF Frames

\* A step of the innermost frame.
LEMMA FramesContinue ==
    ASSUME NEW fs \in Seq(Frames), fs # <<>>, NEW s, NEW t, NEW x,
           FramesInv(s, fs, Len(fs)), Continues(s, t, x),
           \A i \in 1..Len(fs) : fs[i].creation => fs[i].address # x
    PROVE  FramesInv(t, fs, Len(fs))
<1> DEFINE n == Len(fs)
           base == fs[1].savepoint
<1>1. n \in Nat /\ 1 \in 1..n /\ base \in Nat
      /\ \A i \in 1..n : fs[i].address \in Address /\ fs[i].savepoint \in Nat
  <2>1. n \in Nat /\ 1 \in 1..n
    OBVIOUS
  <2> QED BY <2>1, FramesTyped
<1>2. PICK h : Traced(s, h, base) /\ SavedAgree(fs, h)
  BY DEF FramesInv
<1>3. FramesAgree(s, fs, n)
  BY DEF FramesInv
<1>4. Pushes(s, t, base, x) /\ Extends(s, t, x)
  BY <1>1 DEF Continues, Pushes
<1>5. PICK g : Traced(t, g, base) /\ \A j \in 0..Len(s.log) : g[j] = h[j]
  BY <1>2, <1>4 DEF Pushes
<1>6. /\ Sound(s) /\ Len(s.log) \in Nat /\ Len(t.log) \in Nat
      /\ \A l \in 1..Len(t.log) : t.log[l].address \in Address
  BY <1>2, <1>5, LogTyped DEF Traced, Sound, CacheAgrees
<1>7. FramesAgree(t, fs, n)
  <2>1. \A i \in 1..n : fs[i].savepoint <= Len(t.log)
    BY <1>1, <1>3, <1>4, <1>6 DEF FramesAgree, Extends
  <2>2. ASSUME NEW i \in 1..n
        PROVE  /\ IsDirty(t, fs[i].address)
               /\ fs[i].creation => CodeOf(t, fs[i].address) = EmptySHA3
    <3>1. fs[i].address \in Address /\ IsDirty(s, fs[i].address)
      BY <1>1, <1>3 DEF FramesAgree
    <3>2. fs[i].creation => CodeOf(s, fs[i].address) = EmptySHA3 /\ fs[i].address # x
      BY <1>3 DEF FramesAgree
    <3> QED BY <1>4, <3>1, <3>2 DEF Extends
  <2>3. ASSUME NEW i \in 1..n, NEW j \in 1..n, i < j, NEW l \in (fs[j].savepoint + 1)..Len(t.log),
               First(t.log[l])
        PROVE  t.log[l].address # fs[i].address
    <3>1. CASE l <= Len(s.log)
      <4>1. l \in (fs[j].savepoint + 1)..Len(s.log) /\ l \in 1..Len(s.log)
        BY <1>1, <1>6, <2>3, <3>1
      <4>2. t.log[l] = s.log[l]
        BY <1>4, <4>1 DEF Extends
      <4> QED BY <1>3, <2>3, <4>1, <4>2 DEF FramesAgree
    <3>2. CASE ~(l <= Len(s.log))
      <4>1. l \in (Len(s.log) + 1)..Len(t.log)
        BY <1>1, <1>6, <2>3, <3>2
      <4>2. ~IsDirty(s, t.log[l].address)
        BY <1>4, <2>3, <4>1 DEF Extends
      <4> QED BY <1>3, <4>2 DEF FramesAgree
    <3> QED BY <3>1, <3>2
  <2> QED BY <1>3, <2>1, <2>2, <2>3 DEF FramesAgree
<1>8. SavedAgree(fs, g)
  <2> SUFFICES ASSUME NEW i \in 1..n
               PROVE  g[fs[i].savepoint] = h[fs[i].savepoint]
    BY <1>2 DEF SavedAgree
  <2>1. fs[i].savepoint \in 0..Len(s.log)
    BY <1>1, <1>3, <1>6 DEF FramesAgree
  <2> QED BY <1>5, <2>1
<1> QED BY <1>5, <1>7, <1>8 DEF FramesInv

\* A frame is opened with s, and goes on to t.
LEMMA FramesOpen ==
    ASSUME NEW fs \in Seq(Frames), NEW f \in Frames, NEW s, NEW t, NEW x, Sound(s),
           fs # <<>> => FramesInv(s, fs, Len(fs)),
           Continues(s, t, x), x \notin Address,
           f.savepoint = Len(s.log),
           HasSaved(f, Seen(s)), f.saved.suicides = SuicidesIn(fs, Len(fs)),
           IsDirty(t, f.address),
           f.creation => /\ CodeOf(t, f.address) = EmptySHA3
                         /\ \A i \in 1..Len(fs) : fs[i].address # f.address
    PROVE  FramesInv(t, Append(fs, f), Len(fs) + 1)
<1> DEFINE n == Len(fs)
           gs == Append(fs, f)
           base == gs[1].savepoint
<1>1. /\ n \in Nat /\ gs \in Seq(Frames) /\ Len(gs) = n + 1 /\ gs[n + 1] = f
      /\ \A i \in 1..n : gs[i] = fs[i] /\ gs[i].address \in Address /\ gs[i].savepoint \in Nat
      /\ f.savepoint \in Nat
  <2>1. /\ n \in Nat /\ gs \in Seq(Frames) /\ Len(gs) = n + 1 /\ gs[n + 1] = f
        /\ \A i \in 1..n : gs[i] = fs[i]
    OBVIOUS
  <2> QED BY <2>1, FramesTyped DEF Frames
<1> HIDE DEF gs
<1>2. /\ Len(s.log) \in Nat /\ Len(t.log) \in Nat /\ Extends(s, t, x) /\ Sound(t)
      /\ \A l \in 1..Len(t.log) : t.log[l].address \in Address
  <2>1. Extends(s, t, x) /\ Sound(t)
    BY ContinuesFacts
  <2> QED BY <2>1, LogTyped DEF Sound, CacheAgrees
<1>3. n # 0 => FramesAgree(s, fs, n)
  BY <1>1 DEF FramesInv
<1>4. FramesAgree(t, gs, n + 1)
  <2>1. ASSUME NEW i \in 1..n
        PROVE  /\ gs[i].savepoint <= f.savepoint /\ IsDirty(s, gs[i].address)
               /\ gs[i].creation => CodeOf(s, gs[i].address) = EmptySHA3
    BY <1>1, <1>3 DEF FramesAgree
  <2>2. \A i \in 1..(n + 1) : i \in 1..n \/ i = n + 1
    BY <1>1
  <2>3. \A i \in 1..(n + 1) : gs[i].savepoint <= Len(t.log)
    <3>1. f.savepoint <= Len(t.log)
      BY <1>2 DEF Extends
    <3> QED BY <1>1, <1>2, <2>1, <2>2, <3>1
  <2>4. ASSUME NEW i \in 1..(n + 1), NEW j \in 1..(n + 1), i < j
        PROVE  /\ i \in 1..n /\ (j \in 1..n \/ j = n + 1)
               /\ gs[i].savepoint <= gs[j].savepoint
               /\ gs[j].creation => gs[i].address # gs[j].address
    <3>1. i \in 1..n /\ (j \in 1..n \/ j = n + 1)
      BY <1>1, <2>4
    <3> QED BY <1>1, <1>3, <2>1, <2>4, <3>1 DEF FramesAgree
  <2>5. ASSUME NEW i \in 1..(n + 1)
        PROVE  /\ IsDirty(t, gs[i].address)
               /\ gs[i].creation => CodeOf(t, gs[i].address) = EmptySHA3
    <3>1. CASE i = n + 1
      BY <1>1, <3>1
    <3>2. CASE i \in 1..n
      <4>1. gs[i].address \in Address /\ gs[i].address # x
        BY <1>1, <3>2
      <4> QED BY <1>2, <2>1, <3>2, <4>1 DEF Extends
    <3> QED BY <2>2, <3>1, <3>2
  <2>6. ASSUME NEW i \in 1..(n + 1), NEW j \in 1..(n + 1), i < j,
               NEW l \in (gs[j].savepoint + 1)..Len(t.log), First(t.log[l])
        PROVE  t.log[l].address # gs[i].address
    <3>0. gs[j].savepoint \in Nat /\ i \in 1..n
      BY <1>1, <2>4, <2>6
    <3>1. CASE l <= Len(s.log)
      <4>1. j \in 1..n
        BY <1>1, <1>2, <2>4, <2>6, <3>1
      <4>2. l \in (fs[j].savepoint + 1)..Len(s.log) /\ l \in 1..Len(s.log)
        BY <1>1, <1>2, <2>6, <3>0, <3>1, <4>1
      <4>3. t.log[l] = s.log[l]
        BY <1>2, <4>2 DEF Extends
      <4> QED BY <1>1, <1>3, <2>6, <3>0, <4>1, <4>2, <4>3 DEF FramesAgree
    <3>2. CASE ~(l <= Len(s.log))
      <4>1. l \in (Len(s.log) + 1)..Len(t.log)
        BY <1>2, <2>6, <3>0, <3>2
      <4>2. ~IsDirty(s, t.log[l].address)
        BY <1>2, <2>6, <4>1 DEF Extends
      <4> QED BY <2>1, <3>0, <4>2
    <3> QED BY <3>1, <3>2
  <2> QED BY <1>1, <2>3, <2>4, <2>5, <2>6 DEF FramesAgree
<1>5. PICK h : Traced(s, h, base) /\ h[Len(s.log)] = Seen(s)
               /\ \A i \in 1..n : /\ HasSaved(fs[i], h[fs[i].savepoint])
                                  /\ fs[i].saved.suicides = SuicidesIn(fs, i - 1)
  <2>1. CASE n = 0
    <3> DEFINE k == [j \in Nat |-> Seen(s)]
    <3>1. base = Len(s.log)
      BY <1>1, <2>1
    <3>2. k \in Histories /\ k[Len(s.log)] = Seen(s)
      <4>1. s \in States
        BY DEF Sound, CacheAgrees
      <4>2. Seen(s) \in [Address -> Looks]
        <5>1. ASSUME NEW a \in Address PROVE LookOf(s.cache[a], s.trie[a]) \in Looks
          BY <4>1, <5>1, SeenFacts
        <5> QED BY <5>1 DEF Seen
      <4> QED BY <1>2, <4>2 DEF Histories
    <3>3. Traced(s, k, base)
      <4>1. (base + 1)..Len(s.log) = {}
        BY <1>2, <3>1
      <4> HIDE DEF k
      <4> QED BY <3>2, <4>1 DEF Traced, LogAgrees, History
    <3>4. 1..n = {}
      BY <2>1
    <3> QED BY <3>2, <3>3, <3>4
  <2>2. CASE n # 0
    <3>1. fs # <<>> /\ base = fs[1].savepoint
      BY <1>1, <2>2
    <3>2. PICK k : Traced(s, k, base) /\ SavedAgree(fs, k)
      BY <3>1 DEF FramesInv
    <3> QED BY <3>1, <3>2 DEF SavedAgree, Traced, History
  <2> QED BY <2>1, <2>2
<1>6. PICK g : Traced(t, g, base) /\ \A j \in 0..Len(s.log) : g[j] = h[j]
  <2>1. base \in Nat
    BY <1>1
  <2>2. Pushes(s, t, base, x)
    BY <2>1 DEF Continues
  <2> QED BY <1>5, <2>2 DEF Pushes
<1>7. SavedAgree(gs, g)
  <2>1. \A i \in 1..(n + 1) : SuicidesIn(gs, i - 1) = SuicidesIn(fs, i - 1)
    <3>1. \A i \in 1..(n + 1) : \A j \in 1..(i - 1) : gs[j] = fs[j]
      BY <1>1
    <3> QED BY <3>1 DEF SuicidesIn
  <2>2. ASSUME NEW i \in 1..n
        PROVE  HasSaved(gs[i], g[gs[i].savepoint]) /\ gs[i].saved.suicides = SuicidesIn(gs, i - 1)
    <3>1. fs[i].savepoint \in 0..Len(s.log) /\ fs[i] = gs[i] /\ i \in 1..(n + 1)
      BY <1>1, <1>2, <1>3 DEF FramesAgree
    <3>2. g[fs[i].savepoint] = h[fs[i].savepoint]
      BY <1>6, <3>1
    <3> QED BY <1>5, <2>1, <3>1, <3>2
  <2>3. HasSaved(f, g[f.savepoint]) /\ f.saved.suicides = SuicidesIn(gs, n)
    <3>1. g[f.savepoint] = Seen(s)
      BY <1>1, <1>2, <1>5, <1>6
    <3>2. n + 1 \in 1..(n + 1) /\ n + 1 - 1 = n
      BY <1>1
    <3>3. SuicidesIn(gs, n) = SuicidesIn(fs, n)
      BY <2>1, <3>2
    <3> QED BY <3>1, <3>3
  <2>4. \A i \in 1..(n + 1) : i \in 1..n \/ (i = n + 1 /\ i - 1 = n)
    BY <1>1
  <2> QED BY <1>1, <2>2, <2>3, <2>4 DEF SavedAgree
<1> QED BY <1>4, <1>6, <1>7 DEF FramesInv, gs

\* The first frames of fs; of the last of them, the suicides may change.
LEMMA FramesLess ==
    ASSUME NEW fs \in Seq(Frames), NEW gs \in Seq(Frames), gs # <<>>, Len(gs) <= Len(fs),
           \A i \in 1..Len(gs) : /\ gs[i].address = fs[i].address /\ gs[i].creation = fs[i].creation
                                 /\ gs[i].savepoint = fs[i].savepoint /\ gs[i].saved = fs[i].saved
                                 /\ i # Len(gs) => gs[i].suicides = fs[i].suicides,
           NEW s, NEW open \in Nat, NEW left \in 0..open, left <= Len(gs), FramesInv(s, fs, open)
    PROVE  FramesInv(s, gs, left)
<1> DEFINE n == Len(gs)
<1>1. n \in Nat /\ 1 \in 1..n /\ \A i \in 1..n : i \in 1..Len(fs)
  OBVIOUS
<1>2. FramesAgree(s, fs, open)
  BY DEF FramesInv
<1>3. PICK h : Traced(s, h, fs[1].savepoint) /\ SavedAgree(fs, h)
  BY DEF FramesInv
<1>4. SavedAgree(gs, h)
  <2> SUFFICES ASSUME NEW i \in 1..n
               PROVE  HasSaved(gs[i], h[gs[i].savepoint]) /\ gs[i].saved.suicides = SuicidesIn(gs, i - 1)
    BY DEF SavedAgree
  <2>1. \A j \in 1..(i - 1) : gs[j].suicides = fs[j].suicides
    BY <1>1
  <2>2. SuicidesIn(gs, i - 1) = SuicidesIn(fs, i - 1)
    BY <2>1 DEF SuicidesIn
  <2> QED BY <1>1, <1>3, <2>2 DEF SavedAgree, HasSaved
<1>5. gs[1].savepoint = fs[1].savepoint
  BY <1>1
<1>6. FramesAgree(s, gs, left)
  <2>1. ASSUME NEW i \in 1..n
        PROVE  /\ i \in 1..Len(fs) /\ gs[i].address = fs[i].address /\ gs[i].creation = fs[i].creation
               /\ gs[i].savepoint = fs[i].savepoint
    BY <1>1
  <2>2. \A i \in 1..n : gs[i].savepoint <= Len(s.log)
    BY <1>2, <2>1 DEF FramesAgree
  <2>3. ASSUME NEW i \in 1..left
        PROVE  /\ IsDirty(s, gs[i].address)
               /\ gs[i].creation => CodeOf(s, gs[i].address) = EmptySHA3
    <3>1. i \in 1..open /\ i \in 1..n
      BY <1>1
    <3>2. /\ IsDirty(s, fs[i].address)
          /\ fs[i].creation => CodeOf(s, fs[i].address) = EmptySHA3
      BY <1>2, <3>1 DEF FramesAgree
    <3> QED BY <2>1, <3>1, <3>2
  <2>4. ASSUME NEW i \in 1..n, NEW j \in 1..n, i < j
        PROVE  /\ gs[i].savepoint <= gs[j].savepoint
               /\ gs[j].creation => gs[i].address # gs[j].address
               /\ \A l \in (gs[j].savepoint + 1)..Len(s.log) :
                     First(s.log[l]) => s.log[l].address # gs[i].address
    <3>1. /\ fs[i].savepoint <= fs[j].savepoint
          /\ fs[j].creation => fs[i].address # fs[j].address
          /\ \A l \in (fs[j].savepoint + 1)..Len(s.log) :
                First(s.log[l]) => s.log[l].address # fs[i].address
      BY <1>2, <2>1, <2>4 DEF FramesAgree
    <3> QED BY <2>1, <3>1
  <2> QED BY <2>2, <2>3, <2>4 DEF FramesAgree
<1> QED BY <1>3, <1>4, <1>5, <1>6 DEF FramesInv

-----------------------------------------------------------------------------
(* What is shown of a state, and the steps of WorldState.                    *)

Abs(v, S) ==
    [world |-> [a \in Address |-> v[a].data], condemned |-> {a \in Address : v[a].doomed}, suicides |-> S]

LEMMA AbsTyped ==
    ASSUME NEW v \in [Address -> Looks], NEW S \in SUBSET Address
    PROVE  Abs(v, S) \in Views
BY DEF Abs, Views, Looks

LEMMA WorldOf ==
    ASSUME NEW s \in States
    PROVE  /\ \A a \in Address : AccountOf(s, a) = Seen(s)[a].data
           /\ Condemned(s) = {a \in Address : Seen(s)[a].doomed}
<1>1. \A a \in Address : AccountOf(s, a) = Seen(s)[a].data
  BY SeenFacts
<1>2. \A a \in Address : a \in Condemned(s) <=> Seen(s)[a].doomed
  BY SeenFacts
<1>3. Condemned(s) \subseteq Address
  BY DEF Condemned
<1> QED BY <1>1, <1>2, <1>3

LEMMA ViewIsAbs ==
    ASSUME NEW s \in States
    PROVE  ViewOf(s) = Abs(Seen(s), AllSuicides)
BY WorldOf DEF ViewOf, Abs

LEMMA ViewIsAbsNext ==
    ASSUME m_s' \in States
    PROVE  ViewOf(m_s)' = Abs(Seen(m_s'), AllSuicides')
<1>1. ViewOf(m_s)' = [world |-> [a \in Address |-> AccountOf(m_s', a)],
                      condemned |-> Condemned(m_s'), suicides |-> AllSuicides']
  BY DEF ViewOf
<1> QED BY <1>1, WorldOf DEF Abs

LEMMA SeenTyped ==
    ASSUME NEW s \in States
    PROVE  Seen(s) \in [Address -> Looks]
<1>1. ASSUME NEW a \in Address PROVE LookOf(s.cache[a], s.trie[a]) \in Looks
  BY <1>1, SeenFacts
<1> QED BY <1>1 DEF Seen

LEMMA SuicidesFacts ==
    ASSUME frames \in Seq(Frames)
    PROVE  /\ suicides = {} => AllSuicides = SuicidesIn(frames, Len(frames))
           /\ suicides \subseteq Address /\ frames = <<>> => AllSuicides = suicides
           /\ AllSuicides \in SUBSET Address
<1>1. DOMAIN frames = 1..Len(frames)
  OBVIOUS
<1>2. frames = <<>> => DOMAIN frames = {}
  OBVIOUS
<1> QED BY <1>1, <1>2 DEF AllSuicides, SuicidesIn

LEMMA MovesChanges ==
    ASSUME NEW s \in States, NEW t \in States, Moves(s, t),
           NEW S, NEW T, S \subseteq T
    PROVE  W!Changes(Abs(Seen(s), S), Abs(Seen(t), T))
<1> DEFINE v == Abs(Seen(s), S)
           w == Abs(Seen(t), T)
<1>1. \A a \in Address : v.world[a] = Seen(s)[a].data /\ w.world[a] = Seen(t)[a].data
  BY DEF Abs
<1>2. \A a \in Address : (a \in v.condemned <=> Seen(s)[a].doomed) /\ (a \in w.condemned <=> Seen(t)[a].doomed)
  BY DEF Abs
<1>3. w.condemned \subseteq Address /\ v.suicides \subseteq w.suicides
  BY DEF Abs
<1>4. ASSUME NEW a \in Address
      PROVE  /\ W!Empty(w.world, a) <=> Seen(t)[a].data # None /\ isEmpty(Seen(t)[a].data)
             /\ Seen(t)[a].doomed => W!Empty(w.world, a)
  <2>1. Seen(t)[a].data \in Accounts \cup {None}
    BY SeenTyped DEF Looks
  <2>2. W!Empty(w.world, a) <=> Seen(t)[a].data # None /\ isEmpty(Seen(t)[a].data)
    <3>1. W!Empty(w.world, a) <=> Seen(t)[a].data \in EmptyAccounts
      BY <1>1 DEF W!Empty
    <3> QED BY <2>1, <3>1, NoneAssumption DEF EmptyAccounts, isEmpty
  <2>3. Seen(t)[a].doomed => Seen(t)[a].data # None /\ isEmpty(Seen(t)[a].data)
    <3>1. Seen(t)[a] = LookOf(t.cache[a], t.trie[a]) /\ t.cache[a] \in CacheEntries \cup {None}
      BY SeenFacts
    <3>2. CASE t.cache[a] = None
      <4>1. Seen(t)[a].doomed = FALSE
        BY <3>1, <3>2 DEF LookOf
      <4> QED BY <4>1
    <3>3. CASE t.cache[a] # None
      <4> DEFINE e == t.cache[a]
      <4>1. Seen(t)[a].data = IF e.alive THEN e.data ELSE None
        BY <3>1, <3>3 DEF LookOf
      <4>2. Seen(t)[a].doomed = (e.alive /\ e.dirty /\ isEmpty(e.data))
        BY <3>1, <3>3 DEF LookOf
      <4>3. e.data # None
        BY <3>1, <3>3, EntryIs
      <4> HIDE DEF e
      <4> QED BY <4>1, <4>2, <4>3
    <3> QED BY <3>2, <3>3
  <2> QED BY <2>2, <2>3
<1>5. \A a \in Address :
         /\ Seen(s)[a].data # None => Seen(t)[a].data # None
         /\ /\ Seen(t)[a].data # None /\ isEmpty(Seen(t)[a].data)
            /\ Seen(t)[a].data # Seen(s)[a].data \/ Seen(s)[a].doomed
            => Seen(t)[a].doomed
  BY DEF Moves
<1> HIDE DEF v, w
<1>6. \A a \in Address : v.world[a] # None => w.world[a] # None
  BY <1>1, <1>5
<1>7. w.condemned \subseteq {a \in Address : W!Empty(w.world, a)}
  BY <1>2, <1>3, <1>4
<1>8. \A a \in Address : W!Empty(w.world, a) /\ (w.world[a] # v.world[a] \/ a \in v.condemned)
                             => a \in w.condemned
  BY <1>1, <1>2, <1>4, <1>5
<1>9. W!Changes(v, w)
  BY <1>3, <1>6, <1>7, <1>8 DEF W!Changes
<1> QED BY <1>9 DEF v, w

\* Outside of a rollback, what is shown is what the State says.
LEMMA ShownFacts ==
    /\ phase # "rollback" => Shown = ViewOf(m_s) /\ Open = frames /\ Undoing = FALSE
    /\ phase = "rollback" => Shown = Top.saved /\ Open = Under /\ Undoing = TRUE
    /\ phase' # "rollback" => Shown' = ViewOf(m_s)' /\ Open' = frames' /\ Undoing' = FALSE
    /\ phase' = "rollback" => Shown' = Top.saved' /\ Open' = Under' /\ Undoing' = TRUE
BY DEF Shown, Open, Undoing

SavedOf(fs) == [i \in DOMAIN fs |-> fs[i].saved]

LEMMA WorldChange ==
    ASSUME phase # "rollback", phase' # "rollback", m_s'.trie = m_s.trie, frames' = frames,
           NEW v, NEW w, ViewOf(m_s) = v, ViewOf(m_s)' = w, W!Changes(v, w)
    PROVE  W!Change
<1>1. W!View = v
  BY ShownFacts DEF W!View, ViewOf
<1>2. W!View' = w
  BY ShownFacts DEF W!View, ViewOf
<1>3. SavedOf(Open)' = SavedOf(Open)
  BY ShownFacts DEF SavedOf
<1> QED BY <1>1, <1>2, <1>3, ShownFacts DEF W!Change, SavedOf

-----------------------------------------------------------------------------
(* The operations, from any base.                                            *)

LEMMA StayContinues ==
    ASSUME NEW s, NEW t, NEW x, Sound(s), Stays(s, t)
    PROVE  Continues(s, t, x)
BY StayPushes DEF Continues

LEMMA AddContinues ==
    ASSUME NEW s, Sound(s), NEW a \in Address, NEW v \in Balances, NEW x
    PROVE  LET t == addBalance(s, a, v)
           IN  Continues(s, t, x) /\ OnlyAt(s, t, a) /\ IsDirty(t, a)
<1>1. \A base \in Nat : Works(s, addBalance(s, a, v), base, x, a)
  BY AddBalanceWorks
<1>2. 0 \in Nat
  OBVIOUS
<1> QED BY <1>1, <1>2 DEF Works, Continues

LEMMA SubContinues ==
    ASSUME NEW s, Sound(s), NEW a \in Address, NEW v \in Balances, NEW x
    PROVE  LET t == subBalance(s, a, v)
           IN  Continues(s, t, x) /\ OnlyAt(s, t, a)
<1>1. \A base \in Nat : Pushes(s, subBalance(s, a, v), base, x) /\ OnlyAt(s, subBalance(s, a, v), a)
  BY SubBalancePushes
<1>2. 0 \in Nat
  OBVIOUS
<1> QED BY <1>1, <1>2 DEF Continues

LEMMA TransferContinues ==
    ASSUME NEW s, Sound(s), NEW from \in Address, NEW to \in Address, NEW v \in Balances, NEW x
    PROVE  LET t == transferBalance(s, from, to, v)
           IN  Continues(s, t, x) /\ IsDirty(t, to)
<1>1. \A base \in Nat : /\ Pushes(s, transferBalance(s, from, to, v), base, x)
                        /\ IsDirty(transferBalance(s, from, to, v), to)
  BY TransferPushes
<1>2. 0 \in Nat
  OBVIOUS
<1> QED BY <1>1, <1>2 DEF Continues

LEMMA IncContinues ==
    ASSUME NEW s, Sound(s), NEW a \in Address, NEW x
    PROVE  LET t == incNonce(s, a)
           IN  /\ Extends(s, t, x) /\ OnlyAt(s, t, a) /\ IsDirty(t, a)
               /\ IsDirty(s, a) => Continues(s, t, x)
<1>1. \A base \in Nat :
         /\ Extends(s, incNonce(s, a), x) /\ OnlyAt(s, incNonce(s, a), a) /\ IsDirty(incNonce(s, a), a)
         /\ IsDirty(s, a) => Pushes(s, incNonce(s, a), base, x)
  BY IncNonceWorks
<1>2. 0 \in Nat
  OBVIOUS
<1> QED BY <1>1, <1>2 DEF Continues

LEMMA BecomesContinues ==
    ASSUME NEW s, NEW t, NEW x, Sound(s), Continues(s, t, x), Becomes(t)
    PROVE  Continues(s, m_s', x) /\ \A a \in Address : IsDirty(t, a) => IsDirty(m_s', a)
<1>1. PICK V \in Evictions(t) : m_s' = clearCache(t, V)
  BY DEF Becomes
<1>2. Sound(t)
  BY ContinuesFacts
<1>3. /\ Stays(t, clearCache(t, V))
      /\ \A a \in Address : IsDirty(clearCache(t, V), a) <=> IsDirty(t, a)
  BY <1>2, ClearKeeps DEF Sound
<1>4. Continues(s, clearCache(t, V), x)
  BY <1>3, ContinuesFacts
<1> QED BY <1>1, <1>3, <1>4

\* Executive::call, from its savepoint on.
LEMMA EnterCall ==
    ASSUME NEW s, Sound(s), NEW sender \in Address, NEW receiver \in Address,
           NEW codeAddress \in Address, NEW value \in Balances,
           enterCall(s, sender, receiver, codeAddress, value)
    PROVE  /\ Continues(s, m_s', None)
           /\ \/ UNCHANGED frames
              \/ frames' = Append(frames, Frame(s, receiver, FALSE)) /\ IsDirty(m_s', receiver)
<1> DEFINE t == account(s, codeAddress)
<1>1. Stays(s, t) /\ Sound(t) /\ Continues(s, t, None)
  BY AccountStays, StayContinues DEF Stays
<1> HIDE DEF t
<1>2. CASE /\ Becomes(transferBalance(t, sender, receiver, value))
           /\ frames' = IF addressHasCode(t, codeAddress) THEN Append(frames, Frame(s, receiver, FALSE))
                        ELSE frames
  <2> DEFINE u == transferBalance(t, sender, receiver, value)
  <2>1. Continues(t, u, None) /\ IsDirty(u, receiver)
    BY <1>1, TransferContinues
  <2>2. Becomes(u)
    BY <1>2
  <2> HIDE DEF u
  <2>3. Continues(s, u, None)
    BY <1>1, <2>1, ContinuesFacts
  <2>4. Continues(s, m_s', None) /\ IsDirty(m_s', receiver)
    BY <2>1, <2>2, <2>3, BecomesContinues
  <2> QED BY <1>2, <2>4
<1>3. CASE /\ \/ Becomes(transferBalance(s, sender, receiver, value))
              \/ Becomes(IF EIP158 THEN addBalance(s, codeAddress, 0) ELSE s)
           /\ UNCHANGED frames
  <2>1. ASSUME NEW u, Continues(s, u, None), Becomes(u)
        PROVE  Continues(s, m_s', None)
    BY <2>1, BecomesContinues
  <2>2. Continues(s, transferBalance(s, sender, receiver, value), None)
    BY TransferContinues
  <2>3. Continues(s, IF EIP158 THEN addBalance(s, codeAddress, 0) ELSE s, None)
    <3>1. Continues(s, addBalance(s, codeAddress, 0), None)
      BY AddContinues, ZeroIsBalance
    <3>2. Continues(s, s, None)
      BY StaysItself, StayContinues
    <3> QED BY <3>1, <3>2
  <2> QED BY <1>3, <2>1, <2>2, <2>3
<1> QED BY <1>2, <1>3 DEF enterCall, t

\* Executive::create: the nonce before the savepoint, the rest after it.
LEMMA EnterCreate ==
    ASSUME NEW s, Sound(s), NEW sender \in Address, NEW new \in Address, NEW endowment \in Balances,
           enterCreate(s, sender, new, endowment)
    PROVE  LET t == incNonce(s, sender)
           IN  /\ Extends(s, t, None) /\ OnlyAt(s, t, sender) /\ IsDirty(t, sender)
               /\ IsDirty(s, sender) => Continues(s, t, None)
               /\ Continues(t, m_s', None)
               /\ \/ UNCHANGED frames
                  \/ /\ frames' = Append(frames, Frame(t, new, TRUE))
                     /\ IsDirty(m_s', new) /\ CodeOf(m_s', new) = EmptySHA3
                     /\ \A i \in DOMAIN frames : frames[i].address # new
<1> DEFINE t == incNonce(s, sender)
           u == Endowed(t, sender, new, endowment)
<1>1. /\ Extends(s, t, None) /\ OnlyAt(s, t, sender) /\ IsDirty(t, sender)
      /\ IsDirty(s, sender) => Continues(s, t, None)
  BY IncContinues
<1>2. /\ IsNew(t, new) /\ Becomes(u)
      /\ frames' = Append(frames, Frame(t, new, TRUE)) \/ UNCHANGED frames
  BY DEF enterCreate
<1> HIDE DEF t
<1>3. Sound(t)
  BY <1>1 DEF Extends
<1>4. Continues(t, u, None) /\ IsDirty(u, new)
  <2> DEFINE p == transferBalance(t, sender, new, endowment)
  <2>1. Continues(t, p, None) /\ IsDirty(p, new)
    BY <1>3, TransferContinues
  <2> HIDE DEF p
  <2>2. Sound(p)
    BY <1>3, <2>1, ContinuesFacts
  <2>3. Continues(p, incNonce(p, new), None) /\ IsDirty(incNonce(p, new), new)
    BY <2>1, <2>2, IncContinues
  <2>4. Continues(t, incNonce(p, new), None)
    BY <1>3, <2>1, <2>3, ContinuesFacts
  <2>5. u = IF EIP158 THEN incNonce(p, new) ELSE p
    BY DEF Endowed, p
  <2> HIDE DEF u
  <2> QED BY <2>1, <2>3, <2>4, <2>5
<1> HIDE DEF u
<1>5. Continues(t, m_s', None) /\ IsDirty(m_s', new)
  BY <1>2, <1>3, <1>4, BecomesContinues
<1>6. CodeOf(t, new) = EmptySHA3
  <2>1. AccountOf(t, new) = Seen(t)[new].data
    BY <1>3, SeenFacts DEF Sound, CacheAgrees
  <2> QED BY <1>2, <2>1 DEF IsNew, CodeOf
<1>7. CodeOf(m_s', new) = EmptySHA3
  <2>1. Extends(t, m_s', None)
    BY <1>3, <1>5, ContinuesFacts
  <2>2. new # None
    BY NoneAssumption
  <2> QED BY <1>6, <2>1, <2>2 DEF Extends
<1>8. \A i \in DOMAIN frames : frames[i].address # new
  BY <1>2 DEF IsNew
<1> QED BY <1>1, <1>2, <1>5, <1>7, <1>8 DEF t

LEMMA BalanceTyped ==
    ASSUME NEW s, Sound(s), NEW a \in Address
    PROVE  balance(s, a) \in Balances
<1>1. AccountOf(s, a) \in Accounts \cup {None}
  <2>1. Seen(s) \in [Address -> Looks] /\ AccountOf(s, a) = Seen(s)[a].data
    BY SeenFacts DEF Sound, CacheAgrees
  <2> QED BY <2>1 DEF Looks
<1> QED BY <1>1, ZeroIsBalance, DataFacts DEF balance

LEMMA GivenAwayContinues ==
    ASSUME NEW s, Sound(s), me \in Address, NEW heir \in Address, NEW x
    PROVE  Continues(s, GivenAway(s, heir), x)
<1> DEFINE t == addBalance(s, heir, balance(s, me))
           u == subBalance(t, me, balance(t, me))
<1>1. GivenAway(s, heir) = u
  BY DEF GivenAway
<1>2. Continues(s, t, x)
  BY AddContinues, BalanceTyped
<1> HIDE DEF t
<1>3. Sound(t)
  BY <1>2, ContinuesFacts
<1>4. Continues(t, u, x)
  BY <1>3, SubContinues, BalanceTyped
<1> HIDE DEF u
<1>5. Continues(s, u, x)
  BY <1>2, <1>4, ContinuesFacts
<1> QED BY <1>1, <1>5

-----------------------------------------------------------------------------
(* The inductive invariant, and what the steps of a running transaction do   *)
(* to it and to WorldState.                                                  *)

Payments == [sender : Senders, cost : GasCosts]
Going == IF phase = "rollback" THEN Len(frames) - 1 ELSE Len(frames)
IInv ==
    /\ TypeOK
    /\ CacheAgrees(m_s)
    /\ phase # "finalized" => Sound(m_s)
    /\ phase # "idle" => tx \in Payments
    /\ phase = "rollback" => frames # <<>>
    /\ phase \in {"idle", "finalized"} => frames = <<>> /\ suicides = {}
    /\ frames # <<>> => suicides = {} /\ FramesInv(m_s, frames, Going)

\* What there is to show of a step that ends with code that runs.
LEMMA RunningAgain ==
    ASSUME phase' = "running", Sound(m_s'), frames' \in Seq(Frames), tx' \in Payments,
           suicides' \subseteq Address, transactions' \in 0..MaxTransactions,
           frames' # <<>> => suicides' = {} /\ FramesInv(m_s', frames', Len(frames'))
    PROVE  IInv'
<1>1. m_s' \in States /\ CacheAgrees(m_s')
  BY DEF Sound, CacheAgrees
<1>2. TypeOK'
  BY <1>1 DEF TypeOK, Payments
<1>3. Going' = Len(frames')
  BY DEF Going
<1> QED BY <1>1, <1>2, <1>3 DEF IInv

LEMMA RunningFacts ==
    ASSUME IInv, phase = "running", frames # <<>>
    PROVE  /\ Sound(m_s) /\ m_s \in States /\ frames \in Seq(Frames) /\ tx \in Payments
           /\ suicides = {} /\ transactions \in 0..MaxTransactions
           /\ FramesInv(m_s, frames, Len(frames))
           /\ AllSuicides = SuicidesIn(frames, Len(frames))
           /\ Len(frames) \in Nat /\ Len(frames) \in 1..Len(frames) /\ DOMAIN frames = 1..Len(frames)
           /\ me \in Address /\ IsDirty(m_s, me)
           /\ Top.creation => CodeOf(m_s, me) = EmptySHA3
<1>1. /\ Sound(m_s) /\ m_s \in States /\ frames \in Seq(Frames) /\ tx \in Payments
      /\ suicides = {} /\ transactions \in 0..MaxTransactions
      /\ FramesInv(m_s, frames, Going) /\ Going = Len(frames)
  BY DEF IInv, TypeOK, Going
<1>2. Len(frames) \in Nat /\ Len(frames) \in 1..Len(frames) /\ DOMAIN frames = 1..Len(frames)
  BY <1>1
<1>3. me \in Address
  BY <1>1, <1>2, FramesTyped DEF me, Top
<1>4. IsDirty(m_s, me) /\ (Top.creation => CodeOf(m_s, me) = EmptySHA3)
  BY <1>1, <1>2 DEF FramesInv, FramesAgree, me, Top
<1> QED BY <1>1, <1>2, <1>3, <1>4, SuicidesFacts

LEMMA StepChange ==
    ASSUME IInv, phase = "idle" \/ (phase = "running" /\ frames # <<>>),
           Extends(m_s, m_s', None), frames # <<>> => Continues(m_s, m_s', None),
           phase' = "running", tx' \in Payments, UNCHANGED <<frames, suicides>>,
           transactions' \in 0..MaxTransactions
    PROVE  IInv' /\ W!Change
<1>1. /\ frames \in Seq(Frames) /\ suicides = {} /\ m_s \in States
      /\ Sound(m_s') /\ m_s'.trie = m_s.trie
  <2>1. phase = "idle" => suicides = {}
    BY DEF IInv
  <2>2. phase = "running" /\ frames # <<>> => suicides = {}
    BY RunningFacts
  <2> QED BY <2>1, <2>2 DEF IInv, TypeOK, Extends
<1>2. frames # <<>> => FramesInv(m_s', frames, Len(frames))
  <2> SUFFICES ASSUME frames # <<>> PROVE FramesInv(m_s', frames, Len(frames))
    OBVIOUS
  <2>1. phase = "running"
    BY DEF IInv
  <2>2. FramesInv(m_s, frames, Len(frames))
    BY <2>1, RunningFacts
  <2>3. \A i \in 1..Len(frames) : frames[i].address # None
    <3>1. \A i \in 1..Len(frames) : frames[i].address \in Address
      BY <1>1, FramesTyped
    <3> QED BY <3>1, NoneAssumption
  <2> QED BY <1>1, <2>2, <2>3, FramesContinue
<1>4. IInv'
  BY <1>1, <1>2, RunningAgain
<1>5. W!Change
  <2> DEFINE S == AllSuicides
             v == Abs(Seen(m_s), S)
             w == Abs(Seen(m_s'), S)
  <2>1. m_s' \in States /\ Moves(m_s, m_s')
    BY <1>1 DEF Extends, Sound, CacheAgrees
  <2>2. ViewOf(m_s) = v
    BY <1>1, ViewIsAbs
  <2>3. ViewOf(m_s)' = w
    <3>1. ViewOf(m_s)' = Abs(Seen(m_s'), AllSuicides')
      BY <2>1, ViewIsAbsNext
    <3>2. AllSuicides' = AllSuicides
      BY DEF AllSuicides
    <3> QED BY <3>1, <3>2
  <2>4. W!Changes(v, w)
    BY <1>1, <2>1, MovesChanges
  <2>5. phase # "rollback" /\ phase' # "rollback" /\ frames' = frames
    OBVIOUS
  <2> HIDE DEF v, w
  <2> QED BY <1>1, <2>2, <2>3, <2>4, <2>5, WorldChange
<1> QED BY <1>4, <1>5

LEMMA SavedOfSeq ==
    ASSUME NEW fs \in Seq(Frames)
    PROVE  /\ SavedOf(fs) \in Seq(Views) /\ Len(SavedOf(fs)) = Len(fs)
           /\ \A i \in 1..Len(fs) : SavedOf(fs)[i] = fs[i].saved
<1>1. DOMAIN fs = 1..Len(fs) /\ Len(fs) \in Nat
  OBVIOUS
<1>2. \A i \in 1..Len(fs) : fs[i].saved \in Views
  BY FramesTyped
<1>3. SavedOf(fs) = [i \in 1..Len(fs) |-> fs[i].saved]
  BY <1>1 DEF SavedOf
<1> QED BY <1>1, <1>2, <1>3

LEMMA FrameTyped ==
    ASSUME NEW s, Sound(s), NEW a \in Address, NEW isCreation \in BOOLEAN, frames \in Seq(Frames),
           suicides \subseteq Address
    PROVE  LET f == Frame(s, a, isCreation)
           IN  /\ f \in Frames /\ f.address = a /\ f.creation = isCreation /\ f.savepoint = Len(s.log)
               /\ f.suicides = {} /\ f.saved = Abs(Seen(s), AllSuicides)
               /\ HasSaved(f, Seen(s)) /\ f.saved.suicides = AllSuicides
<1>1. s \in States /\ Len(s.log) \in Nat
  BY LogTyped DEF Sound, CacheAgrees
<1>2. ViewOf(s) = Abs(Seen(s), AllSuicides) /\ Abs(Seen(s), AllSuicides) \in Views
  BY <1>1, ViewIsAbs, SeenTyped, AbsTyped, SuicidesFacts
<1>3. Frame(s, a, isCreation) =
         [address |-> a, creation |-> isCreation, savepoint |-> Len(s.log), suicides |-> {},
          saved |-> Abs(Seen(s), AllSuicides)]
  BY <1>2 DEF Frame
<1>4. Frame(s, a, isCreation) \in Frames
  BY <1>1, <1>2, <1>3 DEF Frames
<1> QED BY <1>3, <1>4 DEF HasSaved, Abs

LEMMA WorldOpen ==
    ASSUME phase # "rollback", phase' # "rollback", m_s'.trie = m_s.trie,
           frames \in Seq(Frames), NEW f \in Frames, frames' = Append(frames, f),
           NEW v, NEW w, ViewOf(m_s) = v, ViewOf(m_s)' = w,
           W!Prepares(v, f.saved), W!Changes(f.saved, w)
    PROVE  W!Open
<1> DEFINE n == Len(frames)
           gs == Append(frames, f)
<1>1. W!View = v
  BY ShownFacts DEF W!View, ViewOf
<1>2. W!View' = w
  BY ShownFacts DEF W!View, ViewOf
<1>3. SavedOf(Open) = SavedOf(frames) /\ SavedOf(Open)' = SavedOf(gs)
  BY ShownFacts DEF SavedOf
<1>4. /\ n \in Nat /\ gs \in Seq(Frames) /\ Len(gs) = n + 1 /\ gs[n + 1] = f
      /\ \A i \in 1..n : gs[i] = frames[i]
  OBVIOUS
<1> HIDE DEF gs
<1>5. /\ Len(SavedOf(gs)) = Len(SavedOf(frames)) + 1
      /\ SavedOf(gs)[Len(SavedOf(gs))] = f.saved
      /\ SubSeq(SavedOf(gs), 1, Len(SavedOf(frames))) = SavedOf(frames)
  <2>1. /\ SavedOf(frames) \in Seq(Views) /\ Len(SavedOf(frames)) = n
        /\ \A i \in 1..n : SavedOf(frames)[i] = frames[i].saved
    BY SavedOfSeq
  <2>2. /\ SavedOf(gs) \in Seq(Views) /\ Len(SavedOf(gs)) = n + 1
        /\ \A i \in 1..(n + 1) : SavedOf(gs)[i] = gs[i].saved
    BY <1>4, SavedOfSeq
  <2>3. \A i \in 1..n : SavedOf(gs)[i] = SavedOf(frames)[i]
    BY <1>4, <2>1, <2>2
  <2>4. SavedOf(gs)[n + 1] = f.saved
    BY <1>4, <2>2
  <2> HIDE DEF n
  <2> QED BY <1>4, <2>1, <2>2, <2>3, <2>4
<1> QED BY <1>1, <1>2, <1>3, <1>5, ShownFacts DEF W!Open, SavedOf

LEMMA StepOpen ==
    ASSUME IInv, phase = "idle" \/ (phase = "running" /\ frames # <<>>),
           NEW s, NEW a \in Address, NEW isCreation \in BOOLEAN, NEW payer \in Address,
           Extends(m_s, s, None), OnlyAt(m_s, s, payer), frames # <<>> => Continues(m_s, s, None),
           Continues(s, m_s', None),
           frames' = Append(frames, Frame(s, a, isCreation)), IsDirty(m_s', a),
           isCreation => /\ CodeOf(m_s', a) = EmptySHA3
                         /\ \A i \in DOMAIN frames : frames[i].address # a,
           phase' = "running", tx' \in Payments, UNCHANGED suicides, transactions' \in 0..MaxTransactions
    PROVE  IInv' /\ W!Open
<1> DEFINE f == Frame(s, a, isCreation)
           n == Len(frames)
<1>1. /\ frames \in Seq(Frames) /\ suicides = {} /\ Sound(m_s) /\ m_s \in States /\ Sound(s)
      /\ n \in Nat /\ DOMAIN frames = 1..n
  <2>1. frames \in Seq(Frames) /\ suicides = {} /\ Sound(m_s) /\ m_s \in States /\ Sound(s)
    BY DEF IInv, TypeOK, Extends
  <2> QED BY <2>1
<1>2. /\ f \in Frames /\ f.address = a /\ f.creation = isCreation /\ f.savepoint = Len(s.log)
      /\ f.saved = Abs(Seen(s), AllSuicides) /\ f.suicides = {}
      /\ HasSaved(f, Seen(s)) /\ f.saved.suicides = AllSuicides /\ AllSuicides = SuicidesIn(frames, n)
  BY <1>1, FrameTyped, SuicidesFacts
<1> HIDE DEF f
<1>3. Sound(m_s') /\ Extends(s, m_s', None) /\ m_s'.trie = m_s.trie
  <2>1. Sound(m_s') /\ Extends(s, m_s', None) /\ m_s'.trie = s.trie
    BY <1>1, ContinuesFacts
  <2> QED BY <2>1 DEF Extends
<1>4. frames # <<>> => FramesInv(s, frames, n)
  <2> SUFFICES ASSUME frames # <<>> PROVE FramesInv(s, frames, n)
    OBVIOUS
  <2>1. phase = "running"
    BY DEF IInv
  <2>2. FramesInv(m_s, frames, n)
    BY <2>1, RunningFacts
  <2>3. \A i \in 1..n : frames[i].address # None
    <3>1. \A i \in 1..n : frames[i].address \in Address
      BY <1>1, FramesTyped
    <3> QED BY <3>1, NoneAssumption
  <2> QED BY <1>1, <2>2, <2>3, FramesContinue
<1>5. FramesInv(m_s', frames', Len(frames')) /\ frames' \in Seq(Frames) /\ frames' # <<>>
  <2>1. frames' = Append(frames, f)
    BY DEF f
  <2>2. Len(Append(frames, f)) = n + 1 /\ Append(frames, f) \in Seq(Frames) /\ Append(frames, f) # <<>>
    BY <1>1, <1>2
  <2>3. None \notin Address
    BY NoneAssumption
  <2>4. FramesInv(m_s', Append(frames, f), n + 1)
    BY <1>1, <1>2, <1>4, <2>3, FramesOpen
  <2> QED BY <2>1, <2>2, <2>4
<1>6. IInv'
  BY <1>1, <1>3, <1>5, RunningAgain
<1>7. W!Open
  <2> DEFINE v == Abs(Seen(m_s), AllSuicides)
             u == Abs(Seen(s), AllSuicides)
             w == Abs(Seen(m_s'), AllSuicides')
  <2>1. m_s' \in States /\ s \in States /\ Moves(m_s, s) /\ Moves(s, m_s')
    BY <1>1, <1>3 DEF Extends, Sound, CacheAgrees
  <2>2. ViewOf(m_s) = v /\ ViewOf(m_s)' = w
    BY <1>1, <2>1, ViewIsAbs, ViewIsAbsNext
  <2>3. AllSuicides \subseteq AllSuicides'
    <3>1. \A i \in DOMAIN frames : i \in DOMAIN frames' /\ frames'[i] = frames[i]
      <4>1. /\ Len(Append(frames, f)) = n + 1
            /\ \A i \in 1..n : Append(frames, f)[i] = frames[i]
            /\ DOMAIN Append(frames, f) = 1..(n + 1)
        BY <1>1, <1>2
      <4> QED BY <1>1, <4>1 DEF f
    <3> QED BY <3>1 DEF AllSuicides
  <2>4. W!Changes(v, u) /\ W!Changes(u, w)
    BY <1>1, <2>1, <2>3, MovesChanges
  <2>5. W!Prepares(v, u)
    <3>1. \A b \in Address \ {payer} : u.world[b] = v.world[b]
      BY DEF Abs, OnlyAt
    <3>2. u.suicides = v.suicides
      BY DEF Abs
    <3> HIDE DEF u, v
    <3> QED BY <2>4, <3>1, <3>2 DEF W!Prepares
  <2>6. f.saved = u /\ frames' = Append(frames, f)
    BY <1>2 DEF f
  <2>7. phase # "rollback" /\ phase' # "rollback"
    OBVIOUS
  <2> HIDE DEF u, v, w
  <2> QED BY <1>1, <1>2, <1>3, <2>2, <2>4, <2>5, <2>6, <2>7, WorldOpen
<1> QED BY <1>6, <1>7

-----------------------------------------------------------------------------
(* One lemma per action: the invariant is kept, and WorldState makes a step. *)

LEMMA ConstantsTyped ==
    /\ Senders \subseteq Address /\ Precompiled \subseteq Address
    /\ Amounts \subseteq Balances /\ GasCosts \subseteq Balances
BY ExecutiveAssumption

\* A contract that runs calls.
LEMMA CallStep ==
    ASSUME IInv, NEW codeAddress \in Address, NEW value \in Amounts, call(codeAddress, value)
    PROVE  IInv' /\ (W!Open \/ W!Change)
<1>1. /\ phase = "running" /\ frames # <<>>
      /\ UNCHANGED <<phase, tx, suicides, transactions>>
  BY DEF call, Running
<1>2. /\ Sound(m_s) /\ frames \in Seq(Frames) /\ tx \in Payments /\ me \in Address
      /\ transactions \in 0..MaxTransactions
  BY <1>1, RunningFacts
<1> DEFINE s == account(m_s, me)
<1>3. Stays(m_s, s) /\ Sound(s) /\ Continues(m_s, s, None) /\ OnlyAt(m_s, s, me)
  BY <1>2, AccountStays, StayContinues, OnlyAtFacts DEF Stays
<1>4. PICK receiver \in {codeAddress, me} : enterCall(s, me, receiver, codeAddress, value)
  BY DEF call
<1> HIDE DEF s
<1>5. receiver \in Address /\ value \in Balances
  BY <1>2, <1>4, ConstantsTyped
<1>6. /\ Continues(s, m_s', None)
      /\ \/ UNCHANGED frames
         \/ frames' = Append(frames, Frame(s, receiver, FALSE)) /\ IsDirty(m_s', receiver)
  BY <1>2, <1>3, <1>4, <1>5, EnterCall
<1>7. Continues(m_s, m_s', None) /\ Extends(m_s, s, None)
  BY <1>2, <1>3, <1>6, ContinuesFacts
<1>8. Extends(m_s, m_s', None)
  BY <1>2, <1>7, ContinuesFacts
<1>9. CASE UNCHANGED frames
  BY <1>1, <1>2, <1>7, <1>8, <1>9, StepChange
<1>10. CASE frames' = Append(frames, Frame(s, receiver, FALSE)) /\ IsDirty(m_s', receiver)
  BY <1>1, <1>2, <1>3, <1>5, <1>6, <1>7, <1>10, StepOpen
<1> QED BY <1>6, <1>9, <1>10

\* ... and creates.
LEMMA CreateStep ==
    ASSUME IInv, NEW new \in Address, NEW endowment \in Amounts, create(new, endowment)
    PROVE  IInv' /\ (W!Open \/ W!Change)
<1>1. /\ phase = "running" /\ frames # <<>>
      /\ enterCreate(m_s, me, new, endowment)
      /\ UNCHANGED <<phase, tx, suicides, transactions>>
  BY DEF create, Running
<1>2. /\ Sound(m_s) /\ frames \in Seq(Frames) /\ tx \in Payments /\ me \in Address
      /\ IsDirty(m_s, me) /\ transactions \in 0..MaxTransactions /\ endowment \in Balances
  BY <1>1, RunningFacts, ConstantsTyped
<1> DEFINE t == incNonce(m_s, me)
<1>3. /\ Extends(m_s, t, None) /\ OnlyAt(m_s, t, me)
      /\ Continues(m_s, t, None) /\ Continues(t, m_s', None)
      /\ \/ UNCHANGED frames
         \/ /\ frames' = Append(frames, Frame(t, new, TRUE))
            /\ IsDirty(m_s', new) /\ CodeOf(m_s', new) = EmptySHA3
            /\ \A i \in DOMAIN frames : frames[i].address # new
  BY <1>1, <1>2, EnterCreate
<1> HIDE DEF t
<1>4. Continues(m_s, m_s', None)
  BY <1>2, <1>3, ContinuesFacts
<1>5. Extends(m_s, m_s', None)
  BY <1>2, <1>4, ContinuesFacts
<1>6. CASE UNCHANGED frames
  BY <1>1, <1>2, <1>4, <1>5, <1>6, StepChange
<1>7. CASE /\ frames' = Append(frames, Frame(t, new, TRUE))
           /\ IsDirty(m_s', new) /\ CodeOf(m_s', new) = EmptySHA3
           /\ \A i \in DOMAIN frames : frames[i].address # new
  BY <1>1, <1>2, <1>3, <1>7, StepOpen
<1> QED BY <1>3, <1>6, <1>7

LEMMA SetStoreStep ==
    ASSUME IInv, NEW k \in Keys, NEW v \in Values, setStore(k, v)
    PROVE  IInv' /\ W!Change
<1>1. /\ phase = "running" /\ frames # <<>> /\ m_s' = setStorage(m_s, me, k, v)
      /\ UNCHANGED <<frames, phase, tx, suicides, transactions>>
  BY DEF setStore, Running
<1>2. /\ Sound(m_s) /\ tx \in Payments /\ me \in Address
      /\ IsDirty(m_s, me) /\ transactions \in 0..MaxTransactions
  BY <1>1, RunningFacts
<1>3. \A base \in Nat : Pushes(m_s, setStorage(m_s, me, k, v), base, None)
  BY <1>2, SetStoragePushes
<1>4. Continues(m_s, m_s', None)
  BY <1>1, <1>3 DEF Continues
<1>5. Extends(m_s, m_s', None)
  BY <1>2, <1>4, ContinuesFacts
<1> QED BY <1>1, <1>2, <1>4, <1>5, StepChange

LEMMA LookStep ==
    ASSUME IInv, NEW a \in Address, look(a)
    PROVE  IInv' /\ W!Change
<1>1. /\ phase = "running" /\ frames # <<>> /\ Becomes(account(m_s, a))
      /\ UNCHANGED <<frames, phase, tx, suicides, transactions>>
  BY DEF look, Running
<1>2. Sound(m_s) /\ tx \in Payments /\ transactions \in 0..MaxTransactions
  BY <1>1, RunningFacts
<1>3. Continues(m_s, account(m_s, a), None)
  BY <1>2, AccountStays, StayContinues
<1>4. Continues(m_s, m_s', None)
  BY <1>1, <1>2, <1>3, BecomesContinues
<1>5. Extends(m_s, m_s', None)
  BY <1>2, <1>4, ContinuesFacts
<1> QED BY <1>1, <1>2, <1>4, <1>5, StepChange

\* A transaction: its sender pays and is counted before there is a savepoint.
LEMMA ExecuteStep ==
    ASSUME IInv, NEW sender \in Senders, NEW to \in Address, NEW value \in Amounts, NEW cost \in GasCosts,
           execute(sender, to, value, cost)
    PROVE  IInv' /\ (W!Open \/ W!Change)
<1> DEFINE looked == account(m_s, sender)
           paid == subBalance(looked, sender, cost)
           t == incNonce(paid, sender)
<1>1. /\ phase = "idle"
      /\ \/ enterCall(t, sender, to, to, value)
         \/ enterCreate(paid, sender, to, value)
      /\ phase' = "running" /\ tx' = [sender |-> sender, cost |-> cost]
      /\ transactions < MaxTransactions /\ transactions' = transactions + 1 /\ UNCHANGED suicides
  BY DEF execute
<1>2. /\ Sound(m_s) /\ frames = <<>> /\ frames \in Seq(Frames)
      /\ sender \in Address /\ value \in Balances /\ cost \in Balances
  BY <1>1, ConstantsTyped DEF IInv, TypeOK
<1>3. tx' \in Payments /\ transactions' \in 0..MaxTransactions
  <2>1. tx' \in Payments
    BY <1>1 DEF Payments
  <2>2. transactions' \in 0..MaxTransactions
    <3>1. transactions \in 0..MaxTransactions /\ MaxTransactions \in Nat
      BY ExecutiveAssumption DEF IInv, TypeOK
    <3> QED BY <1>1, <3>1
  <2> QED BY <2>1, <2>2
<1>4. Extends(m_s, paid, None) /\ OnlyAt(m_s, paid, sender) /\ Sound(paid)
  <2>1. Stays(m_s, looked) /\ Sound(looked) /\ Continues(m_s, looked, None) /\ OnlyAt(m_s, looked, sender)
    BY <1>2, AccountStays, StayContinues, OnlyAtFacts DEF Stays
  <2> HIDE DEF looked
  <2>2. Continues(looked, paid, None) /\ OnlyAt(looked, paid, sender)
    BY <1>2, <2>1, SubContinues
  <2> HIDE DEF paid
  <2>3. Continues(m_s, paid, None)
    BY <1>2, <2>1, <2>2, ContinuesFacts
  <2> QED BY <1>2, <2>1, <2>2, <2>3, ContinuesFacts, OnlyAtFacts
<1> HIDE DEF paid
<1>5. Extends(paid, t, None) /\ OnlyAt(paid, t, sender)
  BY <1>2, <1>4, IncContinues
<1>6. Extends(m_s, t, None) /\ OnlyAt(m_s, t, sender) /\ Sound(t)
  <2> HIDE DEF t
  <2>1. Extends(m_s, t, None)
    BY <1>2, <1>4, <1>5, ExtendsTransitive
  <2> QED BY <1>2, <1>4, <1>5, <2>1, OnlyAtFacts DEF Extends
<1>7. /\ Continues(t, m_s', None)
      /\ \/ UNCHANGED frames
         \/ frames' = Append(frames, Frame(t, to, FALSE)) /\ IsDirty(m_s', to)
         \/ /\ frames' = Append(frames, Frame(t, to, TRUE))
            /\ IsDirty(m_s', to) /\ CodeOf(m_s', to) = EmptySHA3
            /\ \A i \in DOMAIN frames : frames[i].address # to
  <2>1. CASE enterCall(t, sender, to, to, value)
    <3> HIDE DEF t
    <3> QED BY <1>2, <1>6, <2>1, EnterCall
  <2>2. CASE enterCreate(paid, sender, to, value)
    BY <1>2, <1>4, <2>2, EnterCreate
  <2> QED BY <1>1, <2>1, <2>2
<1> HIDE DEF t
<1>8. Extends(m_s, m_s', None)
  BY <1>2, <1>6, <1>7, ContinuesFacts, ExtendsTransitive
<1> HIDE DEF looked
<1>12. /\ phase = "idle" \/ (phase = "running" /\ frames # <<>>)
       /\ phase' = "running" /\ UNCHANGED suicides
       /\ tx' \in Payments /\ transactions' \in 0..MaxTransactions
  BY <1>1, <1>3
<1>13. frames # <<>> => Continues(m_s, m_s', None) /\ Continues(m_s, t, None)
  BY <1>2
<1>9. CASE UNCHANGED frames
  BY <1>8, <1>9, <1>12, <1>13, StepChange
<1>10. CASE frames' = Append(frames, Frame(t, to, FALSE)) /\ IsDirty(m_s', to)
  BY <1>2, <1>6, <1>7, <1>10, <1>12, <1>13, StepOpen
<1>11. CASE /\ frames' = Append(frames, Frame(t, to, TRUE))
            /\ IsDirty(m_s', to) /\ CodeOf(m_s', to) = EmptySHA3
            /\ \A i \in DOMAIN frames : frames[i].address # to
  BY <1>2, <1>6, <1>7, <1>11, <1>12, <1>13, StepOpen
<1> QED BY <1>7, <1>9, <1>10, <1>11

\* The frames that are left when the innermost one ends: its suicides are its caller's.
LEMMA UnderFacts ==
    ASSUME NEW fs \in Seq(Frames), fs # <<>>
    PROVE  LET under == SubSeq(fs, 1, Len(fs) - 1)
           IN  /\ under \in Seq(Frames) /\ Len(under) = Len(fs) - 1 /\ Len(under) \in Nat
               /\ Len(fs) \in 1..Len(fs)
               /\ \A i \in 1..Len(under) : under[i] = fs[i] /\ i \in 1..Len(fs) /\ i < Len(fs)
               /\ \A i \in 1..Len(fs) : i \in 1..Len(under) \/ i = Len(fs)
               /\ SavedOf(under) = SubSeq(SavedOf(fs), 1, Len(SavedOf(fs)) - 1)
               /\ SavedOf(fs) # <<>> /\ SavedOf(fs)[Len(SavedOf(fs))] = fs[Len(fs)].saved
<1> DEFINE under == SubSeq(fs, 1, Len(fs) - 1)
<1>1. /\ under \in Seq(Frames) /\ Len(under) = Len(fs) - 1 /\ Len(under) \in Nat
      /\ Len(fs) \in 1..Len(fs)
      /\ \A i \in 1..Len(under) : under[i] = fs[i] /\ i \in 1..Len(fs) /\ i < Len(fs)
      /\ \A i \in 1..Len(fs) : i \in 1..Len(under) \/ i = Len(fs)
  <2>1. Len(fs) \in Nat /\ Len(fs) # 0
    OBVIOUS
  <2>2. under \in Seq(Frames) /\ Len(under) = Len(fs) - 1 /\ \A i \in 1..(Len(fs) - 1) : under[i] = fs[i]
    <3> DEFINE m == Len(fs) - 1
    <3>1. m \in Nat /\ \A i \in 1..m : i \in 1..Len(fs) /\ fs[i] \in Frames
      BY <2>1
    <3>2. under = SubSeq(fs, 1, m)
      OBVIOUS
    <3> HIDE DEF m, under
    <3>3. Len(under) = m
      BY <3>1, <3>2
    <3>4. \A i \in 1..m : under[i] = fs[i]
      BY <3>1, <3>2
    <3>5. under \in Seq(Frames)
      BY <3>1, <3>2, <3>3, <3>4
    <3> QED BY <3>3, <3>4, <3>5 DEF m
  <2> HIDE DEF under
  <2> QED BY <2>1, <2>2
<1> HIDE DEF under
<1>2. /\ SavedOf(fs) \in Seq(Views) /\ Len(SavedOf(fs)) = Len(fs)
      /\ \A i \in 1..Len(fs) : SavedOf(fs)[i] = fs[i].saved
  BY SavedOfSeq
<1>3. /\ SavedOf(under) \in Seq(Views) /\ Len(SavedOf(under)) = Len(under)
      /\ \A i \in 1..Len(under) : SavedOf(under)[i] = under[i].saved
  BY <1>1, SavedOfSeq
<1>4. \A i \in 1..Len(under) : SavedOf(under)[i] = SavedOf(fs)[i]
  BY <1>1, <1>2, <1>3
<1>5. SavedOf(under) = SubSeq(SavedOf(fs), 1, Len(SavedOf(fs)) - 1)
  <2> DEFINE p == SavedOf(under)
             q == SavedOf(fs)
  <2>1. /\ p \in Seq(Views) /\ q \in Seq(Views) /\ Len(p) = Len(q) - 1 /\ Len(p) \in Nat
        /\ \A i \in 1..Len(p) : p[i] = q[i]
    BY <1>1, <1>2, <1>3, <1>4
  <2> HIDE DEF p, q
  <2>2. p = SubSeq(q, 1, Len(q) - 1)
    BY <2>1
  <2> QED BY <2>2 DEF p, q
<1>6. SavedOf(fs) # <<>> /\ SavedOf(fs)[Len(SavedOf(fs))] = fs[Len(fs)].saved
  BY <1>1, <1>2
<1> QED BY <1>1, <1>5, <1>6 DEF under

LEMMA EndsFrames ==
    ASSUME frames \in Seq(Frames), frames # <<>>, suicides = {}, NEW dead, dead \subseteq Address, Ends(dead)
    PROVE  /\ frames' \in Seq(Frames) /\ Len(frames') = Len(frames) - 1
           /\ \A i \in 1..Len(frames') :
                 /\ frames'[i].address = frames[i].address /\ frames'[i].creation = frames[i].creation
                 /\ frames'[i].savepoint = frames[i].savepoint /\ frames'[i].saved = frames[i].saved
                 /\ i # Len(frames') => frames'[i].suicides = frames[i].suicides
           /\ AllSuicides \subseteq AllSuicides'
           /\ frames' # <<>> => suicides' = {}
           /\ suicides' \subseteq Address
<1> DEFINE n == Len(frames)
           k == Len(Under)
           mine == Top.suicides \cup dead
<1>1. /\ Under \in Seq(Frames) /\ k = n - 1 /\ k \in Nat /\ n \in 1..n
      /\ \A i \in 1..k : Under[i] = frames[i] /\ i \in 1..n
      /\ \A i \in 1..n : i \in 1..k \/ i = n
  BY UnderFacts DEF Under
<1>2. mine \subseteq Address /\ Top.suicides = frames[n].suicides
  BY <1>1, FramesTyped DEF Top
<1>3. /\ frames' = IF k = 0 THEN <<>> ELSE [Under EXCEPT ![k].suicides = @ \cup mine]
      /\ suicides' = IF k = 0 THEN mine ELSE suicides
  BY DEF Ends
<1>4. DOMAIN frames = 1..n
  OBVIOUS
<1> HIDE DEF k, mine
<1>5. CASE k = 0
  <2>1. frames' = <<>> /\ suicides' = mine /\ Len(frames') = 0 /\ 1..0 = {}
    BY <1>3, <1>5
  <2>2. \A a \in Address : a \in AllSuicides => a \in suicides'
    BY <1>1, <1>2, <1>4, <1>5, <2>1 DEF AllSuicides, mine
  <2>3. AllSuicides \subseteq AllSuicides'
    BY <2>2 DEF AllSuicides
  <2> QED BY <1>1, <1>2, <1>5, <2>1, <2>3
<1>6. CASE k # 0
  <2> DEFINE f == [Under[k] EXCEPT !.suicides = @ \cup mine]
  <2>1. k \in 1..k
    BY <1>1, <1>6
  <2>2. Under[k] \in Frames
    BY <1>1, <2>1
  <2>3. /\ f \in Frames /\ f.address = Under[k].address /\ f.creation = Under[k].creation
        /\ f.savepoint = Under[k].savepoint /\ f.saved = Under[k].saved
        /\ f.suicides = Under[k].suicides \cup mine
    BY <1>2, <2>2 DEF Frames
  <2>4. frames' = [Under EXCEPT ![k] = f]
    BY <1>3, <1>6
  <2> HIDE DEF f
  <2>5. /\ frames' \in Seq(Frames) /\ Len(frames') = k /\ frames'[k] = f
        /\ DOMAIN frames' = 1..k
        /\ \A i \in 1..k : i # k => frames'[i] = Under[i]
    BY <1>1, <2>1, <2>3, <2>4 DEF k
  <2>6. ASSUME NEW i \in 1..k
        PROVE  /\ frames'[i].address = frames[i].address /\ frames'[i].creation = frames[i].creation
               /\ frames'[i].savepoint = frames[i].savepoint /\ frames'[i].saved = frames[i].saved
               /\ i # k => frames'[i].suicides = frames[i].suicides
               /\ frames[i].suicides \subseteq frames'[i].suicides
    <3>1. CASE i = k
      BY <1>1, <2>1, <2>3, <2>5, <3>1
    <3>2. CASE i # k
      BY <1>1, <2>5, <3>2
    <3> QED BY <3>1, <3>2
  <2>7. AllSuicides \subseteq AllSuicides'
    <3> SUFFICES ASSUME NEW a \in Address, NEW i \in 1..n, a \in frames[i].suicides
                 PROVE  \E j \in DOMAIN frames' : a \in frames'[j].suicides
      BY <1>4 DEF AllSuicides
    <3>1. CASE i \in 1..k
      BY <2>5, <2>6, <3>1
    <3>2. CASE i = n
      <4>1. a \in f.suicides
        BY <1>2, <2>3, <3>2 DEF mine
      <4> QED BY <2>1, <2>5, <4>1
    <3> QED BY <1>1, <3>1, <3>2
  <2> QED BY <1>1, <1>3, <1>6, <2>5, <2>6, <2>7
<1> QED BY <1>5, <1>6

LEMMA WorldKeep ==
    ASSUME phase # "rollback", phase' # "rollback", m_s'.trie = m_s.trie,
           frames \in Seq(Frames), frames # <<>>, frames' \in Seq(Frames), Len(frames') = Len(frames) - 1,
           \A i \in 1..Len(frames') : frames'[i].saved = frames[i].saved,
           NEW v, NEW w, ViewOf(m_s) = v, ViewOf(m_s)' = w, W!Changes(v, w)
    PROVE  W!Keep
<1>1. W!View = v
  BY ShownFacts DEF W!View, ViewOf
<1>2. W!View' = w
  BY ShownFacts DEF W!View, ViewOf
<1>3. SavedOf(Open) = SavedOf(frames) /\ SavedOf(Open)' = SavedOf(frames')
  BY ShownFacts DEF SavedOf
<1>4. SavedOf(frames') = SavedOf(Under)
  <2>1. Len(Under) = Len(frames) - 1 /\ \A i \in 1..Len(Under) : Under[i] = frames[i]
        /\ DOMAIN Under = 1..Len(Under)
    <3>1. Under \in Seq(Frames)
      BY UnderFacts DEF Under
    <3> QED BY <3>1, UnderFacts DEF Under
  <2>2. DOMAIN frames' = 1..Len(frames')
    OBVIOUS
  <2> QED BY <2>1, <2>2 DEF SavedOf
<1>5. /\ SavedOf(Under) = SubSeq(SavedOf(frames), 1, Len(SavedOf(frames)) - 1)
      /\ SavedOf(frames) # <<>>
  BY UnderFacts DEF Under
<1> QED BY <1>1, <1>2, <1>3, <1>4, <1>5, ShownFacts DEF W!Keep, SavedOf

LEMMA StepKeep ==
    ASSUME IInv, phase = "running", frames # <<>>, NEW dead, dead \subseteq Address, Ends(dead),
           NEW x, Continues(m_s, m_s', x), x = None \/ (Top.creation /\ x = me)
    PROVE  IInv' /\ W!Keep
<1> DEFINE n == Len(frames)
           k == Len(frames')
<1>1. /\ Sound(m_s) /\ m_s \in States /\ frames \in Seq(Frames) /\ tx \in Payments
      /\ suicides = {} /\ transactions \in 0..MaxTransactions
      /\ FramesInv(m_s, frames, n) /\ n \in Nat /\ n \in 1..n
  BY RunningFacts
<1>2. /\ frames' \in Seq(Frames) /\ k = n - 1
      /\ \A i \in 1..k :
            /\ frames'[i].address = frames[i].address /\ frames'[i].creation = frames[i].creation
            /\ frames'[i].savepoint = frames[i].savepoint /\ frames'[i].saved = frames[i].saved
            /\ i # k => frames'[i].suicides = frames[i].suicides
      /\ AllSuicides \subseteq AllSuicides'
      /\ frames' # <<>> => suicides' = {}
      /\ suicides' \subseteq Address
  BY <1>1, EndsFrames
<1>3. Extends(m_s, m_s', x) /\ Sound(m_s') /\ m_s'.trie = m_s.trie
  BY <1>1, ContinuesFacts
<1>4. UNCHANGED <<phase, tx, transactions>>
  BY DEF Ends
<1>5. frames' # <<>> => FramesInv(m_s', frames', k)
  <2> SUFFICES ASSUME frames' # <<>> PROVE FramesInv(m_s', frames', k)
    OBVIOUS
  <2>1. k \in 0..n /\ k <= n
    BY <1>1, <1>2
  <2>2. FramesInv(m_s, frames', k)
    BY <1>1, <1>2, <2>1, FramesLess
  <2>3. ASSUME NEW i \in 1..k, frames'[i].creation
        PROVE  frames'[i].address # x
    <3>1. i \in 1..n /\ i < n /\ frames'[i].address = frames[i].address
      BY <1>1, <1>2
    <3>2. frames[i].address \in Address
      BY <1>1, <3>1, FramesTyped
    <3>3. CASE x = None
      BY <3>1, <3>2, <3>3, NoneAssumption
    <3>4. CASE Top.creation /\ x = me
      <4>1. FramesAgree(m_s, frames, n)
        BY <1>1 DEF FramesInv
      <4>2. frames[n].creation /\ x = frames[n].address
        BY <3>4 DEF Top, me
      <4> QED BY <1>1, <3>1, <4>1, <4>2 DEF FramesAgree
    <3> QED BY <3>3, <3>4
  <2> QED BY <1>2, <2>2, <2>3, FramesContinue
<1>6. IInv'
  BY <1>1, <1>2, <1>3, <1>4, <1>5, RunningAgain
<1>7. W!Keep
  <2> DEFINE v == Abs(Seen(m_s), AllSuicides)
             w == Abs(Seen(m_s'), AllSuicides')
  <2>1. m_s' \in States /\ Moves(m_s, m_s')
    BY <1>3 DEF Extends, Sound, CacheAgrees
  <2>2. ViewOf(m_s) = v /\ ViewOf(m_s)' = w
    BY <1>1, <2>1, ViewIsAbs, ViewIsAbsNext
  <2>3. W!Changes(v, w)
    BY <1>1, <1>2, <2>1, MovesChanges
  <2>4. phase # "rollback" /\ phase' # "rollback"
    BY <1>4
  <2> HIDE DEF v, w
  <2> QED BY <1>1, <1>2, <1>3, <2>2, <2>3, <2>4, WorldKeep
<1> QED BY <1>6, <1>7

\* RETURN: the code of a creation is set last, and none but the frame itself is about to set it.
LEMMA ReturnStep ==
    ASSUME IInv, NEW output \in Codes \cup {EmptySHA3}, return(output)
    PROVE  IInv' /\ W!Keep
<1>1. /\ phase = "running" /\ frames # <<>> /\ Ends({})
      /\ m_s' = IF Top.creation THEN setNewCode(m_s, me, output) ELSE m_s
  BY DEF return, Running
<1>2. /\ Sound(m_s) /\ me \in Address /\ IsDirty(m_s, me)
      /\ Top.creation => CodeOf(m_s, me) = EmptySHA3
  BY <1>1, RunningFacts
<1>3. {} \subseteq Address
  OBVIOUS
<1>4. CASE Top.creation
  <2>1. \A base \in Nat : Pushes(m_s, setNewCode(m_s, me, output), base, me)
    BY <1>2, <1>4, SetCodePushes
  <2>2. Continues(m_s, m_s', me)
    BY <1>1, <1>4, <2>1 DEF Continues
  <2> QED BY <1>1, <1>3, <1>4, <2>2, StepKeep
<1>5. CASE ~Top.creation
  <2>1. Continues(m_s, m_s', None)
    BY <1>1, <1>2, <1>5, StaysItself, StayContinues
  <2> QED BY <1>1, <1>3, <2>1, StepKeep
<1> QED BY <1>4, <1>5

LEMMA SuicideStep ==
    ASSUME IInv, NEW heir \in Address, suicide(heir)
    PROVE  IInv' /\ W!Keep
<1> DEFINE t == GivenAway(m_s, heir)
           u == IF Top.creation THEN setNewCode(t, me, EmptySHA3) ELSE t
<1>1. phase = "running" /\ frames # <<>> /\ Becomes(u) /\ Ends({me})
  BY DEF suicide, Running
<1>2. /\ Sound(m_s) /\ me \in Address /\ IsDirty(m_s, me)
      /\ Top.creation => CodeOf(m_s, me) = EmptySHA3
  BY <1>1, RunningFacts
<1>3. \A x : Continues(m_s, t, x)
  BY <1>2, GivenAwayContinues
<1>4. {me} \subseteq Address
  BY <1>2
<1>5. CASE Top.creation
  <2> HIDE DEF t
  <2>1. Continues(m_s, t, me) /\ Extends(m_s, t, None) /\ Sound(t)
    BY <1>2, <1>3, ContinuesFacts
  <2>2. IsDirty(t, me) /\ CodeOf(t, me) = EmptySHA3
    <3>1. me # None
      BY <1>2, NoneAssumption
    <3> QED BY <1>2, <1>5, <2>1, <3>1 DEF Extends
  <2>3. \A base \in Nat : Pushes(t, setNewCode(t, me, EmptySHA3), base, me)
    BY <1>2, <2>1, <2>2, SetCodePushes
  <2>4. Continues(t, u, me)
    BY <1>5, <2>3 DEF Continues
  <2> HIDE DEF u
  <2>5. Continues(m_s, m_s', me)
    BY <1>1, <1>2, <2>1, <2>4, ContinuesFacts, BecomesContinues
  <2> QED BY <1>1, <1>4, <1>5, <2>5, StepKeep
<1>6. CASE ~Top.creation
  <2>1. Continues(m_s, u, None)
    BY <1>3, <1>6
  <2> HIDE DEF t, u
  <2>2. Continues(m_s, m_s', None)
    BY <1>1, <1>2, <2>1, BecomesContinues
  <2> QED BY <1>1, <1>4, <2>2, StepKeep
<1> QED BY <1>5, <1>6

\* An exception gives a frame up; from then on what is shown is what it found.
LEMMA ThrowStep ==
    ASSUME IInv, throw
    PROVE  IInv' /\ W!Undo
<1> DEFINE n == Len(frames)
           f == [frames[n] EXCEPT !.suicides = {}]
<1>1. /\ phase = "running" /\ frames # <<>>
      /\ frames' = [frames EXCEPT ![n].suicides = {}]
      /\ phase' = "rollback" /\ UNCHANGED <<m_s, tx, suicides, transactions>>
  BY DEF throw
<1>2. /\ Sound(m_s) /\ m_s \in States /\ frames \in Seq(Frames) /\ tx \in Payments
      /\ suicides = {} /\ transactions \in 0..MaxTransactions
      /\ FramesInv(m_s, frames, n) /\ n \in Nat /\ n \in 1..n /\ DOMAIN frames = 1..n
  BY <1>1, RunningFacts
<1>3. /\ f \in Frames /\ f.address = frames[n].address /\ f.creation = frames[n].creation
      /\ f.savepoint = frames[n].savepoint /\ f.saved = frames[n].saved
  <2>1. frames[n] \in Frames
    BY <1>2
  <2> QED BY <2>1 DEF Frames
<1>4. frames' = [frames EXCEPT ![n] = f]
  BY <1>1
<1> HIDE DEF f
<1>5. /\ frames' \in Seq(Frames) /\ Len(frames') = n /\ frames'[n] = f /\ DOMAIN frames' = 1..n
      /\ \A i \in 1..n : i # n => frames'[i] = frames[i]
  BY <1>2, <1>3, <1>4
<1>6. frames' # <<>>
  <2>1. n # 0
    BY <1>2
  <2> QED BY <1>5, <2>1
<1>7. ASSUME NEW i \in 1..n
      PROVE  /\ frames'[i].address = frames[i].address /\ frames'[i].creation = frames[i].creation
             /\ frames'[i].savepoint = frames[i].savepoint /\ frames'[i].saved = frames[i].saved
             /\ i # n => frames'[i].suicides = frames[i].suicides
  BY <1>3, <1>5
<1>8. IInv'
  <2>1. FramesInv(m_s, frames', n - 1)
    <3> DEFINE left == n - 1
               gs == frames'
    <3>1. left \in 0..n /\ left <= Len(gs) /\ n \in Nat /\ Len(gs) <= Len(frames)
      <4>1. n \in Nat /\ n \in 1..n /\ Len(gs) = n
        BY <1>2, <1>5
      <4> HIDE DEF gs
      <4> QED BY <4>1
    <3>2. /\ gs \in Seq(Frames) /\ gs # <<>>
          /\ \A i \in 1..Len(gs) : /\ gs[i].address = frames[i].address /\ gs[i].creation = frames[i].creation
                                   /\ gs[i].savepoint = frames[i].savepoint /\ gs[i].saved = frames[i].saved
                                   /\ i # Len(gs) => gs[i].suicides = frames[i].suicides
      BY <1>5, <1>6, <1>7
    <3> HIDE DEF left, gs
    <3>3. FramesInv(m_s, gs, left)
      BY <1>2, <3>1, <3>2, FramesLess
    <3> QED BY <3>3 DEF left, gs
  <2>2. Going' = n - 1
    BY <1>1, <1>5 DEF Going
  <2>3. TypeOK'
    BY <1>1, <1>2, <1>5 DEF TypeOK
  <2>4. FramesInv(m_s, frames', Going')
    BY <2>1, <2>2
  <2> QED BY <1>1, <1>2, <1>6, <2>3, <2>4 DEF IInv, Sound
<1>9. W!Undo
  <2>1. /\ SavedOf(Open) = SavedOf(frames) /\ SavedOf(Open)' = SavedOf(Under')
        /\ Undoing = FALSE /\ Undoing' = TRUE
    BY <1>1, ShownFacts DEF SavedOf
  <2>2. /\ SavedOf(Under') = SubSeq(SavedOf(frames'), 1, Len(SavedOf(frames')) - 1)
        /\ SavedOf(frames) # <<>> /\ SavedOf(frames)[Len(SavedOf(frames))] = frames[n].saved
    <3>1. Under' = SubSeq(frames', 1, Len(frames') - 1)
      BY DEF Under
    <3> QED BY <1>1, <1>2, <1>5, <1>6, <3>1, UnderFacts
  <2>3. SavedOf(frames') = SavedOf(frames)
    BY <1>2, <1>5, <1>7 DEF SavedOf
  <2>4. Shown' = frames[n].saved /\ frames[n].saved \in Views
    <3>1. Top' = f
      BY <1>5 DEF Top
    <3> QED BY <1>1, <1>2, <1>3, <3>1, ShownFacts, FramesTyped
  <2>5. W!View' = frames[n].saved
    <3>1. W!View' = [world |-> Shown'.world, condemned |-> Shown'.condemned, suicides |-> Shown'.suicides]
      BY DEF W!View
    <3> QED BY <2>4, <3>1 DEF Views
  <2> QED BY <1>1, <2>1, <2>2, <2>3, <2>5 DEF W!Undo, SavedOf
<1> QED BY <1>8, <1>9

LEMMA UndoingFacts ==
    ASSUME IInv, phase = "rollback"
    PROVE  /\ Sound(m_s) /\ m_s \in States /\ frames \in Seq(Frames) /\ frames # <<>> /\ tx \in Payments
           /\ suicides = {} /\ transactions \in 0..MaxTransactions
           /\ FramesInv(m_s, frames, Len(frames) - 1)
           /\ Len(frames) \in Nat /\ Len(frames) \in 1..Len(frames) /\ Top = frames[Len(frames)]
           /\ Len(m_s.log) \in Nat /\ Top.savepoint \in Nat /\ frames[1].savepoint \in Nat
           /\ frames[1].savepoint <= Top.savepoint /\ Top.savepoint <= Len(m_s.log)
<1>1. /\ Sound(m_s) /\ m_s \in States /\ frames \in Seq(Frames) /\ frames # <<>> /\ tx \in Payments
      /\ suicides = {} /\ transactions \in 0..MaxTransactions
      /\ FramesInv(m_s, frames, Going) /\ Going = Len(frames) - 1
  BY DEF IInv, TypeOK, Going
<1>2. Len(frames) \in Nat /\ Len(frames) \in 1..Len(frames) /\ 1 \in 1..Len(frames)
  BY <1>1
<1>3. Len(m_s.log) \in Nat /\ Top.savepoint \in Nat /\ frames[1].savepoint \in Nat
  BY <1>1, <1>2, LogTyped, FramesTyped DEF Top
<1>4. frames[1].savepoint <= Top.savepoint /\ Top.savepoint <= Len(m_s.log)
  <2>1. FramesAgree(m_s, frames, Len(frames) - 1)
    BY <1>1 DEF FramesInv
  <2>2. Top.savepoint <= Len(m_s.log)
    BY <1>2, <2>1 DEF FramesAgree, Top
  <2>3. CASE Len(frames) = 1
    <3>1. frames[1].savepoint = Top.savepoint
      BY <2>3 DEF Top
    <3> QED BY <1>3, <2>2, <3>1
  <2>4. CASE Len(frames) # 1
    <3>1. 1 < Len(frames)
      BY <1>2, <2>4
    <3> QED BY <1>2, <2>1, <2>2, <3>1 DEF FramesAgree, Top
  <2> QED BY <2>2, <2>3, <2>4
<1> QED BY <1>1, <1>2, <1>3, <1>4 DEF Top

\* The frames around the one that is undone have their accounts still.
LEMMA RollbackFrames ==
    ASSUME IInv, phase = "rollback", Len(m_s.log) > Top.savepoint
    PROVE  FramesInv(rollbackOne(m_s), frames, Len(frames) - 1)
           /\ Sound(rollbackOne(m_s)) /\ rollbackOne(m_s).trie = m_s.trie
<1> USE UndoingFacts
<1> DEFINE n == Len(frames)
           m == Len(m_s.log)
           t == rollbackOne(m_s)
           c == LastChange(m_s)
           base == frames[1].savepoint
<1>1. FramesAgree(m_s, frames, n - 1)
  BY DEF FramesInv
<1>2. PICK h : Traced(m_s, h, base) /\ SavedAgree(frames, h)
  BY DEF FramesInv
<1>3. base < m
  OBVIOUS
<1>4. /\ Traced(t, h, base) /\ t.trie = m_s.trie
      /\ Len(t.log) = m - 1 /\ \A j \in 1..Len(t.log) : t.log[j] = m_s.log[j]
      /\ \A a \in Address : (First(c) => a # c.address) =>
            /\ IsDirty(m_s, a) => IsDirty(t, a)
            /\ CodeOf(m_s, a) = EmptySHA3 => CodeOf(t, a) = EmptySHA3
  BY <1>2, <1>3, RollbackTraced
<1>5. FramesAgree(t, frames, n - 1)
  <2>1. ASSUME NEW i \in 1..n
        PROVE  frames[i].savepoint <= Len(t.log) /\ frames[i].savepoint \in Nat
    <3>1. frames[i].savepoint \in Nat
      BY FramesTyped
    <3>2. CASE i = n
      BY <1>4, <3>2
    <3>3. CASE i # n
      <4>1. i < n
        BY <3>3
      <4>2. frames[i].savepoint <= Top.savepoint
        BY <1>1, <4>1 DEF FramesAgree
      <4> QED BY <1>4, <3>1, <4>2
    <3> QED BY <3>1, <3>2, <3>3
  <2>2. ASSUME NEW i \in 1..(n - 1)
        PROVE  /\ IsDirty(t, frames[i].address)
               /\ frames[i].creation => CodeOf(t, frames[i].address) = EmptySHA3
    <3>1. i \in 1..n /\ i < n
      OBVIOUS
    <3>2. frames[i].address \in Address
      BY <3>1, FramesTyped
    <3>3. First(c) => frames[i].address # c.address
      <4>1. m \in (Top.savepoint + 1)..m
        OBVIOUS
      <4>2. First(m_s.log[m]) => m_s.log[m].address # frames[i].address
        BY <1>1, <3>1, <4>1 DEF FramesAgree
      <4> QED BY <4>2 DEF LastChange
    <3>4. /\ IsDirty(m_s, frames[i].address)
          /\ frames[i].creation => CodeOf(m_s, frames[i].address) = EmptySHA3
      BY <1>1 DEF FramesAgree
    <3> HIDE DEF t, c
    <3> QED BY <1>4, <3>2, <3>3, <3>4
  <2>3. ASSUME NEW i \in 1..n, NEW j \in 1..n, i < j,
               NEW l \in (frames[j].savepoint + 1)..Len(t.log), First(t.log[l])
        PROVE  t.log[l].address # frames[i].address
    <3>1. l \in (frames[j].savepoint + 1)..m /\ l \in 1..Len(t.log)
      BY <1>4, <2>1, <2>3
    <3>2. t.log[l] = m_s.log[l]
      BY <1>4, <3>1
    <3> QED BY <1>1, <2>3, <3>1, <3>2 DEF FramesAgree
  <2> QED BY <1>1, <2>1, <2>2, <2>3 DEF FramesAgree
<1>6. FramesInv(t, frames, n - 1)
  BY <1>2, <1>4, <1>5 DEF FramesInv
<1> QED BY <1>4, <1>6 DEF Traced

LEMMA RollbackStep ==
    ASSUME IInv, rollback
    PROVE  IInv' /\ (W!GoOn \/ UNCHANGED W!worldVars)
<1> DEFINE n == Len(frames)
<1>1. phase = "rollback" /\ UNCHANGED <<tx, suicides, transactions>>
  BY DEF rollback
<1>2. /\ Sound(m_s) /\ m_s \in States /\ frames \in Seq(Frames) /\ frames # <<>> /\ tx \in Payments
      /\ suicides = {} /\ transactions \in 0..MaxTransactions
      /\ FramesInv(m_s, frames, n - 1)
      /\ n \in Nat /\ n \in 1..n /\ Top = frames[n]
      /\ Len(m_s.log) \in Nat /\ Top.savepoint \in Nat
      /\ Top.savepoint <= Len(m_s.log)
  BY <1>1, UndoingFacts
<1>3. CASE Len(m_s.log) > Top.savepoint
  <2>1. m_s' = rollbackOne(m_s) /\ UNCHANGED <<frames, phase>>
    BY <1>3 DEF rollback
  <2>2. FramesInv(m_s', frames, n - 1) /\ Sound(m_s') /\ m_s'.trie = m_s.trie
    BY <1>1, <1>3, <2>1, RollbackFrames
  <2>3. IInv'
    <3>1. Going' = n - 1
      BY <1>1, <2>1 DEF Going
    <3>2. m_s' \in States /\ CacheAgrees(m_s')
      BY <2>2 DEF Sound, CacheAgrees
    <3>3. TypeOK'
      BY <1>1, <1>2, <2>1, <3>2 DEF TypeOK
    <3> QED BY <1>1, <1>2, <2>1, <2>2, <3>1, <3>2, <3>3 DEF IInv
  <2>4. /\ Shown' = Shown /\ Open' = Open /\ Undoing' = Undoing
        /\ SavedOf(Open)' = SavedOf(Open)
    BY <1>1, <2>1 DEF Shown, Open, Undoing, Top, Under, SavedOf
  <2> QED BY <2>2, <2>3, <2>4 DEF W!worldVars, SavedOf
<1>4. CASE ~(Len(m_s.log) > Top.savepoint)
  <2>1. frames' = Under /\ phase' = "running" /\ UNCHANGED m_s
    BY <1>4 DEF rollback
  <2>2. /\ Under \in Seq(Frames) /\ Len(Under) = n - 1 /\ Len(Under) \in Nat
        /\ \A i \in 1..Len(Under) : Under[i] = frames[i]
    BY <1>2, UnderFacts DEF Under
  <2>3. frames' # <<>> => FramesInv(m_s', frames', Len(frames'))
    <3> DEFINE left == n - 1
    <3>1. left \in 0..left /\ left <= Len(Under) /\ left \in Nat /\ Len(Under) <= Len(frames)
      BY <1>2, <2>2
    <3>2. FramesInv(m_s, frames, left)
      BY <1>2
    <3>3. Len(Under) = left
      BY <2>2
    <3> HIDE DEF left
    <3>4. Under # <<>> => FramesInv(m_s, Under, left)
      BY <1>2, <2>2, <3>1, <3>2, FramesLess
    <3> QED BY <2>1, <3>3, <3>4
  <2>4. IInv'
    BY <1>1, <1>2, <2>1, <2>2, <2>3, RunningAgain
  <2>5. Top.saved = Abs(Seen(m_s), AllSuicides')
    <3>1. PICK h : Traced(m_s, h, frames[1].savepoint) /\ SavedAgree(frames, h)
      BY <1>2 DEF FramesInv
    <3>2. h[Top.savepoint] = Seen(m_s)
      <4>1. Top.savepoint = Len(m_s.log)
        BY <1>2, <1>4
      <4> QED BY <3>1, <4>1 DEF Traced, History
    <3>3. HasSaved(Top, Seen(m_s)) /\ Top.saved.suicides = SuicidesIn(frames, n - 1)
      BY <1>2, <3>1, <3>2 DEF SavedAgree
    <3>4. AllSuicides' = SuicidesIn(frames, n - 1)
      <4>1. DOMAIN Under = 1..(n - 1) /\ suicides' = {}
        BY <1>1, <1>2, <2>2
      <4>2. \A i \in 1..(n - 1) : Under[i] = frames[i]
        BY <2>2
      <4> QED BY <2>1, <4>1, <4>2 DEF AllSuicides, SuicidesIn
    <3>5. Top.saved \in Views
      BY <1>2, FramesTyped
    <3> QED BY <3>3, <3>4, <3>5 DEF HasSaved, Abs, Views
  <2>6. Shown' = Shown
    <3>1. ViewOf(m_s)' = Abs(Seen(m_s'), AllSuicides')
      BY <1>2, <2>1, ViewIsAbsNext
    <3>2. Shown = Top.saved /\ Shown' = ViewOf(m_s)'
      BY <1>1, <2>1, ShownFacts
    <3> QED BY <2>1, <2>5, <3>1, <3>2
  <2>7. Undoing = TRUE /\ Undoing' = FALSE /\ SavedOf(Open)' = SavedOf(Open)
    BY <1>1, <2>1, ShownFacts DEF SavedOf
  <2> QED BY <2>1, <2>4, <2>6, <2>7 DEF W!GoOn, SavedOf
<1> QED BY <1>3, <1>4

-----------------------------------------------------------------------------
(* The end of a transaction.                                                 *)

LEMMA KillFacts ==
    ASSUME NEW s, Sound(s), NEW S, S \subseteq Address
    PROVE  LET t == kill(s, S)
           IN  /\ CacheAgrees(t) /\ t.trie = s.trie
               /\ \A a \in S : Seen(t)[a] = [data |-> None, doomed |-> FALSE]
               /\ \A a \in Address \ S : Seen(t)[a] = Seen(s)[a]
<1> DEFINE t == kill(s, S)
           there == {a \in S : s.cache[a] # None \/ s.trie[a] # None}
           C == [a \in Address |-> IF a \in there THEN Dead ELSE s.cache[a]]
           A == s.absent \cup (S \ there)
           U == s.unchanged \cup {a \in there : s.cache[a] = None}
<1>1. s \in States /\ CacheAgrees(s)
  BY DEF Sound, CacheAgrees
<1>2. t = [s EXCEPT !.cache = C, !.absent = A, !.unchanged = U]
  BY DEF kill
<1>3. Dead \in CacheEntries /\ Dead # None /\ Dead.alive = FALSE /\ Dead.dirty = TRUE
  <2>1. Fresh(0, 0) \in Accounts
    BY FreshFacts, ZeroIsBalance
  <2>2. \A p, q \in BOOLEAN : Entry(p, q, Fresh(0, 0)) \in CacheEntries /\ Entry(p, q, Fresh(0, 0)) # None
    BY <2>1, EntryFields
  <2>3. Entry(FALSE, TRUE, Fresh(0, 0)).alive = FALSE /\ Entry(FALSE, TRUE, Fresh(0, 0)).dirty = TRUE
    BY DEF Entry
  <2> QED BY <2>2, <2>3 DEF Dead
<1>4. C \in [Address -> CacheEntries \cup {None}] /\ A \subseteq Address /\ U \subseteq Address
  BY <1>1, <1>3 DEF States
<1>5. /\ \A a \in there : C[a] = Dead /\ a \in S
      /\ \A a \in Address \ there : C[a] = s.cache[a]
      /\ \A a \in S \ there : s.cache[a] = None /\ s.trie[a] = None
      /\ \A a \in A : a \in s.absent \/ a \in S \ there
      /\ \A a \in s.absent : s.cache[a] = None /\ s.trie[a] = None /\ a \notin there /\ a \in Address
  BY <1>1 DEF CacheAgrees, States
<1> HIDE DEF t, there, C, A, U
<1>6. t \in States /\ t.trie = s.trie /\ t.cache = C /\ t.absent = A
  BY <1>1, <1>2, <1>4 DEF States
<1>7. CacheAgrees(t)
  <2>1. ASSUME NEW a \in Address, t.cache[a] # None, ~t.cache[a].dirty
        PROVE  t.cache[a].alive /\ t.cache[a].data = t.trie[a]
    <3>1. a \notin there
      BY <1>3, <1>5, <1>6, <2>1
    <3> QED BY <1>1, <1>5, <1>6, <2>1, <3>1 DEF CacheAgrees
  <2>2. \A a \in t.absent : t.cache[a] = None /\ t.trie[a] = None
    BY <1>5, <1>6
  <2> QED BY <1>6, <2>1, <2>2 DEF CacheAgrees
<1>8. ASSUME NEW a \in S
      PROVE  Seen(t)[a] = [data |-> None, doomed |-> FALSE]
  <2>1. Seen(t)[a] = LookOf(t.cache[a], t.trie[a])
    BY DEF Seen
  <2>2. CASE a \in there
    <3>1. t.cache[a] = Dead
      BY <1>5, <1>6, <2>2
    <3>2. LookOf(Dead, t.trie[a]) = [data |-> None, doomed |-> FALSE]
      BY <1>3 DEF LookOf
    <3> QED BY <2>1, <3>1, <3>2
  <2>3. CASE a \notin there
    <3>1. t.cache[a] = None /\ t.trie[a] = None
      BY <1>5, <1>6, <2>3
    <3> QED BY <2>1, <3>1 DEF LookOf
  <2> QED BY <2>2, <2>3
<1>9. ASSUME NEW a \in Address \ S
      PROVE  Seen(t)[a] = Seen(s)[a]
  <2>1. t.cache[a] = s.cache[a]
    BY <1>5, <1>6
  <2> QED BY <1>6, <2>1 DEF Seen
<1> QED BY <1>6, <1>7, <1>8, <1>9 DEF t

\* The State that a transaction leaves behind.
LEMMA AbandonedFacts ==
    ASSUME NEW s, CacheAgrees(s)
    PROVE  LET t == Abandoned(s)
           IN  /\ Sound(t) /\ t.trie = s.trie
               /\ \A a \in Address : Seen(t)[a] = [data |-> t.trie[a], doomed |-> FALSE]
<1> DEFINE t == Abandoned(s)
           C == [a \in Address |-> None]
<1>1. s \in States
  BY DEF CacheAgrees
<1>2. t = [s EXCEPT !.cache = C]
  BY DEF Abandoned, Emptied
<1>3. C \in [Address -> CacheEntries \cup {None}] /\ \A a \in Address : C[a] = None
  OBVIOUS
<1> HIDE DEF t, C
<1>4. t \in States /\ t.trie = s.trie /\ t.cache = C /\ t.absent = s.absent
  BY <1>1, <1>2, <1>3 DEF States
<1>5. \A a \in s.absent : a \in Address
  BY <1>1 DEF States
<1>6. Sound(t)
  BY <1>3, <1>4, <1>5 DEF Sound, CacheAgrees
<1>7. ASSUME NEW a \in Address
      PROVE  Seen(t)[a] = [data |-> t.trie[a], doomed |-> FALSE]
  BY <1>3, <1>4 DEF Seen, LookOf
<1> QED BY <1>4, <1>6, <1>7 DEF t

LEMMA WrittenFacts ==
    ASSUME NEW s \in States, \A a \in s.absent : s.cache[a] = None /\ s.trie[a] = None
    PROVE  LET t == written(s)
           IN  /\ Sound(t)
               /\ \A a \in Address :
                     /\ t.trie[a] = IF IsDirty(s, a) THEN Seen(s)[a].data ELSE s.trie[a]
                     /\ Seen(t)[a] = [data |-> t.trie[a], doomed |-> FALSE]
<1> DEFINE t == written(s)
           C == [a \in Address |-> None]
           T == [a \in Address |-> IF s.cache[a] # None /\ s.cache[a].dirty THEN AccountOf(s, a) ELSE s.trie[a]]
<1>1. t = [s EXCEPT !.trie = T, !.cache = C, !.log = <<>>, !.unchanged = {}]
  BY DEF written, Emptied
<1>2. C \in [Address -> CacheEntries \cup {None}] /\ \A a \in Address : C[a] = None
  OBVIOUS
<1>3. ASSUME NEW a \in Address
      PROVE  /\ AccountOf(s, a) = Seen(s)[a].data /\ AccountOf(s, a) \in Accounts \cup {None}
             /\ s.trie[a] \in Accounts \cup {None}
  <2>1. AccountOf(s, a) = Seen(s)[a].data /\ Seen(s) \in [Address -> Looks] /\ s.trie[a] \in Accounts \cup {None}
    BY SeenFacts
  <2> QED BY <2>1 DEF Looks
<1>4. T \in [Address -> Accounts \cup {None}]
  BY <1>3
<1>5. \A a \in Address : T[a] = IF IsDirty(s, a) THEN Seen(s)[a].data ELSE s.trie[a]
  BY <1>3 DEF IsDirty
<1> HIDE DEF t, C, T
<1>6. t \in States /\ t.trie = T /\ t.cache = C /\ t.absent = s.absent
  <2>1. <<>> \in Seq(Changes)
    OBVIOUS
  <2> QED BY <1>1, <1>2, <1>4, <2>1 DEF States
<1>7. Sound(t)
  <2>1. ASSUME NEW a \in s.absent
        PROVE  a \in Address /\ C[a] = None /\ T[a] = None
    <3>1. a \in Address /\ ~IsDirty(s, a) /\ s.trie[a] = None
      BY <2>1 DEF States, IsDirty
    <3> QED BY <1>2, <1>5, <3>1
  <2> QED BY <1>2, <1>6, <2>1 DEF Sound, CacheAgrees
<1>8. ASSUME NEW a \in Address
      PROVE  Seen(t)[a] = [data |-> t.trie[a], doomed |-> FALSE]
  BY <1>2, <1>6 DEF Seen, LookOf
<1> QED BY <1>5, <1>6, <1>7, <1>8 DEF t

LEMMA CommitFacts ==
    ASSUME NEW s, CacheAgrees(s), NEW removeEmpty \in BOOLEAN
    PROVE  LET t == commit(s, removeEmpty)
           IN  /\ Sound(t)
               /\ \A a \in Address :
                     /\ t.trie[a] = IF removeEmpty /\ Seen(s)[a].doomed THEN None ELSE Seen(s)[a].data
                     /\ Seen(t)[a] = [data |-> t.trie[a], doomed |-> FALSE]
<1> DEFINE p == IF removeEmpty THEN removeEmptyAccounts(s) ELSE s
           t == written(p)
<1>1. s \in States
  BY DEF CacheAgrees
<1>2. Dead \in CacheEntries /\ Dead # None /\ Dead.alive = FALSE /\ Dead.dirty = TRUE
  <2>1. Fresh(0, 0) \in Accounts
    BY FreshFacts, ZeroIsBalance
  <2>2. \A q, r \in BOOLEAN : Entry(q, r, Fresh(0, 0)) \in CacheEntries /\ Entry(q, r, Fresh(0, 0)) # None
    BY <2>1, EntryFields
  <2>3. Entry(FALSE, TRUE, Fresh(0, 0)).alive = FALSE /\ Entry(FALSE, TRUE, Fresh(0, 0)).dirty = TRUE
    BY DEF Entry
  <2> QED BY <2>2, <2>3 DEF Dead
<1>3. /\ p \in States /\ p.trie = s.trie /\ p.absent = s.absent
      /\ \A a \in Address :
            p.cache[a] = IF removeEmpty /\ s.cache[a] # None /\ s.cache[a].dirty /\ isEmpty(s.cache[a].data)
                         THEN Dead ELSE s.cache[a]
  <2>1. CASE ~removeEmpty
    BY <1>1, <2>1
  <2>2. CASE removeEmpty
    <3> DEFINE C == [a \in Address |->
                        IF s.cache[a] # None /\ s.cache[a].dirty /\ isEmpty(s.cache[a].data) THEN Dead ELSE s.cache[a]]
    <3>1. p = [s EXCEPT !.cache = C]
      BY <2>2 DEF removeEmptyAccounts
    <3>2. C \in [Address -> CacheEntries \cup {None}]
      BY <1>1, <1>2 DEF States
    <3>3. \A a \in Address :
            C[a] = IF s.cache[a] # None /\ s.cache[a].dirty /\ isEmpty(s.cache[a].data) THEN Dead ELSE s.cache[a]
      OBVIOUS
    <3> HIDE DEF p, C
    <3>4. p \in States /\ p.trie = s.trie /\ p.absent = s.absent /\ p.cache = C
      BY <1>1, <3>1, <3>2 DEF States
    <3> QED BY <2>2, <3>3, <3>4
  <2> QED BY <2>1, <2>2
<1>4. commit(s, removeEmpty) = t
  BY DEF commit
<1> HIDE DEF p
<1>5. \A a \in p.absent : p.cache[a] = None /\ p.trie[a] = None
  <2>1. \A a \in s.absent : a \in Address /\ s.cache[a] = None /\ s.trie[a] = None
    BY DEF CacheAgrees, States
  <2> QED BY <1>3, <2>1
<1>6. /\ Sound(t)
      /\ \A a \in Address :
            /\ t.trie[a] = IF IsDirty(p, a) THEN Seen(p)[a].data ELSE p.trie[a]
            /\ Seen(t)[a] = [data |-> t.trie[a], doomed |-> FALSE]
  BY <1>3, <1>5, WrittenFacts
<1> HIDE DEF t
<1>7. ASSUME NEW a \in Address
      PROVE  t.trie[a] = IF removeEmpty /\ Seen(s)[a].doomed THEN None ELSE Seen(s)[a].data
  <2>1. /\ Seen(s)[a] = LookOf(s.cache[a], s.trie[a]) /\ Seen(p)[a] = LookOf(p.cache[a], s.trie[a])
        /\ t.trie[a] = IF IsDirty(p, a) THEN Seen(p)[a].data ELSE s.trie[a]
    BY <1>3, <1>6 DEF Seen
  <2>2. CASE s.cache[a] = None
    <3>1. Seen(s)[a] = [data |-> s.trie[a], doomed |-> FALSE] /\ p.cache[a] = None
      BY <1>3, <2>1, <2>2 DEF LookOf
    <3> QED BY <2>1, <3>1 DEF IsDirty
  <2>3. CASE s.cache[a] # None
    <3> DEFINE e == s.cache[a]
    <3>1. /\ Seen(s)[a].data = IF e.alive THEN e.data ELSE None
          /\ Seen(s)[a].doomed = (e.alive /\ e.dirty /\ isEmpty(e.data))
      BY <2>1, <2>3 DEF LookOf
    <3>2. ~e.dirty => e.alive /\ e.data = s.trie[a]
      BY <2>3 DEF CacheAgrees
    <3>3. p.cache[a] = IF removeEmpty /\ e.dirty /\ isEmpty(e.data) THEN Dead ELSE e
      BY <1>3, <2>3
    <3>4. e # None
      BY <2>3
    <3> HIDE DEF e
    <3>5. CASE removeEmpty /\ e.dirty /\ isEmpty(e.data)
      <4>1. p.cache[a] = Dead
        BY <3>3, <3>5
      <4>2. IsDirty(p, a) /\ Seen(p)[a].data = None
        BY <1>2, <2>1, <4>1 DEF IsDirty, LookOf
      <4> QED BY <2>1, <3>1, <3>5, <4>2
    <3>6. CASE ~(removeEmpty /\ e.dirty /\ isEmpty(e.data))
      <4>1. p.cache[a] = e
        BY <3>3, <3>6
      <4>2. IsDirty(p, a) <=> e.dirty
        BY <3>4, <4>1 DEF IsDirty
      <4>3. Seen(p)[a].data = IF e.alive THEN e.data ELSE None
        BY <2>1, <3>4, <4>1 DEF LookOf
      <4>4. ~(removeEmpty /\ Seen(s)[a].doomed)
        BY <3>1, <3>6
      <4> QED BY <2>1, <3>1, <3>2, <4>2, <4>3, <4>4
    <3> QED BY <3>5, <3>6
  <2> QED BY <2>2, <2>3
<1> QED BY <1>4, <1>6, <1>7

LEMMA PlainLook ==
    ASSUME NEW e, NEW d, e = [data |-> d, doomed |-> FALSE]
    PROVE  e.data = d /\ e.doomed = FALSE
<1>1. e.data = d
  OBVIOUS
<1>2. e.doomed = FALSE
  OBVIOUS
<1> QED BY <1>1, <1>2

LEMMA NoFrames ==
    ASSUME frames = <<>>, frames' = frames, phase # "rollback", phase' # "rollback"
    PROVE  /\ SavedOf(Open) = <<>> /\ SavedOf(Open)' = SavedOf(Open)
           /\ Shown = ViewOf(m_s) /\ Shown' = ViewOf(m_s)' /\ Undoing = FALSE /\ Undoing' = FALSE
<1>1. Open = <<>> /\ Open' = <<>>
  BY ShownFacts
<1>2. <<>> \in Seq(Frames) /\ Len(<<>>) = 0
  OBVIOUS
<1>3. SavedOf(<<>>) = <<>>
  <2> DEFINE p == SavedOf(<<>>)
  <2>1. p \in Seq(Views) /\ Len(p) = 0
    BY <1>2, SavedOfSeq
  <2> HIDE DEF p
  <2>2. p = <<>>
    BY <2>1
  <2> QED BY <2>2 DEF p
<1>4. SavedOf(Open) = <<>> /\ SavedOf(Open)' = <<>>
  BY <1>1, <1>3 DEF SavedOf
<1> QED BY <1>4, ShownFacts

\* The gas is paid, and the suicides go.
LEMMA FinalizeStep ==
    ASSUME IInv, NEW author \in Address, finalize(author)
    PROVE  IInv' /\ W!Finalize
<1>1. /\ phase = "running" /\ frames = <<>> /\ phase' = "finalized" /\ suicides' = {}
      /\ UNCHANGED <<frames, tx, transactions>>
  BY DEF finalize
<1>2. PICK left \in 0..tx.cost : Becomes(kill(Rewarded(left, author), suicides))
  BY DEF finalize
<1>3. /\ Sound(m_s) /\ m_s \in States /\ frames \in Seq(Frames) /\ tx \in Payments
      /\ suicides \subseteq Address /\ transactions \in 0..MaxTransactions
  BY <1>1 DEF IInv, TypeOK
<1>4. tx.sender \in Address /\ left \in Balances /\ tx.cost - left \in Balances
  <2>1. tx.sender \in Senders /\ tx.cost \in GasCosts
    BY <1>3 DEF Payments
  <2>2. tx.sender \in Address /\ tx.cost \in Balances
    BY <2>1, ConstantsTyped
  <2> QED BY <1>2, <2>2, StateAssumption DEF Balances
<1> DEFINE r == Rewarded(left, author)
           t == kill(r, suicides)
<1>5. Moves(m_s, r) /\ Sound(r) /\ r \in States /\ r.trie = m_s.trie
  <2> DEFINE q == addBalance(m_s, tx.sender, left)
  <2>1. r = addBalance(q, author, tx.cost - left)
    BY DEF Rewarded
  <2>2. Continues(m_s, q, None)
    BY <1>3, <1>4, AddContinues
  <2> HIDE DEF q
  <2>3. Continues(q, r, None)
    BY <1>3, <1>4, <2>1, <2>2, ContinuesFacts, AddContinues
  <2> HIDE DEF r
  <2>4. Extends(m_s, r, None)
    BY <1>3, <2>2, <2>3, ContinuesFacts
  <2> QED BY <2>4 DEF Extends, Sound, CacheAgrees
<1> HIDE DEF r
<1>6. /\ CacheAgrees(t) /\ t.trie = r.trie
      /\ \A a \in suicides : Seen(t)[a] = [data |-> None, doomed |-> FALSE]
      /\ \A a \in Address \ suicides : Seen(t)[a] = Seen(r)[a]
  <2>1. Sound(r) /\ suicides \subseteq Address
    BY <1>3, <1>5
  <2> QED BY <2>1, KillFacts
<1>7. Becomes(t)
  BY <1>2 DEF r
<1> HIDE DEF t
<1>8. PICK V \in Evictions(t) : m_s' = clearCache(t, V)
  BY <1>7 DEF Becomes
<1>9. CacheAgrees(m_s') /\ m_s'.trie = m_s.trie /\ Seen(m_s') = Seen(t) /\ m_s' \in States
  <2>1. CacheAgrees(m_s') /\ m_s'.trie = t.trie /\ Seen(m_s') = Seen(t)
    BY <1>6, <1>8, ClearKeeps
  <2> QED BY <1>5, <1>6, <2>1 DEF CacheAgrees
<1>10. IInv'
  <2>1. TypeOK'
    BY <1>1, <1>3, <1>9 DEF TypeOK, Payments
  <2> QED BY <1>1, <1>3, <1>9, <2>1 DEF IInv
<1>11. W!Finalize
  <2> DEFINE v == Abs(Seen(m_s), suicides)
             u == Abs(Seen(r), suicides)
             w == Abs(Seen(m_s'), {})
  <2>1. Shown = v /\ Shown' = w
    <3>1. ViewOf(m_s) = v
      BY <1>1, <1>3, ViewIsAbs, SuicidesFacts
    <3>2. AllSuicides' = {}
      <4>1. DOMAIN frames' = {}
        BY <1>1
      <4> QED BY <1>1, <4>1 DEF AllSuicides
    <3>3. ViewOf(m_s)' = w
      BY <1>9, <3>2, ViewIsAbsNext
    <3> QED BY <1>1, <3>1, <3>3, ShownFacts
  <2>2. /\ \A a \in suicides : w.world[a] = None /\ a \notin w.condemned
        /\ \A a \in Address \ suicides : w.world[a] = u.world[a] /\ (a \in w.condemned <=> a \in u.condemned)
        /\ w.condemned \subseteq Address /\ w.suicides = {} /\ v.suicides = suicides
    BY <1>3, <1>6, <1>9 DEF Abs
  <2>3. W!Changes(v, u)
    BY <1>3, <1>5, MovesChanges
  <2>4. None \notin EmptyAccounts
    BY NoneAssumption DEF EmptyAccounts
  <2> HIDE DEF u, v, w
  <2>5. /\ \A a \in Address : v.world[a] # None => u.world[a] # None
        /\ u.condemned \subseteq {a \in Address : u.world[a] \in EmptyAccounts}
        /\ \A a \in Address : (u.world[a] \in EmptyAccounts /\ (u.world[a] # v.world[a] \/ a \in v.condemned))
                                 => a \in u.condemned
    BY <2>3 DEF W!Changes, W!Empty
  <2>6. /\ \A a \in suicides : w.world[a] = None
        /\ \A a \in Address \ suicides : v.world[a] # None => w.world[a] # None
        /\ w.condemned \subseteq {a \in Address : w.world[a] \in EmptyAccounts}
        /\ \A a \in Address : (w.world[a] \in EmptyAccounts /\ (w.world[a] # v.world[a] \/ a \in v.condemned))
                                 => a \in w.condemned
    BY <2>2, <2>4, <2>5
  <2>7. /\ SavedOf(Open) = <<>> /\ SavedOf(Open)' = SavedOf(Open)
        /\ Undoing = FALSE /\ Undoing' = FALSE
    BY <1>1, NoFrames
  <2> QED BY <1>9, <2>1, <2>2, <2>6, <2>7 DEF W!Finalize, W!Empty, SavedOf
<1> QED BY <1>10, <1>11

\* What was done is written to the trie, or forgotten.
LEMMA ConcludeStep ==
    ASSUME IInv, conclude
    PROVE  IInv' /\ (W!Commit \/ W!Abandon)
<1>1. /\ phase = "finalized" /\ phase' = "idle" /\ tx' = None
      /\ UNCHANGED <<frames, suicides, transactions>>
      /\ m_s' = commit(m_s, EIP158) \/ m_s' = Abandoned(m_s)
  BY DEF conclude
<1>2. /\ CacheAgrees(m_s) /\ m_s \in States /\ frames = <<>> /\ suicides = {} /\ frames \in Seq(Frames)
      /\ transactions \in 0..MaxTransactions /\ EIP158 \in BOOLEAN
  BY <1>1, ExecutiveAssumption DEF IInv, TypeOK
<1>3. /\ Sound(m_s')
      /\ \A a \in Address : Seen(m_s')[a] = [data |-> m_s'.trie[a], doomed |-> FALSE]
  BY <1>1, <1>2, CommitFacts, AbandonedFacts
<1>4. m_s' \in States /\ CacheAgrees(m_s')
  BY <1>3 DEF Sound, CacheAgrees
<1>5. IInv'
  <2>1. TypeOK'
    BY <1>1, <1>2, <1>4 DEF TypeOK
  <2> QED BY <1>1, <1>2, <1>3, <1>4, <2>1 DEF IInv
<1>6. AllSuicides = {} /\ AllSuicides' = {}
  <2>1. DOMAIN frames = {} /\ DOMAIN frames' = {}
    BY <1>1, <1>2
  <2> QED BY <1>1, <1>2, <2>1 DEF AllSuicides
<1> DEFINE v == Abs(Seen(m_s), {})
           w == Abs(Seen(m_s'), {})
<1>7. Shown = v /\ Shown' = w
  <2>1. ViewOf(m_s) = v /\ ViewOf(m_s)' = w
    BY <1>2, <1>4, <1>6, ViewIsAbs, ViewIsAbsNext
  <2> QED BY <1>1, <2>1, ShownFacts
<1>8. /\ w.world = m_s'.trie /\ w.condemned = {} /\ w.suicides = {} /\ v.suicides = {}
      /\ \A a \in Address : v.world[a] = Seen(m_s)[a].data /\ (a \in v.condemned <=> Seen(m_s)[a].doomed)
  <2>1. m_s'.trie = [a \in Address |-> m_s'.trie[a]]
    BY <1>4 DEF States
  <2>2. ASSUME NEW a \in Address
        PROVE  Seen(m_s')[a].data = m_s'.trie[a] /\ Seen(m_s')[a].doomed = FALSE
    <3>1. Seen(m_s')[a] = [data |-> m_s'.trie[a], doomed |-> FALSE]
      BY <1>3
    <3> QED BY <3>1, PlainLook
  <2>3. w.world = [a \in Address |-> Seen(m_s')[a].data] /\ w.condemned = {a \in Address : Seen(m_s')[a].doomed}
    BY DEF Abs
  <2>4. w.suicides = {} /\ v.suicides = {}
    BY DEF Abs
  <2>5. \A a \in Address : v.world[a] = Seen(m_s)[a].data /\ (a \in v.condemned <=> Seen(m_s)[a].doomed)
    BY DEF Abs
  <2> HIDE DEF v, w
  <2>6. w.world = m_s'.trie
    BY <2>1, <2>2, <2>3
  <2>7. w.condemned = {}
    BY <2>2, <2>3
  <2> QED BY <2>4, <2>5, <2>6, <2>7
<1> HIDE DEF v, w
<1>9. /\ SavedOf(Open) = <<>> /\ SavedOf(Open)' = SavedOf(Open)
      /\ Undoing = FALSE /\ Undoing' = FALSE
  BY <1>1, <1>2, NoFrames
<1>10. CASE m_s' = commit(m_s, EIP158)
  <2>1. \A a \in Address : m_s'.trie[a] = IF EIP158 /\ Seen(m_s)[a].doomed THEN None ELSE Seen(m_s)[a].data
    BY <1>2, <1>10, CommitFacts
  <2>2. w.world = [a \in Address |-> IF EIP158 /\ a \in v.condemned THEN None ELSE v.world[a]]
    <3>1. m_s'.trie \in [Address -> Accounts \cup {None}]
      BY <1>4 DEF States
    <3>2. \A a \in Address : m_s'.trie[a] = IF EIP158 /\ a \in v.condemned THEN None ELSE v.world[a]
      BY <1>8, <2>1
    <3> QED BY <1>8, <3>1, <3>2
  <2>3. W!Commit
    BY <1>7, <1>8, <1>9, <2>2 DEF W!Commit, SavedOf
  <2> QED BY <1>5, <2>3
<1>11. CASE m_s' = Abandoned(m_s)
  <2>1. m_s'.trie = m_s.trie
    BY <1>2, <1>11, AbandonedFacts
  <2>2. W!Abandon
    BY <1>7, <1>8, <1>9, <2>1 DEF W!Abandon, SavedOf
  <2> QED BY <1>5, <2>2
<1> QED BY <1>1, <1>10, <1>11

-----------------------------------------------------------------------------
(* The theorems.                                                             *)

LEMMA InitHolds ==
    ASSUME Init
    PROVE  IInv /\ W!WorldInit
<1> DEFINE C == [a \in Address |-> None]
<1>1. /\ m_s = [trie |-> genesis, cache |-> C, log |-> <<>>, absent |-> {}, unchanged |-> {}]
      /\ frames = <<>> /\ phase = "idle" /\ tx = None /\ suicides = {} /\ transactions = 0
  BY DEF Init
<1>2. C \in [Address -> CacheEntries \cup {None}] /\ \A a \in Address : C[a] = None
  OBVIOUS
<1> HIDE DEF C
<1>3. /\ m_s \in States /\ m_s.trie = genesis /\ m_s.cache = C /\ m_s.absent = {}
  <2>1. genesis \in [Address -> Accounts \cup {None}] /\ <<>> \in Seq(Changes)
    BY ExecutiveAssumption
  <2> QED BY <1>1, <1>2, <2>1 DEF States
<1>4. Sound(m_s)
  BY <1>2, <1>3 DEF Sound, CacheAgrees
<1>5. TypeOK
  <2>1. <<>> \in Seq(Frames) /\ 0 \in 0..MaxTransactions
    BY ExecutiveAssumption
  <2> QED BY <1>1, <1>3, <2>1 DEF TypeOK
<1>6. IInv
  BY <1>1, <1>4, <1>5 DEF IInv, Sound
<1>7. W!WorldInit
  <2>1. AllSuicides = {}
    <3>1. DOMAIN frames = {}
      BY <1>1
    <3> QED BY <1>1, <3>1 DEF AllSuicides
  <2>2. Shown = Abs(Seen(m_s), {})
    BY <1>1, <1>3, <2>1, ViewIsAbs, ShownFacts
  <2>3. \A a \in Address : Seen(m_s)[a] = [data |-> genesis[a], doomed |-> FALSE]
    BY <1>2, <1>3 DEF Seen, LookOf
  <2>4. genesis = [a \in Address |-> genesis[a]]
    BY ExecutiveAssumption
  <2>5. Shown.world = genesis /\ Shown.condemned = {} /\ Shown.suicides = {}
    <3> DEFINE v == Abs(Seen(m_s), {})
    <3>1. ASSUME NEW a \in Address
          PROVE  Seen(m_s)[a].data = genesis[a] /\ Seen(m_s)[a].doomed = FALSE
      <4>1. Seen(m_s)[a] = [data |-> genesis[a], doomed |-> FALSE]
        BY <2>3
      <4> QED BY <4>1, PlainLook
    <3>2. /\ v.world = [a \in Address |-> Seen(m_s)[a].data]
          /\ v.condemned = {a \in Address : Seen(m_s)[a].doomed} /\ v.suicides = {}
      BY DEF Abs
    <3> HIDE DEF v
    <3>3. v.world = genesis
      BY <2>4, <3>1, <3>2
    <3>4. v.condemned = {}
      BY <3>1, <3>2
    <3> QED BY <2>2, <3>2, <3>3, <3>4 DEF v
  <2>6. SavedOf(Open) = <<>> /\ Undoing = FALSE
    <3>1. Open = <<>> /\ Undoing = FALSE
      BY <1>1, ShownFacts
    <3>2. SavedOf(<<>>) = <<>>
      <4> DEFINE p == SavedOf(<<>>)
      <4>1. <<>> \in Seq(Frames) /\ Len(<<>>) = 0
        OBVIOUS
      <4>2. p \in Seq(Views) /\ Len(p) = 0
        BY <4>1, SavedOfSeq
      <4> HIDE DEF p
      <4>3. p = <<>>
        BY <4>2
      <4> QED BY <4>3 DEF p
    <3> QED BY <3>1, <3>2
  <2> QED BY <1>3, <2>5, <2>6 DEF W!WorldInit, SavedOf
<1> QED BY <1>6, <1>7

LEMMA NothingHappens ==
    ASSUME IInv, UNCHANGED vars
    PROVE  IInv' /\ UNCHANGED W!worldVars
<1>1. /\ m_s' = m_s /\ frames' = frames /\ phase' = phase /\ tx' = tx /\ suicides' = suicides
      /\ transactions' = transactions
  BY DEF vars
<1>2. TypeOK' /\ Going' = Going
  BY <1>1 DEF IInv, TypeOK, Going
<1>3. IInv'
  BY <1>1, <1>2 DEF IInv
<1>4. Shown' = Shown /\ Open' = Open /\ Undoing' = Undoing
  BY <1>1 DEF Shown, Open, Undoing, Top, Under, ViewOf, AllSuicides
<1>5. SavedOf(Open)' = SavedOf(Open)
  BY <1>4 DEF SavedOf
<1> QED BY <1>1, <1>3, <1>4, <1>5 DEF W!worldVars, SavedOf

LEMMA NextStep ==
    ASSUME IInv, [Next]_vars
    PROVE  IInv' /\ (W!WorldNext \/ UNCHANGED W!worldVars)
<1>1. ASSUME NEW sender \in Senders, NEW to \in Address, NEW value \in Amounts, NEW cost \in GasCosts,
             execute(sender, to, value, cost)
      PROVE  IInv' /\ W!WorldNext
  BY <1>1, ExecuteStep DEF W!WorldNext
<1>2. ASSUME NEW a \in Address, NEW value \in Amounts, call(a, value)
      PROVE  IInv' /\ W!WorldNext
  BY <1>2, CallStep DEF W!WorldNext
<1>3. ASSUME NEW a \in Address, NEW value \in Amounts, create(a, value)
      PROVE  IInv' /\ W!WorldNext
  BY <1>3, CreateStep DEF W!WorldNext
<1>4. ASSUME NEW k \in Keys, NEW v \in Values, setStore(k, v)
      PROVE  IInv' /\ W!WorldNext
  BY <1>4, SetStoreStep DEF W!WorldNext
<1>5. ASSUME NEW a \in Address, look(a)
      PROVE  IInv' /\ W!WorldNext
  BY <1>5, LookStep DEF W!WorldNext
<1>6. ASSUME NEW a \in Address, suicide(a)
      PROVE  IInv' /\ W!WorldNext
  BY <1>6, SuicideStep DEF W!WorldNext
<1>7. ASSUME NEW a \in Address, finalize(a)
      PROVE  IInv' /\ W!WorldNext
  BY <1>7, FinalizeStep DEF W!WorldNext
<1>8. ASSUME NEW output \in Codes \cup {EmptySHA3}, return(output)
      PROVE  IInv' /\ W!WorldNext
  BY <1>8, ReturnStep DEF W!WorldNext
<1>9. CASE throw
  BY <1>9, ThrowStep DEF W!WorldNext
<1>10. CASE rollback
  BY <1>10, RollbackStep DEF W!WorldNext
<1>11. CASE conclude
  BY <1>11, ConcludeStep DEF W!WorldNext
<1>12. CASE UNCHANGED vars
  BY <1>12, NothingHappens
<1>13. \/ Next
       \/ UNCHANGED vars
  OBVIOUS
<1> QED BY <1>1, <1>2, <1>3, <1>4, <1>5, <1>6, <1>7, <1>8, <1>9, <1>10, <1>11, <1>12, <1>13 DEF Next

LEMMA Invariance == Spec => []IInv
<1>1. Init => IInv
  BY InitHolds
<1>2. IInv /\ [Next]_vars => IInv'
  BY NextStep
<1> QED BY <1>1, <1>2, PTL DEF Spec

\* Whatever the contracts do, balances stay below 2^256, storage, codes and nonces are values
\* there are, and frames have accounts and what they are to go back to (State.cpp, Executive.cpp).
THEOREM TypeCorrect == Spec => []TypeOK
<1>1. IInv => TypeOK
  BY DEF IInv
<1> QED BY <1>1, Invariance, PTL

\* For any accounts, amounts, limits of depth and of the cache, and any programs: the change
\* log, the cache and its eviction do not show.  A call or creation that ends in an exception
\* leaves the accounts, the suicides and the touched empty accounts just as it found them,
\* though its changes are undone one at a time (State.cpp:617), and what is committed is what
\* the frames that were kept have done (State.cpp:265, 478).
THEOREM Refinement == Spec => StateImplementsWorld
<1>1. Init => W!WorldInit
  BY InitHolds
<1>2. IInv /\ [Next]_vars => [W!WorldNext]_(W!worldVars)
  BY NextStep
<1> QED BY <1>1, <1>2, Invariance, PTL DEF Spec, StateImplementsWorld, W!WorldSpec

-----------------------------------------------------------------------------
(* Sums over all accounts.                                                   *)

LEMMA LeastNumber ==
  ASSUME NEW T \in SUBSET Nat, T # {}
  PROVE  \E n \in T : \A m \in T : n <= m
<1> DEFINE R == OpToRel(<, Nat)
<1>1. IsWellFoundedOn(R, Nat)
  BY NatLessThanWellFounded
<1>2. \A m, n \in Nat : m < n => <<m, n>> \in R
  BY DEF OpToRel
<1> HIDE DEF R
<1>3. PICK n \in T : \A m \in T : ~(<<m, n>> \in R)
  BY <1>1, WFMin
<1>4. \A m \in T : ~(m < n)
  BY <1>2, <1>3
<1> QED BY <1>4

Money(d) == IF d = None THEN 0 ELSE d.balance
Pick(S) == CHOOSE a \in S : TRUE

LEMMA SubsetFacts ==
  ASSUME NEW S \in SUBSET Address
  PROVE  /\ IsFiniteSet(S) /\ Cardinality(S) \in Nat /\ Cardinality(S) <= Cardinality(Address)
         /\ Cardinality(S) = 0 <=> S = {}
         /\ S # {} => /\ Pick(S) \in S /\ S \ {Pick(S)} \in SUBSET Address
                      /\ Cardinality(S \ {Pick(S)}) = Cardinality(S) - 1
<1>1. IsFiniteSet(S) /\ Cardinality(S) \in Nat /\ Cardinality(S) <= Cardinality(Address)
  BY AddressAssumption, FS_Subset, FS_CardinalityType
<1>2. Cardinality(S) = 0 <=> S = {}
  BY <1>1, FS_EmptySet
<1>3. ASSUME S # {}
      PROVE  Pick(S) \in S /\ S \ {Pick(S)} \in SUBSET Address
             /\ Cardinality(S \ {Pick(S)}) = Cardinality(S) - 1
  <2>1. Pick(S) \in S
    BY <1>3 DEF Pick
  <2>2. Cardinality(S \ {Pick(S)}) = Cardinality(S) - 1
    BY <1>1, <2>1, FS_RemoveElement
  <2> QED BY <2>1, <2>2
<1> QED BY <1>1, <1>2, <1>3

\* The sum is the value of a recursive function on the sets of accounts: there is one.
LEMMA TotalIsSum ==
  ASSUME NEW w
  PROVE  \E g : /\ TotalIn(w) = g[Address]
                /\ \A S \in SUBSET Address :
                      g[S] = IF S = {} THEN 0 ELSE g[S \ {Pick(S)}] + Money(w[Pick(S)])
<1> DEFINE n == Cardinality(Address)
           body(g, S) == IF S = {} THEN 0 ELSE g[S \ {Pick(S)}] + Money(w[Pick(S)])
           Dom(k) == {S \in SUBSET Address : Cardinality(S) <= k}
           Solves(g, D) == g = [S \in D |-> body(g, S)]
<1>1. \A S \in SUBSET Address : Cardinality(S) \in Nat /\ Cardinality(S) <= n
                                /\ (Cardinality(S) = 0 <=> S = {})
  BY SubsetFacts
<1>2. ASSUME NEW S \in SUBSET Address, S # {}
      PROVE  S \ {Pick(S)} \in SUBSET Address /\ Cardinality(S \ {Pick(S)}) = Cardinality(S) - 1
  BY <1>2, SubsetFacts
<1>3. n \in Nat
  BY <1>1
<1> HIDE DEF n
<1>4. \A k \in Nat : \E g : Solves(g, Dom(k))
  <2> DEFINE T == {k \in Nat : ~ \E g : Solves(g, Dom(k))}
  <2> SUFFICES ASSUME T # {} PROVE FALSE
    OBVIOUS
  <2>1. PICK k \in T : \A m \in T : k <= m
    <3>1. T \in SUBSET Nat
      OBVIOUS
    <3> HIDE DEF T
    <3> QED BY <3>1, LeastNumber
  <2>2. k \in Nat /\ ~(\E g : Solves(g, Dom(k)))
    BY <2>1
  <2>3. \A j \in Nat : j < k => \E g : Solves(g, Dom(j))
    <3> HIDE DEF Solves, Dom
    <3> QED BY <2>1
  <2> HIDE DEF T
  <2>4. CASE k = 0
    <3>1. \A S \in Dom(k) : S = {}
      BY <1>1, <2>4
    <3>2. Solves([S \in Dom(k) |-> 0], Dom(k))
      BY <3>1
    <3> QED BY <3>2, <2>2
  <2>5. CASE k # 0
    <3>1. k - 1 \in Nat /\ k - 1 < k
      BY <2>2, <2>5
    <3>2. PICK g : Solves(g, Dom(k - 1))
      BY <3>1, <2>3
    <3> DEFINE h == [S \in Dom(k) |-> body(g, S)]
    <3>3. ASSUME NEW S \in Dom(k - 1) PROVE S \in Dom(k) /\ h[S] = g[S]
      <4>1. S \in Dom(k)
        <5>1. S \in SUBSET Address /\ Cardinality(S) <= k - 1 /\ Cardinality(S) \in Nat
          BY <1>1
        <5> QED BY <5>1, <2>2
      <4>2. g[S] = body(g, S)
        <5> HIDE DEF body, Dom
        <5> QED BY <3>2, <3>3
      <4>3. h[S] = body(g, S)
        <5> HIDE DEF body, Dom
        <5> QED BY <4>1
      <4> QED BY <4>1, <4>2, <4>3
    <3> HIDE DEF h
    <3>4. ASSUME NEW S \in Dom(k) PROVE body(g, S) = body(h, S)
      <4>1. CASE S = {}
        BY <4>1
      <4>2. CASE S # {}
        <5> DEFINE r == S \ {Pick(S)}
        <5>1. /\ r \in SUBSET Address /\ Cardinality(r) = Cardinality(S) - 1
              /\ Cardinality(S) \in Nat /\ Cardinality(S) <= k
          BY <1>1, <1>2, <4>2
        <5> HIDE DEF r
        <5>2. Cardinality(r) <= k - 1
          BY <5>1, <2>2
        <5>3. r \in Dom(k - 1)
          BY <5>1, <5>2
        <5>4. h[r] = g[r]
          BY <5>3, <3>3
        <5> QED BY <5>4, <4>2 DEF r
      <4> QED BY <4>1, <4>2
    <3>5. Solves(h, Dom(k))
      <4> HIDE DEF body, Dom
      <4> QED BY <3>4 DEF h
    <3> QED BY <3>5, <2>2
  <2> QED BY <2>4, <2>5
<1>5. Dom(n) = SUBSET Address
  BY <1>1
<1>6. \E g : Solves(g, SUBSET Address)
  BY <1>3, <1>4, <1>5
<1> DEFINE it == CHOOSE g : Solves(g, SUBSET Address)
<1>7. Solves(it, SUBSET Address)
  <2> HIDE DEF Solves
  <2> QED BY <1>6
<1>8. TotalIn(w) = it[Address]
  BY DEF TotalIn, FoldSet, MapThenFoldSet, Money, Pick
<1>9. \A S \in SUBSET Address : it[S] = body(it, S)
  <2> HIDE DEF it, body
  <2> QED BY <1>7
<1> HIDE DEF it
<1> QED BY <1>8, <1>9

Worlds == [Address -> Accounts \cup {None}]

LEMMA MoneyTyped ==
  ASSUME NEW d \in Accounts \cup {None}
  PROVE  Money(d) \in Nat /\ Money(d) \in Balances
<1>1. Money(d) \in Balances
  BY DataFacts, ZeroIsBalance DEF Money
<1> QED BY <1>1 DEF Balances

\* What each account gets and gives, the sum of all accounts gets and gives.
LEMMA TotalMoves ==
  ASSUME NEW v \in Worlds, NEW w \in Worlds,
         NEW a \in Address, NEW d \in Nat, NEW b \in Address, NEW e \in Nat,
         \A x \in Address : Money(w[x]) + (IF x = b THEN e ELSE 0)
                               <= Money(v[x]) + (IF x = a THEN d ELSE 0)
  PROVE  TotalIn(v) \in Nat /\ TotalIn(w) \in Nat /\ TotalIn(w) + e <= TotalIn(v) + d
<1>1. PICK g : /\ TotalIn(v) = g[Address]
               /\ \A S \in SUBSET Address :
                     g[S] = IF S = {} THEN 0 ELSE g[S \ {Pick(S)}] + Money(v[Pick(S)])
  BY TotalIsSum
<1>2. PICK h : /\ TotalIn(w) = h[Address]
               /\ \A S \in SUBSET Address :
                     h[S] = IF S = {} THEN 0 ELSE h[S \ {Pick(S)}] + Money(w[Pick(S)])
  BY TotalIsSum
<1>3. \A x \in Address : Money(v[x]) \in Nat /\ Money(w[x]) \in Nat
  BY MoneyTyped DEF Worlds
<1> DEFINE Fine(S) == /\ g[S] \in Nat /\ h[S] \in Nat
                      /\ h[S] + (IF b \in S THEN e ELSE 0) <= g[S] + (IF a \in S THEN d ELSE 0)
<1>4. \A S \in SUBSET Address : Fine(S)
  <2> DEFINE T == {k \in Nat : \E S \in SUBSET Address : Cardinality(S) = k /\ ~Fine(S)}
  <2> SUFFICES ASSUME T # {} PROVE FALSE
    BY SubsetFacts
  <2>1. PICK k \in T : \A m \in T : k <= m
    <3>1. T \in SUBSET Nat
      OBVIOUS
    <3> HIDE DEF T
    <3> QED BY <3>1, LeastNumber
  <2>2. PICK S \in SUBSET Address : Cardinality(S) = k /\ ~Fine(S)
    BY <2>1
  <2>3. \A r \in SUBSET Address : Cardinality(r) \in Nat /\ Cardinality(r) < k => Fine(r)
    <3> HIDE DEF Fine
    <3> QED BY <2>1
  <2> HIDE DEF T
  <2>4. CASE S = {}
    <3>1. g[S] = 0 /\ h[S] = 0
      BY <1>1, <1>2, <2>4
    <3> QED BY <2>2, <2>4, <3>1
  <2>5. CASE S # {}
    <3> DEFINE x == Pick(S)
               r == S \ {x}
    <3>1. x \in S /\ r \in SUBSET Address /\ Cardinality(r) = Cardinality(S) - 1 /\ Cardinality(S) \in Nat
          /\ Cardinality(r) \in Nat
      BY <2>5, SubsetFacts
    <3>2. g[S] = g[r] + Money(v[x]) /\ h[S] = h[r] + Money(w[x])
      BY <1>1, <1>2, <2>5
    <3>3. \A y : y \in r <=> y \in S /\ y # x
      OBVIOUS
    <3> HIDE DEF x, r
    <3>4. Fine(r)
      <4>1. Cardinality(r) < k
        BY <2>2, <3>1
      <4> QED BY <2>3, <3>1, <4>1
    <3>5. /\ Money(v[x]) \in Nat /\ Money(w[x]) \in Nat
          /\ Money(w[x]) + (IF x = b THEN e ELSE 0) <= Money(v[x]) + (IF x = a THEN d ELSE 0)
      BY <1>3, <3>1
    <3>6. (IF b \in S THEN e ELSE 0) = (IF b \in r THEN e ELSE 0) + (IF x = b THEN e ELSE 0)
      BY <3>1, <3>3
    <3>7. (IF a \in S THEN d ELSE 0) = (IF a \in r THEN d ELSE 0) + (IF x = a THEN d ELSE 0)
      BY <3>1, <3>3
    <3>8. Fine(S)
      BY <3>2, <3>4, <3>5, <3>6, <3>7
    <3> QED BY <2>2, <3>8
  <2> QED BY <2>4, <2>5
<1> QED BY <1>1, <1>2, <1>4

\* ... and if no account gets anything, the sum does not.
LEMMA TotalFalls ==
  ASSUME NEW v \in Worlds, NEW w \in Worlds,
         \A x \in Address : Money(w[x]) <= Money(v[x])
  PROVE  TotalIn(v) \in Nat /\ TotalIn(w) \in Nat /\ TotalIn(w) <= TotalIn(v)
<1>1. CASE Address = {}
  <2>1. \A u : TotalIn(u) = 0
    <3> SUFFICES ASSUME NEW u PROVE TotalIn(u) = 0
      OBVIOUS
    <3>1. PICK g : /\ TotalIn(u) = g[Address]
                   /\ \A S \in SUBSET Address :
                         g[S] = IF S = {} THEN 0 ELSE g[S \ {Pick(S)}] + Money(u[Pick(S)])
      BY TotalIsSum
    <3> QED BY <1>1, <3>1
  <2> QED BY <2>1
<1>2. ASSUME NEW a \in Address
      PROVE  TotalIn(v) \in Nat /\ TotalIn(w) \in Nat /\ TotalIn(w) <= TotalIn(v)
  <2>1. \A x \in Address : Money(v[x]) \in Nat /\ Money(w[x]) \in Nat
    BY MoneyTyped DEF Worlds
  <2>2. \A x \in Address : Money(w[x]) + (IF x = a THEN 0 ELSE 0)
                               <= Money(v[x]) + (IF x = a THEN 0 ELSE 0)
    BY <2>1
  <2>3. TotalIn(v) \in Nat /\ TotalIn(w) \in Nat /\ TotalIn(w) + 0 <= TotalIn(v) + 0
    BY <2>2, TotalMoves
  <2> QED BY <2>3
<1> QED BY <1>1, <1>2

-----------------------------------------------------------------------------
(* What the operations do to what accounts have.                             *)

Shows(s) == [a \in Address |-> Seen(s)[a].data]
Held(s, a) == Money(Seen(s)[a].data)
SameMoney(s, t) == \A a \in Address : Held(t, a) = Held(s, a)

LEMMA ShowsTyped ==
  ASSUME NEW s \in States
  PROVE  /\ Shows(s) \in Worlds
         /\ \A a \in Address : Money(Shows(s)[a]) = Held(s, a) /\ Held(s, a) \in Balances
                                /\ Held(s, a) = balance(s, a)
<1>1. ASSUME NEW a \in Address
      PROVE  /\ Seen(s)[a].data \in Accounts \cup {None} /\ Shows(s)[a] = Seen(s)[a].data
             /\ Seen(s)[a].data = AccountOf(s, a)
  <2>1. Seen(s)[a] \in Looks /\ Seen(s)[a].data = AccountOf(s, a)
    BY SeenFacts
  <2> QED BY <2>1 DEF Looks, Shows
<1>2. Shows(s) \in Worlds
  BY <1>1 DEF Shows, Worlds
<1>3. \A a \in Address : Held(s, a) \in Balances
  BY <1>1, MoneyTyped DEF Held
<1>4. \A a \in Address : Held(s, a) = balance(s, a)
  BY <1>1 DEF Held, Money, balance
<1> QED BY <1>1, <1>2, <1>3, <1>4 DEF Held

LEMMA StaysMoney ==
  ASSUME NEW s, NEW t, Stays(s, t)
  PROVE  SameMoney(s, t)
BY DEF Stays, SameMoney, Held

LEMMA OnlyAtMoney ==
  ASSUME NEW s, NEW t, NEW a, OnlyAt(s, t, a)
  PROVE  \A b \in Address \ {a} : Held(t, b) = Held(s, b)
BY DEF OnlyAt, Held

LEMMA CreditMoney ==
  ASSUME NEW s, Sound(s), NEW a \in Address, IsDirty(s, a), NEW v \in Balances
  PROVE  LET t == BalanceLogged(Credited(s, a, v), a, v)
         IN  Held(t, a) = Plus(Held(s, a), v)
<1> DEFINE old == s.cache[a].data
           d == [old EXCEPT !.balance = Plus(@, v)]
           u == Put(s, a, Entry(s.cache[a].alive, TRUE, d))
           t == BalanceLogged(Credited(s, a, v), a, v)
<1>1. Credited(s, a, v) = u
  BY DEF Credited
<1>2. /\ s \in States /\ old \in Accounts /\ s.cache[a] # None
      /\ Seen(s)[a].data = old
  <2>1. /\ s \in States /\ old \in Accounts /\ s.cache[a] # None
        /\ Seen(s)[a] = [data |-> old, doomed |-> s.cache[a].dirty /\ isEmpty(old)]
    BY SoundFacts, EntryIs DEF IsDirty
  <2> HIDE DEF old
  <2> QED BY <2>1
<1>3. Plus(old.balance, v) \in Balances
  BY <1>2, DataFacts, WordFacts
<1>4. d \in Accounts
  BY <1>2, <1>3, DataFacts
<1>5. d.balance = Plus(old.balance, v)
  BY <1>2 DEF Accounts
<1>6. Held(s, a) = old.balance
  BY <1>2, DataFacts DEF Held, Money
<1>7. Rewritten(s, u, a, d)
  BY <1>2, <1>4, PutRewrites, RewriteFacts
<1>8. d # None
  BY <1>4, DataFacts
<1> HIDE DEF d, u
<1>9. Seen(t) = Seen(u)
  <2>1. Sound(u)
    BY <1>7 DEF Rewritten
  <2>2. Change("Balance", a, None, v) \in Changes
    BY ChangeFields
  <2>3. Seen(Logged(u, "Balance", a, None, v)) = Seen(u)
    BY <2>1, <2>2, LoggedSound
  <2> QED BY <1>1, <2>3 DEF BalanceLogged
<1> HIDE DEF t
<1>10. Seen(t)[a].data = d
  BY <1>7, <1>9 DEF Rewritten
<1>11. Held(t, a) = Plus(Held(s, a), v)
  BY <1>5, <1>6, <1>8, <1>10 DEF Held, Money
<1> QED BY <1>11 DEF t

LEMMA AddMoney ==
  ASSUME NEW s, Sound(s), NEW a \in Address, NEW v \in Balances
  PROVE  LET t == addBalance(s, a, v)
         IN  /\ Sound(t) /\ Held(t, a) = Plus(Held(s, a), v)
             /\ \A b \in Address \ {a} : Held(t, b) = Held(s, b)
<1> DEFINE y == addBalance(s, a, v)
           t == account(s, a)
<1>1. Continues(s, y, None) /\ OnlyAt(s, y, a)
  BY AddContinues
<1>2. Sound(y) /\ \A b \in Address \ {a} : Held(y, b) = Held(s, b)
  <2> HIDE DEF y
  <2> QED BY <1>1, ContinuesFacts, OnlyAtMoney
<1>3. Stays(s, t) /\ Sound(t) /\ (t.cache[a] = None => t.trie[a] = None)
  BY AccountStays DEF Stays
<1>4. Held(t, a) = Held(s, a)
  BY <1>3, StaysMoney DEF SameMoney
<1>5. y = BalanceLogged(IF t.cache[a] = None THEN createAccount(t, a, Fresh(0, v))
                        ELSE Credited(Touched(t, a), a, v), a, v)
  BY DEF addBalance, accountStartNonce
<1> HIDE DEF t, y
<1>6. Held(y, a) = Plus(Held(s, a), v)
  <2>1. CASE t.cache[a] # None
    <3> DEFINE u == Touched(t, a)
    <3>1. Rewritten(t, u, a, t.cache[a].data)
      BY <1>3, <2>1, TouchPushes, 0 \in Nat
    <3> HIDE DEF u
    <3>2. Sound(u) /\ IsDirty(u, a)
      BY <3>1 DEF Rewritten
    <3>3. Seen(t)[a].data = t.cache[a].data
      <4>1. Seen(t)[a] = [data |-> t.cache[a].data, doomed |-> t.cache[a].dirty /\ isEmpty(t.cache[a].data)]
        BY <1>3, <2>1, SoundFacts
      <4> QED BY <4>1
    <3>4. Seen(u)[a].data = t.cache[a].data
      BY <3>1 DEF Rewritten
    <3>5. Held(u, a) = Held(t, a)
      BY <3>3, <3>4 DEF Held
    <3>6. Held(BalanceLogged(Credited(u, a, v), a, v), a) = Plus(Held(u, a), v)
      BY <3>2, CreditMoney
    <3> QED BY <1>4, <1>5, <2>1, <3>5, <3>6 DEF u
  <2>2. CASE t.cache[a] = None
    <3> DEFINE u == createAccount(t, a, Fresh(0, 0))
    <3>1. Rewritten(t, u, a, Fresh(0, 0))
      BY <1>3, <2>2, CreatePushes, ZeroIsBalance, 0 \in Nat
    <3>2. createAccount(t, a, Fresh(0, v)) = Credited(u, a, v)
      BY <1>3, CreateIsCredit DEF Sound, CacheAgrees
    <3> HIDE DEF u
    <3>3. Sound(u) /\ IsDirty(u, a)
      BY <3>1 DEF Rewritten
    <3>4. Seen(t)[a].data = None
      <4>1. Seen(t)[a] = [data |-> None, doomed |-> FALSE]
        BY <1>3, <2>2, SoundFacts
      <4> QED BY <4>1, PlainLook
    <3>5. Seen(u)[a].data = Fresh(0, 0)
      BY <3>1 DEF Rewritten
    <3>6. Held(t, a) = 0 /\ Held(u, a) = 0
      BY <3>4, <3>5, FreshFacts, DataFacts, ZeroIsBalance, 0 \in Nat DEF Held, Money
    <3>7. Held(BalanceLogged(Credited(u, a, v), a, v), a) = Plus(Held(u, a), v)
      BY <3>3, CreditMoney
    <3> QED BY <1>4, <1>5, <2>2, <3>2, <3>6, <3>7
  <2> QED BY <2>1, <2>2
<1> QED BY <1>2, <1>6 DEF y

\* Whoever can pay pays just that.
LEMMA SubMoney ==
  ASSUME NEW s, Sound(s), NEW a \in Address, NEW v \in Balances, v <= Held(s, a)
  PROVE  LET t == subBalance(s, a, v)
         IN  /\ Sound(t) /\ Held(t, a) = Held(s, a) - v
             /\ \A b \in Address \ {a} : Held(t, b) = Held(s, b)
<1>1. Held(s, a) \in Balances
  BY ShowsTyped DEF Sound, CacheAgrees
<1>2. CASE v = 0
  BY <1>1, <1>2 DEF subBalance, Balances
<1>3. CASE v # 0
  <2> DEFINE t == account(s, a)
  <2>1. Stays(s, t) /\ Sound(t)
    BY AccountStays DEF Stays
  <2>2. subBalance(s, a, v) = addBalance(t, a, Minus(v))
    BY <1>3 DEF subBalance
  <2> HIDE DEF t
  <2>3. SameMoney(s, t) /\ Minus(v) \in Balances
    BY <2>1, StaysMoney, WordFacts, ZeroIsBalance
  <2> DEFINE u == addBalance(t, a, Minus(v))
  <2>4. /\ Sound(u) /\ Held(u, a) = Plus(Held(t, a), Minus(v))
        /\ \A b \in Address \ {a} : Held(u, b) = Held(t, b)
    BY <2>1, <2>3, AddMoney
  <2> HIDE DEF u
  <2>5. Plus(Held(s, a), Minus(v)) = Held(s, a) - v
    BY <1>1, <1>3, StateAssumption DEF Plus, Minus, Balances
  <2> QED BY <2>2, <2>3, <2>4, <2>5 DEF u, SameMoney
<1> QED BY <1>2, <1>3

\* An account that is changed in something else than its balance.
LEMMA RewrittenMoney ==
  ASSUME NEW s, NEW u, NEW a \in Address, NEW d \in Accounts, Rewritten(s, u, a, d), d.balance = Held(s, a)
  PROVE  Sound(u) /\ SameMoney(s, u)
<1>1. Seen(u)[a].data = d /\ d # None
  <2>1. Seen(u)[a] = [data |-> d, doomed |-> isEmpty(d)]
    BY DEF Rewritten
  <2>2. d # None
    BY DataFacts
  <2> QED BY <2>1, <2>2
<1>2. Held(u, a) = Held(s, a)
  BY <1>1 DEF Held, Money
<1>3. \A b \in Address \ {a} : Held(u, b) = Held(s, b)
  BY DEF Rewritten, Held
<1> QED BY <1>2, <1>3 DEF SameMoney, Rewritten

\* The data of an account in the cache.
LEMMA CachedMoney ==
  ASSUME NEW s, Sound(s), NEW a \in Address, s.cache[a] # None
  PROVE  s.cache[a].data \in Accounts /\ s.cache[a].data.balance = Held(s, a)
<1>1. /\ s.cache[a] \in CacheEntries
      /\ Seen(s)[a] = [data |-> s.cache[a].data, doomed |-> s.cache[a].dirty /\ isEmpty(s.cache[a].data)]
  BY SoundFacts
<1>2. Seen(s)[a].data = s.cache[a].data
  BY <1>1
<1>3. s.cache[a].data \in Accounts /\ s.cache[a].data # None
  BY <1>1, EntryIs
<1> QED BY <1>2, <1>3 DEF Held, Money

LEMMA IncMoney ==
  ASSUME NEW s, Sound(s), NEW a \in Address
  PROVE  Sound(incNonce(s, a)) /\ SameMoney(s, incNonce(s, a))
<1> DEFINE t == account(s, a)
           old == t.cache[a].data
           d == [old EXCEPT !.nonce = @ + 1]
           u == Put(t, a, Entry(t.cache[a].alive, TRUE, d))
           w == Logged(u, "Nonce", a, None, 0)
<1>1. Stays(s, t) /\ Sound(t) /\ (t.cache[a] = None => t.trie[a] = None)
  BY AccountStays DEF Stays
<1>2. incNonce(s, a) = IF t.cache[a] = None THEN createAccount(t, a, Fresh(1, 0)) ELSE w
  BY DEF incNonce, accountStartNonce
<1> HIDE DEF t
<1>3. SameMoney(s, t)
  BY <1>1, StaysMoney
<1>4. CASE t.cache[a] = None
  <2> DEFINE y == createAccount(t, a, Fresh(1, 0))
  <2>1. Rewritten(t, y, a, Fresh(1, 0))
    BY <1>1, <1>4, CreatePushes, ZeroIsBalance, 0 \in Nat
  <2>2. Fresh(1, 0) \in Accounts /\ Fresh(1, 0).balance = 0
    BY FreshFacts, ZeroIsBalance
  <2>3. Held(t, a) = 0
    <3>1. Seen(t)[a] = [data |-> None, doomed |-> FALSE]
      BY <1>1, <1>4, SoundFacts
    <3> QED BY <3>1, PlainLook DEF Held, Money
  <2> HIDE DEF y
  <2>4. Sound(y) /\ SameMoney(t, y)
    BY <2>1, <2>2, <2>3, RewrittenMoney
  <2> QED BY <1>2, <1>3, <1>4, <2>4 DEF y, SameMoney
<1>5. CASE t.cache[a] # None
  <2>1. old \in Accounts /\ old.balance = Held(t, a)
    BY <1>1, <1>5, CachedMoney
  <2>2. d \in Accounts /\ d.balance = old.balance
    BY <2>1, DataFacts DEF Accounts
  <2>3. Rewrites(t, u, a, d)
    BY <1>1, <1>5, <2>2, PutRewrites
  <2>4. Change("Nonce", a, None, 0) \in Changes
    BY ChangeFields
  <2> HIDE DEF old, d, u
  <2>5. Rewritten(t, w, a, d)
    BY <1>1, <2>2, <2>3, <2>4, RewriteAdds
  <2> HIDE DEF w
  <2>6. Sound(w) /\ SameMoney(t, w)
    BY <2>1, <2>2, <2>5, RewrittenMoney
  <2> QED BY <1>2, <1>3, <1>5, <2>6 DEF SameMoney
<1> QED BY <1>4, <1>5

LEMMA StoreMoney ==
  ASSUME NEW s, Sound(s), NEW a \in Address, IsDirty(s, a), NEW k \in Keys, NEW v \in Values
  PROVE  Sound(setStorage(s, a, k, v)) /\ SameMoney(s, setStorage(s, a, k, v))
<1> DEFINE old == s.cache[a].data
           d == [old EXCEPT !.storage = [@ EXCEPT ![k] = v]]
           l == Logged(s, "Storage", a, k, old.storage[k])
           y == Put(l, a, Entry(s.cache[a].alive, TRUE, d))
<1>1. old \in Accounts /\ old.balance = Held(s, a)
  BY CachedMoney DEF IsDirty
<1>2. d \in Accounts /\ d.balance = old.balance /\ old.storage[k] \in Values
  BY <1>1, DataFacts DEF Accounts
<1>3. setStorage(s, a, k, v) = y
  BY DEF setStorage
<1>4. Change("Storage", a, k, old.storage[k]) \in Changes
  BY <1>2, ChangeFields
<1>5. Sound(l) /\ Seen(l) = Seen(s) /\ l.cache = s.cache
  <2> HIDE DEF old
  <2> QED BY <1>4, LoggedSound
<1> HIDE DEF old, d, l
<1>6. Rewrites(l, y, a, d)
  <2>1. l.cache[a] # None
    BY <1>5 DEF IsDirty
  <2>2. Rewrites(l, Put(l, a, Entry(l.cache[a].alive, TRUE, d)), a, d)
    BY <1>2, <1>5, <2>1, PutRewrites
  <2> QED BY <1>5, <2>2
<1> HIDE DEF y
<1>7. Rewritten(l, y, a, d)
  BY <1>2, <1>5, <1>6, RewriteFacts
<1>8. SameMoney(s, l)
  BY <1>5 DEF SameMoney, Held
<1>9. Sound(y) /\ SameMoney(l, y)
  <2>1. d.balance = Held(l, a)
    BY <1>1, <1>2, <1>8 DEF SameMoney
  <2> QED BY <1>2, <1>7, <2>1, RewrittenMoney
<1> QED BY <1>3, <1>8, <1>9 DEF SameMoney

LEMMA CodeMoney ==
  ASSUME NEW s, Sound(s), NEW a \in Address, IsDirty(s, a), NEW code \in Codes \cup {EmptySHA3}
  PROVE  Sound(setNewCode(s, a, code)) /\ SameMoney(s, setNewCode(s, a, code))
<1> DEFINE old == s.cache[a].data
           d == [old EXCEPT !.code = code]
           u == Put(s, a, Entry(s.cache[a].alive, TRUE, d))
           w == Logged(u, "NewCode", a, None, 0)
<1>1. old \in Accounts /\ old.balance = Held(s, a)
  BY CachedMoney DEF IsDirty
<1>2. d \in Accounts /\ d.balance = old.balance
  BY <1>1, DataFacts DEF Accounts
<1>3. s.cache[a] # None /\ s.cache[a].dirty = TRUE
  BY SoundFacts, EntryIs DEF IsDirty
<1>4. setNewCode(s, a, code) = w
  BY <1>3 DEF setNewCode
<1>5. Rewrites(s, u, a, d)
  BY <1>2, <1>3, PutRewrites
<1>6. Change("NewCode", a, None, 0) \in Changes
  BY ChangeFields
<1> HIDE DEF old, d, u
<1>7. Rewritten(s, w, a, d)
  BY <1>2, <1>5, <1>6, RewriteAdds
<1> HIDE DEF w
<1> QED BY <1>1, <1>2, <1>4, <1>7, RewrittenMoney

-----------------------------------------------------------------------------
(* ... and to all money there is.                                            *)

Wealth(s) == TotalIn(Shows(s))

LEMMA WealthTyped ==
  ASSUME NEW s \in States
  PROVE  Wealth(s) \in Nat
<1>1. Shows(s) \in Worlds /\ \A a \in Address : Money(Shows(s)[a]) \in Balances
  BY ShowsTyped
<1>2. \A a \in Address : Money(Shows(s)[a]) <= Money(Shows(s)[a])
  BY <1>1 DEF Balances
<1> QED BY <1>1, <1>2, TotalFalls DEF Wealth

LEMMA WealthMoves ==
  ASSUME NEW s \in States, NEW t \in States,
         NEW a \in Address, NEW d \in Nat, NEW b \in Address, NEW e \in Nat,
         \A x \in Address : Held(t, x) + (IF x = b THEN e ELSE 0) <= Held(s, x) + (IF x = a THEN d ELSE 0)
  PROVE  Wealth(t) + e <= Wealth(s) + d
<1>1. /\ Shows(s) \in Worlds /\ Shows(t) \in Worlds
      /\ \A x \in Address : Money(Shows(s)[x]) = Held(s, x) /\ Money(Shows(t)[x]) = Held(t, x)
  BY ShowsTyped
<1>2. \A x \in Address : Money(Shows(t)[x]) + (IF x = b THEN e ELSE 0)
                             <= Money(Shows(s)[x]) + (IF x = a THEN d ELSE 0)
  BY <1>1
<1> QED BY <1>1, <1>2, TotalMoves DEF Wealth

LEMMA WealthFalls ==
  ASSUME NEW s \in States, NEW t \in States, \A x \in Address : Held(t, x) <= Held(s, x)
  PROVE  Wealth(t) <= Wealth(s)
<1>1. /\ Shows(s) \in Worlds /\ Shows(t) \in Worlds
      /\ \A x \in Address : Money(Shows(s)[x]) = Held(s, x) /\ Money(Shows(t)[x]) = Held(t, x)
  BY ShowsTyped
<1>2. \A x \in Address : Money(Shows(t)[x]) <= Money(Shows(s)[x])
  BY <1>1
<1> QED BY <1>1, <1>2, TotalFalls DEF Wealth

LEMMA SameWealth ==
  ASSUME NEW s \in States, NEW t \in States, SameMoney(s, t)
  PROVE  Wealth(t) = Wealth(s)
<1>1. \A x \in Address : Held(s, x) \in Nat
  BY ShowsTyped DEF Balances
<1>2. Wealth(t) <= Wealth(s) /\ Wealth(s) <= Wealth(t)
  BY <1>1, WealthFalls DEF SameMoney
<1> QED BY <1>2, WealthTyped

LEMMA SoundStates ==
  ASSUME NEW s, Sound(s)
  PROVE  /\ s \in States /\ Wealth(s) \in Nat
         /\ \A a \in Address : Held(s, a) \in Balances /\ Held(s, a) \in Nat /\ Held(s, a) = balance(s, a)
<1>1. s \in States
  BY DEF Sound, CacheAgrees
<1>2. \A a \in Address : Held(s, a) \in Balances /\ Held(s, a) = balance(s, a)
  BY <1>1, ShowsTyped
<1> QED BY <1>1, <1>2, WealthTyped DEF Balances

\* What is paid is gone from the sum.
LEMMA PaidWealth ==
  ASSUME NEW s, Sound(s), NEW a \in Address, NEW v \in Balances, v <= Held(s, a)
  PROVE  LET t == subBalance(s, a, v)
         IN  Sound(t) /\ Wealth(t) + v <= Wealth(s)
<1> DEFINE t == subBalance(s, a, v)
<1>1. /\ Sound(t) /\ Held(t, a) = Held(s, a) - v
      /\ \A b \in Address \ {a} : Held(t, b) = Held(s, b)
  BY SubMoney
<1> HIDE DEF t
<1>2. v \in Nat
  BY DEF Balances
<1>3. /\ s \in States /\ t \in States /\ Wealth(s) \in Nat
      /\ \A x \in Address : Held(s, x) \in Nat /\ Held(t, x) \in Nat
  BY <1>1, SoundStates
<1>4. ASSUME NEW x \in Address
      PROVE  Held(t, x) + (IF x = a THEN v ELSE 0) <= Held(s, x) + (IF x = a THEN 0 ELSE 0)
  BY <1>1, <1>2, <1>3
<1>5. Wealth(t) + v <= Wealth(s) + 0
  BY <1>2, <1>3, <1>4, WealthMoves, 0 \in Nat
<1> QED BY <1>1, <1>3, <1>5 DEF t

\* What is given is all that is new in it.
LEMMA GivenWealth ==
  ASSUME NEW s, Sound(s), NEW a \in Address, NEW v \in Balances
  PROVE  LET t == addBalance(s, a, v)
         IN  Sound(t) /\ Wealth(t) <= Wealth(s) + v
<1> DEFINE t == addBalance(s, a, v)
<1>1. /\ Sound(t) /\ Held(t, a) = Plus(Held(s, a), v)
      /\ \A b \in Address \ {a} : Held(t, b) = Held(s, b)
  BY AddMoney
<1> HIDE DEF t
<1>2. v \in Nat
  BY DEF Balances
<1>3. /\ s \in States /\ t \in States /\ Wealth(t) \in Nat
      /\ \A x \in Address : Held(s, x) \in Nat /\ Held(t, x) \in Nat
  BY <1>1, SoundStates
<1>4. Held(t, a) <= Held(s, a) + v
  BY <1>1, <1>2, <1>3, StateAssumption DEF Plus
<1>5. ASSUME NEW x \in Address
      PROVE  Held(t, x) + (IF x = a THEN 0 ELSE 0) <= Held(s, x) + (IF x = a THEN v ELSE 0)
  BY <1>1, <1>2, <1>3, <1>4
<1>6. Wealth(t) + 0 <= Wealth(s) + v
  BY <1>2, <1>3, <1>5, WealthMoves, 0 \in Nat
<1> QED BY <1>1, <1>3, <1>6 DEF t

LEMMA TransferWealth ==
  ASSUME NEW s, Sound(s), NEW from \in Address, NEW to \in Address, NEW v \in Balances,
         v <= Held(s, from)
  PROVE  LET t == transferBalance(s, from, to, v)
         IN  Sound(t) /\ Wealth(t) <= Wealth(s)
<1> DEFINE p == subBalance(s, from, v)
<1>1. Sound(p) /\ Wealth(p) + v <= Wealth(s)
  BY PaidWealth
<1> HIDE DEF p
<1> DEFINE t == addBalance(p, to, v)
<1>2. Sound(t) /\ Wealth(t) <= Wealth(p) + v
  BY <1>1, GivenWealth
<1>3. transferBalance(s, from, to, v) = t
  BY DEF transferBalance, p
<1> HIDE DEF t
<1>4. Wealth(s) \in Nat /\ Wealth(p) \in Nat /\ Wealth(t) \in Nat /\ v \in Nat
  BY <1>1, <1>2, SoundStates DEF Balances
<1> QED BY <1>1, <1>2, <1>3, <1>4

\* A suicide gives before it takes: to itself even what it has already.
LEMMA GivenAwayWealth ==
  ASSUME NEW s, Sound(s), me \in Address, NEW heir \in Address
  PROVE  LET t == GivenAway(s, heir)
         IN  Sound(t) /\ Wealth(t) <= Wealth(s)
<1> DEFINE b == balance(s, me)
           t == addBalance(s, heir, b)
           c == balance(t, me)
           u == subBalance(t, me, c)
<1>1. /\ b \in Balances /\ b = Held(s, me) /\ b \in Nat /\ s \in States
      /\ \A x \in Address : Held(s, x) \in Nat
  BY SoundStates
<1> HIDE DEF b
<1>2. /\ Sound(t) /\ Held(t, heir) = Plus(Held(s, heir), b)
      /\ \A x \in Address \ {heir} : Held(t, x) = Held(s, x)
  BY <1>1, AddMoney
<1> HIDE DEF t
<1>3. /\ c \in Balances /\ c = Held(t, me) /\ c \in Nat
      /\ \A x \in Address : Held(t, x) \in Nat
  BY <1>2, SoundStates
<1> HIDE DEF c
<1>4. /\ Sound(u) /\ Held(u, me) = Held(t, me) - c
      /\ \A x \in Address \ {me} : Held(u, x) = Held(t, x)
  BY <1>2, <1>3, SubMoney
<1> HIDE DEF u
<1>5. u \in States /\ Wealth(u) \in Nat /\ Wealth(s) \in Nat
  BY <1>4, SoundStates
<1>6. Held(u, me) = 0
  BY <1>3, <1>4
<1>7. ASSUME NEW x \in Address
      PROVE  Held(u, x) + (IF x = me THEN b ELSE 0) <= Held(s, x) + (IF x = heir THEN b ELSE 0)
  <2>1. CASE x = me
    BY <1>1, <1>6, <2>1
  <2>2. CASE x # me /\ x = heir
    <3>1. Held(u, x) = Plus(Held(s, x), b)
      BY <1>2, <1>4, <2>2
    <3>2. Plus(Held(s, x), b) <= Held(s, x) + b
      BY <1>1, StateAssumption DEF Plus
    <3>3. Held(u, x) \in Nat
      BY <1>3, <1>4, <2>2
    <3> QED BY <1>1, <2>2, <3>1, <3>2, <3>3
  <2>3. CASE x # me /\ x # heir
    BY <1>1, <1>2, <1>4, <2>3
  <2> QED BY <2>1, <2>2, <2>3
<1>8. Wealth(u) + b <= Wealth(s) + b
  BY <1>1, <1>5, <1>7, WealthMoves
<1>9. Wealth(u) <= Wealth(s)
  BY <1>1, <1>5, <1>8
<1>10. GivenAway(s, heir) = u
  BY DEF GivenAway, u, c, t, b
<1> QED BY <1>4, <1>9, <1>10

LEMMA EndowedWealth ==
  ASSUME NEW s, Sound(s), NEW from \in Address, NEW new \in Address, NEW v \in Balances,
         v <= Held(s, from)
  PROVE  LET t == Endowed(s, from, new, v)
         IN  Sound(t) /\ Wealth(t) <= Wealth(s)
<1> DEFINE p == transferBalance(s, from, new, v)
<1>1. Sound(p) /\ Wealth(p) <= Wealth(s)
  BY TransferWealth
<1>2. Endowed(s, from, new, v) = IF EIP158 THEN incNonce(p, new) ELSE p
  BY DEF Endowed
<1> HIDE DEF p
<1>3. Sound(incNonce(p, new)) /\ SameMoney(p, incNonce(p, new))
  BY <1>1, IncMoney
<1>4. Wealth(incNonce(p, new)) = Wealth(p)
  BY <1>1, <1>3, SoundStates, SameWealth
<1> QED BY <1>1, <1>2, <1>3, <1>4

\* Eviction does not show.
LEMMA BecomesWealth ==
  ASSUME NEW t, CacheAgrees(t), Becomes(t)
  PROVE  m_s' \in States /\ Shows(m_s') = Shows(t) /\ m_s'.trie = t.trie /\ (Sound(t) => Sound(m_s'))
<1>1. PICK V \in Evictions(t) : m_s' = clearCache(t, V)
  BY DEF Becomes
<1>2. CacheAgrees(m_s') /\ Seen(m_s') = Seen(t) /\ m_s'.trie = t.trie /\ (Sound(t) => Sound(m_s'))
  BY <1>1, ClearKeeps
<1> QED BY <1>2 DEF Shows, CacheAgrees

LEMMA KillWealth ==
  ASSUME NEW s, Sound(s), NEW S, S \subseteq Address
  PROVE  LET t == kill(s, S)
         IN  CacheAgrees(t) /\ t.trie = s.trie /\ Wealth(t) <= Wealth(s)
<1> DEFINE t == kill(s, S)
<1>1. /\ CacheAgrees(t) /\ t.trie = s.trie
      /\ \A a \in S : Seen(t)[a] = [data |-> None, doomed |-> FALSE]
      /\ \A a \in Address \ S : Seen(t)[a] = Seen(s)[a]
  BY KillFacts
<1> HIDE DEF t
<1>2. s \in States /\ t \in States /\ \A x \in Address : Held(s, x) \in Nat
  BY <1>1, SoundStates DEF CacheAgrees
<1>3. ASSUME NEW x \in Address
      PROVE  Held(t, x) <= Held(s, x)
  <2>1. CASE x \in S
    <3>1. Seen(t)[x].data = None
      BY <1>1, <2>1, PlainLook
    <3>2. Held(t, x) = 0
      BY <3>1 DEF Held, Money
    <3> QED BY <1>2, <3>2
  <2>2. CASE x \notin S
    <3>1. Held(t, x) = Held(s, x)
      BY <1>1, <2>2 DEF Held
    <3> QED BY <1>2, <3>1
  <2> QED BY <2>1, <2>2
<1>4. Wealth(t) <= Wealth(s)
  BY <1>2, <1>3, WealthFalls
<1> QED BY <1>1, <1>4 DEF t

LEMMA RewardedWealth ==
  ASSUME Sound(m_s), tx \in Payments, NEW left \in 0..tx.cost, NEW author \in Address
  PROVE  LET t == Rewarded(left, author)
         IN  Sound(t) /\ Wealth(t) <= Wealth(m_s) + tx.cost
<1> DEFINE p == addBalance(m_s, tx.sender, left)
           t == addBalance(p, author, tx.cost - left)
<1>1. tx.sender \in Address /\ left \in Balances /\ tx.cost - left \in Balances /\ left \in Nat /\ tx.cost \in Nat
  <2>1. tx.sender \in Senders /\ tx.cost \in GasCosts
    BY DEF Payments
  <2>2. tx.sender \in Address /\ tx.cost \in Balances
    BY <2>1, ConstantsTyped
  <2> QED BY <2>2, StateAssumption DEF Balances
<1>2. Sound(p) /\ Wealth(p) <= Wealth(m_s) + left
  BY <1>1, GivenWealth
<1> HIDE DEF p
<1>3. Sound(t) /\ Wealth(t) <= Wealth(p) + (tx.cost - left)
  BY <1>1, <1>2, GivenWealth
<1>4. Rewarded(left, author) = t
  BY DEF Rewarded, p
<1> HIDE DEF t
<1>5. Wealth(m_s) \in Nat /\ Wealth(p) \in Nat /\ Wealth(t) \in Nat
  BY <1>2, <1>3, SoundStates
<1>6. Wealth(t) <= Wealth(m_s) + tx.cost
  BY <1>1, <1>2, <1>3, <1>5
<1> QED BY <1>3, <1>4, <1>6

-----------------------------------------------------------------------------
(* The frames: what there was when each was opened.                          *)

Owned(v) == TotalIn(v.world)
Falls(sv, n, escrow, limit) ==
    /\ sv = <<>> => n + escrow <= limit
    /\ sv # <<>> => Owned(sv[1]) + escrow <= limit /\ n <= Owned(sv[Len(sv)])
    /\ \A i \in 1..(Len(sv) - 1) : Owned(sv[i + 1]) <= Owned(sv[i])

LEMMA OwnedTyped ==
  ASSUME NEW v \in Views
  PROVE  Owned(v) \in Nat
<1>1. v.world \in Worlds
  BY DEF Views, Worlds
<1>2. \A x \in Address : Money(v.world[x]) <= Money(v.world[x])
  BY <1>1, MoneyTyped DEF Worlds
<1> QED BY <1>1, <1>2, TotalFalls DEF Owned

LEMMA FallsFurther ==
  ASSUME NEW sv \in Seq(Views), NEW n \in Nat, NEW e \in Nat, NEW l \in Nat, Falls(sv, n, e, l),
         NEW m \in Nat, m <= n
  PROVE  Falls(sv, m, e, l)
<1>1. sv # <<>> => Owned(sv[Len(sv)]) \in Nat
  BY OwnedTyped
<1> QED BY <1>1 DEF Falls

LEMMA FallsOpen ==
  ASSUME NEW sv \in Seq(Views), NEW n \in Nat, NEW e \in Nat, NEW l \in Nat, Falls(sv, n, e, l),
         NEW v \in Views, Owned(v) <= n, NEW m \in Nat, m <= Owned(v)
  PROVE  Falls(Append(sv, v), m, e, l)
<1> DEFINE k == Len(sv)
           tv == Append(sv, v)
<1>1. /\ k \in Nat /\ tv \in Seq(Views) /\ Len(tv) = k + 1 /\ tv[k + 1] = v /\ tv # <<>>
      /\ \A i \in 1..k : tv[i] = sv[i] /\ Owned(sv[i]) \in Nat
      /\ Owned(v) \in Nat
  <2>1. \A i \in 1..k : Owned(sv[i]) \in Nat
    BY OwnedTyped
  <2> QED BY <2>1, OwnedTyped
<1>2. sv = <<>> <=> k = 0
  OBVIOUS
<1> HIDE DEF tv
<1>3. CASE k = 0
  <2>1. Owned(tv[1]) = Owned(v)
    BY <1>1, <1>3
  <2>2. n + e <= l
    BY <1>2, <1>3 DEF Falls
  <2> QED BY <1>1, <1>3, <2>1, <2>2 DEF Falls, tv
<1>4. CASE k # 0
  <2>1. k \in 1..k /\ 1 \in 1..k
    BY <1>1, <1>4
  <2>2. Owned(sv[1]) + e <= l /\ n <= Owned(sv[k])
    BY <1>2, <1>4 DEF Falls
  <2>3. tv[1] = sv[1] /\ tv[k] = sv[k]
    BY <1>1, <2>1
  <2>4. ASSUME NEW i \in 1..k
        PROVE  Owned(tv[i + 1]) <= Owned(tv[i])
    <3>1. CASE i = k
      <4>1. Owned(v) <= Owned(sv[k])
        BY <1>1, <2>1, <2>2
      <4> QED BY <1>1, <2>3, <3>1, <4>1
    <3>2. CASE i # k
      <4>1. i \in 1..(k - 1) /\ i + 1 \in 1..k
        BY <1>1, <3>2
      <4>2. Owned(sv[i + 1]) <= Owned(sv[i])
        BY <4>1 DEF Falls
      <4> QED BY <1>1, <4>1, <4>2
    <3> QED BY <3>1, <3>2
  <2>5. m <= Owned(tv[k + 1]) /\ (k + 1) - 1 = k
    BY <1>1
  <2> QED BY <1>1, <2>2, <2>3, <2>4, <2>5 DEF Falls, tv
<1> QED BY <1>3, <1>4

LEMMA FallsClose ==
  ASSUME NEW sv \in Seq(Views), NEW n \in Nat, NEW e \in Nat, NEW l \in Nat, Falls(sv, n, e, l), sv # <<>>
  PROVE  LET tv == SubSeq(sv, 1, Len(sv) - 1)
         IN  /\ tv \in Seq(Views) /\ Owned(sv[Len(sv)]) \in Nat
             /\ Falls(tv, n, e, l) /\ Falls(tv, Owned(sv[Len(sv)]), e, l)
<1> DEFINE k == Len(sv)
           tv == SubSeq(sv, 1, k - 1)
           o == Owned(sv[k])
<1>1. /\ k \in Nat /\ k # 0 /\ tv \in Seq(Views) /\ Len(tv) = k - 1
      /\ \A i \in 1..(k - 1) : tv[i] = sv[i]
      /\ tv = <<>> <=> k = 1
  <2>1. k \in Nat /\ k # 0
    OBVIOUS
  <2>2. tv \in Seq(Views) /\ Len(tv) = k - 1 /\ \A i \in 1..(k - 1) : tv[i] = sv[i]
    <3> DEFINE m == k - 1
    <3>1. m \in Nat /\ \A i \in 1..m : i \in 1..Len(sv) /\ sv[i] \in Views
      BY <2>1
    <3>2. tv = SubSeq(sv, 1, m)
      OBVIOUS
    <3> HIDE DEF m, tv
    <3>3. Len(tv) = m
      BY <3>1, <3>2
    <3>4. \A i \in 1..m : tv[i] = sv[i]
      BY <3>1, <3>2
    <3>5. tv \in Seq(Views)
      BY <3>1, <3>2, <3>3, <3>4
    <3> QED BY <3>3, <3>4, <3>5 DEF m
  <2> HIDE DEF tv
  <2>3. tv = <<>> <=> k = 1
    BY <2>1, <2>2
  <2> QED BY <2>1, <2>2, <2>3
<1>2. \A i \in 1..k : Owned(sv[i]) \in Nat
  BY OwnedTyped
<1> HIDE DEF tv
<1>3. k \in 1..k /\ 1 \in 1..k
  BY <1>1
<1>4. o \in Nat /\ n <= o /\ Owned(sv[1]) + e <= l
  BY <1>2, <1>3 DEF Falls
<1>5. \A i \in 1..(k - 1) : Owned(sv[i + 1]) <= Owned(sv[i])
  BY DEF Falls
<1>6. Falls(tv, o, e, l)
  <2>1. CASE k = 1
    BY <1>1, <1>4, <2>1 DEF Falls
  <2>2. CASE k # 1
    <3> DEFINE j == k - 1
    <3>1. j \in 1..(k - 1) /\ 1 \in 1..(k - 1) /\ j + 1 = k /\ Len(tv) = j
      BY <1>1, <2>2
    <3>2. o <= Owned(sv[j])
      BY <1>5, <3>1
    <3> HIDE DEF j, o
    <3>3. o <= Owned(tv[Len(tv)]) /\ Owned(tv[1]) + e <= l
      BY <1>1, <1>4, <3>1, <3>2
    <3>4. ASSUME NEW i \in 1..(Len(tv) - 1)
          PROVE  Owned(tv[i + 1]) <= Owned(tv[i])
      <4>1. i \in 1..(k - 1) /\ i + 1 \in 1..(k - 1)
        BY <1>1
      <4> QED BY <1>1, <1>5, <4>1
    <3>5. tv # <<>>
      BY <1>1, <2>2
    <3> QED BY <3>3, <3>4, <3>5 DEF Falls
  <2> QED BY <2>1, <2>2
<1> HIDE DEF o
<1>7. Falls(tv, n, e, l)
  BY <1>1, <1>4, <1>6, FallsFurther
<1> QED BY <1>1, <1>4, <1>6, <1>7 DEF tv, o

-----------------------------------------------------------------------------
(* Calls and creations.                                                      *)

LEMMA EnterCallWealth ==
  ASSUME NEW s, Sound(s), NEW sender \in Address, NEW receiver \in Address,
         NEW codeAddress \in Address, NEW value \in Balances, value <= Held(s, sender),
         enterCall(s, sender, receiver, codeAddress, value)
  PROVE  /\ m_s' \in States /\ Wealth(m_s') <= Wealth(s)
         /\ UNCHANGED frames \/ frames' = Append(frames, Frame(s, receiver, FALSE))
<1> DEFINE t == account(s, codeAddress)
<1>1. Stays(s, t) /\ Sound(t)
  BY AccountStays DEF Stays
<1> HIDE DEF t
<1>2. SameMoney(s, t) /\ Wealth(t) = Wealth(s) /\ Wealth(s) \in Nat
  BY <1>1, StaysMoney, SameWealth, SoundStates
<1>3. value <= Held(t, sender)
  BY <1>2 DEF SameMoney
<1>4. ASSUME NEW u, Sound(u), Wealth(u) <= Wealth(s), Becomes(u)
      PROVE  m_s' \in States /\ Wealth(m_s') <= Wealth(s)
  <2>1. CacheAgrees(u)
    BY <1>4 DEF Sound
  <2> QED BY <1>4, <2>1, BecomesWealth DEF Wealth
<1>5. Sound(transferBalance(t, sender, receiver, value))
      /\ Wealth(transferBalance(t, sender, receiver, value)) <= Wealth(s)
  BY <1>1, <1>2, <1>3, TransferWealth
<1>6. Sound(transferBalance(s, sender, receiver, value))
      /\ Wealth(transferBalance(s, sender, receiver, value)) <= Wealth(s)
  BY TransferWealth
<1>7. Sound(addBalance(s, codeAddress, 0)) /\ Wealth(addBalance(s, codeAddress, 0)) <= Wealth(s)
  <2> DEFINE u == addBalance(s, codeAddress, 0)
  <2>1. Sound(u) /\ Wealth(u) <= Wealth(s) + 0
    BY GivenWealth, ZeroIsBalance
  <2> HIDE DEF u
  <2>2. Wealth(u) <= Wealth(s)
    BY <1>2, <2>1
  <2> QED BY <2>1, <2>2 DEF u
<1>8. Wealth(s) <= Wealth(s)
  BY <1>2
<1>9. CASE /\ Becomes(transferBalance(t, sender, receiver, value))
           /\ frames' = IF addressHasCode(t, codeAddress) THEN Append(frames, Frame(s, receiver, FALSE))
                        ELSE frames
  <2>1. UNCHANGED frames \/ frames' = Append(frames, Frame(s, receiver, FALSE))
    BY <1>9
  <2> QED BY <1>4, <1>5, <1>9, <2>1
<1>10. CASE /\ \/ Becomes(transferBalance(s, sender, receiver, value))
               \/ Becomes(IF EIP158 THEN addBalance(s, codeAddress, 0) ELSE s)
            /\ UNCHANGED frames
  <2>1. CASE Becomes(transferBalance(s, sender, receiver, value))
    BY <1>4, <1>6, <1>10, <2>1
  <2>2. CASE Becomes(IF EIP158 THEN addBalance(s, codeAddress, 0) ELSE s)
    <3> DEFINE u == IF EIP158 THEN addBalance(s, codeAddress, 0) ELSE s
    <3>1. Sound(u) /\ Wealth(u) <= Wealth(s)
      BY <1>7, <1>8
    <3> HIDE DEF u
    <3>2. Becomes(u)
      BY <2>2 DEF u
    <3> QED BY <1>4, <1>10, <3>1, <3>2
  <2> QED BY <1>10, <2>1, <2>2
<1> QED BY <1>9, <1>10 DEF enterCall, t

LEMMA EnterCreateWealth ==
  ASSUME NEW s, Sound(s), NEW sender \in Address, NEW new \in Address, NEW endowment \in Balances,
         endowment <= Held(s, sender), enterCreate(s, sender, new, endowment)
  PROVE  LET t == incNonce(s, sender)
         IN  /\ Sound(t) /\ Wealth(t) = Wealth(s)
             /\ m_s' \in States /\ Wealth(m_s') <= Wealth(t)
             /\ UNCHANGED frames \/ frames' = Append(frames, Frame(t, new, TRUE))
<1> DEFINE t == incNonce(s, sender)
           u == Endowed(t, sender, new, endowment)
<1>1. Sound(t) /\ SameMoney(s, t)
  BY IncMoney
<1>2. /\ Becomes(u)
      /\ frames' = Append(frames, Frame(t, new, TRUE)) \/ UNCHANGED frames
  BY DEF enterCreate
<1> HIDE DEF t
<1>3. endowment <= Held(t, sender)
  BY <1>1 DEF SameMoney
<1>4. Sound(u) /\ Wealth(u) <= Wealth(t)
  BY <1>1, <1>3, EndowedWealth
<1> HIDE DEF u
<1>5. m_s' \in States /\ Wealth(m_s') = Wealth(u)
  BY <1>2, <1>4, BecomesWealth DEF Sound, Wealth
<1>6. Wealth(t) = Wealth(s)
  BY <1>1, SoundStates, SameWealth
<1> QED BY <1>1, <1>2, <1>4, <1>5, <1>6 DEF t

-----------------------------------------------------------------------------
(* The invariant, and one lemma per action.                                  *)

Wealthy == Falls(SavedOf(Open), TotalIn(Shown.world), InEscrow, TotalIn(m_s.trie))

LEMMA ViewWorld ==
  ASSUME NEW s \in States
  PROVE  \A S : Abs(Seen(s), S).world = Shows(s)
BY DEF Abs, Shows

LEMMA ShownWealth ==
  /\ IInv /\ phase # "rollback" =>
        TotalIn(Shown.world) = Wealth(m_s) /\ SavedOf(Open) = SavedOf(frames)
  /\ m_s' \in States /\ phase' # "rollback" =>
        TotalIn(Shown'.world) = Wealth(m_s') /\ SavedOf(Open)' = SavedOf(frames')
<1>1. ASSUME IInv, phase # "rollback"
      PROVE  TotalIn(Shown.world) = Wealth(m_s) /\ SavedOf(Open) = SavedOf(frames)
  <2>1. m_s \in States
    BY <1>1 DEF IInv, TypeOK
  <2>2. Shown = Abs(Seen(m_s), AllSuicides) /\ Open = frames
    BY <1>1, <2>1, ShownFacts, ViewIsAbs
  <2> QED BY <2>1, <2>2, ViewWorld DEF Wealth
<1>2. ASSUME m_s' \in States, phase' # "rollback"
      PROVE  TotalIn(Shown'.world) = Wealth(m_s') /\ SavedOf(Open)' = SavedOf(frames')
  <2>1. Shown' = Abs(Seen(m_s'), AllSuicides') /\ Open' = frames'
    BY <1>2, ShownFacts, ViewIsAbsNext
  <2>2. SavedOf(Open)' = SavedOf(frames')
    BY <2>1 DEF SavedOf
  <2> QED BY <1>2, <2>1, <2>2, ViewWorld DEF Wealth
<1> QED BY <1>1, <1>2

\* What the sums are of.
LEMMA SumsTyped ==
  ASSUME IInv
  PROVE  /\ SavedOf(Open) \in Seq(Views)
         /\ TotalIn(Shown.world) \in Nat /\ InEscrow \in Nat /\ TotalIn(m_s.trie) \in Nat
<1>1. m_s \in States /\ frames \in Seq(Frames)
  BY DEF IInv, TypeOK
<1>2. Open \in Seq(Frames) /\ TotalIn(Shown.world) \in Nat
  <2>1. CASE phase # "rollback"
    <3>1. Open = frames
      BY <2>1, ShownFacts
    <3> QED BY <1>1, <2>1, <3>1, ShownWealth, WealthTyped
  <2>2. CASE phase = "rollback"
    <3>1. frames # <<>> /\ Top \in Frames
      BY <2>2, UndoingFacts
    <3>2. Open = Under /\ Shown = Top.saved /\ Top.saved \in Views
      BY <2>2, <3>1, ShownFacts DEF Frames
    <3>3. Under \in Seq(Frames)
      BY <1>1, <3>1, UnderFacts DEF Under
    <3> QED BY <3>2, <3>3, OwnedTyped DEF Owned
  <2> QED BY <2>1, <2>2
<1>3. InEscrow \in Nat
  <2>1. phase \in {"running", "rollback"} => tx \in Payments
    BY DEF IInv
  <2>2. ASSUME tx \in Payments
        PROVE  tx.cost \in Nat
    <3>1. tx.cost \in GasCosts
      BY <2>2 DEF Payments
    <3>2. tx.cost \in Balances
      BY <3>1, ConstantsTyped
    <3> QED BY <3>2 DEF Balances
  <2> QED BY <2>1, <2>2 DEF InEscrow
<1>4. TotalIn(m_s.trie) \in Nat
  <2>1. m_s.trie \in Worlds
    BY <1>1 DEF States, Worlds
  <2>2. \A x \in Address : Money(m_s.trie[x]) <= Money(m_s.trie[x])
    BY <2>1, MoneyTyped DEF Worlds
  <2> QED BY <2>1, <2>2, TotalFalls
<1> QED BY <1>2, <1>3, <1>4, SavedOfSeq

\* A frame is opened on what s shows, or none is.
LEMMA GoesOnWealth ==
  ASSUME frames \in Seq(Frames), suicides \subseteq Address, phase' # "rollback",
         NEW s, Sound(s), NEW e \in Nat, InEscrow' = e, TotalIn(m_s.trie) \in Nat,
         Falls(SavedOf(frames), Wealth(s), e, TotalIn(m_s.trie)),
         m_s' \in States, m_s'.trie = m_s.trie, Wealth(m_s') <= Wealth(s),
         NEW a \in Address, NEW isCreation \in BOOLEAN,
         UNCHANGED frames \/ frames' = Append(frames, Frame(s, a, isCreation))
  PROVE  Wealthy'
<1> DEFINE sv == SavedOf(frames)
           f == Frame(s, a, isCreation)
           n == Wealth(s)
           m == Wealth(m_s')
           l == TotalIn(m_s.trie)
<1>1. s \in States /\ n \in Nat /\ m \in Nat /\ m <= n /\ l \in Nat
  BY SoundStates, WealthTyped
<1>2. sv \in Seq(Views) /\ Falls(sv, n, e, l)
  BY SavedOfSeq
<1>3. TotalIn(Shown'.world) = m /\ SavedOf(Open)' = SavedOf(frames') /\ TotalIn(m_s'.trie) = l
  BY ShownWealth
<1> HIDE DEF n, m, l
<1>4. SUFFICES Falls(SavedOf(frames'), m, e, l)
  BY <1>3 DEF Wealthy
<1>5. CASE UNCHANGED frames
  <2>1. SavedOf(frames') = sv
    BY <1>5
  <2> HIDE DEF sv
  <2> QED BY <1>1, <1>2, <2>1, FallsFurther
<1>6. CASE frames' = Append(frames, f)
  <2>1. f \in Frames /\ f.saved = Abs(Seen(s), AllSuicides) /\ f.saved \in Views
    <3>1. f \in Frames /\ f.saved = Abs(Seen(s), AllSuicides)
      BY FrameTyped
    <3> HIDE DEF f
    <3> QED BY <3>1 DEF Frames
  <2>2. Owned(f.saved) = n
    <3>1. f.saved.world = Shows(s)
      BY <1>1, <2>1, ViewWorld
    <3> HIDE DEF f
    <3> QED BY <3>1 DEF Owned, Wealth, n
  <2> HIDE DEF f
  <2>3. SavedOf(frames') = Append(sv, f.saved)
    <3> DEFINE gs == Append(frames, f)
    <3>1. gs \in Seq(Frames) /\ Len(gs) = Len(frames) + 1 /\ gs[Len(frames) + 1] = f
          /\ \A i \in 1..Len(frames) : gs[i] = frames[i]
      BY <2>1
    <3> HIDE DEF gs
    <3> DEFINE tv == SavedOf(gs)
    <3>2. /\ sv \in Seq(Views) /\ Len(sv) = Len(frames) /\ \A i \in 1..Len(frames) : sv[i] = frames[i].saved
          /\ tv \in Seq(Views) /\ Len(tv) = Len(gs) /\ \A i \in 1..Len(gs) : tv[i] = gs[i].saved
      BY <3>1, SavedOfSeq
    <3> HIDE DEF sv, tv
    <3>3. \A i \in 1..Len(sv) : tv[i] = sv[i]
      BY <3>1, <3>2
    <3>4. tv[Len(sv) + 1] = f.saved /\ Len(tv) = Len(sv) + 1
      BY <3>1, <3>2
    <3> DEFINE x == f.saved
    <3>5. x \in Views
      BY <2>1
    <3> HIDE DEF x
    <3>6. tv = Append(sv, x)
      BY <3>2, <3>3, <3>4, <3>5 DEF x
    <3> QED BY <1>6, <3>6 DEF x, tv, gs
  <2> HIDE DEF sv
  <2>4. n <= n
    BY <1>1
  <2> QED BY <1>1, <1>2, <2>1, <2>2, <2>3, <2>4, FallsOpen
<1> QED BY <1>5, <1>6

\* Outside of a rollback.
LEMMA WealthNow ==
  ASSUME IInv, Wealthy, phase # "rollback"
  PROVE  /\ m_s \in States /\ frames \in Seq(Frames) /\ suicides \subseteq Address
         /\ Wealth(m_s) \in Nat /\ InEscrow \in Nat /\ TotalIn(m_s.trie) \in Nat
         /\ SavedOf(frames) \in Seq(Views)
         /\ Falls(SavedOf(frames), Wealth(m_s), InEscrow, TotalIn(m_s.trie))
<1>1. m_s \in States /\ frames \in Seq(Frames) /\ suicides \subseteq Address
  BY DEF IInv, TypeOK
<1>2. TotalIn(Shown.world) = Wealth(m_s) /\ SavedOf(Open) = SavedOf(frames)
  BY ShownWealth
<1> QED BY <1>1, <1>2, SumsTyped DEF Wealthy

\* What contracts do to what accounts have, in the frame that is open.
LEMMA RunsWealth ==
  ASSUME IInv, Wealthy, phase = "running", UNCHANGED <<phase, tx>>,
         NEW s, Sound(s), Wealth(s) <= Wealth(m_s),
         m_s' \in States, m_s'.trie = m_s.trie, Wealth(m_s') <= Wealth(s),
         NEW a \in Address, NEW isCreation \in BOOLEAN,
         UNCHANGED frames \/ frames' = Append(frames, Frame(s, a, isCreation))
  PROVE  Wealthy'
<1> DEFINE e == InEscrow
           l == TotalIn(m_s.trie)
           sv == SavedOf(frames)
<1>1. /\ frames \in Seq(Frames) /\ suicides \subseteq Address
      /\ Wealth(m_s) \in Nat /\ e \in Nat /\ l \in Nat /\ sv \in Seq(Views)
      /\ Falls(sv, Wealth(m_s), e, l)
  BY WealthNow
<1>2. InEscrow' = e /\ phase' # "rollback"
  BY DEF InEscrow
<1> HIDE DEF e, sv
<1>3. Wealth(s) \in Nat
  BY SoundStates
<1> HIDE DEF l
<1>4. Falls(sv, Wealth(s), e, l)
  BY <1>1, <1>3, FallsFurther
<1> QED BY <1>1, <1>2, <1>4, GoesOnWealth DEF sv, l

LEMMA CallMoney ==
  ASSUME IInv, Wealthy, NEW codeAddress \in Address, NEW value \in Amounts, call(codeAddress, value)
  PROVE  Wealthy'
<1>1. /\ phase = "running" /\ frames # <<>> /\ UNCHANGED <<phase, tx>>
      /\ value <= balance(m_s, me)
  BY DEF call, Running
<1>2. Sound(m_s) /\ me \in Address /\ value \in Balances
  BY <1>1, RunningFacts, ConstantsTyped
<1>3. m_s'.trie = m_s.trie
  BY CallStep DEF W!Open, W!Change
<1> DEFINE s == account(m_s, me)
<1>4. PICK receiver \in {codeAddress, me} : enterCall(s, me, receiver, codeAddress, value)
  BY DEF call
<1>5. Stays(m_s, s) /\ Sound(s)
  BY <1>2, AccountStays DEF Stays
<1> HIDE DEF s
<1>6. SameMoney(m_s, s) /\ Wealth(s) = Wealth(m_s) /\ Wealth(m_s) \in Nat /\ Held(m_s, me) = balance(m_s, me)
  BY <1>2, <1>5, StaysMoney, SameWealth, SoundStates
<1>7. value <= Held(s, me) /\ Wealth(s) <= Wealth(m_s) /\ receiver \in Address
  BY <1>1, <1>2, <1>4, <1>6 DEF SameMoney
<1>8. /\ m_s' \in States /\ Wealth(m_s') <= Wealth(s)
      /\ UNCHANGED frames \/ frames' = Append(frames, Frame(s, receiver, FALSE))
  BY <1>2, <1>4, <1>5, <1>7, EnterCallWealth
<1> QED BY <1>1, <1>3, <1>5, <1>7, <1>8, RunsWealth

LEMMA CreateMoney ==
  ASSUME IInv, Wealthy, NEW new \in Address, NEW endowment \in Amounts, create(new, endowment)
  PROVE  Wealthy'
<1>1. /\ phase = "running" /\ frames # <<>> /\ UNCHANGED <<phase, tx>>
      /\ endowment <= balance(m_s, me) /\ enterCreate(m_s, me, new, endowment)
  BY DEF create, Running
<1>2. Sound(m_s) /\ me \in Address /\ endowment \in Balances
  BY <1>1, RunningFacts, ConstantsTyped
<1>3. m_s'.trie = m_s.trie
  BY CreateStep DEF W!Open, W!Change
<1>4. endowment <= Held(m_s, me) /\ Wealth(m_s) \in Nat
  BY <1>1, <1>2, SoundStates
<1> DEFINE t == incNonce(m_s, me)
<1>5. /\ Sound(t) /\ Wealth(t) = Wealth(m_s) /\ m_s' \in States /\ Wealth(m_s') <= Wealth(t)
      /\ UNCHANGED frames \/ frames' = Append(frames, Frame(t, new, TRUE))
  BY <1>1, <1>2, <1>4, EnterCreateWealth
<1> HIDE DEF t
<1>6. Wealth(t) <= Wealth(m_s)
  BY <1>4, <1>5
<1> QED BY <1>1, <1>3, <1>5, <1>6, RunsWealth

LEMMA SetStoreMoney ==
  ASSUME IInv, Wealthy, NEW k \in Keys, NEW v \in Values, setStore(k, v)
  PROVE  Wealthy'
<1>1. /\ phase = "running" /\ frames # <<>> /\ UNCHANGED <<frames, phase, tx>>
      /\ m_s' = setStorage(m_s, me, k, v)
  BY DEF setStore, Running
<1>2. Sound(m_s) /\ me \in Address /\ IsDirty(m_s, me)
  BY <1>1, RunningFacts
<1>3. m_s'.trie = m_s.trie
  BY SetStoreStep DEF W!Change
<1>4. Sound(m_s') /\ SameMoney(m_s, m_s')
  BY <1>1, <1>2, StoreMoney
<1>5. m_s' \in States /\ Wealth(m_s') <= Wealth(m_s) /\ Wealth(m_s) <= Wealth(m_s)
  BY <1>2, <1>4, SoundStates, SameWealth
<1> QED BY <1>1, <1>2, <1>3, <1>5, RunsWealth

LEMMA LookMoney ==
  ASSUME IInv, Wealthy, NEW a \in Address, look(a)
  PROVE  Wealthy'
<1> DEFINE t == account(m_s, a)
<1>1. /\ phase = "running" /\ frames # <<>> /\ UNCHANGED <<frames, phase, tx>> /\ Becomes(t)
  BY DEF look, Running
<1>2. Sound(m_s)
  BY <1>1, RunningFacts
<1>3. m_s'.trie = m_s.trie
  BY LookStep DEF W!Change
<1>4. Stays(m_s, t) /\ Sound(t)
  BY <1>2, AccountStays DEF Stays
<1> HIDE DEF t
<1>5. Wealth(t) = Wealth(m_s) /\ Wealth(m_s) \in Nat
  BY <1>2, <1>4, StaysMoney, SoundStates, SameWealth
<1>6. m_s' \in States /\ Wealth(m_s') = Wealth(t)
  BY <1>1, <1>4, BecomesWealth DEF Sound, Wealth
<1>7. Wealth(m_s') <= Wealth(m_s) /\ Wealth(m_s) <= Wealth(m_s)
  BY <1>5, <1>6
<1> QED BY <1>1, <1>2, <1>3, <1>6, <1>7, RunsWealth

\* A frame that is kept leaves what it has not lost to the one around it.
LEMMA KeepWealth ==
  ASSUME IInv, Wealthy, phase = "running", UNCHANGED <<phase, tx>>, W!Keep,
         m_s' \in States, Wealth(m_s') <= Wealth(m_s)
  PROVE  Wealthy'
<1> DEFINE e == InEscrow
           l == TotalIn(m_s.trie)
           sv == SavedOf(frames)
           n == Wealth(m_s)
           m == Wealth(m_s')
<1>1. n \in Nat /\ e \in Nat /\ l \in Nat /\ sv \in Seq(Views) /\ Falls(sv, n, e, l) /\ m \in Nat /\ m <= n
  BY WealthNow, WealthTyped
<1>2. InEscrow' = e /\ phase' # "rollback" /\ phase # "rollback"
  BY DEF InEscrow
<1>3. SavedOf(Open) # <<>> /\ SavedOf(Open)' = SubSeq(SavedOf(Open), 1, Len(SavedOf(Open)) - 1)
      /\ m_s'.trie = m_s.trie
  BY DEF W!Keep, SavedOf
<1>4. SavedOf(Open) = sv /\ TotalIn(Shown'.world) = m
  BY <1>2, ShownWealth
<1>5. l = TotalIn(m_s'.trie)
  BY <1>3
<1> DEFINE tv == SubSeq(sv, 1, Len(sv) - 1)
<1>6. sv # <<>> /\ SavedOf(Open)' = tv
  BY <1>3, <1>4
<1> HIDE DEF e, l, sv, n, m
<1>7. tv \in Seq(Views) /\ Falls(tv, n, e, l)
  BY <1>1, <1>6, FallsClose
<1> HIDE DEF tv
<1>8. Falls(tv, m, e, l)
  BY <1>1, <1>7, FallsFurther
<1> QED BY <1>2, <1>4, <1>5, <1>6, <1>8 DEF Wealthy

LEMMA ReturnMoney ==
  ASSUME IInv, Wealthy, NEW output \in Codes \cup {EmptySHA3}, return(output)
  PROVE  Wealthy'
<1>1. /\ phase = "running" /\ frames # <<>> /\ UNCHANGED <<phase, tx>>
      /\ m_s' = IF Top.creation THEN setNewCode(m_s, me, output) ELSE m_s
  BY DEF return, Running, Ends
<1>2. Sound(m_s) /\ me \in Address /\ IsDirty(m_s, me)
  BY <1>1, RunningFacts
<1>3. W!Keep
  BY ReturnStep
<1>4. Sound(m_s') /\ SameMoney(m_s, m_s')
  <2>1. CASE Top.creation
    BY <1>1, <1>2, <2>1, CodeMoney
  <2>2. CASE ~Top.creation
    BY <1>1, <1>2, <2>2 DEF SameMoney
  <2> QED BY <2>1, <2>2
<1>5. m_s' \in States /\ Wealth(m_s') <= Wealth(m_s)
  BY <1>2, <1>4, SoundStates, SameWealth
<1> QED BY <1>1, <1>3, <1>5, KeepWealth

LEMMA SuicideMoney ==
  ASSUME IInv, Wealthy, NEW heir \in Address, suicide(heir)
  PROVE  Wealthy'
<1> DEFINE t == GivenAway(m_s, heir)
           u == IF Top.creation THEN setNewCode(t, me, EmptySHA3) ELSE t
<1>1. phase = "running" /\ frames # <<>> /\ UNCHANGED <<phase, tx>> /\ Becomes(u)
  BY DEF suicide, Running, Ends
<1>2. Sound(m_s) /\ me \in Address /\ IsDirty(m_s, me)
  BY <1>1, RunningFacts
<1>3. W!Keep
  BY SuicideStep
<1>4. Sound(t) /\ Wealth(t) <= Wealth(m_s)
  BY <1>2, GivenAwayWealth
<1>5. IsDirty(t, me)
  <2>1. Continues(m_s, t, None)
    BY <1>2, GivenAwayContinues
  <2> HIDE DEF t
  <2>2. Extends(m_s, t, None)
    BY <1>2, <2>1, ContinuesFacts
  <2> QED BY <1>2, <2>2 DEF Extends
<1> HIDE DEF t
<1>6. Sound(u) /\ Wealth(u) = Wealth(t)
  <2>1. CASE Top.creation
    <3>1. Sound(setNewCode(t, me, EmptySHA3)) /\ SameMoney(t, setNewCode(t, me, EmptySHA3))
      BY <1>2, <1>4, <1>5, CodeMoney
    <3> QED BY <1>4, <2>1, <3>1, SoundStates, SameWealth
  <2>2. CASE ~Top.creation
    BY <1>4, <2>2
  <2> QED BY <2>1, <2>2
<1> HIDE DEF u
<1>7. m_s' \in States /\ Wealth(m_s') = Wealth(u)
  BY <1>1, <1>6, BecomesWealth DEF Sound, Wealth
<1>8. Wealth(m_s') <= Wealth(m_s)
  BY <1>4, <1>6, <1>7
<1> QED BY <1>1, <1>3, <1>7, <1>8, KeepWealth

\* A frame that is given up leaves what it has found.
LEMMA ThrowMoney ==
  ASSUME IInv, Wealthy, throw
  PROVE  Wealthy'
<1> DEFINE e == InEscrow
           l == TotalIn(m_s.trie)
           sv == SavedOf(frames)
           n == Wealth(m_s)
           tv == SubSeq(sv, 1, Len(sv) - 1)
<1>1. phase = "running" /\ phase' = "rollback" /\ tx' = tx /\ m_s' = m_s
  BY DEF throw
<1>2. n \in Nat /\ e \in Nat /\ l \in Nat /\ sv \in Seq(Views) /\ Falls(sv, n, e, l)
  BY <1>1, WealthNow
<1>3. SavedOf(Open) = sv
  BY <1>1, ShownWealth
<1>4. W!Undo
  BY ThrowStep
<1>5. SavedOf(Open) # <<>> /\ SavedOf(Open)' = SubSeq(SavedOf(Open), 1, Len(SavedOf(Open)) - 1)
  BY <1>4 DEF W!Undo, SavedOf
<1>6. Shown'.world = SavedOf(Open)[Len(SavedOf(Open))].world
  <2>1. W!View' = SavedOf(Open)[Len(SavedOf(Open))]
    BY <1>4 DEF W!Undo, SavedOf
  <2>2. W!View'.world = Shown'.world
    BY DEF W!View
  <2> QED BY <2>1, <2>2
<1>7. InEscrow' = e /\ TotalIn(m_s'.trie) = l
  BY <1>1 DEF InEscrow
<1>8. sv # <<>> /\ SavedOf(Open)' = tv /\ TotalIn(Shown'.world) = Owned(sv[Len(sv)])
  BY <1>3, <1>5, <1>6 DEF Owned
<1> HIDE DEF e, l, sv, n
<1>9. Falls(tv, Owned(sv[Len(sv)]), e, l)
  BY <1>2, <1>8, FallsClose
<1> QED BY <1>7, <1>8, <1>9 DEF Wealthy

LEMMA RollbackMoney ==
  ASSUME IInv, Wealthy, rollback
  PROVE  Wealthy'
<1>1. /\ Shown'.world = Shown.world /\ SavedOf(Open)' = SavedOf(Open) /\ m_s'.trie = m_s.trie
  BY RollbackStep DEF W!GoOn, W!worldVars, SavedOf
<1>2. InEscrow' = InEscrow
  <2>1. phase = "rollback" /\ phase' \in {"running", "rollback"} /\ tx' = tx
    BY DEF rollback
  <2> QED BY <2>1 DEF InEscrow
<1> QED BY <1>1, <1>2 DEF Wealthy

\* Before the frames of a transaction there is nothing to go back to but the trie.
LEMMA FallsIdle ==
  ASSUME NEW n, NEW e, NEW l
  PROVE  Falls(<<>>, n, e, l) <=> n + e <= l
<1>1. 1..(Len(<<>>) - 1) = {}
  OBVIOUS
<1> QED BY <1>1 DEF Falls

LEMMA NoneSaved == SavedOf(<<>>) = <<>>
<1> DEFINE p == SavedOf(<<>>)
<1>1. <<>> \in Seq(Frames) /\ Len(<<>>) = 0
  OBVIOUS
<1>2. p \in Seq(Views) /\ Len(p) = 0
  BY <1>1, SavedOfSeq
<1> HIDE DEF p
<1>3. p = <<>>
  BY <1>2
<1> QED BY <1>3 DEF p

\* What is paid for gas is put by, and what is sent is there still.
LEMMA ExecuteMoney ==
  ASSUME IInv, Wealthy, NEW sender \in Senders, NEW to \in Address, NEW value \in Amounts,
         NEW cost \in GasCosts, execute(sender, to, value, cost)
  PROVE  Wealthy'
<1> DEFINE looked == account(m_s, sender)
           paid == subBalance(looked, sender, cost)
           l == TotalIn(m_s.trie)
<1>1. /\ phase = "idle" /\ phase' = "running" /\ tx' = [sender |-> sender, cost |-> cost]
      /\ value + cost <= balance(m_s, sender)
      /\ \/ enterCall(incNonce(paid, sender), sender, to, to, value)
         \/ enterCreate(paid, sender, to, value)
  BY DEF execute
<1>2. /\ Sound(m_s) /\ frames = <<>> /\ sender \in Address
      /\ value \in Balances /\ cost \in Balances /\ value \in Nat /\ cost \in Nat
  BY <1>1, ConstantsTyped DEF IInv, Balances
<1>3. m_s'.trie = m_s.trie
  BY ExecuteStep DEF W!Open, W!Change
<1>4. /\ frames \in Seq(Frames) /\ suicides \subseteq Address /\ l \in Nat
      /\ Wealth(m_s) \in Nat /\ Wealth(m_s) <= l
  <2>1. InEscrow = 0
    BY <1>1 DEF InEscrow
  <2>2. /\ frames \in Seq(Frames) /\ suicides \subseteq Address /\ l \in Nat
        /\ Wealth(m_s) \in Nat /\ Falls(<<>>, Wealth(m_s), 0, l)
    BY <1>1, <1>2, <2>1, WealthNow, NoneSaved
  <2>3. Wealth(m_s) + 0 <= l
    BY <2>2, FallsIdle
  <2> QED BY <2>2, <2>3
<1>5. InEscrow' = cost /\ phase' # "rollback"
  BY <1>1 DEF InEscrow
<1>6. Stays(m_s, looked) /\ Sound(looked)
  BY <1>2, AccountStays DEF Stays
<1> HIDE DEF looked
<1>7. /\ Held(looked, sender) = balance(m_s, sender) /\ Held(looked, sender) \in Nat
      /\ Wealth(looked) = Wealth(m_s)
  <2>1. SameMoney(m_s, looked)
    BY <1>6, StaysMoney
  <2>2. Held(m_s, sender) = balance(m_s, sender) /\ Held(looked, sender) \in Nat
    BY <1>2, <1>6, SoundStates
  <2> QED BY <1>2, <1>6, <2>1, <2>2, SoundStates, SameWealth DEF SameMoney
<1>8. cost <= Held(looked, sender) /\ value <= Held(looked, sender) - cost
  BY <1>1, <1>2, <1>7
<1>9. Sound(paid) /\ Wealth(paid) + cost <= Wealth(looked) /\ value <= Held(paid, sender)
  <2>1. Sound(paid) /\ Held(paid, sender) = Held(looked, sender) - cost
    BY <1>2, <1>6, <1>8, SubMoney
  <2>2. Wealth(paid) + cost <= Wealth(looked)
    BY <1>2, <1>6, <1>8, PaidWealth
  <2> HIDE DEF paid
  <2> QED BY <1>8, <2>1, <2>2
<1> HIDE DEF paid
<1> DEFINE t == incNonce(paid, sender)
<1>10. /\ Sound(t) /\ SameMoney(paid, t)
  BY <1>2, <1>9, IncMoney
<1>11. \E isCreation \in BOOLEAN :
          /\ m_s' \in States /\ Wealth(m_s') <= Wealth(t)
          /\ UNCHANGED frames \/ frames' = Append(frames, Frame(t, to, isCreation))
  <2>1. CASE enterCall(t, sender, to, to, value)
    <3> HIDE DEF t
    <3>1. value <= Held(t, sender)
      BY <1>2, <1>9, <1>10 DEF SameMoney
    <3> QED BY <1>2, <1>10, <2>1, <3>1, EnterCallWealth
  <2>2. CASE enterCreate(paid, sender, to, value)
    BY <1>2, <1>9, <2>2, EnterCreateWealth
  <2> QED BY <1>1, <2>1, <2>2
<1> HIDE DEF t
<1>12. Falls(SavedOf(frames), Wealth(t), cost, l)
  <2>1. Wealth(t) = Wealth(paid) /\ Wealth(paid) \in Nat
    BY <1>9, <1>10, SoundStates, SameWealth
  <2>2. Wealth(t) + cost <= l
    BY <1>2, <1>4, <1>7, <1>9, <2>1
  <2> QED BY <1>2, <2>2, NoneSaved, FallsIdle
<1>13. PICK isCreation \in BOOLEAN :
          /\ m_s' \in States /\ Wealth(m_s') <= Wealth(t)
          /\ UNCHANGED frames \/ frames' = Append(frames, Frame(t, to, isCreation))
  BY <1>11
<1> QED BY <1>2, <1>3, <1>4, <1>5, <1>10, <1>12, <1>13, GoesOnWealth

\* What was put by is shared out.
LEMMA FinalizeMoney ==
  ASSUME IInv, Wealthy, NEW author \in Address, finalize(author)
  PROVE  Wealthy'
<1> DEFINE l == TotalIn(m_s.trie)
           n == Wealth(m_s)
           m == Wealth(m_s')
<1>1. phase = "running" /\ frames = <<>> /\ phase' = "finalized" /\ frames' = frames
  BY DEF finalize
<1>2. PICK left \in 0..tx.cost : Becomes(kill(Rewarded(left, author), suicides))
  BY DEF finalize
<1>3. Sound(m_s) /\ tx \in Payments /\ suicides \subseteq Address
  BY <1>1 DEF IInv, TypeOK
<1> DEFINE r == Rewarded(left, author)
           t == kill(r, suicides)
<1>4. Sound(r) /\ Wealth(r) <= n + tx.cost
  BY <1>3, RewardedWealth
<1>5. Becomes(t)
  BY <1>2
<1> HIDE DEF r
<1>6. CacheAgrees(t) /\ Wealth(t) <= Wealth(r)
  BY <1>3, <1>4, KillWealth
<1> HIDE DEF t
<1>7. m_s' \in States /\ m = Wealth(t)
  BY <1>5, <1>6, BecomesWealth DEF Wealth
<1>8. n + tx.cost <= l /\ n \in Nat /\ l \in Nat /\ tx.cost \in Nat
  <2>1. InEscrow = tx.cost
    BY <1>1 DEF InEscrow
  <2>2. Falls(<<>>, n, tx.cost, l) /\ n \in Nat /\ l \in Nat /\ tx.cost \in Nat
    BY <1>1, <2>1, WealthNow, NoneSaved
  <2> QED BY <2>2, FallsIdle
<1>9. m_s'.trie = m_s.trie
  BY FinalizeStep DEF W!Finalize
<1>10. SavedOf(Open)' = <<>> /\ TotalIn(Shown'.world) = m /\ InEscrow' = 0 /\ TotalIn(m_s'.trie) = l
  <2>1. SavedOf(Open)' = SavedOf(frames') /\ TotalIn(Shown'.world) = m
    BY <1>1, <1>7, ShownWealth
  <2>2. SavedOf(frames') = <<>>
    BY <1>1, NoneSaved
  <2> QED BY <1>1, <1>9, <2>1, <2>2 DEF InEscrow
<1>11. m + 0 <= l
  <2>1. m \in Nat /\ Wealth(r) \in Nat
    BY <1>4, <1>7, WealthTyped, SoundStates
  <2> HIDE DEF m, n, l
  <2> QED BY <1>4, <1>6, <1>7, <1>8, <2>1
<1> HIDE DEF m, l
<1>12. Falls(<<>>, m, 0, l)
  BY <1>11, FallsIdle
<1> QED BY <1>10, <1>12 DEF Wealthy

\* What is committed is the next transaction's to start with.
LEMMA EvenWealth ==
  ASSUME m_s' \in States, frames' = <<>>, phase' = "idle", Shown'.world = m_s'.trie
  PROVE  Wealthy'
<1>1. SavedOf(Open)' = <<>> /\ TotalIn(Shown'.world) = Wealth(m_s') /\ InEscrow' = 0
  <2>1. SavedOf(Open)' = SavedOf(frames') /\ TotalIn(Shown'.world) = Wealth(m_s')
    BY ShownWealth
  <2> QED BY <2>1, NoneSaved DEF InEscrow
<1>2. TotalIn(Shown'.world) = TotalIn(m_s'.trie)
  OBVIOUS
<1> DEFINE m == TotalIn(m_s'.trie)
<1>3. m \in Nat
  BY <1>1, <1>2, WealthTyped
<1> HIDE DEF m
<1>4. Falls(<<>>, m, 0, m)
  BY <1>3, FallsIdle
<1> QED BY <1>1, <1>2, <1>4 DEF Wealthy, m

LEMMA ConcludeMoney ==
  ASSUME IInv, Wealthy, conclude
  PROVE  Wealthy'
<1>1. phase = "finalized" /\ frames' = frames /\ phase' = "idle"
  BY DEF conclude
<1>2. frames = <<>>
  BY <1>1 DEF IInv
<1>3. m_s' \in States
  BY ConcludeStep DEF IInv, TypeOK
<1>4. Shown'.world = m_s'.trie
  BY ConcludeStep DEF W!Commit, W!Abandon
<1> QED BY <1>1, <1>2, <1>3, <1>4, EvenWealth

LEMMA InitMoney ==
  ASSUME Init
  PROVE  Wealthy
<1>1. IInv /\ W!WorldInit /\ frames = <<>> /\ phase = "idle"
  BY InitHolds DEF Init
<1>2. m_s \in States
  BY <1>1 DEF IInv, TypeOK
<1>3. Shown.world = m_s.trie
  BY <1>1 DEF W!WorldInit
<1>4. TotalIn(Shown.world) = Wealth(m_s) /\ SavedOf(Open) = <<>> /\ InEscrow = 0
  <2>1. SavedOf(Open) = SavedOf(frames) /\ TotalIn(Shown.world) = Wealth(m_s)
    BY <1>1, ShownWealth
  <2> QED BY <1>1, <2>1, NoneSaved DEF InEscrow
<1> DEFINE m == TotalIn(m_s.trie)
<1>5. m \in Nat /\ TotalIn(Shown.world) = m
  BY <1>2, <1>3, <1>4, WealthTyped
<1> HIDE DEF m
<1>6. Falls(<<>>, m, 0, m)
  BY <1>5, FallsIdle
<1> QED BY <1>4, <1>5, <1>6 DEF Wealthy, m

LEMMA NextMoney ==
  ASSUME IInv, Wealthy, [Next]_vars
  PROVE  Wealthy'
<1>1. ASSUME NEW sender \in Senders, NEW to \in Address, NEW value \in Amounts, NEW cost \in GasCosts,
             execute(sender, to, value, cost)
      PROVE  Wealthy'
  BY <1>1, ExecuteMoney
<1>2. ASSUME NEW a \in Address, NEW value \in Amounts, call(a, value)
      PROVE  Wealthy'
  BY <1>2, CallMoney
<1>3. ASSUME NEW a \in Address, NEW value \in Amounts, create(a, value)
      PROVE  Wealthy'
  BY <1>3, CreateMoney
<1>4. ASSUME NEW k \in Keys, NEW v \in Values, setStore(k, v)
      PROVE  Wealthy'
  BY <1>4, SetStoreMoney
<1>5. ASSUME NEW a \in Address, look(a)
      PROVE  Wealthy'
  BY <1>5, LookMoney
<1>6. ASSUME NEW a \in Address, suicide(a)
      PROVE  Wealthy'
  BY <1>6, SuicideMoney
<1>7. ASSUME NEW a \in Address, finalize(a)
      PROVE  Wealthy'
  BY <1>7, FinalizeMoney
<1>8. ASSUME NEW output \in Codes \cup {EmptySHA3}, return(output)
      PROVE  Wealthy'
  BY <1>8, ReturnMoney
<1>9. CASE throw
  BY <1>9, ThrowMoney
<1>10. CASE rollback
  BY <1>10, RollbackMoney
<1>11. CASE conclude
  BY <1>11, ConcludeMoney
<1>12. CASE UNCHANGED vars
  <2>1. m_s' = m_s /\ phase' = phase /\ tx' = tx
    BY <1>12 DEF vars
  <2>2. Shown'.world = Shown.world /\ SavedOf(Open)' = SavedOf(Open)
    BY <1>12, NothingHappens DEF W!worldVars, SavedOf
  <2> QED BY <2>1, <2>2 DEF Wealthy, InEscrow
<1>13. Next \/ UNCHANGED vars
  OBVIOUS
<1> QED BY <1>1, <1>2, <1>3, <1>4, <1>5, <1>6, <1>7, <1>8, <1>9, <1>10, <1>11, <1>12, <1>13 DEF Next

LEMMA WealthyMeans ==
  ASSUME IInv, Wealthy
  PROVE  NoMoneyFromNothing
<1> DEFINE worlds == [i \in 1..(Len(Open) + 1) |-> IF i <= Len(Open) THEN Open[i].saved.world ELSE Shown.world]
           k == Len(Open)
           sv == SavedOf(Open)
           n == TotalIn(Shown.world)
<1>1. /\ k \in Nat /\ Len(sv) = k /\ sv \in Seq(Views)
      /\ \A i \in 1..k : sv[i] = Open[i].saved /\ Owned(sv[i]) \in Nat
      /\ n \in Nat /\ InEscrow \in Nat
  <2>1. Open \in Seq(Frames)
    <3>1. frames \in Seq(Frames) /\ (phase = "rollback" => frames # <<>>)
      BY DEF IInv, TypeOK
    <3>2. phase = "rollback" => Under \in Seq(Frames)
      BY <3>1, UnderFacts DEF Under
    <3> QED BY <3>1, <3>2, ShownFacts
  <2>2. sv \in Seq(Views) /\ Len(sv) = k /\ \A i \in 1..k : sv[i] = Open[i].saved
    BY <2>1, SavedOfSeq
  <2>3. k \in Nat
    BY <2>1
  <2>4. \A i \in 1..k : sv[i] \in Views
    BY <2>2
  <2> QED BY <2>2, <2>3, <2>4, OwnedTyped, SumsTyped
<1>2. Falls(sv, n, InEscrow, TotalIn(m_s.trie))
  BY DEF Wealthy
<1>3. /\ \A i \in 1..k : TotalIn(worlds[i]) = Owned(sv[i])
      /\ TotalIn(worlds[k + 1]) = n
  <2>1. \A i \in 1..k : i \in 1..(k + 1) /\ i <= k
    BY <1>1
  <2>2. k + 1 \in 1..(k + 1) /\ ~(k + 1 <= k)
    BY <1>1
  <2>3. \A i \in 1..k : worlds[i] = sv[i].world
    BY <1>1, <2>1
  <2>4. worlds[k + 1] = Shown.world
    BY <2>2
  <2> HIDE DEF worlds
  <2> QED BY <2>3, <2>4 DEF Owned
<1> HIDE DEF sv, n
<1>4. sv = <<>> <=> k = 0
  BY <1>1
<1>5. TotalIn(worlds[1]) + InEscrow <= TotalIn(m_s.trie)
  <2> HIDE DEF worlds, k
  <2>1. CASE k = 0
    BY <1>1, <1>2, <1>3, <1>4, <2>1 DEF Falls
  <2>2. CASE k # 0
    <3>1. 1 \in 1..k
      BY <1>1, <2>2
    <3> QED BY <1>2, <1>3, <1>4, <2>2, <3>1 DEF Falls
  <2> QED BY <2>1, <2>2
<1>6. ASSUME NEW i \in 1..k
      PROVE  TotalIn(worlds[i + 1]) <= TotalIn(worlds[i])
  <2> HIDE DEF worlds, k
  <2>1. CASE i = k
    <3>1. n <= Owned(sv[k])
      BY <1>1, <1>2, <1>4, <2>1 DEF Falls
    <3> QED BY <1>3, <2>1, <3>1
  <2>2. CASE i # k
    <3>1. i \in 1..(k - 1) /\ i + 1 \in 1..k
      BY <1>1, <2>2
    <3>2. Owned(sv[i + 1]) <= Owned(sv[i])
      BY <1>1, <1>2, <3>1 DEF Falls
    <3> QED BY <1>3, <3>1, <3>2
  <2> QED BY <2>1, <2>2
<1> QED BY <1>5, <1>6 DEF NoMoneyFromNothing

\* For any accounts, amounts, limits and programs, though balances wrap and a suicide gives
\* before it takes: in all accounts together there is never more than when the innermost frame
\* was opened, then never more than when the one around it was, and with what has been paid
\* for gas and not been shared out yet never more than before the transaction
\* (ExtVM.cpp:132, State.cpp:490).
THEOREM NoMoneyIsMade == Spec => []NoMoneyFromNothing
<1>1. Init => Wealthy
  BY InitMoney
<1>2. IInv /\ Wealthy /\ [Next]_vars => Wealthy'
  BY NextMoney
<1>3. IInv /\ Wealthy => NoMoneyFromNothing
  BY WealthyMeans
<1> QED BY <1>1, <1>2, <1>3, Invariance, PTL DEF Spec
=============================================================================
