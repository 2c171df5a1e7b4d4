----------------------------- MODULE WorldState -----------------------------
(***************************************************************************)
(* What a transaction promises, without the change log, the cache and the  *)
(* database that keep it: calls and creations are frames that nest, each   *)
(* is kept or undone as a whole, and so is the transaction.  An empty      *)
(* account that was touched, unless in a frame that was undone, is         *)
(* condemned: it is removed when the transaction is committed.             *)
(***************************************************************************)
EXTENDS Naturals, Sequences

CONSTANTS Address, None,
          EmptyAccounts,     \* the accounts that hold nothing
          RemoveEmpty        \* are condemned accounts removed?

VARIABLES
    committed,    \* the accounts before the transaction
    world,        \* the accounts now, None where there is none
    condemned,    \* the empty accounts that have been touched
    suicides,     \* the accounts that go when the transaction ends
    saved,        \* what there was when each open frame was opened
    undoing       \* has a frame been given up, and has its caller not gone on yet?

worldVars == <<committed, world, condemned, suicides, saved, undoing>>

View == [world |-> world, condemned |-> condemned, suicides |-> suicides]
Empty(w, a) == w[a] \in EmptyAccounts

WorldInit ==
    /\ committed = world
    /\ condemned = {} /\ suicides = {} /\ saved = <<>> /\ undoing = FALSE

\* From v to w accounts change, and nothing else: none goes, and one that is changed
\* and is empty then, or was condemned and is empty still, is condemned.
Changes(v, w) ==
    /\ \A a \in Address : v.world[a] # None => w.world[a] # None
    /\ w.condemned \subseteq {a \in Address : Empty(w.world, a)}
    /\ \A a \in Address : Empty(w.world, a) /\ (w.world[a] # v.world[a] \/ a \in v.condemned)
                             => a \in w.condemned
    /\ v.suicides \subseteq w.suicides

\* The sender pays, or counts its creations, before the frame is opened.
Prepares(v, w) ==
    /\ Changes(v, w) /\ w.suicides = v.suicides
    /\ \E a \in Address : \A b \in Address \ {a} : w.world[b] = v.world[b]

Change ==
    /\ ~undoing
    /\ Changes(View, View')
    /\ UNCHANGED <<committed, saved, undoing>>

Open ==
    /\ ~undoing
    /\ Len(saved') = Len(saved) + 1 /\ SubSeq(saved', 1, Len(saved)) = saved
    /\ Prepares(View, saved'[Len(saved')])
    /\ Changes(saved'[Len(saved')], View')
    /\ UNCHANGED <<committed, undoing>>

Keep ==
    /\ saved # <<>> /\ ~undoing
    /\ saved' = SubSeq(saved, 1, Len(saved) - 1)
    /\ Changes(View, View')
    /\ UNCHANGED <<committed, undoing>>

Undo ==
    /\ saved # <<>> /\ ~undoing
    /\ saved' = SubSeq(saved, 1, Len(saved) - 1)
    /\ View' = saved[Len(saved)]
    /\ undoing' = TRUE
    /\ UNCHANGED committed

\* The caller goes on, and finds just what was saved.
GoOn == undoing /\ undoing' = FALSE /\ UNCHANGED <<committed, world, condemned, suicides, saved>>

\* The suicides go, once the fees are paid.
Finalize ==
    /\ ~undoing /\ saved = <<>>
    /\ \A a \in suicides : world'[a] = None
    /\ \A a \in Address \ suicides : world[a] # None => world'[a] # None
    /\ condemned' \subseteq {a \in Address : Empty(world', a)}
    /\ \A a \in Address : Empty(world', a) /\ (world'[a] # world[a] \/ a \in condemned)
                             => a \in condemned'
    /\ suicides' = {}
    /\ UNCHANGED <<committed, saved, undoing>>

Commit ==
    /\ ~undoing /\ saved = <<>> /\ suicides = {}
    /\ world' = [a \in Address |-> IF RemoveEmpty /\ a \in condemned THEN None ELSE world[a]]
    /\ committed' = world'
    /\ condemned' = {}
    /\ UNCHANGED <<suicides, saved, undoing>>

\* The transaction was only to be tried.
Abandon ==
    /\ ~undoing /\ saved = <<>> /\ suicides = {}
    /\ world' = committed /\ condemned' = {}
    /\ UNCHANGED <<committed, suicides, saved, undoing>>

WorldNext == Change \/ Open \/ Keep \/ Undo \/ GoOn \/ Finalize \/ Commit \/ Abandon

WorldSpec == WorldInit /\ [][WorldNext]_worldVars
=============================================================================
