-------------------------- MODULE BackendLifecycle --------------------------
(***************************************************************************)
(* The disposal of a Backend (httk/store/backend/sql/engine.py) racing the *)
(* threads that write through its degraded-profile stores                  *)
(* (httk/store/backend/sql/store.py).                                      *)
(*                                                                         *)
(* Every store has a re-entrant mutation lock and owns at most one row,    *)
(* the writer lease of the database.  The Backend has a lifecycle guard    *)
(* that one thread at a time holds while it mutates.  dispose() forbids    *)
(* new guards, waits for the holder, and then runs the callbacks by which  *)
(* the stores release their leases.  Other stands for the owners of the    *)
(* lease in other processes.  A lease value is modelled by its owner: its  *)
(* timestamp only keeps two values of one owner apart, and the owner       *)
(* always remembers the last.                                              *)
(***************************************************************************)
EXTENDS Naturals, FiniteSets

CONSTANTS
  Threads,
  Stores,     \* degraded SqlStore instances on the Backend
  TxStores,   \* those of which callers use transaction()
  CrossStore, \* whether they use another store inside a transaction
  Other, NoStore, NoThread

ASSUME NamesAssumption ==
  /\ Other \notin Stores /\ NoStore \notin Stores /\ Other # NoStore
  /\ NoThread \notin Threads
  /\ TxStores \subseteq Stores
  /\ CrossStore \in BOOLEAN

VARIABLES
  disposed,  \* Backend._disposed
  holder,    \* Backend._lifecycle_owner: the thread in the guard, or NoThread
  callbacks, \* stores in Backend._dispose_callbacks
  releasing, \* stores whose callback the running dispose() has yet to call
  fenced,    \* stores whose constructor has registered their callback
  mutex,     \* mutex[s]: the thread that holds the mutation lock of s
  holding,   \* stores whose _lease_value is set
  row,       \* owner named by the lease row of the database, or NoStore
  robbed,    \* history: stores whose lease was stolen since they checked it
  pc,        \* pc[t]: where the thread is
  target,    \* target[t]: the store of its current operation
  tx,        \* tx[t]: the store whose transaction() it is in, or NoStore
  stealing,  \* threads whose current operation is steal_lease()
  seen       \* seen[t]: the owner it read before its compare-and-swap

backend == <<disposed, holder, callbacks, releasing>>
lease == <<holding, row, robbed>>
local == <<target, tx, stealing, seen>>
vars == <<backend, fenced, mutex, lease, pc, local>>

Owners == Stores \cup {Other, NoStore}

\* The types, and: a disposed Backend keeps no callback that nobody will call.
TypeOK ==
  /\ disposed \in BOOLEAN
  /\ holder \in Threads \cup {NoThread}
  /\ callbacks \subseteq fenced
  /\ disposed => callbacks = {}
  /\ releasing \subseteq Stores
  /\ fenced \subseteq Stores
  /\ mutex \in [Stores -> Threads \cup {NoThread}]
  /\ holding \subseteq Stores
  /\ row \in Owners
  /\ robbed \subseteq Stores
  /\ pc \in [Threads -> {"idle", "register", "locking", "guarding", "leasing", "swapping",
                         "writing", "leaving", "beginning", "body", "draining", "calling"}]
  /\ target \in [Threads -> Stores \cup {NoStore}]
  /\ tx \in [Threads -> Stores \cup {NoStore}]
  /\ stealing \subseteq Threads
  /\ seen \in [Threads -> Owners]

Init ==
  /\ disposed = FALSE
  /\ holder = NoThread
  /\ callbacks = {}
  /\ releasing = {}
  /\ fenced = {}
  /\ mutex = [s \in Stores |-> NoThread]
  /\ holding = {}
  /\ row = NoStore
  /\ robbed = {}
  /\ pc = [t \in Threads |-> "idle"]
  /\ target = [t \in Threads |-> NoStore]
  /\ tx = [t \in Threads |-> NoStore]
  /\ stealing = {}
  /\ seen = [t \in Threads |-> NoStore]

-----------------------------------------------------------------------------

Goto(t, label) == pc' = [pc EXCEPT ![t] = label]

\* A thread calls an operation from outside or inside its transaction, and
\* goes back there when the operation returns or raises.
Free(t) == pc[t] \in {"idle", "body"}
MayUse(t, s) == s \in fenced /\ (CrossStore \/ tx[t] \in {s, NoStore})
Back(t) == IF tx[t] = NoStore THEN "idle" ELSE "body"

\* The mutation lock is re-entrant: a transaction's own operations pass.
Lock(t, s) ==
  /\ mutex[s] \in {t, NoThread}
  /\ mutex' = [mutex EXCEPT ![s] = t]
Unlock(t, s) == mutex' = IF tx[t] = s THEN mutex ELSE [mutex EXCEPT ![s] = NoThread]

\* The operation is over for the store of t.
Finish(t) ==
  /\ Unlock(t, target[t])
  /\ Goto(t, Back(t))
  /\ target' = [target EXCEPT ![t] = NoStore]
  /\ stealing' = stealing \ {t}
  /\ seen' = [seen EXCEPT ![t] = NoStore]

-----------------------------------------------------------------------------
(* SqlStore.__init__ *)

\* _register_degraded_lifecycle_fence reads the lifecycle generation of a live
\* Backend ...
OpenStore(t, s) ==
  /\ pc[t] = "idle"
  /\ ~disposed
  /\ s \notin fenced
  /\ \A u \in Threads : target[u] # s
  /\ target' = [target EXCEPT ![t] = s]
  /\ Goto(t, "register")
  /\ UNCHANGED <<backend, fenced, mutex, lease, tx, stealing, seen>>

\* ... and add_dispose_callback accepts it, unless dispose() came first.
Register(t) ==
  /\ pc[t] = "register"
  /\ IF disposed
     THEN UNCHANGED <<callbacks, fenced>>
     ELSE /\ callbacks' = callbacks \cup {target[t]}
          /\ fenced' = fenced \cup {target[t]}
  /\ Goto(t, "idle")
  /\ target' = [target EXCEPT ![t] = NoStore]
  /\ UNCHANGED <<disposed, holder, releasing, mutex, lease, tx, stealing, seen>>

-----------------------------------------------------------------------------
(* save(), steal_lease() *)

CallSave(t, s) ==
  /\ Free(t)
  /\ MayUse(t, s)
  /\ target' = [target EXCEPT ![t] = s]
  /\ Goto(t, "locking")
  /\ UNCHANGED <<backend, fenced, mutex, lease, tx, stealing, seen>>

CallSteal(t, s) ==
  /\ Free(t)
  /\ MayUse(t, s)
  /\ target' = [target EXCEPT ![t] = s]
  /\ stealing' = stealing \cup {t}
  /\ Goto(t, "locking")
  /\ UNCHANGED <<backend, fenced, mutex, lease, tx, seen>>

TakeMutationLock(t) ==
  /\ pc[t] = "locking"
  /\ Lock(t, target[t])
  /\ Goto(t, "guarding")
  /\ UNCHANGED <<backend, fenced, lease, local>>

\* Faulty variant: the guard does not look at _disposed.
EnterGuardDisposed(t) ==
  /\ pc[t] = "guarding"
  /\ holder \in {t, NoThread}
  /\ holder' = t
  /\ Goto(t, "leasing")
  /\ UNCHANGED <<disposed, callbacks, releasing, fenced, mutex, lease, local>>

\* lifecycle_guard: refused once dispose() has begun, even while waiting.
EnterGuard(t) ==
  /\ pc[t] = "guarding"
  /\ IF disposed
     THEN Finish(t) /\ UNCHANGED <<holder, tx>>
     ELSE /\ holder \in {t, NoThread}
          /\ holder' = t
          /\ Goto(t, "leasing")
          /\ UNCHANGED <<mutex, local>>
  /\ UNCHANGED <<disposed, callbacks, releasing, fenced, lease>>

\* Faulty variant: an acquired lease is never verified again.
LeaseOnce(s) == s \in holding \/ row \in {s, NoStore}

\* _ensure_degraded_lease succeeds: it inserts the row when the store has no
\* value and there is no row, and otherwise compares the row with its value.
LeaseGranted(s) == IF s \in holding THEN row = s ELSE row = NoStore

\* _ensure_degraded_lease for store s.
TakeLease(s) ==
  /\ LeaseGranted(s)
  /\ row' = IF s \in holding THEN row ELSE s
  /\ holding' = holding \cup {s}
  /\ robbed' = robbed \ {s}

\* The write of a save starts when the lease is verified; steal_lease reads
\* the row first, and only verifies when there is none.
VerifyLease(t) ==
  /\ pc[t] = "leasing"
  /\ IF t \in stealing /\ row # NoStore
     THEN /\ seen' = [seen EXCEPT ![t] = row]
          /\ Goto(t, "swapping")
          /\ UNCHANGED <<lease, target, tx, stealing>>
     ELSE \/ /\ TakeLease(target[t])
             /\ Goto(t, IF t \in stealing THEN "leaving" ELSE "writing")
             /\ UNCHANGED local
          \/ /\ ~LeaseGranted(target[t])
             /\ Goto(t, "leaving")
             /\ UNCHANGED <<lease, local>>
  /\ UNCHANGED <<backend, fenced, mutex>>

\* The ordered writes of a save, ended by success or failure.
Write(t) ==
  /\ pc[t] = "writing"
  /\ Goto(t, "leaving")
  /\ UNCHANGED <<backend, fenced, mutex, lease, local>>

\* The compare-and-swap of steal_lease.
SwapLease(t) ==
  /\ pc[t] = "swapping"
  /\ IF row = seen[t]
     THEN /\ row' = target[t]
          /\ holding' = holding \cup {target[t]}
          /\ robbed' = (robbed \cup ({seen[t]} \cap Stores)) \ {target[t]}
     ELSE UNCHANGED lease
  /\ Goto(t, "leaving")
  /\ UNCHANGED <<backend, fenced, mutex, local>>

\* Faulty variant: the guard keeps its owner.
LeaveGuardHeld(t) ==
  /\ pc[t] = "leaving"
  /\ Finish(t)
  /\ UNCHANGED <<backend, fenced, lease, tx>>

\* The guard is left, which wakes its waiters, and then the mutation lock.
LeaveGuard(t) ==
  /\ pc[t] = "leaving"
  /\ holder' = NoThread
  /\ Finish(t)
  /\ UNCHANGED <<disposed, callbacks, releasing, fenced, lease, tx>>

-----------------------------------------------------------------------------
(* transaction() *)

\* _transaction_scope takes the mutation lock and no lifecycle guard.
BeginTransaction(t, s) ==
  /\ s \in TxStores
  /\ pc[t] = "idle"
  /\ s \in fenced
  /\ Lock(t, s)
  /\ tx' = [tx EXCEPT ![t] = s]
  /\ Goto(t, "beginning")
  /\ UNCHANGED <<backend, fenced, lease, target, stealing, seen>>

EnterTransaction(t) ==
  /\ pc[t] = "beginning"
  /\ \/ /\ TakeLease(tx[t])
        /\ Goto(t, "body")
        /\ UNCHANGED <<mutex, tx>>
     \/ /\ ~LeaseGranted(tx[t])
        /\ mutex' = [mutex EXCEPT ![tx[t]] = NoThread]
        /\ tx' = [tx EXCEPT ![t] = NoStore]
        /\ Goto(t, "idle")
        /\ UNCHANGED lease
  /\ UNCHANGED <<backend, fenced, target, stealing, seen>>

EndTransaction(t) ==
  /\ pc[t] = "body"
  /\ mutex' = [mutex EXCEPT ![tx[t]] = NoThread]
  /\ tx' = [tx EXCEPT ![t] = NoStore]
  /\ Goto(t, "idle")
  /\ UNCHANGED <<backend, fenced, lease, target, stealing, seen>>

-----------------------------------------------------------------------------
(* Backend.dispose() *)

\* dispose() returns at once on a disposed Backend; it takes the callbacks.
CallDispose(t) ==
  /\ Free(t)
  /\ ~disposed
  /\ disposed' = TRUE
  /\ releasing' = callbacks
  /\ callbacks' = {}
  /\ Goto(t, "draining")
  /\ UNCHANGED <<holder, fenced, mutex, lease, local>>

\* It waits until no thread is in the guard.
Drain(t) ==
  /\ pc[t] = "draining"
  /\ holder = NoThread
  /\ Goto(t, "calling")
  /\ UNCHANGED <<backend, fenced, mutex, lease, local>>

\* _release_degraded_lease: under the mutation lock, the row goes if it still
\* carries this store's value, and the value is forgotten in any case.
ReleaseLease(t, s) ==
  /\ pc[t] = "calling"
  /\ s \in releasing
  /\ mutex[s] \in {t, NoThread}
  /\ releasing' = releasing \ {s}
  /\ row' = IF s \in holding /\ row = s THEN NoStore ELSE row
  /\ holding' = holding \ {s}
  /\ UNCHANGED <<disposed, holder, callbacks, fenced, mutex, robbed, pc, local>>

EndDispose(t) ==
  /\ pc[t] = "calling"
  /\ releasing = {}
  /\ Goto(t, Back(t))
  /\ UNCHANGED <<backend, fenced, mutex, lease, local>>

-----------------------------------------------------------------------------
(* Owners in other processes *)

OtherAcquires ==
  /\ row # Other
  /\ row' = Other
  /\ robbed' = robbed \cup ({row} \cap Stores)
  /\ UNCHANGED <<backend, fenced, mutex, holding, pc, local>>

OtherReleases ==
  /\ row = Other
  /\ row' = NoStore
  /\ UNCHANGED <<backend, fenced, mutex, holding, robbed, pc, local>>

\* What a thread does once it has called an operation.
Progress(t) ==
  \/ Register(t) \/ TakeMutationLock(t) \/ EnterGuard(t) \/ VerifyLease(t)
  \/ Write(t) \/ SwapLease(t) \/ LeaveGuard(t)
  \/ EnterTransaction(t) \/ EndTransaction(t)
  \/ Drain(t) \/ (\E s \in Stores : ReleaseLease(t, s)) \/ EndDispose(t)

Call(t) ==
  \/ \E s \in Stores : OpenStore(t, s) \/ CallSave(t, s) \/ CallSteal(t, s) \/ BeginTransaction(t, s)
  \/ CallDispose(t)

Next ==
  \/ \E t \in Threads : Call(t) \/ Progress(t)
  \/ OtherAcquires \/ OtherReleases

Spec == Init /\ [][Next]_vars

\* Threads run on and the body of a transaction ends; a lock or a guard that
\* keeps becoming free is eventually granted to each thread that waits.
LiveSpec == Spec /\ \A t \in Threads :
  /\ WF_vars(Progress(t))
  /\ SF_vars(EndTransaction(t))
  /\ SF_vars(TakeMutationLock(t))
  /\ SF_vars(EnterGuard(t))
  /\ \A s \in Stores : SF_vars(ReleaseLease(t, s))

-----------------------------------------------------------------------------
(* Properties *)

\* A save never goes on without its lease, unless it was stolen after the
\* check: in particular dispose() does not release it underneath the save.
WriterOwnsLease ==
  \A t \in Threads : pc[t] = "writing" => row = target[t] \/ target[t] \in robbed

\* Mutations through one Backend exclude each other, even those of two of its
\* stores, of which the lease row may change hands in between.
OneMutation ==
  \A t, u \in Threads : {pc[t], pc[u]} \subseteq {"leasing", "swapping", "writing", "leaving"} => t = u

AllOver == disposed /\ \A t \in Threads : pc[t] = "idle"

\* When dispose() is over and the threads are idle, no store whose callers use
\* save() and steal_lease() only owns the lease: nobody would release it.
NoStrandedLease == AllOver => row \notin Stores \ TxStores

\* A dispose() that has begun ends, whatever the other threads are doing.
DisposeEnds == \A t \in Threads : pc[t] \in {"draining", "calling"} ~> Free(t)
=============================================================================
