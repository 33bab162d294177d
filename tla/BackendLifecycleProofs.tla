----------------------- MODULE BackendLifecycleProofs -----------------------
(***************************************************************************)
(* Proofs about BackendLifecycle, for any threads and stores, with and     *)
(* without transactions.                                                   *)
(*                                                                         *)
(* The argument: a thread that mutates is the holder of the lifecycle      *)
(* guard, and dispose() calls no release callback while there is a holder  *)
(* or after a thread could still become one.  The lease row of a thread    *)
(* that writes can therefore change only by a theft, which is recorded.    *)
(***************************************************************************)
EXTENDS BackendLifecycle, TLAPS

\* Where a thread is inside the lifecycle guard.
GuardedPCs == {"leasing", "swapping", "writing", "leaving"}

TargetKnown ==
  \A t \in Threads :
    /\ pc[t] \in GuardedPCs \cup {"register", "locking", "guarding"} => target[t] \in Stores
    /\ pc[t] \in {"beginning", "body"} => tx[t] \in Stores

GuardHeld == \A t \in Threads : pc[t] \in GuardedPCs => holder = t

DisposalDrained ==
  \A t \in Threads :
    /\ pc[t] \in {"draining", "calling"} => disposed
    /\ pc[t] = "calling" => \A u \in Threads : pc[u] \notin GuardedPCs

IInv ==
  /\ TypeOK
  /\ TargetKnown
  /\ GuardHeld
  /\ DisposalDrained
  /\ WriterOwnsLease

-----------------------------------------------------------------------------
(* One lemma per group of actions *)

LEMMA CallInv ==
  ASSUME IInv, NEW t \in Threads, Call(t)
  PROVE  IInv'
<1> USE NamesAssumption
    DEF IInv, TypeOK, Owners, TargetKnown, GuardedPCs, GuardHeld, DisposalDrained,
        WriterOwnsLease, Goto, Free, MayUse, backend, lease, local
<1>1. ASSUME NEW s \in Stores, OpenStore(t, s)
      PROVE  IInv'
  BY <1>1 DEF OpenStore
<1>2. ASSUME NEW s \in Stores, CallSave(t, s)
      PROVE  IInv'
  BY <1>2 DEF CallSave
<1>3. ASSUME NEW s \in Stores, CallSteal(t, s)
      PROVE  IInv'
  BY <1>3 DEF CallSteal
<1>4. ASSUME NEW s \in Stores, BeginTransaction(t, s)
      PROVE  IInv'
  BY <1>4 DEF BeginTransaction, Lock
<1>5. CASE CallDispose(t)
  BY <1>5 DEF CallDispose
<1>6. QED
  BY <1>1, <1>2, <1>3, <1>4, <1>5 DEF Call

\* The guard is entered by one thread, and by none once dispose() has begun.
LEMMA GuardInv ==
  ASSUME IInv, NEW t \in Threads,
         Register(t) \/ TakeMutationLock(t) \/ EnterGuard(t) \/ LeaveGuard(t)
  PROVE  IInv'
<1> USE NamesAssumption
    DEF IInv, TypeOK, Owners, TargetKnown, GuardedPCs, GuardHeld, DisposalDrained,
        WriterOwnsLease, Goto, Lock, Unlock, Finish, Back, backend, lease, local
<1>1. CASE Register(t)
  BY <1>1 DEF Register
<1>2. CASE TakeMutationLock(t)
  BY <1>2 DEF TakeMutationLock
<1>3. CASE EnterGuard(t)
  BY <1>3 DEF EnterGuard
<1>4. CASE LeaveGuard(t)
  BY <1>4 DEF LeaveGuard
<1>5. QED
  BY <1>1, <1>2, <1>3, <1>4

\* The steps inside the guard.
LEMMA MutationInv ==
  ASSUME IInv, NEW t \in Threads, VerifyLease(t) \/ Write(t) \/ SwapLease(t)
  PROVE  IInv'
<1> USE NamesAssumption
    DEF IInv, TypeOK, Owners, TargetKnown, GuardedPCs, GuardHeld, DisposalDrained,
        WriterOwnsLease, Goto, LeaseGranted, TakeLease, backend, lease, local
<1>1. CASE VerifyLease(t)
  BY <1>1 DEF VerifyLease
<1>2. CASE Write(t)
  BY <1>2 DEF Write
<1>3. CASE SwapLease(t)
  BY <1>3 DEF SwapLease
<1>4. QED
  BY <1>1, <1>2, <1>3

\* A transaction inserts its row only where there is none.
LEMMA TransactionInv ==
  ASSUME IInv, NEW t \in Threads, EnterTransaction(t) \/ EndTransaction(t)
  PROVE  IInv'
<1> USE NamesAssumption
    DEF IInv, TypeOK, Owners, TargetKnown, GuardedPCs, GuardHeld, DisposalDrained,
        WriterOwnsLease, Goto, LeaseGranted, TakeLease, backend, lease, local
<1>1. CASE EnterTransaction(t)
  BY <1>1 DEF EnterTransaction
<1>2. CASE EndTransaction(t)
  BY <1>2 DEF EndTransaction
<1>3. QED
  BY <1>1, <1>2

\* The callbacks run when nobody is in the guard.
LEMMA DisposeInv ==
  ASSUME IInv, NEW t \in Threads,
         Drain(t) \/ (\E s \in Stores : ReleaseLease(t, s)) \/ EndDispose(t)
  PROVE  IInv'
<1> USE NamesAssumption
    DEF IInv, TypeOK, Owners, TargetKnown, GuardedPCs, GuardHeld, DisposalDrained,
        WriterOwnsLease, Goto, Back, backend, lease, local
<1>1. CASE Drain(t)
  BY <1>1 DEF Drain
<1>2. ASSUME NEW s \in Stores, ReleaseLease(t, s)
      PROVE  IInv'
  BY <1>2 DEF ReleaseLease
<1>3. CASE EndDispose(t)
  BY <1>3 DEF EndDispose
<1>4. QED
  BY <1>1, <1>2, <1>3

LEMMA OtherInv ==
  ASSUME IInv, OtherAcquires \/ OtherReleases \/ UNCHANGED vars
  PROVE  IInv'
<1> USE NamesAssumption
    DEF IInv, TypeOK, Owners, TargetKnown, GuardedPCs, GuardHeld, DisposalDrained,
        WriterOwnsLease, backend, lease, local
<1>1. CASE OtherAcquires
  BY <1>1 DEF OtherAcquires
<1>2. CASE OtherReleases
  BY <1>2 DEF OtherReleases
<1>3. CASE UNCHANGED vars
  BY <1>3 DEF vars
<1>4. QED
  BY <1>1, <1>2, <1>3

-----------------------------------------------------------------------------

LEMMA InductiveInvariant == Spec => []IInv
<1>1. Init => IInv
  BY NamesAssumption
  DEF Init, IInv, TypeOK, Owners, TargetKnown, GuardedPCs, GuardHeld, DisposalDrained,
      WriterOwnsLease
<1>2. IInv /\ [Next]_vars => IInv'
  BY CallInv, GuardInv, MutationInv, TransactionInv, DisposeInv, OtherInv DEF Next, Progress
<1>3. QED
  BY <1>1, <1>2, PTL DEF Spec

\* The state has the declared types, and a disposed Backend holds no callback
\* that nobody would call.
THEOREM TypeCorrect == Spec => []TypeOK
<1>1. IInv => TypeOK
  BY DEF IInv
<1>2. QED
  BY <1>1, InductiveInvariant, PTL

\* A save goes on only under the lease it verified or after a theft of it:
\* disposal never releases a lease underneath a save, for any threads, stores
\* and use of transaction().
THEOREM WriterOwnsLeaseHolds == Spec => []WriterOwnsLease
<1>1. IInv => WriterOwnsLease
  BY DEF IInv
<1>2. QED
  BY <1>1, InductiveInvariant, PTL

\* Two mutations through one Backend never overlap, whichever of its stores
\* and threads they come from.
THEOREM OneMutationHolds == Spec => []OneMutation
<1>1. IInv => OneMutation
  BY DEF IInv, GuardHeld, GuardedPCs, OneMutation
<1>2. QED
  BY <1>1, InductiveInvariant, PTL

-----------------------------------------------------------------------------
(* No stranded lease: until dispose() releases it, a lease has a callback *)

PlainStores == Stores \ TxStores

UsersFenced ==
  /\ \A t \in Threads :
       /\ pc[t] \in GuardedPCs \cup {"locking", "guarding"} => target[t] \in fenced
       /\ pc[t] = "beginning" => tx[t] \in TxStores
  /\ ~disposed => callbacks = fenced

\* While a thread is still in the guard, dispose() has called no callback.
NotStarted == disposed /\ (\E t \in Threads : pc[t] \in GuardedPCs) => releasing = fenced

LeaseAccounted ==
  \A s \in PlainStores : row = s =>
    /\ s \in holding \cap fenced
    /\ disposed => s \in releasing

DisposerWorks == releasing # {} => \E t \in Threads : pc[t] \in {"draining", "calling"}

Accounts == UsersFenced /\ NotStarted /\ LeaseAccounted /\ DisposerWorks

LEMMA AccountsStep ==
  ASSUME IInv, Accounts, [Next]_vars
  PROVE  Accounts'
<1> USE NamesAssumption
    DEF IInv, TypeOK, Owners, TargetKnown, GuardedPCs, GuardHeld, DisposalDrained,
        Accounts, PlainStores, UsersFenced, NotStarted, LeaseAccounted, DisposerWorks,
        Goto, Free, MayUse, Lock, Unlock, Finish, Back, LeaseGranted, TakeLease,
        backend, lease, local
<1>1. ASSUME NEW t \in Threads, NEW s \in Stores,
             OpenStore(t, s) \/ CallSave(t, s) \/ CallSteal(t, s) \/ BeginTransaction(t, s)
      PROVE  Accounts'
  <2>1. CASE OpenStore(t, s)
    BY <2>1 DEF OpenStore
  <2>2. CASE CallSave(t, s)
    BY <2>2 DEF CallSave
  <2>3. CASE CallSteal(t, s)
    BY <2>3 DEF CallSteal
  <2>4. CASE BeginTransaction(t, s)
    BY <2>4 DEF BeginTransaction
  <2>5. QED
    BY <1>1, <2>1, <2>2, <2>3, <2>4
<1>2. ASSUME NEW t \in Threads, CallDispose(t)
      PROVE  Accounts'
  BY <1>2 DEF CallDispose
<1>3. ASSUME NEW t \in Threads, Register(t)
      PROVE  Accounts'
  BY <1>3 DEF Register
<1>4. ASSUME NEW t \in Threads, TakeMutationLock(t)
      PROVE  Accounts'
  BY <1>4 DEF TakeMutationLock
<1>5. ASSUME NEW t \in Threads, EnterGuard(t)
      PROVE  Accounts'
  BY <1>5 DEF EnterGuard
<1>6. ASSUME NEW t \in Threads, VerifyLease(t)
      PROVE  Accounts'
  BY <1>6 DEF VerifyLease
<1>7. ASSUME NEW t \in Threads, Write(t)
      PROVE  Accounts'
  BY <1>7 DEF Write
<1>8. ASSUME NEW t \in Threads, SwapLease(t)
      PROVE  Accounts'
  BY <1>8 DEF SwapLease
<1>9. ASSUME NEW t \in Threads, LeaveGuard(t)
      PROVE  Accounts'
  BY <1>9 DEF LeaveGuard
<1>10. ASSUME NEW t \in Threads, EnterTransaction(t) \/ EndTransaction(t)
       PROVE  Accounts'
  BY <1>10 DEF EnterTransaction, EndTransaction
<1>11. ASSUME NEW t \in Threads, Drain(t) \/ EndDispose(t)
       PROVE  Accounts'
  BY <1>11 DEF Drain, EndDispose
<1>12. ASSUME NEW t \in Threads, NEW s \in Stores, ReleaseLease(t, s)
       PROVE  Accounts'
  BY <1>12 DEF ReleaseLease
<1>13. CASE OtherAcquires \/ OtherReleases \/ UNCHANGED vars
  BY <1>13 DEF OtherAcquires, OtherReleases, vars
<1>14. QED
  BY <1>1, <1>2, <1>3, <1>4, <1>5, <1>6, <1>7, <1>8, <1>9, <1>10, <1>11, <1>12, <1>13
  DEF Next, Call, Progress

\* After dispose(), and once the threads are idle, no store that is used
\* through save() and steal_lease() only owns the lease, whatever is done with
\* the other stores.
THEOREM NoStrandedLeaseHolds == Spec => []NoStrandedLease
<1>1. Init => Accounts
  BY NamesAssumption
  DEF Init, Accounts, PlainStores, UsersFenced, NotStarted, LeaseAccounted, DisposerWorks, GuardedPCs
<1>2. Accounts => NoStrandedLease
  BY DEF Accounts, PlainStores, LeaseAccounted, DisposerWorks, NoStrandedLease, AllOver
<1>3. QED
  BY <1>1, <1>2, AccountsStep, InductiveInvariant, PTL DEF Spec
=============================================================================
