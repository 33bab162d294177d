-------------------------- MODULE MongoLeaseProofs --------------------------
(***************************************************************************)
(* Proofs about MongoLease, for any set of stores, any number of leases    *)
(* and any heartbeat timing.                                               *)
(*                                                                         *)
(* The argument: an unlapsed fsck run owns lease/fsck from its first       *)
(* heartbeat on (FsckHeld), so no writer passes its check after that; an   *)
(* unlapsed writer's document is fresh from registration to release        *)
(* (WriterHeld), so a fresh query that finds nothing proves that no writer *)
(* passed its check before.                                                *)
(***************************************************************************)
EXTENDS MongoLease, TLAPS

WriterHeld ==
  \A s \in Stores :
    /\ pc[s] \in WriterPCs <=> lease[s] # NoLease
    /\ lease[s] # NoLease => age[lease[s]] # NoDoc
    /\ lease[s] # NoLease /\ s \notin lapsed => age[lease[s]] < StaleAfter

LeasesDistinct ==
  \A s, t \in Stores : lease[s] # NoLease /\ lease[s] = lease[t] => s = t

FsckHeld ==
  \A s \in Stores :
    pc[s] \in HeldPCs /\ s \notin lapsed => fsckOwner = s /\ fsckAge < StaleAfter

DrainExclusion ==
  \A s, t \in Stores :
    pc[s] \in DrainedPCs /\ pc[t] = "writing" => s \in lapsed \/ t \in lapsed

LapseRecorded == lapsed # {} => lapses = 1

IInv ==
  /\ TypeOK
  /\ WriterHeld
  /\ LeasesDistinct
  /\ FsckHeld
  /\ DrainExclusion
  /\ LapseRecorded
  /\ GenerationCurrent

-----------------------------------------------------------------------------

LEMMA StaleAfterPositive == StaleAfter \in Nat /\ StaleAfter > 0
<1>1. \A m, n \in Nat \ {0} : m * n \in Nat /\ m * n > 0
  OBVIOUS
<1>2. QED
  BY <1>1, TimingAssumption DEF StaleAfter

LEMMA ExceptType ==
  ASSUME NEW S, NEW V, NEW f \in [S -> V], NEW v \in V, NEW x
  PROVE  [f EXCEPT ![x] = v] \in [S -> V]
OBVIOUS

\* The state has the declared types: heartbeat ages never leave
\* 0..StaleAfter and the layout generation stays a natural number.
THEOREM TypeCorrect == Spec => []TypeOK
<1> USE NamesAssumption, StaleAfterPositive
    DEF TypeOK, WriterPCs, FsckPCs, HeldPCs, NoDoc
<1>1. Init => TypeOK
  BY DEF Init
<1>2. TypeOK /\ [Next]_vars => TypeOK'
  <2> SUFFICES ASSUME TypeOK, [Next]_vars
               PROVE  TypeOK'
    OBVIOUS
  <2> USE DEF Goto, fsckDoc, fsckLocals, writerDocs, caches, history
  <2>1. ASSUME NEW s \in Stores, RegisterWriter(s)
        PROVE  TypeOK'
    BY <2>1 DEF RegisterWriter, WriterDocs
  <2>2. ASSUME NEW s \in Stores, WriterStep(s)
        PROVE  TypeOK'
    <3>1. CASE CheckFsck(s)
      BY <3>1 DEF CheckFsck
    <3>2. CASE RefreshWriter(s)
      <4>1. [age EXCEPT ![lease[s]] = 0] \in [LeaseIds -> {NoDoc} \cup (0..StaleAfter)]
        BY ExceptType
      <4>2. QED
        BY <3>2, <4>1 DEF RefreshWriter
    <3>3. CASE ReleaseWriter(s)
      <4>1. freshSeen' \in [Stores -> SUBSET LeaseIds]
        BY <3>3 DEF ReleaseWriter
      <4>2. age' \in [LeaseIds -> {NoDoc} \cup (0..StaleAfter)]
        BY <3>3 DEF ReleaseWriter
      <4>3. QED
        BY <3>3, <4>1, <4>2 DEF ReleaseWriter
    <3>4. QED
      BY <2>2, <3>1, <3>2, <3>3 DEF WriterStep
  <2>3. ASSUME NEW s \in Stores, InsertFsck(s)
        PROVE  TypeOK'
    BY <2>3 DEF InsertFsck
  <2>4. ASSUME NEW s \in Stores, FsckStep(s)
        PROVE  TypeOK'
    <3> USE DEF HeartbeatFsck, LimitedHeartbeatFsck
    <3>1. CASE ReplaceFsck(s)
      BY <3>1 DEF ReplaceFsck
    <3>2. CASE ConfirmFsck(s)
      BY <3>2 DEF ConfirmFsck
    <3>3. CASE PollWriters(s)
      BY <3>3 DEF PollWriters
    <3>4. CASE PollAgain(s)
      BY <3>4 DEF PollAgain
    <3>5. CASE QueryFresh(s)
      BY <3>5 DEF QueryFresh, FreshWriters, WriterDocs
    <3>6. CASE GrantFsck(s)
      BY <3>6 DEF GrantFsck
    <3>7. CASE BumpGeneration(s)
      BY <3>7 DEF BumpGeneration
    <3>8. CASE RepairStage(s)
      BY <3>8 DEF RepairStage
    <3>9. CASE EndRepair(s)
      BY <3>9 DEF EndRepair
    <3>10. CASE ReleaseFsck(s)
      BY <3>10 DEF ReleaseFsck
    <3>11. QED
      BY <2>4, <3>1, <3>2, <3>3, <3>4, <3>5, <3>6, <3>7, <3>8, <3>9, <3>10
      DEF FsckStep
  <2>5. ASSUME NEW s \in Stores, Crash(s)
        PROVE  TypeOK'
    BY <2>5 DEF Crash
  <2>6. ASSUME NEW s \in Stores, OperationError(s)
        PROVE  TypeOK'
    BY <2>6 DEF OperationError
  <2>7. CASE ClearStaleLock
    BY <2>7 DEF ClearStaleLock
  <2>8. CASE Tick
    BY <2>8 DEF Tick, Older, LapsesNow
  <2>9. CASE UNCHANGED vars
    BY <2>9 DEF vars
  <2>10. QED
    BY <2>1, <2>2, <2>3, <2>4, <2>5, <2>6, <2>7, <2>8, <2>9 DEF Next
<1>3. QED
  BY <1>1, <1>2, PTL DEF Spec

-----------------------------------------------------------------------------
(* The inductive invariant, one lemma per group of actions. *)

LEMMA WriterStepInv ==
  ASSUME IInv, TypeOK', NEW s \in Stores, RegisterWriter(s) \/ WriterStep(s)
  PROVE  IInv'
<1> USE NamesAssumption, StaleAfterPositive
    DEF IInv, TypeOK, WriterPCs, FsckPCs, HeldPCs, DrainedPCs, NoDoc,
        Goto, fsckDoc, fsckLocals, writerDocs, caches, history
<1>1. CASE RegisterWriter(s)
  <2>1. PICK id \in LeaseIds :
          /\ age[id] = NoDoc
          /\ age' = [age EXCEPT ![id] = 0]
          /\ lease' = [lease EXCEPT ![s] = id]
    BY <1>1 DEF RegisterWriter, WriterDocs
  <2>2. WriterHeld'
    BY <1>1, <2>1 DEF RegisterWriter, WriterHeld
  <2>3. LeasesDistinct'
    BY <1>1, <2>1 DEF RegisterWriter, WriterHeld, LeasesDistinct
  <2>4. FsckHeld' /\ DrainExclusion' /\ LapseRecorded' /\ GenerationCurrent'
    BY <1>1 DEF RegisterWriter, FsckHeld, DrainExclusion, LapseRecorded, GenerationCurrent
  <2>5. QED
    BY <2>2, <2>3, <2>4
<1>2. CASE CheckFsck(s)
  <2>1. WriterHeld' /\ LeasesDistinct'
    BY <1>2 DEF CheckFsck, WriterHeld, LeasesDistinct
  <2>2. FsckHeld' /\ LapseRecorded'
    BY <1>2 DEF CheckFsck, FsckHeld, LapseRecorded
  \* A writer passes only when there is no lock, and then no run is drained.
  <2>3. DrainExclusion'
    BY <1>2 DEF CheckFsck, FsckHeld, DrainExclusion
  <2>4. GenerationCurrent'
    BY <1>2 DEF CheckFsck, GenerationCurrent
  <2>5. QED
    BY <2>1, <2>2, <2>3, <2>4
<1>3. CASE RefreshWriter(s)
  <2>1. lease[s] \in LeaseIds
    BY <1>3 DEF RefreshWriter, WriterHeld
  <2>2. WriterHeld'
    BY <1>3, <2>1 DEF RefreshWriter, WriterHeld
  <2>3. QED
    BY <1>3, <2>2 DEF RefreshWriter, LeasesDistinct, FsckHeld, DrainExclusion,
                      LapseRecorded, GenerationCurrent
<1>4. CASE ReleaseWriter(s)
  <2>1. lease[s] \in LeaseIds
    BY <1>4 DEF ReleaseWriter, WriterHeld
  <2>2. WriterHeld'
    BY <1>4, <2>1 DEF ReleaseWriter, WriterHeld, LeasesDistinct
  <2>3. LeasesDistinct'
    BY <1>4 DEF ReleaseWriter, LeasesDistinct
  <2>4. FsckHeld' /\ DrainExclusion' /\ LapseRecorded' /\ GenerationCurrent'
    BY <1>4 DEF ReleaseWriter, FsckHeld, DrainExclusion, LapseRecorded, GenerationCurrent
  <2>5. QED
    BY <2>2, <2>3, <2>4
<1>5. QED
  BY <1>1, <1>2, <1>3, <1>4 DEF WriterStep

LEMMA FsckStepInv ==
  ASSUME IInv, TypeOK', NEW s \in Stores, InsertFsck(s) \/ FsckStep(s)
  PROVE  IInv'
<1> USE NamesAssumption, StaleAfterPositive
    DEF IInv, TypeOK, WriterPCs, FsckPCs, HeldPCs, DrainedPCs, NoDoc,
        Goto, fsckDoc, fsckLocals, writerDocs, caches, history,
        WriterHeld, LeasesDistinct, FsckHeld, DrainExclusion, LapseRecorded,
        GenerationCurrent, HeartbeatFsck, LimitedHeartbeatFsck
<1>1. CASE InsertFsck(s)
  BY <1>1 DEF InsertFsck
<1>2. CASE ReplaceFsck(s)
  BY <1>2 DEF ReplaceFsck
<1>3. CASE ConfirmFsck(s)
  BY <1>3 DEF ConfirmFsck
\* The drain ends only when no writer document is fresh, so a writer that
\* passed its check and did not lapse would have been seen.
<1>4. CASE PollWriters(s)
  BY <1>4 DEF PollWriters, FreshWriters, WriterDocs
<1>5. CASE PollAgain(s)
  BY <1>5 DEF PollAgain
<1>6. CASE QueryFresh(s)
  BY <1>6 DEF QueryFresh
<1>7. CASE GrantFsck(s)
  BY <1>7 DEF GrantFsck
<1>8. CASE BumpGeneration(s)
  BY <1>8 DEF BumpGeneration
<1>9. CASE RepairStage(s)
  BY <1>9 DEF RepairStage
<1>10. CASE EndRepair(s)
  BY <1>10 DEF EndRepair
<1>11. CASE ReleaseFsck(s)
  BY <1>11 DEF ReleaseFsck
<1>12. QED
  BY <1>1, <1>2, <1>3, <1>4, <1>5, <1>6, <1>7, <1>8, <1>9, <1>10, <1>11
  DEF FsckStep

LEMMA EnvironmentInv ==
  ASSUME IInv, TypeOK',
         (\E s \in Stores : Crash(s) \/ OperationError(s)) \/ ClearStaleLock \/ Tick \/ UNCHANGED vars
  PROVE  IInv'
<1> USE NamesAssumption, StaleAfterPositive
    DEF IInv, TypeOK, WriterPCs, FsckPCs, HeldPCs, DrainedPCs, NoDoc,
        Goto, fsckDoc, fsckLocals, writerDocs, caches, history,
        WriterHeld, LeasesDistinct, FsckHeld, DrainExclusion, LapseRecorded,
        GenerationCurrent
<1>1. ASSUME NEW s \in Stores, Crash(s)
      PROVE  IInv'
  BY <1>1 DEF Crash
<1>5. ASSUME NEW s \in Stores, OperationError(s)
      PROVE  IInv'
  BY <1>5 DEF OperationError
\* Only a document of age StaleAfter is cleared; its owner had lapsed.
<1>2. CASE ClearStaleLock
  BY <1>2 DEF ClearStaleLock
<1>3. CASE Tick
  <2>1. WriterHeld'
    BY <1>3 DEF Tick, Older, LapsesNow
  <2>2. FsckHeld'
    BY <1>3 DEF Tick, Older, LapsesNow
  <2>3. LeasesDistinct' /\ DrainExclusion'
    BY <1>3 DEF Tick
  <2>4. LapseRecorded'
    BY <1>3 DEF Tick
  <2>5. GenerationCurrent'
    BY <1>3 DEF Tick
  <2>6. QED
    BY <2>1, <2>2, <2>3, <2>4, <2>5
<1>4. CASE UNCHANGED vars
  BY <1>4 DEF vars
<1>6. QED
  BY <1>1, <1>2, <1>3, <1>4, <1>5

LEMMA InductiveInvariant == Spec => []IInv
<1>1. Init => IInv
  BY NamesAssumption, StaleAfterPositive
  DEF Init, IInv, TypeOK, WriterHeld, LeasesDistinct, FsckHeld, DrainExclusion,
      LapseRecorded, GenerationCurrent, WriterPCs, FsckPCs, HeldPCs, DrainedPCs, NoDoc
<1>2. IInv /\ TypeOK' /\ [Next]_vars => IInv'
  BY WriterStepInv, FsckStepInv, EnvironmentInv DEF Next
<1>3. QED
  BY <1>1, <1>2, TypeCorrect, PTL DEF Spec

\* No fsck run repairs beside a writer, unless one of them let its own
\* heartbeat go stale: the handshake of acquire_writer and acquire_fsck is
\* sound for any number of stores and any timing constants.
THEOREM FsckExclusionHolds == Spec => []FsckExclusion
<1>1. IInv => FsckExclusion
  BY DEF IInv, DrainExclusion, FsckExclusion, DrainedPCs, RepairPCs
<1>2. QED
  BY <1>1, InductiveInvariant, PTL

\* Two runs that both repair cannot both own the one lease/fsck document.
THEOREM SingleFsckHolds == Spec => []SingleFsck
<1>1. IInv => SingleFsck
  BY DEF IInv, FsckHeld, SingleFsck, HeldPCs, RepairPCs
<1>2. QED
  BY <1>1, InductiveInvariant, PTL

\* A writer in its write section uses caches of the current generation.
THEOREM GenerationCurrentHolds == Spec => []GenerationCurrent
<1>1. IInv => GenerationCurrent
  BY DEF IInv
<1>2. QED
  BY <1>1, InductiveInvariant, PTL

=============================================================================
