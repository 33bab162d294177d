----------------------------- MODULE MongoLease -----------------------------
(***************************************************************************)
(* The cross-process exclusion between writers and the integrity checker   *)
(* of the MongoDB backend: httk/store/backend/mongo/leases.py with its     *)
(* callers in mongo/store.py and mongo/fsck.py.                            *)
(*                                                                         *)
(* A store process is a writer or runs fsck, never both: MongoStore's      *)
(* write lock is held for the whole of either.  A writer inserts its lease *)
(* document and only then looks for the fsck singleton; fsck inserts the   *)
(* singleton and only then drains the writers.  Every document carries a   *)
(* server-clock heartbeat, and an owner whose heartbeat is older than      *)
(* StaleAfter is presumed dead.                                            *)
(*                                                                         *)
(* A heartbeat is modelled by its age: the queries of the code only ever   *)
(* compare it with NOW - StaleAfter, so ages above StaleAfter are not      *)
(* distinguished.  The null heartbeat of a freshly inserted fsck document  *)
(* sorts below every date in BSON and therefore has age StaleAfter too.    *)
(***************************************************************************)
EXTENDS Integers, FiniteSets

CONSTANTS
  Stores,          \* store processes (MongoStore instances)
  LeaseIds,        \* identifiers of writer lease documents (uuids)
  RefreshInterval, \* LeaseTiming.refresh_interval, in clock ticks
  StaleMultiplier, \* LeaseTiming.stale_multiplier
  MaxGeneration,   \* bound: fsck runs that may reach the generation counter
  NoLease,         \* lease[s] of a store that holds no writer lease
  Absent,          \* fsckOwner when there is no lease/fsck document
  Dead             \* its owner field when no running attempt has that uuid

ASSUME TimingAssumption ==
  /\ RefreshInterval \in Nat \ {0}
  /\ StaleMultiplier \in Nat \ {0}

ASSUME NamesAssumption ==
  /\ NoLease \notin LeaseIds
  /\ Absent \notin Stores
  /\ Dead \notin Stores
  /\ Absent # Dead
  /\ MaxGeneration \in Nat

StaleAfter == RefreshInterval * StaleMultiplier

VARIABLES
  pc,             \* pc[s]: where the store process is in its current operation
  forced,         \* stores whose fsck call has force=True
  lease,          \* lease[s]: the writer lease it holds
  age,            \* age[id]: age of the heartbeat of a writer document, or -1
  fsckOwner,      \* owner field of lease/fsck, or Absent
  fsckAge,        \* age of its heartbeat
  freshSeen,      \* freshSeen[s]: ids in the "fresh" set of s's stale query
  generation,     \* generation counter of the layout document
  bumpedTo,       \* bumpedTo[s]: the generation s's fsck run produced
  lastGeneration, \* lastGeneration[s]: generation the caches of s belong to
  lapsed,         \* history: stores that let their current heartbeat go stale
  lapses          \* history: 1 once any owner has let a heartbeat go stale

vars == <<pc, forced, lease, age, fsckOwner, fsckAge, freshSeen, generation,
          bumpedTo, lastGeneration, lapsed, lapses>>

NoDoc == -1

WriterPCs == {"checking", "writing", "blocked"}
\* Fsck runs that have confirmed the singleton with their first heartbeat.
HeldPCs == {"polling", "waiting", "drained", "requeried", "granted", "repairing"}
\* Fsck runs that have seen no fresh writer.
DrainedPCs == {"drained", "requeried", "granted", "repairing"}
\* Fsck runs whose acquire_fsck has returned.
RepairPCs == {"granted", "repairing"}
FsckPCs == {"replacing", "inserted", "finishing"} \cup HeldPCs

TypeOK ==
  /\ pc \in [Stores -> {"idle"} \cup WriterPCs \cup FsckPCs]
  /\ forced \in SUBSET Stores
  /\ lease \in [Stores -> LeaseIds \cup {NoLease}]
  /\ age \in [LeaseIds -> {NoDoc} \cup (0..StaleAfter)]
  /\ fsckOwner \in Stores \cup {Dead, Absent}
  /\ fsckAge \in 0..StaleAfter
  /\ freshSeen \in [Stores -> SUBSET LeaseIds]
  /\ generation \in Nat
  /\ bumpedTo \in [Stores -> Nat]
  /\ lastGeneration \in [Stores -> Nat]
  /\ lapsed \in SUBSET Stores
  /\ lapses \in 0..1

Init ==
  /\ pc = [s \in Stores |-> "idle"]
  /\ forced = {}
  /\ lease = [s \in Stores |-> NoLease]
  /\ age = [id \in LeaseIds |-> NoDoc]
  /\ fsckOwner = Absent
  /\ fsckAge = 0
  /\ freshSeen = [s \in Stores |-> {}]
  /\ generation = 0
  /\ bumpedTo = [s \in Stores |-> 0]
  /\ lastGeneration = [s \in Stores |-> 0]
  /\ lapsed = {}
  /\ lapses = 0

-----------------------------------------------------------------------------
(* Queries *)

WriterDocs == {id \in LeaseIds : age[id] # NoDoc}

\* Faulty variants: residue never goes stale; the refresh interval is the cutoff.
FreshWritersNeverStale == WriterDocs
FreshWritersShortCutoff == {id \in WriterDocs : age[id] < RefreshInterval}

FreshWriters == {id \in WriterDocs : age[id] < StaleAfter}

\* refresh_heartbeat does nothing until half an interval has passed.
Due(a) == 2 * a >= RefreshInterval

Goto(s, label) == pc' = [pc EXCEPT ![s] = label]

fsckDoc == <<fsckOwner, fsckAge>>
fsckLocals == <<forced, freshSeen, bumpedTo>>
writerDocs == <<lease, age>>
caches == <<generation, lastGeneration>>
history == <<lapsed, lapses>>

-----------------------------------------------------------------------------
(* Writers: acquire_writer, the heartbeats of the saves, release *)

\* acquire_writer inserts its document under a new uuid.
RegisterWriter(s) ==
  /\ pc[s] = "idle"
  /\ \E id \in LeaseIds \ WriterDocs :
       /\ \A f \in Stores : id \notin freshSeen[f]
       /\ age' = [age EXCEPT ![id] = 0]
       /\ lease' = [lease EXCEPT ![s] = id]
  /\ lapsed' = lapsed \ {s}
  /\ Goto(s, "checking")
  /\ UNCHANGED <<fsckDoc, fsckLocals, caches, lapses>>

\* Faulty variant: the generation is not observed.
CheckFsckUnobserved(s) ==
  /\ pc[s] = "checking"
  /\ Goto(s, IF fsckOwner # Absent THEN "blocked" ELSE "writing")
  /\ UNCHANGED <<fsckDoc, fsckLocals, writerDocs, caches, history>>

\* One find over {lease/fsck, layout}: any fsck document refuses the writer,
\* stale or not; otherwise _observe_generation drops the identity caches of an
\* older generation before the first write.
CheckFsck(s) ==
  /\ pc[s] = "checking"
  /\ IF fsckOwner # Absent
     THEN Goto(s, "blocked") /\ UNCHANGED lastGeneration
     ELSE /\ Goto(s, "writing")
          /\ lastGeneration' = [lastGeneration EXCEPT ![s] = generation]
  /\ UNCHANGED <<fsckDoc, fsckLocals, writerDocs, generation, history>>

\* Each _save of the operation refreshes the heartbeat; the update matches the
\* document by _id and owner, and does not look at lease/fsck.
RefreshWriter(s) ==
  /\ pc[s] = "writing"
  /\ Due(age[lease[s]])
  /\ age' = [age EXCEPT ![lease[s]] = 0]
  /\ UNCHANGED <<pc, lease, fsckDoc, fsckLocals, caches, history>>

\* The finally clause: commit, abort and StoreLockedError all delete the lease.
ReleaseWriter(s) ==
  /\ pc[s] \in {"writing", "blocked"}
  /\ age' = [age EXCEPT ![lease[s]] = NoDoc]
  /\ lease' = [lease EXCEPT ![s] = NoLease]
  /\ freshSeen' = [f \in Stores |-> freshSeen[f] \ {lease[s]}]
  /\ Goto(s, "idle")
  /\ UNCHANGED <<fsckDoc, forced, bumpedTo, caches, history>>

-----------------------------------------------------------------------------
(* Fsck: acquire_fsck, the stages of run_fsck, release *)

RunsStarted == {s \in Stores : pc[s] \in FsckPCs}

\* insert_one with a null heartbeat.  A duplicate refuses the call, or with
\* force=True goes on to the conditional replacement.
InsertFsck(s) ==
  /\ pc[s] = "idle"
  /\ generation + Cardinality(RunsStarted) < MaxGeneration
  /\ \E f \in BOOLEAN :
       /\ forced' = IF f THEN forced \cup {s} ELSE forced
       /\ \/ /\ fsckOwner = Absent
             /\ fsckOwner' = s
             /\ fsckAge' = StaleAfter
             /\ Goto(s, "inserted")
          \/ /\ fsckOwner # Absent
             /\ f
             /\ Goto(s, "replacing")
             /\ UNCHANGED fsckDoc
  /\ lapsed' = lapsed \ {s}
  /\ UNCHANGED <<writerDocs, freshSeen, bumpedTo, caches, lapses>>

\* Faulty variant: force replaces a document whose heartbeat is fresh.
ReplaceFsckFresh(s) ==
  /\ pc[s] = "replacing"
  /\ IF fsckOwner # Absent
     THEN fsckOwner' = s /\ fsckAge' = 0 /\ Goto(s, "inserted")
     ELSE Goto(s, "idle") /\ UNCHANGED fsckDoc
  /\ forced' = IF pc'[s] = "idle" THEN forced \ {s} ELSE forced
  /\ UNCHANGED <<freshSeen, bumpedTo, writerDocs, caches, history>>

\* find_one_and_update on a stale document.  A fresh or vanished one refuses.
ReplaceFsck(s) ==
  /\ pc[s] = "replacing"
  /\ IF fsckOwner # Absent /\ fsckAge = StaleAfter
     THEN fsckOwner' = s /\ fsckAge' = 0 /\ Goto(s, "inserted")
     ELSE Goto(s, "idle") /\ UNCHANGED fsckDoc
  /\ forced' = IF pc'[s] = "idle" THEN forced \ {s} ELSE forced
  /\ UNCHANGED <<freshSeen, bumpedTo, writerDocs, caches, history>>

\* update_one by _id and owner: an owner that was displaced or cleared away
\* matches nothing, raises LeaseLostError and gives up.
HeartbeatFsck(s, label) ==
  IF fsckOwner = s
  THEN fsckAge' = 0 /\ Goto(s, label) /\ UNCHANGED fsckOwner
  ELSE Goto(s, "finishing") /\ UNCHANGED fsckDoc

\* The same behind the rate limit of refresh_heartbeat.  An owner's own last
\* refresh is the heartbeat of its document; one whose document was replaced
\* or cleared had let it go stale, so its refresh is due.
LimitedHeartbeatFsck(s, label) ==
  IF fsckOwner = s /\ ~Due(fsckAge)
  THEN Goto(s, label) /\ UNCHANGED fsckDoc
  ELSE HeartbeatFsck(s, label)

\* refresh_heartbeat(force=True), before the drain.
ConfirmFsck(s) ==
  /\ pc[s] = "inserted"
  /\ HeartbeatFsck(s, "polling")
  /\ UNCHANGED <<fsckLocals, writerDocs, caches, history>>

\* The fresh query of the drain loop.
PollWriters(s) ==
  /\ pc[s] = "polling"
  /\ Goto(s, IF FreshWriters = {} THEN "drained" ELSE "waiting")
  /\ UNCHANGED <<fsckDoc, fsckLocals, writerDocs, caches, history>>

\* sleep, refresh, poll again.
PollAgain(s) ==
  /\ pc[s] = "waiting"
  /\ LimitedHeartbeatFsck(s, "polling")
  /\ UNCHANGED <<fsckLocals, writerDocs, caches, history>>

\* _stale_writer_documents, first half: the fresh writers are queried again.
QueryFresh(s) ==
  /\ pc[s] = "drained"
  /\ freshSeen' = [freshSeen EXCEPT ![s] = FreshWriters]
  /\ Goto(s, "requeried")
  /\ UNCHANGED <<fsckDoc, forced, bumpedTo, writerDocs, caches, history>>

\* Second half: every writer document that is not in that set counts as stale
\* and refuses a run without force.
GrantFsck(s) ==
  /\ pc[s] = "requeried"
  /\ freshSeen' = [freshSeen EXCEPT ![s] = {}]
  /\ Goto(s, IF WriterDocs \ freshSeen[s] # {} /\ s \notin forced
             THEN "finishing" ELSE "granted")
  /\ UNCHANGED <<fsckDoc, forced, bumpedTo, writerDocs, caches, history>>

\* run_fsck increments the layout generation once.
BumpGeneration(s) ==
  /\ pc[s] = "granted"
  /\ generation' = generation + 1
  /\ bumpedTo' = [bumpedTo EXCEPT ![s] = generation + 1]
  /\ Goto(s, "repairing")
  /\ UNCHANGED <<fsckDoc, forced, freshSeen, writerDocs, lastGeneration, history>>

\* The heartbeat before each stage (integrity pass, mark, each sweep).
RepairStage(s) ==
  /\ pc[s] = "repairing"
  /\ LimitedHeartbeatFsck(s, "repairing")
  /\ UNCHANGED <<fsckLocals, writerDocs, caches, history>>

\* After the last stage the run clears its own caches.
EndRepair(s) ==
  /\ pc[s] = "repairing"
  /\ lastGeneration' = [lastGeneration EXCEPT ![s] = bumpedTo[s]]
  /\ Goto(s, "finishing")
  /\ UNCHANGED <<fsckDoc, fsckLocals, writerDocs, generation, history>>

\* The finally clause deletes the document if it is still this run's.
ReleaseFsck(s) ==
  /\ pc[s] = "finishing"
  /\ IF fsckOwner = s
     THEN fsckOwner' = Absent /\ fsckAge' = 0
     ELSE UNCHANGED fsckDoc
  /\ forced' = forced \ {s}
  /\ freshSeen' = [freshSeen EXCEPT ![s] = {}]
  /\ Goto(s, "idle")
  /\ UNCHANGED <<bumpedTo, writerDocs, caches, history>>

\* clear_stale_lock, an administrative call; a fresh document refuses it.
ClearStaleLock ==
  /\ fsckOwner # Absent
  /\ fsckAge = StaleAfter
  /\ fsckOwner' = Absent
  /\ fsckAge' = 0
  /\ UNCHANGED <<pc, fsckLocals, writerDocs, caches, history>>

-----------------------------------------------------------------------------
(* The environment *)

\* A database call of an acquisition or a repair stage raises: the except and
\* finally clauses go on to the release.
OperationError(s) ==
  /\ \/ pc[s] = "checking" /\ Goto(s, "blocked")
     \/ pc[s] \in {"inserted"} \cup HeldPCs /\ Goto(s, "finishing")
  /\ UNCHANGED <<fsckDoc, fsckLocals, writerDocs, caches, history>>

\* The process dies, or its release fails, anywhere in an operation: its
\* documents stay behind.  The store that replaces it reads the generation.
Crash(s) ==
  /\ pc[s] # "idle"
  /\ Goto(s, "idle")
  /\ lease' = [lease EXCEPT ![s] = NoLease]
  /\ fsckOwner' = IF fsckOwner = s THEN Dead ELSE fsckOwner
  /\ forced' = forced \ {s}
  /\ freshSeen' = [freshSeen EXCEPT ![s] = {}]
  /\ lastGeneration' = [lastGeneration EXCEPT ![s] = generation]
  /\ UNCHANGED <<age, fsckAge, bumpedTo, generation, history>>

Older(a) == IF a = StaleAfter THEN a ELSE a + 1

LapsesNow(s) ==
  \/ lease[s] # NoLease /\ age[lease[s]] = StaleAfter - 1
  \/ fsckOwner = s /\ fsckAge = StaleAfter - 1

\* One tick of the server clock.
Tick ==
  /\ age' = [id \in LeaseIds |-> IF age[id] = NoDoc THEN NoDoc ELSE Older(age[id])]
  /\ fsckAge' = IF fsckOwner = Absent THEN 0 ELSE Older(fsckAge)
  /\ <<age, fsckAge>>' # <<age, fsckAge>>
  /\ lapsed' = lapsed \cup {s \in Stores : LapsesNow(s)}
  /\ lapses' = IF \E s \in Stores : LapsesNow(s) THEN 1 ELSE lapses
  /\ UNCHANGED <<pc, lease, fsckOwner, fsckLocals, caches>>

-----------------------------------------------------------------------------

WriterStep(s) == CheckFsck(s) \/ RefreshWriter(s) \/ ReleaseWriter(s)

FsckStep(s) ==
  \/ ReplaceFsck(s)
  \/ ConfirmFsck(s)
  \/ PollWriters(s)
  \/ PollAgain(s)
  \/ QueryFresh(s)
  \/ GrantFsck(s)
  \/ BumpGeneration(s)
  \/ RepairStage(s)
  \/ EndRepair(s)
  \/ ReleaseFsck(s)

Next ==
  \/ \E s \in Stores :
       \/ RegisterWriter(s)
       \/ WriterStep(s)
       \/ InsertFsck(s)
       \/ FsckStep(s)
       \/ OperationError(s)
       \/ Crash(s)
  \/ ClearStaleLock
  \/ Tick

Spec == Init /\ [][Next]_vars

\* A caller refused with StoreLockedError does not call again while the lock is
\* there (the store itself never retries a refusal).
RespectsRefusal ==
  \A s \in Stores : pc[s] = "idle" /\ pc'[s] = "checking" => fsckOwner = Absent

Fairness ==
  /\ \A s \in Stores :
       /\ WF_vars(CheckFsck(s))
       /\ WF_vars(ReleaseWriter(s))
       /\ WF_vars(FsckStep(s))
       /\ WF_vars(EndRepair(s))
  /\ WF_vars(Tick)

LiveSpec == Spec /\ Fairness

-----------------------------------------------------------------------------
(* Properties *)

\* While an fsck run repairs, no writer is in its write section, unless one of
\* the two let its own heartbeat go stale: the insert-then-check handshake of
\* acquire_writer and acquire_fsck leaves no interleaving in which both pass.
FsckExclusion ==
  \A s, t \in Stores :
    pc[s] \in RepairPCs /\ pc[t] = "writing" => s \in lapsed \/ t \in lapsed

\* Two fsck runs repair at the same time only when one of them went stale:
\* a replaced or cleared lease/fsck document (null heartbeat included) stops
\* its former owner before the drain.
SingleFsck ==
  \A s, t \in Stores :
    pc[s] \in RepairPCs /\ pc[t] \in RepairPCs /\ s # t => s \in lapsed \/ t \in lapsed

\* A store in its write section has dropped every cache entry of an older
\* layout generation: no fsck run can bump the generation between the check
\* and the release, as long as nobody's heartbeat went stale.
GenerationCurrent ==
  \A t \in Stores : pc[t] = "writing" /\ lapses = 0 => lastGeneration[t] = generation

\* Every fsck call ends, granted or refused: live writers finish and the
\* residue of dead ones goes stale, so the drain loop of acquire_fsck ends.
FsckEnds ==
  <>[][RespectsRefusal]_vars => \A s \in Stores : pc[s] \in FsckPCs ~> pc[s] = "idle"
=============================================================================
