---------------------------- MODULE MongoSaveTx ----------------------------
(***************************************************************************)
(* save() on a replica set: MongoStore._save_implicit_transaction runs     *)
(* the whole save, entry dispatch included, in one transaction.            *)
(*                                                                         *)
(* Every insert increments a counters document in the transaction, so two  *)
(* transactions that insert into one collection conflict and the loser is  *)
(* retried from the start: a committed save is one step.  A save that      *)
(* aborts leaves no trace.  Readers and fsck are those of MongoSave, and   *)
(* a reader's separate operations still have no common snapshot.           *)
(***************************************************************************)
EXTENDS MongoSave

VARIABLE supports_transactions  \* of the MongoDatabase, the same for all stores here
txVars == <<supports_transactions, vars>>

ASSUME ObjectsAssumption == IsFiniteSet(Objects)

\* A content-addressed object that is found is not encoded again, so its
\* references are not followed.
Encoded(x) == Dedup[x] # "content_id" \/ OfContent(x) = {}

\* The objects _save reaches from o.
Visited(o) ==
  LET Followed(S) == \A x \in S : Encoded(x) => Refs[x] \subseteq S
  IN {x \in Objects : \A S \in SUBSET Objects : o \in S /\ Followed(S) => x \in S}

\* The documents that x deduplicates onto when its graph has the sids sidOf.
Matches(x, sidOf) ==
  CASE Dedup[x] = "content_id" -> OfContent(x)
    [] Dedup[x] = "by_value"   -> OfValue(x, {sidOf[r] : r \in Refs[x]})
    [] Dedup[x] = "none"       -> {}

\* The sids of a save of o: found where something matches, else the next ones.
Assignments(o) ==
  {sidOf \in [Visited(o) -> 1..MaxSid] :
     LET new == {x \in Visited(o) : Matches(x, sidOf) = {}}
     IN /\ \A x \in Visited(o) \ new : sidOf[x] \in Matches(x, sidOf)
        /\ {sidOf[x] : x \in new} = counter + 1 .. counter + Cardinality(new)}

\* Faulty variant: the commit comes before the entry dispatch.
NoDispatch(o, d) == UNCHANGED dispatch

\* _save_entry_dispatch: an existing row must name the same document.
SaveDispatch(o, d) ==
  IF o \in Entries
  THEN /\ o \in DOMAIN dispatch => dispatch[o] = d
       /\ dispatch' = Put(dispatch, o, d)
  ELSE UNCHANGED dispatch

\* Acquire the lease, observe the generation, save the graph and its dispatch
\* row, commit, publish the caches.
TxSave(w, o) ==
  /\ fsck = NoStore
  /\ \E sidOf \in Assignments(o) :
       LET new == {x \in Visited(o) : Matches(x, sidOf) = {}}
           Content(x) == [obj |-> x, refs |-> {sidOf[r] : r \in Refs[x]},
                          role |-> IF x = o THEN "main" ELSE "dep"]
       IN /\ docs' = [d \in DOMAIN docs \cup {sidOf[x] : x \in new} |->
                        IF d \in DOMAIN docs
                        THEN [docs[d] EXCEPT !.role = IF d = sidOf[o] THEN "main" ELSE @]
                        ELSE Content(CHOOSE x \in new : sidOf[x] = d)]
          /\ counter' = counter + Cardinality(new)
          /\ SaveDispatch(o, sidOf[o])
          /\ saved' = saved \cup {<<o, sidOf[o]>>}
          /\ cached' = [cached EXCEPT ![w] =
                          (IF lastGeneration[w] = generation THEN @ ELSE {}) \cup Range(sidOf)]
          /\ lastGeneration' = [lastGeneration EXCEPT ![w] = generation]
  /\ UNCHANGED <<saver, fsckVars, generation, loading, lookups>>

TxInit == supports_transactions \in BOOLEAN /\ Init

WithTransactions == supports_transactions /\ UNCHANGED supports_transactions
Degraded == ~supports_transactions /\ UNCHANGED supports_transactions

\* A store saves as its database allows; the rest is the same.
TxNext ==
  \/ WithTransactions /\ (\E w \in Stores, o \in Objects : TxSave(w, o))
  \/ Degraded /\ (\E w \in Stores : SaveStep(w))
  \/ UNCHANGED supports_transactions /\ (\E w \in Stores : Crash(w))
  \/ UNCHANGED supports_transactions /\ FsckStep
  \/ UNCHANGED supports_transactions /\ ReadStep

TxSpec == TxInit /\ [][TxNext]_txVars

-----------------------------------------------------------------------------
(* Properties *)

\* A store with transactions holds no crash residue: every document is a saved
\* one or referred to, and every main entry has its dispatch row, so fsck has
\* nothing to repair or sweep.
TransactionsLeaveNothing ==
  supports_transactions =>
    /\ \A d \in DOMAIN docs :
         docs[d].role = "main" \/ \E p \in DOMAIN docs : d \in docs[p].refs
    /\ Undispatched = {}
=============================================================================
