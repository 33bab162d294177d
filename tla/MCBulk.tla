------------------------------- MODULE MCBulk -------------------------------
(* The bulk ingests: serial ingests into a store that may have rows, and   *)
(* one into an empty store by workers or with the deferred finalizer.      *)
(* Node is a by-value record that refers to another one and has content-   *)
(* addressed elements; Par and Alt are the backings of one entry family,   *)
(* Par has metadata and a private record.                                  *)
EXTENDS BulkIngest, BulkShards

VARIABLE mode  \* "serial" or "shards"
MCVars == <<mode, vars, shardVars>>

MCTypes == {"Elem", "Node", "None", "Par", "Alt"}
MCOrder == <<"Elem", "Node", "None", "Par", "Alt">>
MCDedup == [t \in MCTypes |-> CASE t \in {"Elem", "Par", "Alt"} -> "content_id"
                                [] t = "None" -> "none"
                                [] OTHER -> "by_value"]
MCRefType == [t \in MCTypes |-> CASE t \in {"Node", "Alt"} -> "Node" [] t = "Par" -> "None"
                                  [] OTHER -> NoType]
MCElemType == [t \in MCTypes |-> IF t = "Node" THEN "Elem" ELSE NoType]
MCEntries == {"Par", "Alt"}

Of(type, own, note, key, ref, elems) ==
  [type |-> type, own |-> own, note |-> note, key |-> key, ref |-> ref, elems |-> elems]

\* n0 and m0 are equal by value; p and q differ in metadata; a0 is p's other backing.
SerialObj == [e1 |-> Of("Elem", "x", "", "e1", NoRecord, <<>>),
              e2 |-> Of("Elem", "y", "", "e2", NoRecord, <<>>),
              n0 |-> Of("Node", "x", "", "", NoRecord, <<"e1", "e2">>),
              m0 |-> Of("Node", "x", "", "", NoRecord, <<"e2">>),
              n1 |-> Of("Node", "y", "", "", "m0", <<>>),
              z |-> Of("None", "x", "", "", NoRecord, <<>>),
              p |-> Of("Par", "x", "n", "k", "z", <<>>),
              q |-> Of("Par", "x", "o", "k", "z", <<>>),
              a0 |-> Of("Alt", "x", "", "k", NoRecord, <<>>)]

\* s1 and s2 are chained nodes over s0; b is another record, a and c other backings.
ShardObj == [s0 |-> Of("Node", "x", "", "", NoRecord, <<"e1">>),
             s1 |-> Of("Node", "y", "", "", "s0", <<>>),
             s2 |-> Of("Node", "z", "", "", "s1", <<"e1">>),
             b |-> Of("Par", "y", "n", "k2", "z", <<>>),
             a |-> Of("Alt", "x", "", "k", "s2", <<>>),
             c |-> Of("Alt", "y", "", "k3", "s1", <<>>)]

MCObj == SerialObj @@ ShardObj
MCRecords == DOMAIN MCObj
SerialRecords == DOMAIN SerialObj
ShardRecords == DOMAIN ShardObj \cup {"e1", "z", "p", "q"}
MCNestedOnly == [f \in Profiles |-> IF f = "deferred" THEN {"None", "Node"} ELSE {"None"}]

(* What does not run in this behaviour.                                    *)
NoSerial == Init
NoShards ==
  /\ shards = <<>> /\ tokens = <<>> /\ stage = "none" /\ main = EmptyDB /\ keep = {} /\ final = {}
  /\ profile = [finalize |-> "parity", track |-> FALSE, chunk |-> 1]
  /\ looped = [db |-> EmptyDB, ok |-> TRUE, sids |-> <<>>]

MCInit ==
  \/ mode = "serial" /\ Init /\ NoShards
  \/ mode = "shards" /\ ShardsInit /\ NoSerial

OnlySerial == mode = "serial" /\ UNCHANGED <<mode, shardVars>>
OnlyShards == mode = "shards" /\ UNCHANGED <<mode, vars>>

MCNext ==
  \/ OnlySerial /\ (\E r \in SerialRecords : Save(r))
  \/ OnlySerial /\ (\E r \in SerialRecords : CallSave(r))
  \/ OnlySerial /\ Reopen
  \/ OnlySerial /\ Crash
  \/ OnlySerial /\ Enter
  \/ OnlySerial /\ WriteMarker
  \/ OnlySerial /\ Begin
  \/ OnlySerial /\ CreateTable
  \/ OnlySerial /\ Encode
  \/ OnlySerial /\ Exit
  \/ OnlySerial /\ Commit
  \/ OnlySerial /\ ClearMarker
  \/ OnlySerial /\ Raise
  \/ OnlySerial /\ DropStage
  \/ OnlySerial /\ DropCreated
  \/ OnlySerial /\ RestoreIndexes
  \/ OnlySerial /\ CleanedUp
  \/ OnlySerial /\ CleanUpFails
  \/ OnlySerial /\ ClearMarkerAfterFailure
  \/ OnlyShards /\ (\E r \in ShardRecords : SaveTask(r))
  \/ OnlyShards /\ LoadShards
  \/ OnlyShards /\ CollapseContent
  \/ OnlyShards /\ CollapseValues
  \/ OnlyShards /\ SweepOrphans
  \/ OnlyShards /\ Compact
  \/ OnlyShards /\ MakeMaps
  \/ OnlyShards /\ CollapseMaps
  \/ OnlyShards /\ VerifyMetadata
  \/ OnlyShards /\ MakeSurvivors
  \/ OnlyShards /\ ProjectTables
  \/ OnlyShards /\ MergeDispatch
  \/ OnlyShards /\ RebuildDispatch
MCSpec == MCInit /\ [][MCNext]_MCVars
=============================================================================
