---------------------------- MODULE ContentStore ----------------------------
(***************************************************************************)
(* What a store promises its callers, however it writes its documents:     *)
(* objects are kept under sids, a sid denotes one object for ever, and     *)
(* what an acknowledged save returned stays readable with everything it    *)
(* refers to.  Garbage collection is free in what else it keeps.           *)
(***************************************************************************)
CONSTANTS
  Objects,  \* what can be stored
  Refs,     \* Refs[o]: the objects o refers to
  Unique,   \* objects that are stored once only
  Sids      \* identifiers

VARIABLES
  stored,   \* stored[d]: the object under sid d and the sids it refers to
  unused,   \* sids that have never been given to an object
  acked     \* the pairs <<object, sid>> acknowledged to a caller

vars == <<stored, unused, acked>>

Init ==
  /\ stored = [d \in {} |-> 0]
  /\ unused = Sids
  /\ acked = {}

Acked == {p[2] : p \in acked}

\* K holds whatever its objects refer to.
Whole(K) == \A d \in K : stored[d].refs \subseteq K

Write(o, d) ==
  /\ d \in unused
  /\ o \in Unique => \A c \in DOMAIN stored : stored[c].obj # o
  /\ \E refs \in SUBSET DOMAIN stored :
       /\ {stored[c].obj : c \in refs} = Refs[o]
       /\ stored' = [c \in DOMAIN stored \cup {d} |->
                       IF c = d THEN [obj |-> o, refs |-> refs] ELSE stored[c]]
  /\ unused' = unused \ {d}
  /\ UNCHANGED acked

\* Identifiers may be lost.
Waste ==
  /\ unused' \in SUBSET unused
  /\ UNCHANGED <<stored, acked>>

Acknowledge(o, d) ==
  /\ d \in DOMAIN stored
  /\ stored[d].obj = o
  /\ \E K \in SUBSET DOMAIN stored : d \in K /\ Whole(K)
  /\ acked' = acked \cup {<<o, d>>}
  /\ UNCHANGED <<stored, unused>>

\* Anything outside a whole set with all acknowledged objects may go.
Collect ==
  /\ \E K \in SUBSET DOMAIN stored :
       /\ Acked \subseteq K /\ Whole(K)
       /\ \E kept \in SUBSET DOMAIN stored :
            /\ K \subseteq kept
            /\ stored' = [c \in kept |-> stored[c]]
  /\ UNCHANGED <<unused, acked>>

Next ==
  \/ \E o \in Objects, d \in Sids : Write(o, d) \/ Acknowledge(o, d)
  \/ Waste
  \/ Collect

Spec == Init /\ [][Next]_vars
=============================================================================
