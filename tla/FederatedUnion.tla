--------------------------- MODULE FederatedUnion ---------------------------
(***************************************************************************)
(* FederatedStore: the result plans of a union of borrowed, live stores.   *)
(* A plan has an offset and a limit and may be sliced into further plans,  *)
(* which share the exact count of the unpaged union.  Executing a plan or  *)
(* counting it asks one source after the other; any of them may fail, and  *)
(* the stores grow meanwhile.                                              *)
(***************************************************************************)
EXTENDS Naturals, SequencesExt

CONSTANTS
  NSources,    \* how many sources, in federation order
  Unbounded,        \* no limit, no stop
  Bounds,      \* the starts and stops of slices
  MaxRows,     \* bound: rows of a source
  MaxSlices    \* bound: slices of slices

ASSUME UnionAssumption == Unbounded \notin Nat /\ Bounds \subseteq Nat /\ NSources \in Nat

VARIABLES
  size,    \* matching rows of each source
  window,  \* [offset, limit]
  slices,  \* history: the slices that made the plan
  cache,   \* the count the plans share, or NoCount
  job,     \* a count or an execution in progress, or Idle
  answer   \* what the last len() or execution returned
unionVars == <<size, window, slices, cache, job, answer>>

Sources == 1..NSources
NoJob == [kind |-> "idle"]
NoAnswer == [kind |-> "none"]
NoCount == [counted |-> <<>>]
Least(m, n) == IF m = Unbounded THEN n ELSE IF n = Unbounded THEN m ELSE IF m < n THEN m ELSE n
Minus(m, n) == IF m < n THEN 0 ELSE m - n
FirstRows(rows, n) == IF n = Unbounded THEN rows ELSE SubSeq(rows, 1, Least(n, Len(rows)))
RowsOf(s, n) == [i \in 1..n |-> <<s, i>>]

UnionInit ==
  /\ size \in [Sources -> 0..MaxRows]
  /\ window \in [offset : {0, 1}, limit : {Unbounded, 2}]
  /\ slices = <<[start |-> window.offset, stop |-> IF window.limit = Unbounded THEN Unbounded
                                                 ELSE window.offset + window.limit]>>
  /\ cache = NoCount /\ job = NoJob /\ answer = NoAnswer

Grow(s) ==
  /\ size[s] < MaxRows /\ size' = [size EXCEPT ![s] = @ + 1]
  /\ UNCHANGED <<window, slices, cache, job, answer>>

(* results[start:stop]                                                     *)
SlicedWithinLimit(p, start, stop) ==
  [offset |-> p.offset + start,
   limit |-> Least(p.limit, IF stop = Unbounded THEN Unbounded ELSE Minus(stop, start))]
Sliced(p, start, stop) ==
  [offset |-> p.offset + start,
   limit |-> Least(IF p.limit = Unbounded THEN Unbounded ELSE Minus(p.limit, start),
                   IF stop = Unbounded THEN Unbounded ELSE Minus(stop, start))]

Slice(start, stop) ==
  /\ job = NoJob /\ Len(slices) <= MaxSlices
  /\ window' = Sliced(window, start, stop)
  /\ slices' = Append(slices, [start |-> start, stop |-> stop])
  /\ answer' = NoAnswer
  /\ UNCHANGED <<size, cache, job>>

-----------------------------------------------------------------------------
(* The exact count: all sources, or nothing is kept.                       *)

StartCount ==
  /\ job = NoJob /\ cache = NoCount /\ window.limit # 0
  /\ job' = [kind |-> "count", k |-> 1, total |-> 0, counted |-> <<>>]
  /\ UNCHANGED <<size, window, slices, cache, answer>>

CountSource ==
  /\ job.kind = "count" /\ job.k <= NSources
  /\ job' = [job EXCEPT !.k = @ + 1, !.total = @ + size[job.k], !.counted = Append(@, size[job.k])]
  /\ UNCHANGED <<size, window, slices, cache, answer>>

Counted ==
  /\ job.kind = "count" /\ job.k > NSources
  /\ cache' = [total |-> job.total, counted |-> job.counted] /\ job' = NoJob
  /\ UNCHANGED <<size, window, slices, answer>>

(* len() of a plan, from the count the plans share.                        *)
Available == Least(Minus(cache.total, window.offset), window.limit)
Length ==
  /\ job = NoJob /\ cache # NoCount
  /\ answer' = [kind |-> "length", length |-> Available]
  /\ UNCHANGED <<size, window, slices, cache, job>>

-----------------------------------------------------------------------------
(* Execution: iteration, first() with maximum 1 and one() with maximum 2.  *)

StartExecute(maximum) ==
  /\ job = NoJob
  /\ job' = [kind |-> "execute", k |-> 1, limit |-> Least(window.limit, maximum), maximum |-> maximum,
            skipped |-> 0, out |-> <<>>, counted |-> <<>>]
  /\ UNCHANGED <<size, window, slices, cache, answer>>

Enough == job.limit # Unbounded /\ job.k > 0 /\ Len(job.out) >= job.limit
ExecuteSource ==
  /\ job.kind = "execute" /\ job.k <= NSources /\ ~Enough
  /\ \E child \in {FirstRows(RowsOf(job.k, size[job.k]),
                             IF job.limit = Unbounded THEN Unbounded ELSE window.offset + job.limit)} :
     \E skip \in {Least(Minus(window.offset, job.skipped), Len(child))} :
       job' = [job EXCEPT !.k = @ + 1, !.skipped = @ + skip, !.counted = Append(@, size[job.k]),
                !.out = FirstRows(@ \o SubSeq(child, skip + 1, Len(child)), job.limit)]
  /\ UNCHANGED <<size, window, slices, cache, answer>>

Executed ==
  /\ job.kind = "execute" /\ (Enough \/ job.k > NSources)
  /\ answer' = [kind |-> "rows", rows |-> job.out, maximum |-> job.maximum, counted |-> job.counted]
  /\ job' = NoJob
  /\ UNCHANGED <<size, window, slices, cache>>

SourceFails ==
  /\ job.kind \in {"count", "execute"}
  /\ job' = NoJob
  /\ UNCHANGED <<size, window, slices, cache, answer>>

UnionNext ==
  \/ StartCount \/ CountSource \/ Counted \/ Length \/ ExecuteSource \/ Executed \/ SourceFails
  \/ \E s \in Sources : Grow(s)
  \/ \E start \in Bounds, stop \in Bounds \cup {Unbounded} : Slice(start, stop)
  \/ \E maximum \in {Unbounded, 1, 2} : StartExecute(maximum)

UnionSpec == UnionInit /\ [][UnionNext]_unionVars

-----------------------------------------------------------------------------
(* Slices of a list, as Python has them, one after the other.              *)
PySlice(rows, s) ==
  SubSeq(rows, s.start + 1, IF s.stop = Unbounded THEN Len(rows) ELSE Least(s.stop, Len(rows)))
Reference(counted) ==
  LET list == FlattenSeq([s \in DOMAIN counted |-> RowsOf(s, counted[s])])
      sliced[i \in 0..Len(slices)] ==
        IF i = 0 THEN list ELSE PySlice(sliced[i - 1], slices[i])
  IN sliced[Len(slices)]

(* A plan, however it was sliced, returns the slices of the source-major   *)
(* list of what the sources held when they were asked, and its length is   *)
(* that of the list which was counted -- after failures of sources too.    *)
SliceOfUnion ==
  /\ answer.kind = "rows"
       => answer.rows = FirstRows(Reference(answer.counted), answer.maximum)
  /\ cache # NoCount /\ window.limit # 0 => Available = Len(Reference(cache.counted))
=============================================================================
