---------------------------- MODULE LogicalGraph ----------------------------
(***************************************************************************)
(* The logical graph of the tables of a SQL store and the two orders that  *)
(* are derived from it: the load order of the bulk ingests and the waves   *)
(* of root reachability (backend/sql/graph.py).  Tables are numbered in    *)
(* the order of their names.                                               *)
(***************************************************************************)
EXTENDS Integers, SequencesExt

Edge(kind, source, target) == [kind |-> kind, source |-> source, target |-> target]

\* A schema: the record types that fields refer to, and those that the elements of
\* its child tables refer to.  A record type is a digit, its table ten times it.
ParentTable(c) == 10 * c
ChildTable(c, target) == 10 * c + target
Dispatch == 0

\* from_schemas: what the given schemas refer to belongs to the graph as well.
Closure(classes, refs, elements) ==
  FoldLeft(LAMBDA known, i : known \cup UNION {refs[c] \cup elements[c] : c \in known},
           classes, [i \in 1..Cardinality(DOMAIN refs) |-> i])

FromSchemas(classes, refs, elements, backings) ==
  LET known == Closure(classes, refs, elements)
  IN UNION {{Edge("reference", ParentTable(c), ParentTable(t)) : t \in refs[c]} : c \in known}
     \cup UNION {{Edge("ownership", ParentTable(c), ChildTable(c, t)) : t \in elements[c]} : c \in known}
     \cup UNION {{Edge("child_element", ChildTable(c, t), ParentTable(t)) : t \in elements[c]} : c \in known}
     \cup {Edge("dispatch", Dispatch, ParentTable(c)) : c \in backings}

TablesOf(edges) == UNION {{e.source, e.target} : e \in edges}

\* sid_columns: the table that holds the column of an edge, and the table it points to.
SidColumns(edges) ==
  {IF e.kind = "ownership" THEN <<e.target, e.source>> ELSE <<e.source, e.target>> : e \in edges}
Referrers(edges, t) == {p[1] : p \in {p \in SidColumns(edges) : p[2] = t}}

----------------------------------------------------------------------------
\* _strongly_connected_components: Tarjan's algorithm.

Sorted(S) == SetToSortSeq(S, <)
From(pairs, n) == {p[2] : p \in {p \in pairs : p[1] = n}}

\* What visit(node) does to its variables.
RECURSIVE Visit(_, _, _)

Pushed(st, node) ==
  [st EXCEPT !.indices = @ @@ (node :> st.index), !.low = @ @@ (node :> st.index),
             !.index = @ + 1, !.stack = Append(@, node)]

Lower(st, node, value) == [st EXCEPT !.low[node] = Min({@, value})]

LowerTo(st, node, target) == Lower(st, node, st.low[target])

Look(st, node, target) ==
  IF target \in ToSet(st.stack) THEN Lower(st, node, st.indices[target]) ELSE st

Popped(st, node) ==
  IF st.low[node] # st.indices[node] THEN st
  ELSE LET at == CHOOSE i \in DOMAIN st.stack : st.stack[i] = node
       IN [st EXCEPT !.found = Append(@, Range(SubSeq(st.stack, at, Len(st.stack)))),
                     !.stack = SubSeq(@, 1, at - 1)]

VisitTarget(st, node, target, pairs) ==
  IF target \in DOMAIN st.indices THEN Look(st, node, target)
  ELSE LowerTo(Visit(target, pairs, st), node, target)

Visit(node, pairs, st) ==
  Popped(FoldLeft(LAMBDA s, t : VisitTarget(s, node, t, pairs),
                  Pushed(st, node), Sorted(From(pairs, node))),
         node)

Components(nodes, pairs) ==
  FoldLeft(LAMBDA st, n : IF n \in DOMAIN st.indices THEN st ELSE Visit(n, pairs, st),
           [indices |-> <<>>, low |-> <<>>, index |-> 0, stack |-> <<>>, found |-> <<>>],
           Sorted(nodes)).found

----------------------------------------------------------------------------
\* Kahn's algorithm on the components: among those that are ready, the one with the
\* least table is next.

Waiting(c, components, pairs) == \E d \in components \ {c} : \E p \in pairs : p[1] \in d /\ p[2] \in c
NextComponent(components, pairs) ==
  LET ready == {c \in components : ~Waiting(c, components, pairs)}
  IN CHOOSE c \in ready : \A d \in ready : Min(c) <= Min(d)

RECURSIVE Condensed(_, _)
Condensed(components, pairs) ==
  IF components = {} THEN <<>>
  ELSE LET c == NextComponent(components, pairs)
       IN <<c>> \o Condensed(components \ {c}, pairs)

\* Faulty variant: a child table may be loaded before its parent.
LoadedAfter(edges) ==
  {<<e.target, e.source>> : e \in {e \in edges : e.kind # "ownership"}}

\* What must be loaded before what.
Constraints(edges) ==
  {IF e.kind = "ownership" THEN <<e.source, e.target>> ELSE <<e.target, e.source>> : e \in edges}

DependencyComponents(edges) ==
  Condensed(ToSet(Components(TablesOf(edges), Constraints(edges))), Constraints(edges))

\* dependency_order
DependencyOrder(edges) ==
  FoldLeft(LAMBDA order, c : order \o Sorted(c), <<>>, DependencyComponents(edges))

Forward(edges) == {<<e.source, e.target>> : e \in edges}

\* reachability_scc_order
ReachabilitySccOrder(edges) ==
  Condensed(ToSet(Components(TablesOf(edges), Forward(edges))), Forward(edges))

----------------------------------------------------------------------------
\* The reference definitions.

Connected(nodes, pairs) ==
  FoldLeft(LAMBDA r, k : r \cup {p \in nodes \X nodes : <<p[1], k>> \in r /\ <<k, p[2]>> \in r},
           pairs, Sorted(nodes))

At(order, t) == CHOOSE i \in DOMAIN order : order[i] = t

\* Every table is loaded once, and what a row points to, its owner and the backings of
\* a dispatch are loaded before it, unless the tables refer to one another.
OrderSound(edges) ==
  \E order \in {DependencyOrder(edges)}, r \in {Connected(TablesOf(edges), Constraints(edges))} :
    /\ IsInjective(order) /\ ToSet(order) = TablesOf(edges)
    /\ \A c \in SidColumns(edges) :
         c[1] = c[2] \/ <<c[1], c[2]>> \in r \/ At(order, c[2]) < At(order, c[1])

\* The waves are the classes of mutually reachable tables, and no edge leads back to
\* an earlier wave.
WavesSound(edges) ==
  \E order \in {ReachabilitySccOrder(edges)}, r \in {Connected(TablesOf(edges), Forward(edges))} :
    /\ UNION ToSet(order) = TablesOf(edges)
    /\ \A i, j \in DOMAIN order : \A x \in order[i], y \in order[j] :
         /\ (i = j) <=> (x = y \/ {<<x, y>>, <<y, x>>} \subseteq r)
         /\ <<x, y>> \in Forward(edges) => i <= j
=============================================================================
