-------------------------- MODULE SearchRendering --------------------------
(* A search as a caller builds it and as the two backends run it.          *)
(*                                                                         *)
(* Expressions over the fields of one query variable (v, and optionally a  *)
(* second one, w, over the rows that v.ref points at) are composed with    *)
(* &, | and ~ and added to the searcher.  SQL renders an expression twice: *)
(* for WHERE, over one row of the outer joins, and for HAVING, over the    *)
(* rows of one match.  MongoDB renders a filter for its truth and one for  *)
(* its falsity, over a document and what was looked up for it.             *)
EXTENDS ThreeValued, Sequences, FiniteSets, SequencesExt

CONSTANTS Store,      \* rows of v: [sid, lid, ts, a, ref, kids]
          Targets,    \* rows that v.ref points at: [sid -> [lid, ts, d]]
          Options,    \* how the searcher may be asked for: [as_of, only_latest]
          Relations,  \* comparisons asked, among =, !=, <, >=
          Literals,   \* what fields are compared with, None (Null) included
          ValueSets,  \* operands of the set predicates
          MaxLeaves,  \* comparisons in one search
          MaxInverts  \* negations in one search

ASSUME StoreAssumption ==
  /\ Literals \subseteq Nat /\ ValueSets \subseteq SUBSET Nat
  /\ \A r \in Store : /\ r.ref \in DOMAIN Targets \cup {Null} /\ Null \notin r.kids
                      /\ r.ref # Null => Targets[r.ref].ts <= r.ts
Columns == <<"kids", "kids 2", "kids 3", "kids 4">>  \* the joins of a child table
ASSUME LeavesAssumption == MaxLeaves \in 1 .. Len(Columns)

VARIABLES cutoff,    \* as_of, or Null
          latest,    \* only_latest
          joined,    \* whether w was declared
          followed,  \* whether a field of v.ref was named: its join exists
          columns,   \* child columns named so far; each has a join of its own
          stack,     \* expressions in the caller's hands
          added      \* expressions the searcher applies, injected ones included
searchVars == <<cutoff, latest, joined, followed, columns, stack, added>>

Complement(rel) ==
  CASE rel = "=" -> "!=" [] rel = "!=" -> "=" [] rel = "<" -> ">=" [] rel = ">=" -> "<"
    [] rel = "<=" -> ">"
(* A comparison with a literal; with None it asks whether the field is set. *)
Against(rel, x, literal) ==
  IF literal = Null THEN Truth((rel = "=") = (x = Null)) ELSE Compared(rel, x, literal)

(* Expressions.                                                            *)
Node(op, path, rel, args, sub) == [op |-> op, path |-> path, rel |-> rel, args |-> args, sub |-> sub]
Compare(path, rel, value) == Node("compare", path, rel, {value}, <<>>)
IsIn(path, values) == Node("in", path, "=", values, <<>>)
ChildCompare(column, rel, value) == Node("child", column, rel, {value}, <<>>)
HasAny(column, values) == Node("any", column, "=", values, <<>>)
HasOnly(column, values) == Node("only", column, "=", values, <<>>)
Constant(b) == Node(IF b THEN "always_true" ELSE "always_false", "v", "=", {}, <<>>)
Equal(path, other) == Node("equal", path, other, {}, <<>>)
Latest(variable) == Node("latest", variable, "=", {}, <<>>)
Conjoin(x, y) == Node("and", "v", "=", {}, <<x, y>>)
Disjoin(x, y) == Node("or", "v", "=", {}, <<x, y>>)
Invert(x) == Node("not", "v", "=", {}, <<x>>)
Literal(e) == CHOOSE x \in e.args : TRUE

(* The value of a field for a match m = [row, other]: v.f, w.f, v.ref.f.   *)
Field(m, path) ==
  CASE path = "v.a" -> m.row.a
    [] path = "v.ref" -> m.row.ref
    [] path = "v.ts" -> m.row.ts
    [] path = "ref.d" -> IF m.row.ref = Null THEN Null ELSE Targets[m.row.ref].d
    [] path = "ref.ts" -> IF m.row.ref = Null THEN Null ELSE Targets[m.row.ref].ts
    [] path = "w" -> m.other
    [] path = "w.d" -> IF m.other = Null THEN Null ELSE Targets[m.other].d
    [] path = "w.ts" -> IF m.other = Null THEN Null ELSE Targets[m.other].ts

InTime(ts) == cutoff = Null \/ ts <= cutoff
(* No newer row of the lineage, newer ones after the cutoff apart.         *)
LatestOf(m, variable) ==
  IF variable = "v"
  THEN ~\E r \in Store : r.lid = m.row.lid /\ r.sid > m.row.sid /\ InTime(r.ts)
  ELSE m.other # Null => ~\E t \in DOMAIN Targets :
         Targets[t].lid = Targets[m.other].lid /\ t > m.other /\ InTime(Targets[t].ts)

(* Membership; what it is of a NULL field is the backend's choice (nullIn). *)
MemberOf(x, values, nullIn) == IF x = Null /\ Null \notin values THEN nullIn ELSE Truth(x \in values)
(* A condition on one value, or on none.                                   *)
Plain(e, m, nullIn) ==
  CASE e.op = "compare" -> Against(e.rel, Field(m, e.path), Literal(e))
    [] e.op = "in" -> MemberOf(Field(m, e.path), e.args, nullIn)
    [] e.op = "equal" -> Compared("=", Field(m, e.path), Field(m, e.rel))
    [] e.op = "latest" -> Truth(LatestOf(m, e.path))
    [] e.op = "always_true" -> "true"
    [] e.op = "always_false" -> "false"

(* What an expression means for a match: Kleene logic over its conditions,  *)
(* with set predicates about all of the children.                          *)
RECURSIVE Means(_, _, _)
Means(e, m, nullIn) ==
  CASE e.op = "child" -> Truth(\E k \in m.row.kids : Holds(e.rel, k, Literal(e)))
    [] e.op = "any" -> Truth(m.row.kids \cap e.args # {})
    [] e.op = "only" -> Truth(m.row.kids \subseteq e.args)
    [] e.op = "any_ref" -> Truth(m.row.ref \in e.args)
    [] e.op = "only_ref" -> Truth(m.row.ref \in e.args \cup {Null})
    [] e.op = "and" -> And3(Means(e.sub[1], m, nullIn), Means(e.sub[2], m, nullIn))
    [] e.op = "or" -> Or3(Means(e.sub[1], m, nullIn), Means(e.sub[2], m, nullIn))
    [] e.op = "not" -> Not3(Means(e.sub[1], m, nullIn))
    [] OTHER -> Plain(e, m, nullIn)

Matches == {[row |-> r, other |-> t] : r \in Store, t \in IF joined THEN DOMAIN Targets ELSE {Null}}
Meant(es, nullIn) == {m \in Matches : \A e \in Range(es) : Means(e, m, nullIn) = "true"}
-----------------------------------------------------------------------------
(* SQL.  The rows of a match: the outer join of each child column holds    *)
(* one child, or NULL when there is none; the root fields are the same in  *)
(* all of them.                                                            *)
JoinedRows(m, cols) == [cols -> IF m.row.kids = {} THEN {Null} ELSE m.row.kids]

IsMember(x, values) == IF x = Null THEN "unknown" ELSE Truth(x \in values)
(* Whether the truth of an expression is a fact about all rows of a match. *)
RECURSIVE SetDerived(_)
SetDerived(e) == \/ e.op \in {"child", "any", "only", "any_ref", "only_ref"}
                 \/ \E i \in DOMAIN e.sub : SetDerived(e.sub[i])
(* Whether its WHERE rendering says less than it means, so that HAVING is  *)
(* needed too: the for-all forms, and the negation of a set-derived one.   *)
RECURSIVE Post(_)
Post(e) == \/ e.op \in {"only", "only_ref"}
           \/ e.op = "not" /\ SetDerived(e.sub[1])
           \/ \E i \in DOMAIN e.sub : Post(e.sub[i])

(* The rendering for one joined row.  A negated set-derived expression     *)
(* says nothing of a single row.                                           *)
InvertedWhereRow(e, where) == Not3(where)
InvertedWhere(e, where) == IF SetDerived(e) THEN "true" ELSE Not3(where)
RECURSIVE Where(_, _, _)
Where(e, m, pick) ==
  CASE e.op = "child" -> Compared(e.rel, pick[e.path], Literal(e))
    [] e.op = "any" -> IsMember(pick[e.path], e.args)
    [] e.op = "any_ref" -> IsMember(m.row.ref, e.args)
    [] e.op \in {"only", "only_ref"} -> "true"
    [] e.op = "and" -> And3(Where(e.sub[1], m, pick), Where(e.sub[2], m, pick))
    [] e.op = "or" -> Or3(Where(e.sub[1], m, pick), Where(e.sub[2], m, pick))
    [] e.op = "not" -> InvertedWhere(e.sub[1], Where(e.sub[1], m, pick))
    [] OTHER -> Plain(e, m, "false")

(* The rendering for the rows of a match that WHERE left: the set          *)
(* predicates count rows, and a NULL row is neither a member nor not one.  *)
AnyRow(e, m, picks) == Truth(\E pick \in picks : Where(e, m, pick) = "true")
NoRowOutside(e, picks) == Truth(\A pick \in picks : Not3(IsMember(pick[e.path], e.args)) # "true")
RECURSIVE Having(_, _, _)
Having(e, m, picks) ==
  CASE e.op \in {"child", "any", "any_ref"} -> AnyRow(e, m, picks)
    [] e.op = "only" -> NoRowOutside(e, picks)
    [] e.op = "only_ref" -> Truth(Not3(IsMember(m.row.ref, e.args)) # "true")
    [] e.op = "and" -> And3(Having(e.sub[1], m, picks), Having(e.sub[2], m, picks))
    [] e.op = "or" -> Or3(Having(e.sub[1], m, picks), Having(e.sub[2], m, picks))
    [] e.op = "not" -> Not3(Having(e.sub[1], m, picks))
    [] OTHER -> Plain(e, m, "false")

SqlMatches(es, cols) ==
  {m \in Matches :
     LET kept == {pick \in JoinedRows(m, cols) : \A e \in Range(es) : Where(e, m, pick) = "true"}
     IN /\ kept # {}
        /\ \A e \in Range(es) : Post(e) => Having(e, m, kept) = "true"}
-----------------------------------------------------------------------------
(* MongoDB.  The truth and the falsity of each kind of node.               *)
MongoCompareAbsent(rel, x, literal) ==
  LET holds == IF literal = Null THEN (rel = "=") = (x = Null) ELSE x # Null /\ Holds(rel, x, literal)
  IN [truth |-> holds, falsity |-> ~holds]
MongoCompare(rel, x, literal) ==
  IF literal = Null THEN [truth |-> (rel = "=") = (x = Null), falsity |-> (rel = "=") # (x = Null)]
  ELSE [truth |-> x # Null /\ Holds(rel, x, literal),
        falsity |-> x # Null /\ ~Holds(rel, x, literal)]
MongoIsIn(x, values) == [truth |-> x \in values, falsity |-> x # Null /\ x \notin values]
MongoChild(witnesses) == [truth |-> witnesses # {}, falsity |-> witnesses = {}]
MongoOnly(kids, values) == [truth |-> ~\E k \in kids : k \notin values, falsity |-> \E k \in kids : k \notin values]
MongoEqual(x, y) ==
  [truth |-> Null \notin {x, y} /\ x = y, falsity |-> Null \notin {x, y} /\ x # y]

RECURSIVE Render(_, _)
Render(e, m) ==
  CASE e.op = "compare" -> MongoCompare(e.rel, Field(m, e.path), Literal(e))
    [] e.op = "in" -> MongoIsIn(Field(m, e.path), e.args)
    [] e.op = "child" -> MongoChild({k \in m.row.kids : Holds(e.rel, k, Literal(e))})
    [] e.op = "any" -> MongoChild(m.row.kids \cap e.args)
    [] e.op = "only" -> MongoOnly(m.row.kids, e.args)
    [] e.op = "equal" -> MongoEqual(Field(m, e.path), Field(m, e.rel))
    [] e.op = "latest" -> [truth |-> LatestOf(m, e.path), falsity |-> ~LatestOf(m, e.path)]
    [] e.op = "always_true" -> [truth |-> TRUE, falsity |-> FALSE]
    [] e.op = "always_false" -> [truth |-> FALSE, falsity |-> TRUE]
    [] e.op = "and" -> [truth |-> Render(e.sub[1], m).truth /\ Render(e.sub[2], m).truth,
                        falsity |-> Render(e.sub[1], m).falsity \/ Render(e.sub[2], m).falsity]
    [] e.op = "or" -> [truth |-> Render(e.sub[1], m).truth \/ Render(e.sub[2], m).truth,
                       falsity |-> Render(e.sub[1], m).falsity /\ Render(e.sub[2], m).falsity]
    [] e.op = "not" -> [truth |-> Render(e.sub[1], m).falsity, falsity |-> Render(e.sub[1], m).truth]

(* A second variable is looked up through an equality that every match     *)
(* must satisfy; the first such one is the source.                         *)
RECURSIVE Required(_)
Required(e) == CASE e.op = "and" -> Required(e.sub[1]) \cup Required(e.sub[2])
                 [] e.op \in {"or", "not"} -> {}
                 [] OTHER -> {e}
Sources(es) == {e \in UNION {Required(x) : x \in Range(es)} : e.op = "equal"}
LookedUp(e, row) ==
  {t \in DOMAIN Targets : Field([row |-> row, other |-> t], e.path) = Field([row |-> row, other |-> t], e.rel)}
Documents(row, es) ==
  IF ~joined THEN {Null}
  ELSE LET found == LookedUp(CHOOSE e \in Sources(es) : TRUE, row)
       IN IF found = {} THEN {Null} ELSE found

MongoSupports(es) == joined => Sources(es) # {}
MongoMatches(es) ==
  {m \in UNION {{[row |-> r, other |-> t] : t \in Documents(r, es)} : r \in Store} :
     \A e \in Range(es) : Render(e, m).truth}
-----------------------------------------------------------------------------
RECURSIVE Leaves(_)
Leaves(e) == IF e.sub = <<>> THEN 1 ELSE FoldLeft(LAMBDA n, x : n + Leaves(x), 0, e.sub)
RECURSIVE Inverts(_)
Inverts(e) == FoldLeft(LAMBDA n, x : n + Inverts(x), IF e.op = "not" THEN 1 ELSE 0, e.sub)
Total(Count(_)) == FoldLeft(LAMBDA n, e : n + Count(e), 0, stack \o added)
Injected(e) == e.op = "latest" \/ e.path \in {"v.ts", "ref.ts", "w.ts"}
CanAsk == Leaves(Constant(TRUE)) + Total(LAMBDA e : IF Injected(e) THEN 0 ELSE Leaves(e)) <= MaxLeaves

(* The conditions a variable brings with it.                               *)
Cut(path) == IF cutoff = Null THEN <<>> ELSE <<Compare(path, "<=", cutoff)>>
Newest(variable) == IF latest THEN <<Latest(variable)>> ELSE <<>>

SearchInit ==
  /\ \E option \in Options : cutoff = option.as_of /\ latest = option.only_latest
  /\ joined = FALSE /\ followed = FALSE /\ columns = {} /\ stack = <<>>
  /\ added = Cut("v.ts") \o Newest("v")

Push(e) == CanAsk /\ stack' = Append(stack, e)
(* searcher.variable(): a second variable, w.                              *)
Variable ==
  /\ ~joined /\ joined' = TRUE
  /\ added' = added \o Cut("w.ts") \o Newest("w")
  /\ UNCHANGED <<cutoff, latest, followed, columns, stack>>
(* A comparison of a field of v or w with a literal or with None.          *)
AskField ==
  /\ \E path \in {"v.a", "v.ref"} \cup (IF joined THEN {"w.d"} ELSE {}), rel \in Relations, x \in Literals :
       /\ x = Null \/ path = "v.ref" => rel \in {"=", "!="}
       /\ Push(Compare(path, rel, x))
  /\ UNCHANGED <<cutoff, latest, joined, followed, columns, added>>
(* The same of a field reached through v.ref, which joins its row once.    *)
AskReference ==
  /\ \E rel \in Relations, x \in Literals :
       (x = Null => rel \in {"=", "!="}) /\ Push(Compare("ref.d", rel, x))
  /\ followed' = TRUE
  /\ added' = IF followed THEN added ELSE added \o Cut("ref.ts")
  /\ UNCHANGED <<cutoff, latest, joined, columns>>
AskMember ==
  /\ \E values \in ValueSets : Push(IsIn("v.a", values))
  /\ UNCHANGED <<cutoff, latest, joined, followed, columns, added>>
(* A predicate on the child list; naming the field opens a new column.     *)
AskChild ==
  LET column == Columns[Cardinality(columns) + 1] IN
  /\ \/ \E rel \in Relations, x \in Literals \ {Null} : Push(ChildCompare(column, rel, x))
     \/ \E values \in ValueSets : Null \notin values /\ Push(HasAny(column, values))
     \/ \E values \in ValueSets : Null \notin values /\ Push(HasOnly(column, values))
  /\ columns' = columns \cup {column}
  /\ UNCHANGED <<cutoff, latest, joined, followed, added>>
(* v.ref == w, or v.a == w.d.                                              *)
AskJoin ==
  /\ joined
  /\ \E e \in {Equal("v.ref", "w"), Equal("v.a", "w.d")} : Push(e)
  /\ UNCHANGED <<cutoff, latest, joined, followed, columns, added>>
AskConstant ==
  /\ \E b \in BOOLEAN : Push(Constant(b))
  /\ UNCHANGED <<cutoff, latest, joined, followed, columns, added>>

Replaced(n, e) == Append(SubSeq(stack, 1, Len(stack) - n), e)
Combine ==
  /\ Len(stack) > 1
  /\ LET x == stack[Len(stack) - 1]
         y == stack[Len(stack)]
     IN \/ stack' = Replaced(2, Conjoin(x, y))
        \/ stack' = Replaced(2, Disjoin(x, y))
  /\ UNCHANGED <<cutoff, latest, joined, followed, columns, added>>
Negate ==
  /\ stack # <<>> /\ Total(Inverts) < MaxInverts
  /\ stack' = Replaced(1, Invert(Last(stack)))
  /\ UNCHANGED <<cutoff, latest, joined, followed, columns, added>>
(* searcher.add().                                                         *)
Add ==
  /\ stack # <<>>
  /\ added' = Append(added, Last(stack)) /\ stack' = Front(stack)
  /\ UNCHANGED <<cutoff, latest, joined, followed, columns>>

SearchNext == \/ Variable \/ AskField \/ AskReference \/ AskMember \/ AskChild \/ AskJoin
              \/ AskConstant \/ Combine \/ Negate \/ Add
SearchSpec == SearchInit /\ [][SearchNext]_searchVars
-----------------------------------------------------------------------------
(* What SQL selects with a condition per joined row and one per match is   *)
(* what the expressions mean for the records, however they are composed.   *)
(* (searcher.py)                                                           *)
SqlMeansIt == SqlMatches(added, columns) = Meant(added, "false")
(* What MongoDB selects, when it does not refuse the search, is what the   *)
(* expressions mean: no record is lost to the lookup of the second         *)
(* variable, and a negation is not a record with another value.            *)
MongoMeansIt == MongoSupports(added) => MongoMatches(added) = Meant(added, "unknown")
=============================================================================
