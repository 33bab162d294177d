-------------------------- MODULE StoredPredicates --------------------------
(* Predicates that a record class declares for its stored properties.      *)
(*                                                                         *)
(* A declaration builds them over scopes: the record (root), the record it *)
(* refers to (ref), its child records (kids; asked for twice, kids and     *)
(* kids2, they are two scopes) and the record each child refers to         *)
(* (kids.ref).  SQL makes every scope a set of aliases, every quantifier   *)
(* and every field reached by reference a correlated subquery, and says of *)
(* each subquery which aliases it takes from the queries around it.        *)
(* MongoDB streams candidates and evaluates the predicate on each hydrated *)
(* record, with an environment of the scopes that are bound.               *)
EXTENDS ThreeValued, Sequences, FiniteSets, SequencesExt

CONSTANTS Records,     \* the records: [sid, a, ref, kids], kids a sequence of [v, ref]
          Referred,    \* what they and their children refer to: [sid -> value]
          Comparisons, \* the comparisons declarations make
          Quantified,  \* the collections they quantify over
          Counts,      \* what they compare counts with
          MaxCalls     \* calls that build one predicate

VARIABLES held,   \* predicates in the declaration's hands
          calls   \* calls made so far
predicateVars == <<held, calls>>

(* Scopes.                                                                 *)
ScopeParent(id) == IF id = "kids.ref" THEN "kids" ELSE "root"
Singleton(id) == id \in {"root", "ref"}
Scope(id) == [id |-> id, filter |-> <<>>]
Filtered(id, p) == [id |-> id, filter |-> <<p>>]

(* Values and predicates, as QueryContext makes them.                      *)
FieldOf(id, name) == [kind |-> "field", scope |-> Scope(id), name |-> name, literal |-> Null]
Fixed(x) == [kind |-> "constant", scope |-> Scope("root"), name |-> "", literal |-> x]
NullValue == [kind |-> "null", scope |-> Scope("root"), name |-> "", literal |-> Null]
CountOf(scope) == [kind |-> "count", scope |-> scope, name |-> "", literal |-> Null]
DistinctOf(scope, name) == [kind |-> "distinct", scope |-> scope, name |-> name, literal |-> Null]
Predicate(op, rel, values, scopes, sub) == [op |-> op, rel |-> rel, values |-> values, scopes |-> scopes, sub |-> sub]
Compares(left, rel, right) == Predicate("compare", rel, <<left, right>>, <<>>, <<>>)
Scaled(left, leftFactor, right, rightFactor) ==
  Predicate("scaled", "=", <<left, leftFactor, right, rightFactor>>, <<>>, <<>>)
IsNull(value) == Predicate("is_null", "=", <<value>>, <<>>, <<>>)
Always(truth) == Predicate("constant", truth, <<>>, <<>>, <<>>)  \* "unknown": a property without backing
Exists(scope, p) == Predicate("exists", "", <<>>, <<scope>>, <<p>>)
Combined(op, p, q) == Predicate(op, "", <<>>, <<>>, <<p, q>>)
Denied(p) == Predicate("not", "", <<>>, <<>>, <<p>>)
(* A count is one more than what is counted, for 0 is NULL.                *)
Counted(n) == n + 1

(* What both backends make of a comparison and of a conditional.           *)
Judged(rel, left, x, right, y) ==
  IF "null" \in {left.kind, right.kind} /\ rel \in {"=", "!="}
  THEN Truth((rel = "=") = (IF left.kind = "null" THEN y = Null ELSE x = Null))
  ELSE Compared(rel, x, y)
JudgedScaled(x, f, y, g) == IF Null \in {x, f, y, g} THEN "unknown" ELSE Truth(x * f = y * g)
IfKnown(known, truth) == IF known = "true" THEN truth ELSE "unknown"
Connected(op, x, y) ==
  CASE op = "and" -> And3(x, y) [] op = "or" -> Or3(x, y) [] op = "when_known" -> IfKnown(x, y)
-----------------------------------------------------------------------------
(* The tables: a row for each record, for each place in a list of children, *)
(* and for each record referred to.                                        *)
Kid(r, i) == [owner |-> r.sid, pos |-> i, v |-> r.kids[i].v, ref |-> r.kids[i].ref]
KidRows == UNION {{Kid(r, i) : i \in DOMAIN r.kids} : r \in Records}
ReferredRow(sid) == [sid |-> sid, d |-> Referred[sid]]
TableRows(alias) ==
  CASE alias = "root" -> Records
    [] alias \in {"kids", "kids2"} -> KidRows
    [] alias \in {"ref", "kids.ref"} -> {ReferredRow(sid) : sid \in DOMAIN Referred}
Linked(alias, env) ==
  CASE alias = "root" -> TRUE
    [] alias \in {"kids", "kids2"} -> env[alias].owner = env["root"].sid
    [] OTHER -> env[ScopeParent(alias)].ref = env[alias].sid

(* SQL.  A scope's subquery selects from the scope's own aliases, and may  *)
(* take its ancestors' from the queries around it.                         *)
Froms(id) == IF id = "kids.ref" THEN {"kids", "kids.ref"} ELSE {id}
Ancestors(id) == IF id = "kids.ref" THEN {"root", "kids"} ELSE {"root"}

(* A subquery: its conditions, and the aliases it is correlated to.        *)
Subquery(kind, scope, name, conditions, correlated) ==
  [kind |-> kind, scope |-> scope, name |-> name, literal |-> Null, conditions |-> conditions, correlated |-> correlated]
IsSubquery(x) == "correlated" \in DOMAIN x
(* The subqueries directly in a clause also take these aliases from the    *)
(* query the clause is put in.                                             *)
NotCorrelated(clause, aliases) == clause
RECURSIVE Correlated(_, _)
Correlated(clause, aliases) ==
  LET Part(x) == IF IsSubquery(x) THEN [x EXCEPT !.correlated = @ \cup aliases] ELSE x
  IN [clause EXCEPT !.values = [i \in DOMAIN @ |-> Part(@[i])],
                    !.scopes = [i \in DOMAIN @ |-> Part(@[i])],
                    !.sub = [i \in DOMAIN @ |-> Correlated(@[i], aliases)]]

RECURSIVE Clause(_)
Conditions(scope) == [i \in DOMAIN scope.filter |-> Correlated(Clause(scope.filter[i]), Froms(scope.id))]
ValueClause(v) ==
  CASE v.kind \in {"count", "distinct"} -> Subquery(v.kind, v.scope.id, v.name, Conditions(v.scope), Ancestors(v.scope.id))
    [] v.kind = "field" /\ v.scope.id # "root" /\ Singleton(v.scope.id) ->
         Subquery("scalar", v.scope.id, v.name, Conditions(v.scope), Ancestors(v.scope.id))
    [] OTHER -> v
Clause(p) ==
  IF p.op = "exists"
  THEN LET scope == p.scopes[1]
           nested == Correlated(Clause(p.sub[1]), Froms(scope.id))
       IN [p EXCEPT !.scopes = <<Subquery("exists", scope.id, "", Append(Conditions(scope), nested), Ancestors(scope.id))>>,
                    !.sub = <<>>]
  ELSE [p EXCEPT !.values = [i \in DOMAIN @ |-> ValueClause(@[i])],
                 !.sub = [i \in DOMAIN @ |-> Clause(@[i])]]

(* The aliases a clause names outside its subqueries.                      *)
RECURSIVE Named(_)
Named(clause) ==
  {v.scope.id : v \in {u \in Range(clause.values) : u.kind = "field"}} \cup UNION {Named(c) : c \in Range(clause.sub)}
(* What a subquery selects from: its own aliases and those its conditions  *)
(* name, except what it may and can take from around it.                   *)
LocalAliases(query, env) ==
  LET linked == UNION {{a, ScopeParent(a)} : a \in Froms(query.scope)}
  IN (Froms(query.scope) \cup linked \cup UNION {Named(c) : c \in Range(query.conditions)})
       \ (query.correlated \cap DOMAIN env)
Joined(aliases, env) ==
  FoldSet(LAMBDA alias, envs : UNION {{(alias :> row) @@ e : row \in TableRows(alias)} : e \in envs},
          {[a \in DOMAIN env \ aliases |-> env[a]]}, aliases)

RECURSIVE SqlTruth(_, _)
SubqueryRows(query, env) ==
  {e \in Joined(LocalAliases(query, env), env) :
     /\ \A alias \in Froms(query.scope) : Linked(alias, e)
     /\ \A i \in DOMAIN query.conditions : SqlTruth(query.conditions[i], e) = "true"}
SqlValue(v, env) ==
  CASE v.kind = "constant" -> v.literal
    [] v.kind = "null" -> Null
    [] v.kind = "field" -> env[v.scope.id][v.name]
    [] v.kind = "count" -> Counted(Cardinality(SubqueryRows(v, env)))
    [] v.kind = "distinct" -> Counted(Cardinality({e[v.scope][v.name] : e \in SubqueryRows(v, env)} \ {Null}))
    [] v.kind = "scalar" -> LET rows == SubqueryRows(v, env)
                            IN IF rows = {} THEN Null ELSE (CHOOSE e \in rows : TRUE)[v.scope][v.name]
SqlTruth(clause, env) ==
  LET V(i) == SqlValue(clause.values[i], env)
  IN CASE clause.op = "constant" -> clause.rel
       [] clause.op = "compare" -> Judged(clause.rel, clause.values[1], V(1), clause.values[2], V(2))
       [] clause.op = "scaled" -> JudgedScaled(V(1), V(2), V(3), V(4))
       [] clause.op = "is_null" -> Truth(V(1) = Null)
       [] clause.op = "exists" -> Truth(SubqueryRows(clause.scopes[1], env) # {})
       [] clause.op = "not" -> Not3(SqlTruth(clause.sub[1], env))
       [] OTHER -> Connected(clause.op, SqlTruth(clause.sub[1], env), SqlTruth(clause.sub[2], env))
-----------------------------------------------------------------------------
(* MongoDB.  The items of a scope: the bound one, or what its parent's     *)
(* items lead to, and of these the ones that satisfy the scope's filter.   *)
Related(item, id) ==
  IF id \in {"kids", "kids2"} THEN [i \in DOMAIN item.kids |-> Kid(item, i)]
  ELSE IF item.ref = Null THEN <<>> ELSE <<ReferredRow(item.ref)>>
RECURSIVE Evaluated(_, _)
RECURSIVE Items(_, _)
Items(scope, env) ==
  IF scope.id \in DOMAIN env THEN <<env[scope.id]>>
  ELSE LET parents == Items(Scope(ScopeParent(scope.id)), env)
           found == FlattenSeq([i \in DOMAIN parents |-> Related(parents[i], scope.id)])
       IN SelectSeq(found, LAMBDA item :
            \A i \in DOMAIN scope.filter : Evaluated(scope.filter[i], (scope.id :> item) @@ env) = "true")
EvaluatedValue(v, env) ==
  LET items == Items(v.scope, env)
  IN CASE v.kind \in {"constant", "null"} -> v.literal
       [] v.kind = "count" -> Counted(Len(items))
       [] v.kind = "distinct" -> Counted(Cardinality({item[v.name] : item \in Range(items)} \ {Null}))
       [] v.kind = "field" -> IF Len(items) = 1 THEN items[1][v.name] ELSE Null
Evaluated(p, env) ==
  LET V(i) == EvaluatedValue(p.values[i], env)
  IN CASE p.op = "constant" -> p.rel
       [] p.op = "compare" -> Judged(p.rel, p.values[1], V(1), p.values[2], V(2))
       [] p.op = "scaled" -> JudgedScaled(V(1), V(2), V(3), V(4))
       [] p.op = "is_null" -> Truth(V(1) = Null)
       [] p.op = "exists" -> Truth(\E item \in Range(Items(p.scopes[1], env)) :
                               Evaluated(p.sub[1], (p.scopes[1].id :> item) @@ env) = "true")
       [] p.op = "not" -> Not3(Evaluated(p.sub[1], env))
       [] OTHER -> Connected(p.op, Evaluated(p.sub[1], env), Evaluated(p.sub[2], env))

(* What each backend makes of a predicate for one candidate record.        *)
SqlVerdict(p, r) == SqlTruth(Clause(p), "root" :> r)
MongoVerdict(p, r) == Evaluated(p, "root" :> r)
-----------------------------------------------------------------------------
(* A declaration builds its predicate call by call.                        *)
PredicateInit == held = <<>> /\ calls = 0
Call(n, p) ==
  /\ Len(held) >= n /\ Len(held) - n + 1 <= MaxCalls - calls  \* the rest can still become one
  /\ held' = Append(SubSeq(held, 1, Len(held) - n), p) /\ calls' = calls + 1
Top(n) == held[Len(held) + 1 - n]

DeclareComparison == \E p \in Comparisons : Call(0, p)
DeclareNot == held # <<>> /\ Call(1, Denied(Top(1)))
DeclareBoth == Len(held) > 1 /\ \E op \in {"and", "or", "when_known"} : Call(2, Combined(op, Top(2), Top(1)))
DeclareExists == held # <<>> /\ \E id \in Quantified : Call(1, Exists(Scope(id), Top(1)))
DeclareExistsFiltered == Len(held) > 1 /\ \E id \in Quantified : Call(2, Exists(Filtered(id, Top(2)), Top(1)))
DeclareCount ==
  /\ held # <<>>
  /\ \E id \in Quantified, n \in Counts :
       Call(1, Compares(CountOf(Filtered(id, Top(1))), "=", Fixed(Counted(n))))
DeclareDistinctCount ==
  /\ held # <<>>
  /\ \E id \in Quantified \cap {"kids", "kids2"}, n \in Counts :
       Call(1, Compares(DistinctOf(Filtered(id, Top(1)), "v"), "=", Fixed(Counted(n))))
PredicateNext == \/ DeclareComparison \/ DeclareNot \/ DeclareBoth \/ DeclareExists \/ DeclareExistsFiltered
                 \/ DeclareCount \/ DeclareDistinctCount
PredicateSpec == PredicateInit /\ [][PredicateNext]_predicateVars
-----------------------------------------------------------------------------
(* The collections a predicate names and does not quantify over, and the   *)
(* scopes it quantifies over.                                              *)
RECURSIVE Free(_)
FreeIn(scope, inner) == (inner \cup UNION {Free(q) : q \in Range(scope.filter)}) \ {scope.id}
Free(p) ==
  LET values == UNION {IF v.kind = "field" THEN {v.scope.id} ELSE FreeIn(v.scope, {}) : v \in Range(p.values)}
      inner == UNION {Free(q) : q \in Range(p.sub)}
  IN {id \in values \cup (IF p.op = "exists" THEN FreeIn(p.scopes[1], inner) ELSE inner) : ~Singleton(id)}

(* The scopes whose aliases a predicate selects from.                      *)
RECURSIVE Selects(_)
Opens(scope) == Froms(scope.id) \cup UNION {Selects(q) : q \in Range(scope.filter)}
Selects(p) ==
  (UNION {Selects(q) : q \in Range(p.sub)}) \cup UNION {Opens(scope) : scope \in Range(p.scopes)}
    \cup UNION {Opens(v.scope) : v \in {u \in Range(p.values) : u.kind \in {"count", "distinct"}}}
(* Each quantifier has a scope of its own: none is quantified again, and   *)
(* none a part of whose path is quantified, within its quantification.     *)
RECURSIVE Fresh(_)
FreshIn(scope, inner) ==
  /\ \A q \in Range(scope.filter) \cup inner : Fresh(q)
  /\ \A q \in Range(scope.filter) \cup inner : scope.id \notin Selects(q) /\ (scope.id = "kids.ref" => "kids" \notin Selects(q))
Fresh(p) ==
  /\ \A v \in Range(p.values) : v.kind = "field" \/ FreshIn(v.scope, {})
  /\ IF p.op = "exists" THEN FreshIn(p.scopes[1], Range(p.sub)) ELSE \A q \in Range(p.sub) : Fresh(q)

(* Whether each query's conditions name only its own scopes, those of the  *)
(* query it is put in, and its ancestors.                                  *)
RECURSIVE Near(_, _, _)
NearIn(scope, inner, around) ==
  \A q \in Range(scope.filter) \cup inner : Near(q, Froms(scope.id), Froms(scope.id) \cup around \cup Ancestors(scope.id))
Near(p, here, visible) ==
  /\ \A v \in Range(p.values) : IF v.kind = "field" THEN v.scope.id \in visible \cup {"ref"} ELSE NearIn(v.scope, {}, here)
  /\ IF p.op = "exists" THEN NearIn(p.scopes[1], Range(p.sub), here) ELSE \A q \in Range(p.sub) : Near(q, here, visible)

Whole == {p \in Range(held) : Free(p) = {} /\ Fresh(p)}
Agreed(p) == \A r \in Records : SqlVerdict(p, r) = MongoVerdict(p, r)
(* A stored property's predicate is true, false or unknown of a record     *)
(* alike in SQL and MongoDB: the subqueries it becomes, each put into      *)
(* others after it was made, select from and correlate to the scopes that  *)
(* it binds in the evaluation of hydrated records.                         *)
(* (stored_properties.py, evaluator.py)                                    *)
BackendsAgree == \A p \in Whole : Near(p, {"root"}, {"root"}) => Agreed(p)
(* "Make that relationship explicit for every nested EXISTS or scalar      *)
(* subquery": the same, also of a condition that names a scope that is     *)
(* quantified more than one query further out.                             *)
NestedCorrelated == \A p \in Whole : Agreed(p)
=============================================================================
