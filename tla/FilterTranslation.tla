------------------------- MODULE FilterTranslation -------------------------
(* An OPTIMADE filter and the search it becomes.                           *)
(*                                                                         *)
(* A filter over the properties of v is translated leaf by leaf, from left *)
(* to right.  A leaf about a related entry (ref.d = 1) is answered first   *)
(* by a search of its own, whose result goes into the main search as a set *)
(* of ids; the main search runs later.  Other sessions save rows meanwhile.*)
EXTENDS SearchRendering

CONSTANTS Shapes,        \* how the leaves are composed with AND, OR, NOT
          Leafs,         \* what the leaves may be
          LaterRows,     \* rows of v that are saved while a filter is served
          LaterTargets   \* rows of the related class that are

ASSUME LaterAssumption ==
  \A r \in Store \ LaterRows : r.ref \notin LaterTargets /\ r.kids \cap LaterTargets = {}

VARIABLES backend,   \* "sql" or "mongo"
          shape,     \* the filter: a tree over leaf numbers
          leaves,    \* and its leaves
          exprs,     \* expressions of the leaves translated so far
          grown,     \* whether the later rows have been saved
          began,     \* whether they had been when the translation began
          outcome    \* "none", "search", or why the filter was refused
filterVars == <<backend, shape, leaves, exprs, grown, began, outcome>>

(* Syntax.                                                                 *)
Operand(kind, path, value) == [kind |-> kind, path |-> path, value |-> value]
Identifier(path) == Operand("Identifier", path, 0)
Number(n) == Operand("Number", <<>>, n)
Text(type, sid) == Operand("String", <<type>>, sid)  \* "<type>-<sid>"
Leaf(op, left, right, values) == [op |-> op, left |-> left, right |-> right, values |-> values]
Comparison(op, left, right) == Leaf(op, left, right, <<>>)
Has(op, path, values) == Leaf(op, Identifier(path), Identifier(<<>>), values)
Length(path, n) == Leaf("LENGTH", Identifier(path), n, <<>>)
Known(op, path) == Leaf(op, Identifier(path), Identifier(<<>>), <<>>)

Shape(op, leaf, sub) == [op |-> op, leaf |-> leaf, sub |-> sub]
RECURSIVE LeafCount(_)
LeafCount(s) == IF s.op = "leaf" THEN 1 ELSE FoldLeft(LAMBDA n, x : n + LeafCount(x), 0, s.sub)

(* The served properties.                                                  *)
Fulltype == [a |-> "integer", kids |-> "list of integer", id |-> "string", type |-> "string"]
RelatedFulltype == [d |-> "integer", id |-> "string"]
Role == [ref |-> "reference", parts |-> "child"]  \* relations, both to Targets
Reserved == {"_httk_x"}                           \* unknown, with the prefix
ComparisonOps == {"=", "!=", "<", "<=", ">", ">="}
Inverted(op) == CASE op = ">" -> "<" [] op = "<" -> ">" [] op = "<=" -> ">=" [] op = ">=" -> "<=" [] OTHER -> op
ConstantKinds == {"String", "Number", "Boolean"}
Dotted(path) == Len(path) > 1 /\ path[1] \in DOMAIN Role

Refused(category) == Node("refused", category, "=", {}, <<>>)
IsRefused(e) == e.op = "refused"
Never == Constant(FALSE)

(* A property nobody declared: an error when it carries the prefix of this *)
(* server, otherwise a property whose value is never known.                *)
Undeclared(path, otherwise) ==
  IF path[1] \in Reserved THEN Refused("unrecognized-property") ELSE otherwise
Fits(fulltype, operand) ==
  CASE fulltype = "integer" -> operand.kind = "Number"
    [] fulltype = "string" -> operand.kind = "String"
(* "<type>-<sid>", or a sid that never exists.                             *)
NoSid == 99
RelatedSid(type, operand) == IF operand.path = <<type>> THEN operand.value ELSE NoSid
-----------------------------------------------------------------------------
(* The set predicates.  Each naming of a child field in SQL opens a column.*)
Opened(n, i) == Columns[2 * (n - 1) + i]
All(es) == FoldLeft(Conjoin, Head(es), Tail(es))
AnyReference(sids) == Node("any_ref", "v.ref", "=", sids, <<>>)
OnlyReference(sids) == Node("only_ref", "v.ref", "=", sids, <<>>)
SomeOf(role, column, values) ==
  IF role = "reference" THEN AnyReference(values) ELSE HasAny(column, values)
OnlyOf(role, column, values) ==
  IF role = "reference" THEN OnlyReference(values) ELSE HasOnly(column, values)
SetHandler(op, values, n, role) ==
  CASE op = "HAS_ALL" -> All([i \in DOMAIN values |-> SomeOf(role, Opened(n, i), {values[i]})])
    [] op = "HAS_ANY" -> SomeOf(role, Opened(n, 1), Range(values))
    [] op = "HAS_ONLY" -> OnlyOf(role, Opened(n, 1), Range(values))
SqlRelatedHas(relation, op, sids, n) == SetHandler(op, sids, n, Role[relation])

(* MongoDB has no set predicates over a reference: membership that is      *)
(* false, not unknown, of a reference that is not set.                     *)
MemberIfKnown(sid) == IsIn("v.ref", {sid})
Member(sid) == Conjoin(IsIn("v.ref", {sid}), Invert(Compare("v.ref", "=", Null)))
AnyMember(sids) == FoldLeft(LAMBDA e, sid : Disjoin(e, Member(sid)), Member(Head(sids)), Tail(sids))
MongoRelatedHas(relation, op, sids, n) ==
  CASE Role[relation] = "child" -> SetHandler(op, sids, n, "child")
    [] op = "HAS_ALL" -> All([i \in DOMAIN sids |-> Member(sids[i])])
    [] op = "HAS_ANY" -> AnyMember(sids)
    [] op = "HAS_ONLY" -> IsIn("v.ref", {Null} \cup Range(sids))
RelatedHas(relation, op, sids, n) ==
  IF backend = "sql" THEN SqlRelatedHas(relation, op, sids, n) ELSE MongoRelatedHas(relation, op, sids, n)
-----------------------------------------------------------------------------
(* The search for related entries: the leaf without the relation's name,   *)
(* as a predicate on a row t of Targets, or the reason to refuse it.       *)
RelatedRefusal(op, path, right) ==
  LET name == path[2] IN
  CASE Len(path) # 2 -> "not-implemented"
    [] name \notin DOMAIN RelatedFulltype ->
         IF name \in Reserved THEN "unrecognized-property" ELSE "none"
    [] op \in {"HAS_ALL", "HAS_ANY", "HAS_ONLY"} -> "TypeError"
    [] op \in ComparisonOps ->
         IF ~Fits(RelatedFulltype[name], right) THEN "type-mismatch"
         ELSE IF name = "id" /\ op \notin {"=", "!="} THEN "not-implemented" ELSE "none"
    [] OTHER -> "none"
IsRelated(op, path, right, t) ==
  LET name == path[2] IN
  CASE name \notin DOMAIN RelatedFulltype -> op = "IS_UNKNOWN"
    [] op \in {"IS_KNOWN", "IS_UNKNOWN"} -> op = "IS_KNOWN"
    [] name = "id" -> Holds(op, t, RelatedSid(path[1], right))
    [] name = "d" -> Against(op, Targets[t].d, right.value) = "true"

PresentTargets == IF grown THEN DOMAIN Targets ELSE DOMAIN Targets \ LaterTargets
SemiJoin(op, path, right, n) ==
  LET found == {t \in PresentTargets : IsRelated(op, path, right, t)}
  IN IF RelatedRefusal(op, path, right) # "none" THEN Refused(RelatedRefusal(op, path, right))
     ELSE IF found = {} THEN Never
     ELSE RelatedHas(path[1], "HAS_ANY", SetToSeq(found), n)
-----------------------------------------------------------------------------
(* The leaves.                                                             *)
TranslateHas(leaf, n) ==
  LET path == leaf.left.path IN
  CASE Dotted(path) /\ path[2] = "id" /\ Len(path) = 2 ->
         IF \E v \in Range(leaf.values) : ~Fits("string", v) THEN Refused("type-mismatch")
         ELSE RelatedHas(path[1], leaf.op, [i \in DOMAIN leaf.values |-> RelatedSid(path[1], leaf.values[i])], n)
    [] Dotted(path) /\ ~(path[2] = "id" /\ Len(path) = 2) -> SemiJoin(leaf.op, path, leaf.right, n)
    [] path[1] \notin DOMAIN Fulltype -> Undeclared(path, Never)
    [] path[1] \in {"a", "id", "type"} -> Refused("TypeError")
    [] path[1] = "kids" /\ ~Dotted(path) ->
         IF \E v \in Range(leaf.values) : ~Fits("integer", v) THEN Refused("type-mismatch")
         ELSE SetHandler(leaf.op, [i \in DOMAIN leaf.values |-> leaf.values[i].value], n, "child")

TranslateLength(leaf) ==
  LET path == leaf.left.path IN
  CASE Dotted(path) \/ leaf.right.kind # "Number" -> Refused("not-implemented")
    [] OTHER -> IF path[1] \notin DOMAIN Fulltype THEN Undeclared(path, Never) ELSE Refused("not-implemented")

(* A constant may come first; the property then goes to the left.          *)
TranslateComparison(leaf, n) ==
  LET turned == leaf.right.kind = "Identifier" /\ leaf.left.kind \in ConstantKinds
      left == IF turned THEN leaf.right ELSE leaf.left
      right == IF turned THEN leaf.left ELSE leaf.right
      op == IF turned THEN Inverted(leaf.op) ELSE leaf.op
      path == left.path
  IN
  CASE "Boolean" \in {left.kind, right.kind} /\ op \notin {"=", "!="} -> Refused("not-implemented")
    [] left.kind # "Identifier" \/ right.kind = "Identifier" -> Refused("not-implemented")
    [] OTHER ->
         IF Dotted(path) THEN SemiJoin(op, path, right, n)
         ELSE IF path[1] \notin DOMAIN Fulltype THEN Undeclared(path, Never)
         ELSE IF path[1] # "a" THEN Refused("not-implemented")
         ELSE IF ~Fits("integer", right) THEN Refused("type-mismatch")
         ELSE Compare("v.a", op, right.value)

(* A declared property is taken for known whatever its value.              *)
TranslateKnown(leaf, n) ==
  LET path == leaf.left.path IN
  CASE Dotted(path) -> SemiJoin(leaf.op, path, leaf.right, n)
    [] path[1] \in {"id", "type"} -> Refused("not-implemented")
    [] path[1] \in {"a", "kids"} -> Constant(leaf.op = "IS_KNOWN")
    [] OTHER -> Undeclared(path, Constant(leaf.op = "IS_UNKNOWN"))

Translated(leaf, n) ==
  CASE leaf.op \in {"HAS_ALL", "HAS_ANY", "HAS_ONLY"} -> TranslateHas(leaf, n)
    [] leaf.op = "LENGTH" -> TranslateLength(leaf)
    [] leaf.op \in ComparisonOps -> TranslateComparison(leaf, n)
    [] leaf.op \in {"IS_KNOWN", "IS_UNKNOWN"} -> TranslateKnown(leaf, n)

RECURSIVE Assembled(_)
Assembled(s) ==
  CASE s.op = "leaf" -> exprs[s.leaf]
    [] s.op = "AND" -> Conjoin(Assembled(s.sub[1]), Assembled(s.sub[2]))
    [] s.op = "OR" -> Disjoin(Assembled(s.sub[1]), Assembled(s.sub[2]))
    [] s.op = "NOT" -> Invert(Assembled(s.sub[1]))
-----------------------------------------------------------------------------
FilterInit ==
  /\ SearchInit /\ cutoff = Null /\ ~latest
  /\ backend \in {"sql", "mongo"} /\ shape \in Shapes
  /\ leaves \in [1 .. LeafCount(shape) -> Leafs]
  /\ exprs = <<>> /\ grown = FALSE /\ began = FALSE /\ outcome = "none"

(* translate_filter_ast reaches the next leaf.                             *)
TranslateLeaf ==
  /\ outcome = "none" /\ Len(exprs) < Len(leaves)
  /\ LET n == Len(exprs) + 1
         e == Translated(leaves[n], n)
     IN IF IsRefused(e) THEN outcome' = e.path /\ UNCHANGED exprs
        ELSE exprs' = Append(exprs, e) /\ UNCHANGED outcome
  /\ began' = IF exprs = <<>> THEN grown ELSE began
  /\ UNCHANGED <<backend, shape, leaves, grown, searchVars>>
(* searcher.add() of the whole.                                            *)
FilterSearcher ==
  /\ outcome = "none" /\ Len(exprs) = Len(leaves)
  /\ outcome' = "search"
  /\ UNCHANGED <<backend, shape, leaves, exprs, grown, began, searchVars>>
(* Another session saves.                                                  *)
SaveLater ==
  /\ ~grown /\ grown' = TRUE
  /\ UNCHANGED <<backend, shape, leaves, exprs, began, outcome, searchVars>>

FilterNext == TranslateLeaf \/ FilterSearcher \/ SaveLater
FilterSpec == FilterInit /\ [][FilterNext]_<<filterVars, searchVars>>
-----------------------------------------------------------------------------
(* What a leaf says about a row.                                           *)
RelatedTo(row, relation) == IF relation = "ref" THEN {row.ref} \ {Null} ELSE row.kids
HasSays(op, set, values) ==
  CASE op = "HAS_ALL" -> values \subseteq set
    [] op = "HAS_ANY" -> values \cap set # {}
    [] op = "HAS_ONLY" -> set \subseteq values
LeafSays(leaf, row) ==
  LET turned == leaf.left.kind # "Identifier"
      path == IF turned THEN leaf.right.path ELSE leaf.left.path
      right == IF turned THEN leaf.left ELSE leaf.right
      op == IF turned THEN Inverted(leaf.op) ELSE leaf.op
      values == {v.value : v \in Range(leaf.values)}
  IN
  CASE Dotted(path) /\ leaf.values # <<>> ->
         Truth(HasSays(op, RelatedTo(row, path[1]), {RelatedSid(path[1], v) : v \in Range(leaf.values)}))
    [] Dotted(path) /\ leaf.values = <<>> ->
         Truth(\E t \in RelatedTo(row, path[1]) : IsRelated(op, path, right, t))
    [] path[1] = "kids" /\ leaf.values # <<>> -> Truth(HasSays(op, row.kids, values))
    [] op \in {"IS_KNOWN", "IS_UNKNOWN"} -> Truth((op = "IS_KNOWN") = (path[1] \in DOMAIN Fulltype))
    [] path[1] = "a" /\ op \in ComparisonOps -> Against(op, row.a, right.value)
    [] OTHER -> "false"
RECURSIVE Says(_, _)
Says(s, row) ==
  CASE s.op = "leaf" -> LeafSays(leaves[s.leaf], row)
    [] s.op = "AND" -> And3(Says(s.sub[1], row), Says(s.sub[2], row))
    [] s.op = "OR" -> Or3(Says(s.sub[1], row), Says(s.sub[2], row))
    [] s.op = "NOT" -> Not3(Says(s.sub[1], row))
RECURSIVE Negations(_)
Negations(s) == FoldLeft(LAMBDA n, x : n + Negations(x), IF s.op = "NOT" THEN 1 ELSE 0, s.sub)

Selected ==
  LET es == <<Assembled(shape)>>
  IN {m.row : m \in IF backend = "sql" THEN SqlMatches(es, Range(Columns)) ELSE MongoMatches(es)}
(* A filter selects, on either backend, the rows it says, of those that    *)
(* were there when its translation began, although the related entries     *)
(* were looked up before the main search ran.  Of rows saved since, it may *)
(* miss some, but it invents one only through a negation.                  *)
FilterSelects ==
  outcome = "search" =>
    LET old == IF began THEN Store ELSE Store \ LaterRows
        said == {r \in Store : Says(shape, r) = "true"}
    IN /\ Selected \cap old = said \cap old
       /\ grown /\ Negations(shape) = 0 => Selected \subseteq said
=============================================================================
