----------------------------- MODULE MCQueries -----------------------------
(* Searches of up to two conditions and filters of up to two leaves, over  *)
(* seven records of which one is saved while a filter is served; and the   *)
(* predicates of stored properties, over four records.                     *)
EXTENDS FilterTranslation, StoredPredicates

VARIABLE mode  \* "search", "filter" or "predicate"
MCVars == <<mode, searchVars, filterVars, predicateVars>>

Row(sid, lid, ts, a, ref, kids) == [sid |-> sid, lid |-> lid, ts |-> ts, a |-> a, ref |-> ref, kids |-> kids]
MCStore == {Row(1, 1, 1, 1, 0, {}), Row(2, 1, 2, 2, 1, {1}), Row(3, 3, 2, 0, 2, {1, 2}), Row(4, 4, 1, 2, 3, {2}),
            Row(5, 4, 2, 1, 3, {1, 2}), Row(6, 6, 1, 0, 0, {2}), Row(7, 7, 2, 1, 4, {2, 4})}
MCTargets == 1 :> [lid |-> 1, ts |-> 1, d |-> 1] @@ 2 :> [lid |-> 1, ts |-> 2, d |-> 2]
          @@ 3 :> [lid |-> 3, ts |-> 1, d |-> 0] @@ 4 :> [lid |-> 4, ts |-> 2, d |-> 1]
MCLaterRows == {r \in MCStore : r.sid = 7}
MCOptions == {[as_of |-> 0, only_latest |-> FALSE], [as_of |-> 1, only_latest |-> TRUE]}

L(n) == Shape("leaf", n, <<>>)
Un(op, x) == Shape(op, 0, <<x>>)
Bi(op, x, y) == Shape(op, 0, <<x, y>>)
MCShapes == {L(1), Un("NOT", L(1)), Un("NOT", Un("NOT", L(1))), Bi("AND", L(1), L(2)), Bi("OR", L(1), L(2)),
             Bi("AND", L(1), Un("NOT", L(2))), Bi("OR", Un("NOT", L(1)), L(2)), Un("NOT", Bi("OR", L(1), L(2))),
             Un("NOT", Bi("AND", L(1), L(2)))}
MCLeafs ==
  {Comparison("=", Identifier(<<"a">>), Number(1)), Comparison("<", Number(1), Identifier(<<"a">>)),
   Comparison("=", Identifier(<<"a">>), Text("ref", 1)), Comparison("<", Identifier(<<"_exmpl_x">>), Number(1)),
   Comparison("=", Identifier(<<"_httk_x">>), Number(1)), Comparison("=", Identifier(<<"id">>), Text("ref", 1)),
   Comparison("=", Identifier(<<"ref", "d">>), Number(1)), Comparison("!=", Identifier(<<"parts", "d">>), Number(1)),
   Comparison("=", Text("ref", 3), Identifier(<<"ref", "id">>)), Comparison("=", Identifier(<<"ref", "d">>), Number(7)),
   Comparison("!=", Identifier(<<"parts", "id">>), Text("ref", 1)),
   Has("HAS_ALL", <<"kids">>, <<Number(1), Number(2)>>), Has("HAS_ONLY", <<"kids">>, <<Number(2)>>),
   Has("HAS_ANY", <<"ref", "id">>, <<Text("ref", 1), Text("ref", 2)>>),
   Has("HAS_ONLY", <<"ref", "id">>, <<Text("ref", 3), Text("other", 1)>>),
   Has("HAS_ALL", <<"ref", "id">>, <<Text("ref", 1), Text("ref", 3)>>),
   Has("HAS_ALL", <<"parts", "id">>, <<Text("parts", 1), Text("parts", 2)>>),
   Has("HAS_ANY", <<"a">>, <<Number(1)>>), Length(<<"kids">>, Number(1)), Length(<<"_exmpl_x">>, Number(1)),
   Known("IS_KNOWN", <<"a">>), Known("IS_UNKNOWN", <<"_exmpl_x">>), Known("IS_KNOWN", <<"ref", "d">>),
   Known("IS_UNKNOWN", <<"parts", "_exmpl_x">>)}

Kids(v1, ref1, v2, ref2) == <<[v |-> v1, ref |-> ref1], [v |-> v2, ref |-> ref2]>>
MCRecords == {[sid |-> 1, a |-> 1, ref |-> 1, kids |-> <<>>], [sid |-> 2, a |-> 0, ref |-> 2, kids |-> Kids(1, 1, 2, 0)],
              [sid |-> 3, a |-> 2, ref |-> 0, kids |-> Kids(1, 2, 1, 1)], [sid |-> 4, a |-> 1, ref |-> 3, kids |-> <<[v |-> 0, ref |-> 3]>>]}
MCReferred == <<1, 2, 0>>
MCComparisons ==
  {Scaled(FieldOf("kids", "v"), Fixed(2), FieldOf("kids2", "v"), Fixed(1)), IsNull(FieldOf("kids", "v")),
   Compares(FieldOf("kids2", "v"), "<", FieldOf("root", "a")), Compares(FieldOf("ref", "d"), "!=", NullValue),
   Compares(FieldOf("kids.ref", "d"), "=", FieldOf("ref", "d")), Always("unknown")}

NoSearch ==
  /\ cutoff = Null /\ latest = FALSE /\ joined = FALSE /\ followed = FALSE
  /\ columns = {} /\ stack = <<>> /\ added = <<>>
NoFilter ==
  /\ backend = "sql" /\ shape = L(1) /\ leaves = <<>> /\ exprs = <<>>
  /\ grown = TRUE /\ began = TRUE /\ outcome = "none"
MCInit ==
  \/ mode = "search" /\ SearchInit /\ NoFilter /\ PredicateInit
  \/ mode = "filter" /\ FilterInit /\ PredicateInit
  \/ mode = "predicate" /\ NoSearch /\ NoFilter /\ PredicateInit

OnlySearch == mode = "search" /\ UNCHANGED <<mode, filterVars, predicateVars>>
OnlyFilter == mode = "filter" /\ UNCHANGED <<mode, predicateVars>>
OnlyPredicate == mode = "predicate" /\ UNCHANGED <<mode, searchVars, filterVars>>
MCNext ==
  \/ OnlySearch /\ Variable
  \/ OnlySearch /\ AskField
  \/ OnlySearch /\ AskReference
  \/ OnlySearch /\ AskMember
  \/ OnlySearch /\ AskChild
  \/ OnlySearch /\ AskJoin
  \/ OnlySearch /\ AskConstant
  \/ OnlySearch /\ Combine
  \/ OnlySearch /\ Negate
  \/ OnlySearch /\ Add
  \/ OnlyFilter /\ TranslateLeaf
  \/ OnlyFilter /\ FilterSearcher
  \/ OnlyFilter /\ SaveLater
  \/ OnlyPredicate /\ DeclareComparison
  \/ OnlyPredicate /\ DeclareNot
  \/ OnlyPredicate /\ DeclareBoth
  \/ OnlyPredicate /\ DeclareExists
  \/ OnlyPredicate /\ DeclareExistsFiltered
  \/ OnlyPredicate /\ DeclareCount
  \/ OnlyPredicate /\ DeclareDistinctCount
MCSpec == MCInit /\ [][MCNext]_MCVars
=============================================================================
