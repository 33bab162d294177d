------------------------------ MODULE SqlSave -------------------------------
(***************************************************************************)
(* The SQL store's rows and SqlStore.save of one object after another      *)
(* (backend/sql/store.py, transactional profile): a content id is stored   *)
(* once, a by-value record once per tuple of parent columns, and what      *)
(* conflicts in its identity-excluded metadata is refused.  A row carries  *)
(* its child rows as elems; store_timestamp and logical_id are left out.   *)
(***************************************************************************)
EXTENDS Integers, Sequences, FiniteSets, SequencesExt

CONSTANTS
  Types,    \* record classes; one table each
  Dedup,    \* Dedup[t]: "content_id", "by_value" or "none"
  Order,    \* the tables in dependency order, each once
  RefType,  \* RefType[t]: what the reference column of t refers to, or NoType
  ElemType, \* ElemType[t]: the class of the child elements, or NoType
  Entries,  \* classes of an entry family with several backings
  Records,  \* the objects that can be saved
  Obj,      \* Obj[r]: type, own (columns), note (identity-excluded), key, ref, elems
  NoRecord, \* no reference
  NoType

ASSUME OrderAssumption == Order \in Seq(Types) /\ Range(Order) = Types /\ IsInjective(Order)

Row == [sid : Nat, role : 0..1, own : STRING, note : STRING, key : STRING,
        ref : Nat, elems : Seq(Nat)]

Tables == [Types -> SUBSET Row]
DB == [rows : Tables, dispatch : SUBSET (STRING \X (Types \X Nat))]

EmptyDB == [rows |-> [t \in Types |-> {}], dispatch |-> {}]

\* Dictionaries are sets of pairs.
Has(map, k) == \E p \in map : p[1] = k
At(map, k) == (CHOOSE p \in map : p[1] = k)[2]

Sids(rows) == {d.sid : d \in rows}
RowAt(rows, s) == CHOOSE d \in rows : d.sid = s
NextSid(rows) == IF rows = {} THEN 1 ELSE Max(Sids(rows)) + 1

\* Only content-addressed tables have the column.
Key(r) == IF Dedup[Obj[r].type] = "content_id" THEN Obj[r].key ELSE ""

\* Everything under a record, and everything under a stored row.
Tree[r \in Records] ==
  [own |-> Obj[r].own, note |-> Obj[r].note, key |-> Key(r),
   ref |-> IF Obj[r].ref = NoRecord THEN <<>> ELSE <<Tree[Obj[r].ref]>>,
   elems |-> [i \in DOMAIN Obj[r].elems |-> Tree[Obj[r].elems[i]]]]

TreeAt[x \in Types \X Nat \X Tables] ==
  LET t == x[1]
      d == RowAt(x[3][t], x[2])
  IN [own |-> d.own, note |-> d.note, key |-> d.key,
      ref |-> IF d.ref = 0 THEN <<>> ELSE <<TreeAt[<<RefType[t], d.ref, x[3]>>]>>,
      elems |-> [i \in DOMAIN d.elems |-> TreeAt[<<ElemType[t], d.elems[i], x[3]>>]]]

ValueKey(t, d) == <<t, d.own, d.note, d.ref>>

NewRow(r, sid, ref) ==
  [sid |-> sid, role |-> 0, own |-> Obj[r].own, note |-> Obj[r].note,
   key |-> Key(r), ref |-> ref, elems |-> <<>>]

SetElems(rows, sid, elems) ==
  {IF d.sid = sid THEN [d EXCEPT !.elems = elems] ELSE d : d \in rows}

SetRole(rows, sids) == {IF d.sid \in sids THEN [d EXCEPT !.role = 1] ELSE d : d \in rows}

----------------------------------------------------------------------------
\* SqlStore._save_active: <<database, sid, no metadata conflict>>.

Saved[x \in Records \X DB] ==
  LET r == x[1]
      db == x[2]
      o == Obj[r]
      t == o.type
      same == {d \in db.rows[t] : d.key = o.key}
      dep == IF o.ref = NoRecord THEN <<db, 0, TRUE>> ELSE Saved[<<o.ref, db>>]
      equal == {d \in db.rows[t] : ValueKey(t, d) = ValueKey(t, NewRow(r, 0, dep[2]))}
      sid == NextSid(dep[1].rows[t])
      parent == [dep[1] EXCEPT !.rows[t] = @ \cup {NewRow(r, sid, dep[2])}]
      Elem(acc, e) == LET q == Saved[<<e, acc[1]>>]
                      IN <<q[1], Append(acc[2], q[2]), acc[3] /\ q[3]>>
      all == FoldLeft(Elem, <<parent, <<>>, dep[3]>>, o.elems)
  IN CASE Dedup[t] = "content_id" /\ same # {} ->
            LET d == CHOOSE d \in same : TRUE
            IN <<db, d.sid, TreeAt[<<t, d.sid, db.rows>>] = Tree[r]>>
       [] Dedup[t] = "by_value" /\ equal # {} ->
            <<db, (CHOOSE d \in equal : TRUE).sid, dep[3]>>
       [] OTHER ->
            <<[all[1] EXCEPT !.rows[t] = SetElems(@, sid, all[2])], sid, all[3]>>

\* The role and the dispatch row of a top-level save.
TopLevel(db, r, sid) ==
  [db EXCEPT !.rows[Obj[r].type] = SetRole(@, {sid}),
             !.dispatch = IF Obj[r].type \in Entries
                            THEN @ \cup {<<Obj[r].key, <<Obj[r].type, sid>>>>} ELSE @]

\* A content id denotes one backing row, and a backing row one content id.
Conflicting(dispatch, row) == \E p \in dispatch : (p[1] = row[1]) # (p[2] = row[2])

SerialFails(db, r) ==
  LET res == Saved[<<r, db>>]
      t == Obj[r].type
  IN \/ ~res[3]
     \/ t \in Entries /\ Conflicting(db.dispatch, <<Obj[r].key, <<t, res[2]>>>>)

SerialSave(db, r) ==
  IF SerialFails(db, r) THEN db
  ELSE LET res == Saved[<<r, db>>] IN TopLevel(res[1], r, res[2])

----------------------------------------------------------------------------
\* Equal up to the choice of sids.

Content(t, d, rows) == <<t, TreeAt[<<t, d.sid, rows>>], d.role>>
Contents(rows) == UNION {{Content(t, d, rows) : d \in rows[t]} : t \in Types}
Copies(c, rows) == Cardinality({d \in rows[c[1]] : Content(c[1], d, rows) = c})
Entry(p, rows) == <<p[1], p[2][1], TreeAt[<<p[2][1], p[2][2], rows>>]>>

Equivalent(db1, db2) ==
  /\ Contents(db1.rows) = Contents(db2.rows)
  /\ \A c \in Contents(db1.rows) : Copies(c, db1.rows) = Copies(c, db2.rows)
  /\ {Entry(p, db1.rows) : p \in db1.dispatch} = {Entry(p, db2.rows) : p \in db2.dispatch}

\* References and child elements are rows.
Resolved(rows) ==
  \A t \in Types : \A d \in rows[t] :
    /\ d.ref # 0 => d.ref \in Sids(rows[RefType[t]])
    /\ \A i \in DOMAIN d.elems : d.elems[i] \in Sids(rows[ElemType[t]])
=============================================================================
