---------------------------- MODULE EntityWrites ----------------------------
(***************************************************************************)
(* The writes of dao.BaseDAO on one table with a soft-delete column and    *)
(* the audit columns created_by and updated_by, which map-based writes     *)
(* fill from the actor of the context (WithActor) unless the caller set    *)
(* them.  Statements are atomic; several actors call in any order.         *)
(***************************************************************************)

CONSTANTS
  Keys,      \* values of the id column
  Actors,    \* principals WithActor may have put on a context
  NoOne,     \* a context without an actor, and a column that is NULL
  Bodies     \* values of the one payload column

ASSUME NoOneAssumption == Actors # {} /\ NoOne \notin Actors

VARIABLES
  entity,    \* key -> row or NoRow
  scoped,    \* whether the DAO has WithSoftDeleteFilter("status")
  creator,   \* history: the actor whose write created the row
  editor,    \* history: the last actor known to have written it
  erased,    \* history: rows upserted without an actor since
  answer     \* what the last call returned

entityVars == <<entity, scoped, creator, editor, erased, answer>>

NoRow == [absent |-> TRUE]
RowOf(status, body, c, u) == [status |-> status, body |-> body, createdBy |-> c, updatedBy |-> u]
Exist == {k \in Keys : entity[k] # NoRow}

EntityInit ==
  /\ entity = [k \in Keys |-> NoRow]
  /\ scoped = TRUE
  /\ creator = [k \in Keys |-> NoOne] /\ editor = [k \in Keys |-> NoOne]
  /\ erased = {} /\ answer = "none"
-----------------------------------------------------------------------------
(* auditInsert and auditUpdate: m is a function from the columns the       *)
(* caller set.                                                             *)
auditInsert(m, actor) ==
  [c \in DOMAIN m \cup (IF actor = NoOne THEN {} ELSE {"createdBy", "updatedBy"}) |->
     IF c \in DOMAIN m THEN m[c] ELSE actor]

auditUpdate(m, actor) ==
  [c \in DOMAIN m \cup (IF actor = NoOne THEN {} ELSE {"updatedBy"}) |->
     IF c \in DOMAIN m THEN m[c] ELSE actor]

(* Faulty variant: an upsert also updates created_by. *)
auditUpdateColumns_all(cols) == cols \cup {"createdBy", "updatedBy"}

auditUpdateColumns(cols) == cols \cup {"updatedBy"}

column(m, c) == IF c \in DOMAIN m THEN m[c] ELSE NoOne
fresh(m) == RowOf("ACTIVE", column(m, "body"), column(m, "createdBy"), column(m, "updatedBy"))

(* INSERT of the columns of m; it violates the key if the row exists. *)
insertInto(k, m) ==
  /\ entity' = [entity EXCEPT ![k] = fresh(m)]
  /\ creator' = [creator EXCEPT ![k] = column(m, "createdBy")]
  /\ editor' = [editor EXCEPT ![k] = column(m, "updatedBy")]
  /\ erased' = erased \ {k}

rejected == answer' = "conflict" /\ UNCHANGED <<entity, creator, editor, erased>>

InsertMap(k, b, actor) ==
  IF k \in Exist THEN rejected ELSE insertInto(k, auditInsert([body |-> b], actor)) /\ answer' = "ok"

(* Insert and InsertReturning take columns and values and do not audit. *)
Insert(k, b) ==
  IF k \in Exist THEN rejected ELSE insertInto(k, [body |-> b]) /\ answer' = "ok"

(* Faulty variant: a conflict overwrites the row. *)
InsertIgnore_overwrites(k, b) == insertInto(k, [body |-> b]) /\ answer' = "inserted"

InsertIgnore(k, b) ==
  IF k \in Exist THEN answer' = "ignored" /\ UNCHANGED <<entity, creator, editor, erased>>
  ELSE insertInto(k, [body |-> b]) /\ answer' = "inserted"

(* InsertMany and CopyFrom: one statement; a row with the wrong number of  *)
(* values is refused before it, a key that exists fails all of it.         *)
InsertMany(ks, b, ragged) ==
  IF ragged THEN answer' = "invalid" /\ UNCHANGED <<entity, creator, editor, erased>>
  ELSE IF ks \cap Exist # {} THEN rejected
  ELSE /\ entity' = [k \in Keys |-> IF k \in ks THEN fresh([body |-> b]) ELSE entity[k]]
       /\ creator' = [k \in Keys |-> IF k \in ks THEN NoOne ELSE creator[k]]
       /\ editor' = [k \in Keys |-> IF k \in ks THEN NoOne ELSE editor[k]]
       /\ erased' = erased \ ks
       /\ answer' = "ok"

(* Upsert on the key: of an existing row the update columns take the       *)
(* EXCLUDED values, which are NULL where m has none: updated_by too, when  *)
(* the context has no actor.                                               *)
Upsert(k, b, cols, actor) ==
  LET m == auditInsert([body |-> b], actor)
      upd == auditUpdateColumns(cols)
  IN /\ answer' = "ok"
     /\ IF k \notin Exist THEN insertInto(k, m)
        ELSE /\ entity' = [entity EXCEPT ![k] =
                  [c \in DOMAIN @ |-> IF c \in upd THEN column(m, c) ELSE @[c]]]
             /\ editor' = [editor EXCEPT ![k] = IF actor = NoOne THEN @ ELSE actor]
             /\ erased' = IF actor = NoOne THEN erased \cup {k} ELSE erased \ {k}
             /\ UNCHANGED creator

auditedSet(m, actor) == auditUpdate(m, actor)

(* Update, UpdateReturning, UpdateByIDs: unconditional on the soft-delete  *)
(* status, and no rows is no error for Update.                             *)
Update(ks, m, actor) ==
  LET set == auditedSet(m, actor)
  IN /\ entity' = [k \in Keys |-> IF k \in ks \cap Exist
                                  THEN [c \in DOMAIN entity[k] |-> IF c \in DOMAIN set THEN set[c] ELSE entity[k][c]]
                                  ELSE entity[k]]
     /\ editor' = [k \in Keys |-> IF k \in ks \cap Exist /\ "updatedBy" \in DOMAIN set
                                  THEN (IF "updatedBy" \in DOMAIN m THEN m["updatedBy"] ELSE actor) ELSE editor[k]]
     /\ erased' = IF "updatedBy" \in DOMAIN set THEN erased \ ks ELSE erased
     /\ answer' = "ok"
     /\ UNCHANGED creator

(* SoftDelete: also of a row that is deleted already; no row is NotFound. *)
SoftDelete(k) ==
  /\ IF k \in Exist
     THEN entity' = [entity EXCEPT ![k].status = "DELETED"] /\ answer' = "ok"
     ELSE answer' = "notFound" /\ UNCHANGED entity
  /\ UNCHANGED <<creator, editor, erased>>

(* Faulty variant: no default for the active value. *)
activeValue_unset == ""

activeValue == "ACTIVE"

(* Restore needs WithSoftDeleteFilter, and goes through Update. *)
Restore(k, actor) ==
  IF scoped THEN Update({k}, [status |-> activeValue], actor)
  ELSE answer' = "unconfigured" /\ UNCHANGED <<entity, creator, editor, erased>>

HardDelete(ks) ==
  /\ entity' = [k \in Keys |-> IF k \in ks THEN NoRow ELSE entity[k]]
  /\ creator' = [k \in Keys |-> IF k \in ks THEN NoOne ELSE creator[k]]
  /\ editor' = [k \in Keys |-> IF k \in ks THEN NoOne ELSE editor[k]]
  /\ erased' = erased \ ks
  /\ answer' = "ok"

(* FindByID, FindOne, FindByIDs and Exists see a row unless the filter hides it. *)
Found(k) == k \in Exist /\ (scoped => entity[k].status # "DELETED")

Exists(k) ==
  /\ answer' = IF Found(k) THEN "found" ELSE "notFound"
  /\ UNCHANGED <<entity, creator, editor, erased>>

Configure ==
  /\ answer = "none"
  /\ scoped' = FALSE /\ answer' = "configured"
  /\ UNCHANGED <<entity, creator, editor, erased>>

EntityNext ==
  \/ Configure
  \/ /\ UNCHANGED scoped
     /\ \/ \E k \in Keys, b \in Bodies : Insert(k, b) \/ InsertIgnore(k, b)
        \/ \E k \in Keys, b \in Bodies, actor \in Actors \cup {NoOne} :
             \/ InsertMap(k, b, actor)
             \/ \E cols \in {{}, {"body"}} : Upsert(k, b, cols, actor)
        \/ \E ks \in (SUBSET Keys) \ {{}}, b \in Bodies, actor \in Actors \cup {NoOne} :
             \/ Update(ks, [body |-> b], actor)
             \/ Update(ks, [body |-> b, updatedBy |-> CHOOSE a \in Actors : TRUE], actor)
        \/ \E ks \in (SUBSET Keys) \ {{}}, b \in Bodies :
             InsertMany(ks, b, FALSE) \/ InsertMany(ks, b, TRUE) \/ HardDelete(ks)
        \/ \E k \in Keys : SoftDelete(k) \/ Exists(k)
        \/ \E k \in Keys, actor \in Actors : Restore(k, actor)

EntitySpec == EntityInit /\ [][EntityNext]_entityVars
-----------------------------------------------------------------------------
EntityTypeOK ==
  /\ \A k \in Exist : entity[k] \in [status : {"ACTIVE", "DELETED"}, body : Bodies \cup {NoOne},
                                     createdBy : Actors \cup {NoOne}, updatedBy : Actors \cup {NoOne}]
  /\ scoped \in BOOLEAN
  /\ creator \in [Keys -> Actors \cup {NoOne}] /\ editor \in [Keys -> Actors \cup {NoOne}]

(***************************************************************************)
(* The audit columns tell the truth through any sequence of writes:        *)
(* created_by is the actor that created the row, which no upsert or update *)
(* changes, and updated_by the last actor that wrote it (or the value the  *)
(* caller set).  Only an Upsert without an actor blanks updated_by:        *)
(* auditUpdateColumns lists the column whether or not there is an actor    *)
(* (extras.go lines 115-125).                                              *)
(***************************************************************************)
AuditTrue ==
  \A k \in Exist :
    /\ entity[k].createdBy = creator[k]
    /\ entity[k].updatedBy = IF k \in erased THEN NoOne ELSE editor[k]

(***************************************************************************)
(* A row is never lost or overwritten by a write that did not say so: only *)
(* a hard delete removes one, and an insert that conflicts, or the second  *)
(* delivery of an InsertIgnore, leaves every row as it was (insert.go      *)
(* lines 22-29: "redelivery after a lost ack must not duplicate the row"). *)
(***************************************************************************)
NeverLost ==
  \A k \in Exist :
     /\ entity'[k] = NoRow => \E ks \in SUBSET Keys : k \in ks /\ HardDelete(ks)
     /\ answer' \in {"inserted", "ignored", "conflict", "invalid"} => entity'[k] = entity[k]

(***************************************************************************)
(* What the DAO's writes promise: true audit columns, and no row lost or   *)
(* overwritten by a write that did not say so.                             *)
(***************************************************************************)
EntityContract ==
  [][/\ EntityTypeOK'
     /\ AuditTrue'
     /\ NeverLost]_entityVars
=============================================================================
