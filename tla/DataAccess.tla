----------------------------- MODULE DataAccess -----------------------------
(***************************************************************************)
(* The data components side by side: transactions, list requests, fluent   *)
(* queries, entity writes, index migration, index sync, search paging,     *)
(* object storage and schema migrations.  They share no state, so subject  *)
(* picks the one a behaviour is about and the state spaces add up.         *)
(***************************************************************************)
EXTENDS Transactions, Listing, EntityWrites, IndexMigration, IndexSync, SearchPaging,
        ObjectStore, Migrations, Finder

VARIABLE subject

dataVars == <<subject, txVars, listVars, entityVars, migrationVars, syncVars, pagingVars,
              storeVars, bootVars, finderVars>>

DataInit ==
  /\ subject \in {"transactions", "listing", "entity", "migration", "sync", "paging", "store", "boot", "finder"}
  /\ TxInit /\ ListInit /\ EntityInit /\ MigrationInit /\ SyncInit /\ PagingInit
  /\ StoreInit /\ MigrationsInit /\ FinderInit

TxStep ==
  /\ subject = "transactions" /\ TxNext /\ UNCHANGED subject
  /\ UNCHANGED <<listVars, entityVars, migrationVars, syncVars, pagingVars, storeVars, bootVars, finderVars>>

ListStep ==
  /\ subject = "listing" /\ ListNext /\ UNCHANGED subject
  /\ UNCHANGED <<txVars, entityVars, migrationVars, syncVars, pagingVars, storeVars, bootVars, finderVars>>

EntityStep ==
  /\ subject = "entity" /\ EntityNext /\ UNCHANGED subject
  /\ UNCHANGED <<txVars, listVars, migrationVars, syncVars, pagingVars, storeVars, bootVars, finderVars>>

MigrationStep ==
  /\ subject = "migration" /\ MigrationNext /\ UNCHANGED subject
  /\ UNCHANGED <<txVars, listVars, entityVars, syncVars, pagingVars, storeVars, bootVars, finderVars>>

SyncStep ==
  /\ subject = "sync" /\ SyncNext /\ UNCHANGED subject
  /\ UNCHANGED <<txVars, listVars, entityVars, migrationVars, pagingVars, storeVars, bootVars, finderVars>>

PagingStep ==
  /\ subject = "paging" /\ PagingNext /\ UNCHANGED subject
  /\ UNCHANGED <<txVars, listVars, entityVars, migrationVars, syncVars, storeVars, bootVars, finderVars>>

StoreStep ==
  /\ subject = "store" /\ StoreNext /\ UNCHANGED subject
  /\ UNCHANGED <<txVars, listVars, entityVars, migrationVars, syncVars, pagingVars, bootVars, finderVars>>

MigrationsStep ==
  /\ subject = "boot" /\ MigrationsNext /\ UNCHANGED subject
  /\ UNCHANGED <<txVars, listVars, entityVars, migrationVars, syncVars, pagingVars, storeVars, finderVars>>

FinderStep ==
  /\ subject = "finder" /\ FinderNext /\ UNCHANGED subject
  /\ UNCHANGED <<txVars, listVars, entityVars, migrationVars, syncVars, pagingVars, storeVars, bootVars>>

DataNext ==
  \/ TxStep \/ ListStep \/ EntityStep \/ MigrationStep \/ SyncStep \/ PagingStep \/ StoreStep
  \/ MigrationsStep \/ FinderStep

DataSpec == DataInit /\ [][DataNext]_dataVars
-----------------------------------------------------------------------------
(* List requests: sizes at and beyond their limits, sorts with and without *)
(* ties, filters of one and several values, the temporal relations, and    *)
(* parameters that are refused.                                            *)
Sorts == {<<<<"id", "asc">>>>, <<<<"score", "desc">>, <<"id", "desc">>>>, <<<<"score", "asc">>>>,
          <<<<"owner", "asc">>>>}

SizedQueries == {[size |-> <<s>>, sort |-> o] : s \in {0, 1, 2, 500, Null}, o \in Sorts}

FilterQueries ==
  {[size |-> <<2>>, status |-> <<1>>], [size |-> <<2>>, status |-> <<1, 9>>],
   [size |-> <<2>>, owner |-> <<2>>], [size |-> <<1>>, search |-> <<1>>], [other |-> <<1>>]}

TemporalQueries ==
  {[size |-> <<1>>, timerel |-> <<"after">>, time |-> <<0>>],
   [timerel |-> <<"between">>, time |-> <<1>>, endtime |-> <<2>>, status |-> <<1, 2>>],
   [time |-> <<1>>],
   [size |-> <<2>>, timerel |-> <<"before">>, time |-> <<2>>]}

SomeQueries == SizedQueries \cup FilterQueries \cup TemporalQueries

(* Conditions of the service: none, a group in a group, and a BETWEEN that *)
(* has too few values.                                                     *)
SomeConds ==
  {<<>>,
   <<Group("OR", <<Cond("rank", "BETWEEN", <<0, 0>>),
                   Group("AND", <<Cond("id", ">=", 2), Cond("status", "IS NOT NULL", <<>>)>>)>>)>>,
   <<Cond("id", "NOT IN", <<1, 3>>), Cond("rank", "BETWEEN", <<1>>)>>}

(* Sources of Sync: repeated ids, missing ids, bad documents, an empty     *)
(* batch.                                                                  *)
doc(id, body) == [id |-> id, body |-> body]

SomeSources ==
  {<<<<doc("a", "v1"), doc("a", "v2")>>, <<doc("b", "bad")>>>>,
   <<<<doc("a", "v1"), doc(NoId, "v1")>>, <<>>, <<doc("b", "v2"), doc("a", "bad")>>>>,
   <<<<doc("a", "bad"), doc("a", "v1"), doc(NoId, "bad"), doc(NoId, "v1")>>, <<doc("b", "v1")>>>>}
=============================================================================
