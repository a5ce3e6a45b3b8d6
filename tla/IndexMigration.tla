--------------------------- MODULE IndexMigration ---------------------------
(***************************************************************************)
(* mapping.MigrateIndex rebuilds the index behind an alias while a service *)
(* writes and searches through that alias.  Every call to Elasticsearch    *)
(* may fail, with or without its effect (client.Do gives up after its      *)
(* timeout), MigrateIndex then returns, and an operator runs it again.  A  *)
(* reindex is a task of the cluster: it copies a snapshot of its source    *)
(* document by document, and goes on when the client has given up.         *)
(***************************************************************************)
EXTENDS Naturals

CONSTANTS
  Olds,          \* the indices the alias may start with
  New,           \* newIndex
  Docs,          \* document ids
  MaxIndexed,    \* bound on versions of a document
  MaxMigrations  \* bound on calls of MigrateIndex

ASSUME NewAssumption == New \notin Olds
ASSUME DocsAssumption == Docs # {} /\ MaxIndexed \in Nat \ {0} /\ MaxMigrations \in Nat

Indices == Olds \cup {New}

VARIABLES
  index,     \* index -> contents (document -> version, 0 for none), or Missing
  alias,     \* the indices the alias points at
  acked,     \* document -> version last acknowledged to the service
  task,      \* per call of MigrateIndex, what its reindex task has still to copy
  mpc,       \* where MigrateIndex is
  olds,      \* what AliasIndices answered
  todo,      \* the olds its current loop has still to visit
  deleteOld, \* MigrateOptions.DeleteOld
  runs,      \* calls so far
  windowed,  \* history: documents written while MigrateIndex ran or a task was left over
  provision  \* history: whether the alias has existed

migrationVars == <<index, alias, acked, task, mpc, olds, todo, deleteOld, runs, windowed, provision>>

Missing == [d \in {} |-> 0]
NoTask == [d \in {} |-> 0]
Running == mpc \notin {"off", "ok"}
Copying == \E r \in 1..MaxMigrations : task[r] # NoTask
Ready == {i \in Indices : index[i] # Missing}

MigrationInit ==
  /\ alias = {} /\ provision = FALSE
  /\ index = [i \in Indices |-> Missing]
  /\ acked = [d \in Docs |-> 0]
  /\ task = [r \in 1..MaxMigrations |-> NoTask] /\ mpc = "off" /\ olds = {} /\ todo = {}
  /\ deleteOld = FALSE /\ runs = 0 /\ windowed = {}
-----------------------------------------------------------------------------
(* The service's indices before any migration: one or two, whose           *)
(* documents were loaded by index name.                                    *)
Provision ==
  /\ ~provision /\ mpc = "off" /\ runs = 0
  /\ \E S \in (SUBSET Olds) \ {{}} :
       \E home \in [Docs -> S \cup {New}] :   \* New: no such document yet
         /\ index' = [i \in Indices |-> IF i \in S THEN [d \in Docs |-> IF home[d] = i THEN 1 ELSE 0]
                                       ELSE index[i]]
         /\ acked' = [d \in Docs |-> IF home[d] = New THEN 0 ELSE 1]
         /\ alias' = S
  /\ provision' = TRUE
  /\ UNCHANGED <<task, mpc, olds, todo, deleteOld, runs, windowed>>

(* IndexDoc through the alias, which is writable while it names one index. *)
IndexDoc(d) ==
  /\ acked[d] < MaxIndexed
  /\ acked' = [acked EXCEPT ![d] = @ + 1]
  /\ \E i \in alias : alias = {i} /\ index' = [index EXCEPT ![i][d] = acked[d] + 1]
  /\ windowed' = IF Running \/ Copying THEN windowed \cup {d} ELSE windowed \ {d}
  /\ UNCHANGED <<alias, task, mpc, olds, todo, deleteOld, runs, provision>>

(* The task copies one document, as it was in the snapshot. *)
Copy(r, d) ==
  /\ d \in DOMAIN task[r]
  /\ index' = [index EXCEPT ![New][d] = IF task[r][d] = 0 THEN @ ELSE task[r][d]]
  /\ task' = [task EXCEPT ![r] = [e \in DOMAIN @ \ {d} |-> @[e]]]
  /\ UNCHANGED <<alias, acked, mpc, olds, todo, deleteOld, runs, windowed, provision>>
-----------------------------------------------------------------------------
to(where) == mpc' = where
elsewhere == UNCHANGED <<acked, windowed, provision>>

MigrateIndex ==
  /\ mpc \in {"off", "ok"} /\ runs < MaxMigrations
  /\ runs' = runs + 1 /\ deleteOld' \in BOOLEAN
  /\ to("resolve") /\ olds' = {} /\ todo' = {}
  /\ UNCHANGED <<index, alias, task>> /\ elsewhere

(* A call that fails ends MigrateIndex where it is; after(w) follows a     *)
(* call whose effect happened and whose answer may be lost.                *)
Fails ==
  /\ mpc \in {"resolve", "ensure", "point", "reindex", "waiting", "swap", "delete"}
  /\ to("off")
  /\ UNCHANGED <<index, alias, task, olds, todo, deleteOld, runs>> /\ elsewhere

after(where) == mpc' \in {where, "off"}

AliasIndices ==
  /\ mpc = "resolve"
  /\ olds' = alias
  /\ to("ensure")
  /\ UNCHANGED <<index, alias, task, todo, deleteOld, runs>> /\ elsewhere

(* Faulty variant: the new index is not skipped. *)
others_all == olds

(* The loops skip the new index where the alias already names it. *)
others == olds \ {New}

(* Faulty variant: the index is created even if it exists. *)
EnsureIndex_always ==
  /\ mpc = "ensure"
  /\ index' = [index EXCEPT ![New] = [d \in Docs |-> 0]]
  /\ todo' = others
  /\ after(IF olds = {} THEN "point" ELSE "reindex")
  /\ UNCHANGED <<alias, task, olds, deleteOld, runs>> /\ elsewhere

EnsureIndex ==
  /\ mpc = "ensure"
  /\ index' = IF New \in Ready THEN index ELSE [index EXCEPT ![New] = [d \in Docs |-> 0]]
  /\ todo' = others
  /\ after(IF olds = {} THEN "point" ELSE "reindex")
  /\ UNCHANGED <<alias, task, olds, deleteOld, runs>> /\ elsewhere

EnsureAlias ==
  /\ mpc = "point"
  /\ alias' = alias \cup {New}
  /\ provision' = TRUE
  /\ after("ok")
  /\ UNCHANGED <<index, acked, task, olds, todo, deleteOld, runs, windowed>>

(* The reindex loop: start a task for the next old index, wait for it. *)
Reindex ==
  /\ mpc = "reindex"
  /\ IF todo = {}
     THEN to("swap") /\ todo' = others /\ UNCHANGED task
     ELSE \E o \in todo :
            \/ /\ index[o] # Missing
               /\ task' = [task EXCEPT ![runs] = index[o]]
               /\ todo' = todo \ {o}
               /\ to("waiting")
            \/ index[o] = Missing /\ to("off") /\ UNCHANGED <<task, todo>>
  /\ UNCHANGED <<index, alias, olds, deleteOld, runs>> /\ elsewhere

(* Faulty variant: the reindex is not waited for. *)
Reindexed_noWait ==
  /\ mpc = "waiting"
  /\ to("reindex")
  /\ UNCHANGED <<index, alias, task, olds, todo, deleteOld, runs>> /\ elsewhere

(* wait_for_completion: the call is answered when the task is over. *)
Reindexed ==
  /\ mpc = "waiting" /\ task[runs] = NoTask
  /\ to("reindex")
  /\ UNCHANGED <<index, alias, task, olds, todo, deleteOld, runs>> /\ elsewhere

(* Faulty variant: remove and add are two calls. *)
SwapAlias_twoCalls ==
  /\ mpc = "swap"
  /\ IF todo = {} THEN mpc' = (IF deleteOld THEN "delete" ELSE "ok") /\ todo' = others /\ UNCHANGED alias
     ELSE \E o \in todo : \/ o \in alias /\ alias' = alias \ {o} /\ UNCHANGED <<todo, mpc>>
                          \/ o \notin alias /\ alias' = alias \cup {New} /\ todo' = todo \ {o} /\ after("swap")
  /\ UNCHANGED <<index, task, olds, deleteOld, runs>> /\ elsewhere

(* The swap loop: one _aliases call per old index.  Removing an alias that *)
(* is not there fails the call.                                            *)
SwapAlias ==
  /\ mpc = "swap"
  /\ IF todo = {} THEN mpc' = (IF deleteOld THEN "delete" ELSE "ok") /\ todo' = others /\ UNCHANGED alias
     ELSE \E o \in todo : /\ o \in alias
                          /\ alias' = (alias \ {o}) \cup {New}
                          /\ todo' = todo \ {o}
                          /\ after("swap")
  /\ UNCHANGED <<index, task, olds, deleteOld, runs>> /\ elsewhere

DeleteIndex ==
  /\ mpc = "delete"
  /\ IF todo = {} THEN to("ok") /\ UNCHANGED <<index, todo>>
     ELSE \E o \in todo : /\ index[o] # Missing
                          /\ index' = [index EXCEPT ![o] = Missing]
                          /\ todo' = todo \ {o}
                          /\ after("delete")
  /\ UNCHANGED <<alias, task, olds, deleteOld, runs>> /\ elsewhere

MigrationNext ==
  \/ Provision \/ MigrateIndex \/ Fails \/ AliasIndices \/ EnsureIndex \/ EnsureAlias
  \/ Reindex \/ Reindexed \/ SwapAlias \/ DeleteIndex
  \/ \E d \in Docs : IndexDoc(d) \/ \E r \in 1..MaxMigrations : Copy(r, d)

MigrationSpec == MigrationInit /\ [][MigrationNext]_migrationVars
-----------------------------------------------------------------------------
MigrationTypeOK ==
  /\ \A i \in Ready : index[i] \in [Docs -> 0..MaxIndexed]
  /\ alias \subseteq Ready
  /\ acked \in [Docs -> 0..MaxIndexed]
  /\ mpc \in {"off", "resolve", "ensure", "point", "reindex", "waiting", "swap", "delete", "ok"}
  /\ olds \subseteq Indices /\ todo \subseteq olds \ {New}
  /\ \A r \in 1..MaxMigrations : DOMAIN task[r] \subseteq Docs

Searched(d) == {index[i][d] : i \in alias}

(***************************************************************************)
(* "Reads are unaffected throughout" (lifecycle.go line 88): through any   *)
(* failures and repetitions, every document that was not written while     *)
(* MigrateIndex ran, or while a copy it gave up on was still going, is     *)
(* found through the alias at its last version.                            *)
(***************************************************************************)
ReadsUnaffected == \A d \in Docs \ windowed : acked[d] > 0 => acked[d] \in Searched(d)

(***************************************************************************)
(* When MigrateIndex returns nil the alias is on the new index alone,      *)
(* which has every such document, also when earlier calls failed half way. *)
(***************************************************************************)
SuccessIsComplete ==
  mpc = "ok" => /\ alias = {New}
                /\ \A d \in Docs \ windowed : index[New][d] = acked[d]

(***************************************************************************)
(* Once there is an alias, searches never find it without an index         *)
(* (aliases.go lines 24-26).                                               *)
(***************************************************************************)
AliasNeverEmpty == alias # {} => alias' # {}

(***************************************************************************)
(* What MigrateIndex promises: reads are unaffected, success is complete,  *)
(* and the alias never dangles.                                            *)
(***************************************************************************)
MigrationContract ==
  [][/\ MigrationTypeOK'
     /\ ReadsUnaffected'
     /\ SuccessIsComplete'
     /\ AliasNeverEmpty]_migrationVars
=============================================================================
