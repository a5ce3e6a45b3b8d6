-------------------------- MODULE DataAccessProofs --------------------------
(***************************************************************************)
(* What is written to the stores, each component proved for every value of *)
(* its constants.                                                          *)
(***************************************************************************)
EXTENDS EntityWrites, IndexMigration, ObjectStore, Integers, FiniteSetTheorems,
        WellFoundedInduction, TLAPS

(***************************************************************************)
(* mapping.MigrateIndex                                                    *)
(***************************************************************************)

MigrationTypes ==
  /\ MigrationTypeOK
  /\ DOMAIN index = Indices /\ DOMAIN task = 1..MaxMigrations
  /\ provision \in BOOLEAN /\ runs \in 0..MaxMigrations
  /\ windowed \subseteq Docs

(* Where MigrateIndex is, and what it then knows of the alias. *)
AliasInv ==
  /\ Running => runs > 0
  /\ mpc \in {"reindex", "waiting", "swap", "delete", "point"} => New \in Ready
  /\ mpc \in {"ensure", "reindex", "waiting"} => olds = alias
  /\ mpc \in {"resolve", "ensure"} => todo = {}
  /\ mpc = "point" => alias = {}
  /\ mpc \in {"reindex", "waiting", "swap"} => alias # {}
  /\ mpc = "swap" => alias \ {New} = todo
  /\ mpc \in {"delete", "ok"} => alias = {New}
  /\ runs = 0 /\ ~provision => Ready = {}
  /\ \A r \in 1..MaxMigrations : task[r] # NoTask => r <= runs /\ New \in Ready

(* What the indices and the tasks hold of a document. *)
Bounded(d) ==
  /\ \A i \in Ready : index[i][d] <= acked[d]
  /\ \A r \in 1..MaxMigrations : d \in DOMAIN task[r] => task[r][d] \in 0..acked[d]

(* A document that was last written with no migration under way is in a    *)
(* task, and behind the alias, at its last version or not at all; it has   *)
(* reached the new index when that is behind the alias or about to be, and *)
(* while indices are copied, every one that is done with has left it there *)
(* or in the task that is waited for.                                      *)
Quiet(d) ==
  /\ \A r \in 1..MaxMigrations : d \in DOMAIN task[r] => task[r][d] \in {0, acked[d]}
  /\ \A i \in alias : index[i][d] \in {0, acked[d]}
  /\ acked[d] > 0 => \E i \in alias : index[i][d] = acked[d]
  /\ New \in alias \/ mpc = "swap" => index[New][d] = acked[d]
  /\ mpc \in {"reindex", "waiting"} =>
       \A o \in others \ todo : index[o][d] = acked[d] =>
         \/ index[New][d] = acked[d]
         \/ mpc = "waiting" /\ d \in DOMAIN task[runs] /\ task[runs][d] = acked[d]

MigrationInv ==
  /\ MigrationTypes
  /\ AliasInv
  /\ \A d \in Docs : Bounded(d)
  /\ \A d \in Docs \ windowed : Quiet(d)

LEMMA MigrationInvGives ==
  MigrationInv => MigrationTypeOK /\ ReadsUnaffected /\ SuccessIsComplete
<1> SUFFICES ASSUME MigrationInv PROVE MigrationTypeOK /\ ReadsUnaffected /\ SuccessIsComplete
  OBVIOUS
<1>1. ReadsUnaffected
  BY Zenon DEF MigrationInv, Quiet, ReadsUnaffected, Searched
<1>2. SuccessIsComplete
  BY Zenon DEF MigrationInv, AliasInv, Quiet, SuccessIsComplete
<1> QED BY Zenon, <1>1, <1>2 DEF MigrationInv, MigrationTypes

LEMMA Contents ==
  /\ \A f : f \in [Docs -> 0..MaxIndexed] => f # Missing
  /\ DOMAIN NoTask = {} /\ New \in Indices
<1>1. ASSUME NEW f \in [Docs -> 0..MaxIndexed] PROVE f # Missing
  <2>1. DOMAIN f = Docs /\ DOMAIN Missing = {}
    BY Zenon DEF Missing
  <2> QED BY Zenon, <2>1, DocsAssumption
<1> QED BY Zenon, <1>1 DEF NoTask, Indices

LEMMA InitMigration == MigrationInit => MigrationInv
<1> SUFFICES ASSUME MigrationInit PROVE MigrationInv
  OBVIOUS
<1> USE DEF MigrationInit
<1>1. Ready = {} /\ provision \in BOOLEAN
  BY Zenon DEF Ready
<1>2. MigrationTypes
  BY <1>1, Contents, DocsAssumption DEF MigrationTypes, MigrationTypeOK
<1>3. AliasInv
  BY Zenon, <1>1 DEF AliasInv, Running
<1>4. ASSUME NEW d \in Docs PROVE Bounded(d) /\ Quiet(d)
  BY <1>1, Contents DEF Bounded, Quiet
<1> QED BY Zenon, <1>2, <1>3, <1>4 DEF MigrationInv

LEMMA ProvisionKeeps == ASSUME MigrationInv, Provision PROVE MigrationInv'
<1> USE DEF MigrationInv
<1>1. PICK S \in (SUBSET Olds) \ {{}} : \E home \in [Docs -> S \cup {New}] :
        /\ index' = [i \in Indices |-> IF i \in S THEN [d \in Docs |-> IF home[d] = i THEN 1 ELSE 0]
                                      ELSE index[i]]
        /\ acked' = [d \in Docs |-> IF home[d] = New THEN 0 ELSE 1]
        /\ alias' = S
  BY Zenon DEF Provision
<1>2. PICK home \in [Docs -> S \cup {New}] :
        /\ index' = [i \in Indices |-> IF i \in S THEN [d \in Docs |-> IF home[d] = i THEN 1 ELSE 0]
                                      ELSE index[i]]
        /\ acked' = [d \in Docs |-> IF home[d] = New THEN 0 ELSE 1]
        /\ alias' = S
  BY Zenon, <1>1
<1>3. /\ runs = 0 /\ mpc = "off" /\ Ready = {} /\ S # {} /\ S \subseteq Olds /\ New \notin S
      /\ UNCHANGED <<task, mpc, olds, todo, deleteOld, runs, windowed>>
      /\ \A r \in 1..MaxMigrations : task[r] = NoTask
  BY Zenon, NewAssumption DEF Provision, AliasInv
<1>4. \A i \in S : index'[i] \in [Docs -> 0..MaxIndexed]
  BY <1>2, <1>3, DocsAssumption DEF Indices
<1>5. Ready' = S
  <2>1. \A i \in Indices \ S : index'[i] = Missing
    BY Zenon, <1>2, <1>3 DEF Ready
  <2> QED BY <1>3, <1>4, <2>1, Contents DEF Ready, Indices
<1>6. provision' \in BOOLEAN /\ provision'
  BY Zenon DEF Provision
<1>7. MigrationTypes'
  BY <1>2, <1>3, <1>4, <1>5, <1>6, DocsAssumption DEF MigrationTypes, MigrationTypeOK
<1>8. AliasInv'
  BY Zenon, <1>2, <1>3, <1>5, <1>6 DEF AliasInv, Running
<1>9. ASSUME NEW d \in Docs PROVE Bounded(d)' /\ Quiet(d)'
  <2>1. /\ home[d] \in S \cup {New}
        /\ acked'[d] = IF home[d] = New THEN 0 ELSE 1
        /\ \A i \in S : index'[i][d] = IF home[d] = i THEN 1 ELSE 0
    BY Zenon, <1>2, <1>3 DEF Indices
  <2>2. mpc' = "off" /\ New \notin alias' /\ \A r \in 1..MaxMigrations : d \notin DOMAIN task'[r]
    BY Zenon, <1>2, <1>3, Contents
  <2>3. acked'[d] > 0 => index'[home[d]][d] = acked'[d] /\ home[d] \in alias'
    BY <1>2, <2>1
  <2>4. \A i \in S : index'[i][d] \in {0, acked'[d]} /\ index'[i][d] <= acked'[d]
    BY <1>3, <2>1
  <2>5. Bounded(d)'
    BY Zenon, <1>5, <2>2, <2>4 DEF Bounded
  <2> QED BY Zenon, <1>2, <2>2, <2>3, <2>4, <2>5 DEF Quiet
<1> QED BY Zenon, <1>7, <1>8, <1>9

(* Steps of MigrateIndex that touch no index, task or document. *)
LEMMA QuietSteps ==
  ASSUME MigrationInv, MigrateIndex \/ Fails \/ AliasIndices \/ Reindexed
  PROVE  MigrationInv'
<1> USE DEF MigrationInv
<1>1. UNCHANGED <<index, alias, task, acked, windowed, provision>>
  BY Zenon DEF MigrateIndex, Fails, AliasIndices, Reindexed, elsewhere
<1>2. Ready' = Ready /\ (\A d \in Docs : Bounded(d)')
  BY Zenon, <1>1 DEF Ready, Bounded
<1>3. alias \subseteq Indices
  BY Zenon DEF MigrationTypes, MigrationTypeOK, Ready
<1>4. CASE MigrateIndex
  <2>1. mpc' = "resolve" /\ olds' = {} /\ todo' = {} /\ runs' = runs + 1 /\ runs < MaxMigrations
    BY Zenon, <1>4 DEF MigrateIndex, to
  <2>2. MigrationTypes'
    BY <1>1, <1>2, <2>1, DocsAssumption DEF MigrationTypes, MigrationTypeOK
  <2>3. AliasInv'
    BY <1>1, <1>2, <2>1 DEF AliasInv, Running, MigrationTypes
  <2>4. \A d \in Docs \ windowed : Quiet(d)'
    BY Zenon, <1>1, <2>1 DEF Quiet
  <2> QED BY Zenon, <1>1, <1>2, <2>2, <2>3, <2>4
<1>5. CASE Fails
  <2>1. mpc' = "off" /\ UNCHANGED <<olds, todo, runs>>
    BY Zenon, <1>5 DEF Fails, to
  <2>2. MigrationTypes'
    BY Zenon, <1>1, <1>2, <2>1 DEF MigrationTypes, MigrationTypeOK
  <2>3. AliasInv'
    BY Zenon, <1>1, <1>2, <2>1 DEF AliasInv, Running
  <2>4. \A d \in Docs \ windowed : Quiet(d)'
    BY Zenon, <1>1, <2>1 DEF Quiet
  <2> QED BY ZenonT(30), <1>1, <1>2, <2>2, <2>3, <2>4
<1>6. CASE AliasIndices
  <2>1. mpc = "resolve" /\ mpc' = "ensure" /\ olds' = alias /\ UNCHANGED <<todo, runs>> /\ todo = {}
    BY Zenon, <1>6 DEF AliasIndices, to, AliasInv
  <2>2. MigrationTypes'
    BY Zenon, <1>1, <1>2, <1>3, <2>1 DEF MigrationTypes, MigrationTypeOK
  <2>3. AliasInv'
    BY Zenon, <1>1, <1>2, <2>1 DEF AliasInv, Running
  <2>4. \A d \in Docs \ windowed : Quiet(d)'
    BY Zenon, <1>1, <2>1 DEF Quiet
  <2> QED BY ZenonT(30), <1>1, <1>2, <2>2, <2>3, <2>4
<1>7. CASE Reindexed
  <2>1. mpc = "waiting" /\ task[runs] = NoTask /\ mpc' = "reindex" /\ UNCHANGED <<todo, olds, runs>>
    BY Zenon, <1>7 DEF Reindexed, to
  <2>2. MigrationTypes'
    BY Zenon, <1>1, <1>2, <2>1 DEF MigrationTypes, MigrationTypeOK
  <2>3. AliasInv'
    BY Zenon, <1>1, <1>2, <2>1 DEF AliasInv, Running
  <2>4. others' = others
    BY Zenon, <2>1 DEF others
  <2>5. \A d \in Docs \ windowed : Quiet(d)'
    BY ZenonT(30), <1>1, <2>1, <2>4, Contents DEF Quiet
  <2> QED BY ZenonT(30), <1>1, <1>2, <2>2, <2>3, <2>5
<1> QED BY Zenon, <1>4, <1>5, <1>6, <1>7

LEMMA EnsureIndexKeeps == ASSUME MigrationInv, EnsureIndex PROVE MigrationInv'
<1> USE DEF MigrationInv
<1>1. /\ mpc = "ensure" /\ todo' = others /\ olds = alias /\ todo = {}
      /\ index' = IF New \in Ready THEN index ELSE [index EXCEPT ![New] = [d \in Docs |-> 0]]
      /\ mpc' = "off" \/ (mpc' = "point" /\ olds = {}) \/ (mpc' = "reindex" /\ olds # {})
      /\ UNCHANGED <<alias, task, olds, deleteOld, runs, acked, windowed, provision>>
  BY Zenon DEF EnsureIndex, after, elsewhere, AliasInv
<1>2. DOMAIN index' = Indices /\ index'[New] \in [Docs -> 0..MaxIndexed]
  BY <1>1, Contents, DocsAssumption DEF MigrationTypes, MigrationTypeOK
<1>3. \A i \in Indices \ {New} : index'[i] = index[i]
  BY Zenon, <1>1 DEF MigrationTypes
<1>4. Ready' = Ready \cup {New}
  BY Zenon, <1>2, <1>3, Contents DEF Ready
<1>5. alias \subseteq Ready /\ (New \in Ready => index' = index)
  BY Zenon, <1>1 DEF MigrationTypes, MigrationTypeOK
<1>6. \A i \in alias : index'[i] = index[i]
  BY Zenon, <1>3, <1>5 DEF Ready
<1>7. MigrationTypes'
  BY Zenon, <1>1, <1>2, <1>3, <1>4, <1>5 DEF MigrationTypes, MigrationTypeOK, others, Ready
<1>8. AliasInv'
  <2>1. runs > 0
    BY Zenon, <1>1 DEF AliasInv, Running
  <2> QED BY <1>1, <1>4, <2>1 DEF AliasInv, Running, others, MigrationTypes
<1>9. ASSUME NEW d \in Docs PROVE Bounded(d)'
  <2>1. acked[d] \in Nat /\ (New \notin Ready => index'[New][d] = 0)
    BY <1>1, Contents DEF MigrationTypes, MigrationTypeOK
  <2>2. \A i \in Ready' : index'[i][d] <= acked'[d]
    BY SMTT(30), <1>1, <1>3, <1>4, <1>5, <2>1 DEF Bounded, Ready
  <2> QED BY Zenon, <1>1, <2>2 DEF Bounded
<1>10. ASSUME NEW d \in Docs \ windowed PROVE Quiet(d)'
  <2>1. Quiet(d) /\ mpc' # "swap" /\ mpc' # "waiting" /\ others' \ todo' = {}
    BY Zenon, <1>1 DEF others
  <2>2. New \in alias => index' = index
    BY Zenon, <1>5
  <2> QED BY ZenonT(30), <1>1, <1>6, <2>1, <2>2 DEF Quiet
<1> QED BY Zenon, <1>1, <1>7, <1>8, <1>9, <1>10

LEMMA EnsureAliasKeeps == ASSUME MigrationInv, EnsureAlias PROVE MigrationInv'
<1> USE DEF MigrationInv
<1>1. /\ mpc = "point" /\ alias = {} /\ alias' = {New} /\ New \in Ready /\ runs > 0
      /\ mpc' \in {"ok", "off"}
      /\ UNCHANGED <<index, acked, task, olds, todo, deleteOld, runs, windowed>>
  BY Zenon DEF EnsureAlias, after, AliasInv, Running
<1>2. provision' \in BOOLEAN /\ Ready' = Ready
  <2>1. provision' \in BOOLEAN
    BY Zenon DEF EnsureAlias
  <2> QED BY Zenon, <1>1, <2>1 DEF Ready
<1>3. MigrationTypes'
  BY Zenon, <1>1, <1>2 DEF MigrationTypes, MigrationTypeOK
<1>4. AliasInv'
  BY SMTT(30), <1>1, <1>2 DEF AliasInv, Running, MigrationTypes
<1>5. ASSUME NEW d \in Docs PROVE Bounded(d)'
  BY Zenon, <1>1, <1>2 DEF Bounded
<1>6. ASSUME NEW d \in Docs \ windowed PROVE Quiet(d)'
  <2>1. acked[d] \in Nat /\ index[New][d] \in Nat /\ index[New][d] <= acked[d]
    BY <1>1 DEF Bounded, MigrationTypes, MigrationTypeOK
  <2>2. acked[d] = 0
    BY <1>1, <2>1 DEF Quiet
  <2>3. index[New][d] = 0
    BY <2>1, <2>2
  <2> QED BY Zenon, <1>1, <2>2, <2>3 DEF Quiet
<1> QED BY Zenon, <1>1, <1>3, <1>4, <1>5, <1>6

LEMMA SwapAliasKeeps == ASSUME MigrationInv, SwapAlias PROVE MigrationInv'
<1> USE DEF MigrationInv
<1>1. /\ mpc = "swap" /\ New \in Ready /\ alias # {} /\ alias \ {New} = todo /\ runs > 0
      /\ UNCHANGED <<index, task, olds, deleteOld, runs, acked, windowed, provision>>
  BY Zenon DEF SwapAlias, elsewhere, AliasInv, Running
<1>2. \/ /\ todo = {} /\ alias' = alias /\ alias = {New} /\ mpc' \in {"delete", "ok"} /\ todo' = others
      \/ /\ todo' \subseteq todo /\ alias' \ {New} = todo' /\ mpc' \in {"swap", "off"}
         /\ alias' \subseteq alias \cup {New} /\ New \in alias'
  <2>1. CASE todo = {}
    BY Zenon, <1>1, <2>1 DEF SwapAlias
  <2>2. CASE todo # {}
    <3>1. PICK o \in todo : alias' = (alias \ {o}) \cup {New} /\ todo' = todo \ {o}
                           /\ mpc' \in {"swap", "off"}
      BY Zenon, <2>2 DEF SwapAlias, after
    <3> QED BY Zenon, <1>1, <3>1
  <2> QED BY Zenon, <2>1, <2>2
<1>3. Ready' = Ready /\ alias' \subseteq alias \cup {New} /\ New \in alias'
  BY Zenon, <1>1, <1>2 DEF Ready
<1>4. MigrationTypes'
  BY Zenon, <1>1, <1>2, <1>3 DEF MigrationTypes, MigrationTypeOK, others
<1>5. AliasInv'
  BY Zenon, <1>1, <1>2, <1>3 DEF AliasInv, Running, MigrationTypes
<1>6. ASSUME NEW d \in Docs PROVE Bounded(d)'
  BY Zenon, <1>1, <1>3 DEF Bounded
<1>7. ASSUME NEW d \in Docs \ windowed PROVE Quiet(d)'
  <2>1. Quiet(d) /\ index[New][d] = acked[d]
    BY Zenon, <1>1 DEF Quiet
  <2> QED BY Zenon, <1>1, <1>2, <1>3, <2>1 DEF Quiet
<1> QED BY Zenon, <1>1, <1>4, <1>5, <1>6, <1>7

LEMMA DeleteIndexKeeps == ASSUME MigrationInv, DeleteIndex PROVE MigrationInv'
<1> USE DEF MigrationInv
<1>1. /\ mpc = "delete" /\ New \in Ready /\ alias = {New} /\ runs > 0
      /\ UNCHANGED <<alias, task, olds, deleteOld, runs, acked, windowed, provision>>
  BY Zenon DEF DeleteIndex, elsewhere, AliasInv, Running
<1>2. PICK gone \in SUBSET todo :
        /\ \A i \in Indices : index'[i] = IF i \in gone THEN Missing ELSE index[i]
        /\ DOMAIN index' = Indices /\ todo' = todo \ gone /\ mpc' \in {"delete", "off", "ok"}
  <2>1. CASE todo = {}
    BY Zenon, <1>1, <2>1 DEF DeleteIndex, to, MigrationTypes
  <2>2. CASE todo # {}
    <3>1. PICK o \in todo : index' = [index EXCEPT ![o] = Missing] /\ todo' = todo \ {o}
                           /\ mpc' \in {"delete", "off"}
      BY Zenon, <2>2 DEF DeleteIndex, after
    <3>2. {o} \in SUBSET todo /\ \A i \in Indices : index'[i] = IF i \in {o} THEN Missing ELSE index[i]
      BY Zenon, <3>1 DEF MigrationTypes
    <3> QED BY Zenon, <3>1, <3>2 DEF MigrationTypes
  <2> QED BY Zenon, <2>1, <2>2
<1>3. New \notin gone /\ Ready' = Ready \ gone
  BY Zenon, <1>2 DEF MigrationTypes, MigrationTypeOK, Ready
<1>4. \A i \in Ready' : index'[i] = index[i] /\ i \in Ready
  BY Zenon, <1>2, <1>3 DEF Ready
<1>5. index'[New] = index[New]
  BY Zenon, <1>2, <1>3, Contents
<1>6. MigrationTypes'
  BY Zenon, <1>1, <1>2, <1>3, <1>4 DEF MigrationTypes, MigrationTypeOK
<1>7. AliasInv'
  BY Zenon, <1>1, <1>2, <1>3 DEF AliasInv, Running, MigrationTypes
<1>8. ASSUME NEW d \in Docs PROVE Bounded(d)'
  BY Zenon, <1>1, <1>4 DEF Bounded
<1>9. ASSUME NEW d \in Docs \ windowed PROVE Quiet(d)'
  BY Zenon, <1>1, <1>2, <1>5 DEF Quiet
<1> QED BY Zenon, <1>1, <1>6, <1>7, <1>8, <1>9

LEMMA ReindexKeeps == ASSUME MigrationInv, Reindex PROVE MigrationInv'
<1> USE DEF MigrationInv
<1>1. /\ mpc = "reindex" /\ New \in Ready /\ alias # {} /\ olds = alias /\ runs \in 1..MaxMigrations
      /\ UNCHANGED <<index, alias, olds, deleteOld, runs, acked, windowed, provision>>
  BY DocsAssumption DEF Reindex, elsewhere, AliasInv, Running, MigrationTypes
<1>2. Ready' = Ready /\ others' = others /\ others = alias \ {New}
  BY Zenon, <1>1 DEF Ready, others
<1>3. CASE todo = {} /\ mpc' = "swap" /\ todo' = others /\ UNCHANGED task
  <2>1. MigrationTypes'
    BY Zenon, <1>1, <1>2, <1>3 DEF MigrationTypes, MigrationTypeOK
  <2>2. AliasInv'
    BY Zenon, <1>1, <1>2, <1>3 DEF AliasInv, Running
  <2>3. ASSUME NEW d \in Docs PROVE Bounded(d)'
    BY Zenon, <1>1, <1>2, <1>3 DEF Bounded
  <2>4. ASSUME NEW d \in Docs \ windowed PROVE Quiet(d)'
    <3>1. acked[d] \in Nat /\ index[New][d] \in Nat /\ index[New][d] <= acked[d]
      BY SMTT(30), <1>1 DEF Bounded, MigrationTypes, MigrationTypeOK
    <3>2. acked[d] > 0 => index[New][d] = acked[d]
      BY <1>1, <1>2, <1>3 DEF Quiet
    <3>3. index[New][d] = acked[d]
      BY <3>1, <3>2
    <3> QED BY Zenon, <1>1, <1>3, <3>3 DEF Quiet
  <2> QED BY Zenon, <1>1, <2>1, <2>2, <2>3, <2>4
<1>4. ASSUME NEW o \in todo, index[o] # Missing, task' = [task EXCEPT ![runs] = index[o]],
             todo' = todo \ {o}, mpc' = "waiting"
      PROVE  MigrationInv'
  <2>1. o \in Ready /\ o \in alias /\ o \in others /\ index[o] \in [Docs -> 0..MaxIndexed]
    BY Zenon, <1>1, <1>2, <1>4 DEF MigrationTypes, MigrationTypeOK, Ready
  <2>2. DOMAIN task' = 1..MaxMigrations
        /\ \A r \in 1..MaxMigrations : task'[r] = IF r = runs THEN index[o] ELSE task[r]
    BY Zenon, <1>1, <1>4 DEF MigrationTypes
  <2>3. DOMAIN index[o] = Docs
    BY Zenon, <2>1
  <2>4. MigrationTypes'
    BY Zenon, <1>1, <1>2, <1>4, <2>2, <2>3 DEF MigrationTypes, MigrationTypeOK
  <2>5. AliasInv'
    BY SMTT(30), <1>1, <1>2, <1>4, <2>2 DEF AliasInv, Running, MigrationTypes
  <2>6. ASSUME NEW d \in Docs PROVE Bounded(d)'
    <3>1. index[o][d] \in 0..acked[d]
      BY SMTT(30), <2>1 DEF Bounded, MigrationTypes, MigrationTypeOK
    <3> QED BY Zenon, <1>1, <1>2, <2>2, <3>1 DEF Bounded
  <2>7. ASSUME NEW d \in Docs \ windowed PROVE Quiet(d)'
    <3>1. Quiet(d) /\ index[o][d] \in {0, acked[d]}
      BY Zenon, <2>1 DEF Quiet
    <3>2. d \in DOMAIN task'[runs] /\ task'[runs][d] = index[o][d]
      BY Zenon, <1>1, <2>2, <2>3
    <3>3. \A r \in 1..MaxMigrations : d \in DOMAIN task'[r] => task'[r][d] \in {0, acked[d]}
      BY Zenon, <2>2, <3>1, <3>2 DEF Quiet
    <3>4. \A p \in others \ todo' : index[p][d] = acked[d] =>
             index[New][d] = acked[d] \/ task'[runs][d] = acked[d]
      BY Zenon, <1>1, <1>4, <3>1, <3>2 DEF Quiet
    <3> QED BY ZenonT(30), <1>1, <1>2, <1>4, <3>2, <3>3 DEF Quiet
  <2> QED BY Zenon, <1>1, <2>4, <2>5, <2>6, <2>7
<1>5. CASE mpc' = "off" /\ UNCHANGED <<task, todo>>
  <2>1. MigrationTypes'
    BY Zenon, <1>1, <1>2, <1>5 DEF MigrationTypes, MigrationTypeOK
  <2>2. AliasInv'
    BY Zenon, <1>1, <1>2, <1>5 DEF AliasInv, Running
  <2>3. ASSUME NEW d \in Docs PROVE Bounded(d)'
    BY Zenon, <1>1, <1>2, <1>5 DEF Bounded
  <2>4. ASSUME NEW d \in Docs \ windowed PROVE Quiet(d)'
    BY Zenon, <1>1, <1>5 DEF Quiet
  <2> QED BY ZenonT(30), <1>1, <2>1, <2>2, <2>3, <2>4
<1> QED BY Zenon, <1>3, <1>4, <1>5 DEF Reindex, to

LEMMA CopyKeeps ==
  ASSUME MigrationInv, NEW r \in 1..MaxMigrations, NEW d \in Docs, Copy(r, d)
  PROVE  MigrationInv'
<1> USE DEF MigrationInv
<1>1. /\ d \in DOMAIN task[r]
      /\ UNCHANGED <<alias, acked, mpc, olds, todo, deleteOld, runs, windowed, provision>>
  BY Zenon DEF Copy
<1>2. New \in Ready /\ index[New] \in [Docs -> 0..MaxIndexed] /\ r <= runs /\ task[r] # NoTask
  <2>1. task[r] # NoTask
    BY Zenon, <1>1, Contents
  <2> QED BY Zenon, <2>1 DEF AliasInv, MigrationTypes, MigrationTypeOK
<1>3. task[r][d] \in 0..acked[d] /\ acked[d] \in 0..MaxIndexed /\ task[r][d] \in 0..MaxIndexed
  BY SMTT(30), <1>1, DocsAssumption DEF Bounded, MigrationTypes, MigrationTypeOK
<1> DEFINE v == IF task[r][d] = 0 THEN index[New][d] ELSE task[r][d]
<1>4. v \in 0..MaxIndexed
  BY Zenon, <1>2, <1>3
<1>5. index' = [index EXCEPT ![New] = [index[New] EXCEPT ![d] = v]]
  BY Zenon DEF Copy
<1>6. /\ DOMAIN index' = Indices /\ index'[New] = [index[New] EXCEPT ![d] = v]
      /\ \A i \in Indices \ {New} : index'[i] = index[i]
  BY Zenon, <1>5, Contents DEF MigrationTypes
<1> HIDE DEF v
<1>7. index'[New] \in [Docs -> 0..MaxIndexed] /\ index'[New][d] = v
      /\ \A e \in Docs \ {d} : index'[New][e] = index[New][e]
  BY Zenon, <1>2, <1>4, <1>6
<1>8. Ready' = Ready
  BY ZenonT(30), <1>2, <1>6, <1>7, Contents DEF Ready
<1>9. /\ DOMAIN task' = 1..MaxMigrations /\ \A q \in (1..MaxMigrations) \ {r} : task'[q] = task[q]
      /\ task'[r] = [e \in DOMAIN task[r] \ {d} |-> task[r][e]]
  BY Zenon DEF Copy, MigrationTypes
<1>10. DOMAIN task'[r] = DOMAIN task[r] \ {d} /\ \A e \in DOMAIN task'[r] : task'[r][e] = task[r][e]
  BY Zenon, <1>9
<1>11. \A q \in 1..MaxMigrations : \A e \in DOMAIN task'[q] :
         e \in DOMAIN task[q] /\ task'[q][e] = task[q][e]
  BY Zenon, <1>9, <1>10
<1>12. MigrationTypes'
  <2>1. \A i \in Ready' : index'[i] \in [Docs -> 0..MaxIndexed]
    BY Zenon, <1>6, <1>7, <1>8 DEF MigrationTypes, MigrationTypeOK, Ready
  <2>2. \A q \in 1..MaxMigrations : DOMAIN task'[q] \subseteq Docs
    BY Zenon, <1>11 DEF MigrationTypes, MigrationTypeOK
  <2> QED BY Zenon, <1>1, <1>6, <1>8, <1>9, <2>1, <2>2 DEF MigrationTypes, MigrationTypeOK
<1>13. AliasInv'
  <2>1. \A q \in 1..MaxMigrations : task'[q] # NoTask => q <= runs /\ New \in Ready
    BY Zenon, <1>2, <1>9 DEF AliasInv
  <2> QED BY Zenon, <1>1, <1>8, <2>1 DEF AliasInv, Running
<1>14. ASSUME NEW e \in Docs PROVE Bounded(e)'
  <2>1. \A i \in Ready' : index'[i][e] <= acked[e]
    <3>1. index'[New][e] <= acked[e]
      BY <1>2, <1>3, <1>7 DEF Bounded, v
    <3> QED BY Zenon, <1>6, <1>8, <3>1 DEF Bounded, Ready
  <2>2. \A q \in 1..MaxMigrations : e \in DOMAIN task'[q] => task'[q][e] \in 0..acked[e]
    BY Zenon, <1>11 DEF Bounded
  <2> QED BY Zenon, <1>1, <2>1, <2>2 DEF Bounded
<1>15. ASSUME NEW e \in Docs \ windowed PROVE Quiet(e)'
  <2>1. Quiet(e) /\ others' = others /\ New \notin others
    BY Zenon, <1>1 DEF others
  <2>2. \A q \in 1..MaxMigrations : e \in DOMAIN task'[q] => task'[q][e] \in {0, acked[e]}
    BY SMTT(30), <1>11, <2>1 DEF Quiet
  <2>3. index'[New][e] = index[New][e] \/ index'[New][e] = acked[e]
    <3>1. CASE e = d
      BY Zenon, <1>1, <1>7, <2>1, <3>1 DEF Quiet, v
    <3> QED BY Zenon, <1>7, <3>1
  <2>4. \A i \in alias : index'[i][e] \in {0, acked[e]} /\ (index[i][e] = acked[e] => index'[i][e] = acked[e])
    <3>1. alias \subseteq Indices
      BY Zenon DEF MigrationTypes, MigrationTypeOK, Ready
    <3> QED BY ZenonT(30), <1>6, <2>1, <2>3, <3>1 DEF Quiet
  <2>5. New \in alias \/ mpc = "swap" => index'[New][e] = acked[e]
    BY Zenon, <2>1, <2>3 DEF Quiet
  <2>6. ASSUME mpc \in {"reindex", "waiting"}, NEW o \in others \ todo, index'[o][e] = acked[e]
        PROVE  \/ index'[New][e] = acked[e]
               \/ mpc = "waiting" /\ e \in DOMAIN task'[runs] /\ task'[runs][e] = acked[e]
    <3>1. o \in Indices \ {New} /\ index[o][e] = acked[e]
      BY Zenon, <1>6, <2>1, <2>6 DEF MigrationTypes, MigrationTypeOK, others
    <3>2. CASE index[New][e] = acked[e]
      BY Zenon, <2>3, <3>2
    <3>3. CASE mpc = "waiting" /\ e \in DOMAIN task[runs] /\ task[runs][e] = acked[e]
      <4>1. runs \in 1..MaxMigrations
        BY SMTT(30), <3>3, DocsAssumption DEF AliasInv, Running, MigrationTypes
      <4>2. CASE r # runs \/ e # d
        BY Zenon, <1>9, <1>10, <3>3, <4>1, <4>2
      <4>3. CASE r = runs /\ e = d
        <5>1. acked[e] = 0 => index[New][e] = 0
          <6>1. index[New][e] <= acked[e] /\ index[New][e] \in Nat
            BY SMTT(30), <1>2 DEF Bounded
          <6> QED BY SMTT(30), <6>1
        <5> QED BY Zenon, <1>7, <3>3, <4>3, <5>1 DEF v
      <4> QED BY Zenon, <4>2, <4>3
    <3> QED BY Zenon, <2>1, <2>6, <3>1, <3>2, <3>3 DEF Quiet
  <2>7. acked[e] > 0 => \E i \in alias : index'[i][e] = acked[e]
    BY Zenon, <2>1, <2>4 DEF Quiet
  <2> QED BY Zenon, <1>1, <2>1, <2>2, <2>4, <2>5, <2>6, <2>7 DEF Quiet
<1> QED BY Zenon, <1>1, <1>12, <1>13, <1>14, <1>15

LEMMA IndexDocKeeps == ASSUME MigrationInv, NEW d \in Docs, IndexDoc(d) PROVE MigrationInv'
<1> USE DEF MigrationInv
<1>1. PICK i \in alias : alias = {i} /\ index' = [index EXCEPT ![i][d] = acked[d] + 1]
  BY Zenon DEF IndexDoc
<1>2. /\ acked[d] < MaxIndexed /\ acked' = [acked EXCEPT ![d] = @ + 1]
      /\ UNCHANGED <<alias, task, mpc, olds, todo, deleteOld, runs, provision>>
      /\ windowed' = IF Running \/ Copying THEN windowed \cup {d} ELSE windowed \ {d}
  BY Zenon DEF IndexDoc
<1>3. /\ acked' \in [Docs -> 0..MaxIndexed] /\ acked[d] \in Nat /\ acked'[d] = acked[d] + 1
      /\ \A e \in Docs \ {d} : acked'[e] = acked[e]
  BY SMTT(30), <1>2, DocsAssumption DEF MigrationTypes, MigrationTypeOK
<1>4. i \in Ready /\ i \in Indices /\ index[i] \in [Docs -> 0..MaxIndexed]
  BY Zenon DEF MigrationTypes, MigrationTypeOK, Ready
<1>5. /\ DOMAIN index' = Indices /\ index'[i] = [index[i] EXCEPT ![d] = acked[d] + 1]
      /\ \A j \in Indices \ {i} : index'[j] = index[j]
  BY Zenon, <1>1, <1>4 DEF MigrationTypes
<1>6. /\ index'[i] \in [Docs -> 0..MaxIndexed] /\ index'[i][d] = acked[d] + 1
      /\ \A e \in Docs \ {d} : index'[i][e] = index[i][e]
  <2>1. acked[d] + 1 \in 0..MaxIndexed
    BY Zenon, <1>2, <1>3, DocsAssumption
  <2> QED BY Zenon, <1>4, <1>5, <2>1
<1>7. Ready' = Ready /\ \A j \in Indices : \A e \in Docs \ {d} : index'[j][e] = index[j][e]
  <2>1. index'[i] # Missing
    BY Zenon, <1>6, Contents
  <2> QED BY Zenon, <1>4, <1>5, <1>6, <2>1 DEF Ready
<1>8. MigrationTypes'
  <2>1. \A j \in Ready' : index'[j] \in [Docs -> 0..MaxIndexed]
    BY Zenon, <1>5, <1>6, <1>7 DEF MigrationTypes, MigrationTypeOK, Ready
  <2>2. windowed' \subseteq Docs
    BY Zenon, <1>2 DEF MigrationTypes
  <2> QED BY Zenon, <1>2, <1>3, <1>5, <1>7, <2>1, <2>2 DEF MigrationTypes, MigrationTypeOK
<1>9. AliasInv'
  BY Zenon, <1>2, <1>7 DEF AliasInv, Running
<1>10. ASSUME NEW e \in Docs PROVE Bounded(e)'
  <2>1. CASE e # d
    BY Zenon, <1>2, <1>3, <1>7, <2>1 DEF Bounded, Ready
  <2>2. CASE e = d
    <3>1. \A j \in Ready : index[j][d] \in Nat
      BY SMTT(30) DEF MigrationTypes, MigrationTypeOK
    <3>2. \A j \in Ready' : index'[j][d] <= acked'[d]
      BY SMTT(30), <1>3, <1>5, <1>6, <3>1 DEF Bounded, Ready
    <3>3. \A q \in 1..MaxMigrations : d \in DOMAIN task'[q] => task'[q][d] \in 0..acked'[d]
      BY SMTT(30), <1>2, <1>3 DEF Bounded
    <3> QED BY Zenon, <2>2, <3>2, <3>3 DEF Bounded
  <2> QED BY Zenon, <2>1, <2>2
<1>11. ASSUME NEW e \in Docs \ windowed', e # d PROVE Quiet(e)'
  <2>1. e \in Docs \ windowed /\ Quiet(e) /\ others' = others /\ others \subseteq Indices /\ New \in Indices
    BY Zenon, <1>2, <1>11, Contents DEF others, MigrationTypes, MigrationTypeOK
  <2>2. acked'[e] = acked[e] /\ \A j \in Indices : index'[j][e] = index[j][e]
    BY Zenon, <1>3, <1>7, <1>11
  <2>3. alias \subseteq Indices
    BY Zenon DEF MigrationTypes, MigrationTypeOK, Ready
  <2> QED BY ZenonT(30), <1>2, <2>1, <2>2, <2>3 DEF Quiet
<1>12. ASSUME d \notin windowed' PROVE Quiet(d)'
  <2>1. ~Running /\ ~Copying
    BY Zenon, <1>2, <1>12
  <2>2. \A q \in 1..MaxMigrations : d \notin DOMAIN task'[q]
    BY Zenon, <1>2, <2>1, Contents DEF Copying
  <2>3. mpc' \notin {"swap", "reindex", "waiting"}
    BY Zenon, <1>2, <2>1 DEF Running
  <2> QED BY Zenon, <1>1, <1>2, <1>3, <1>6, <2>2, <2>3 DEF Quiet
<1> QED BY Zenon, <1>8, <1>9, <1>10, <1>11, <1>12

LEMMA MigrationStepKeeps == MigrationInv /\ [MigrationNext]_migrationVars => MigrationInv'
<1> SUFFICES ASSUME MigrationInv, [MigrationNext]_migrationVars PROVE MigrationInv'
  OBVIOUS
<1>1. CASE MigrationNext
  BY Zenon, <1>1, ProvisionKeeps, QuietSteps, EnsureIndexKeeps, EnsureAliasKeeps, ReindexKeeps, SwapAliasKeeps,
     DeleteIndexKeeps, IndexDocKeeps, CopyKeeps DEF MigrationNext
<1>2. CASE UNCHANGED migrationVars
  <2>1. Ready' = Ready /\ others' = others /\ (Running' <=> Running)
    BY Zenon, <1>2 DEF migrationVars, Ready, others, Running
  <2>2. MigrationTypes' /\ AliasInv'
    BY SMTT(30), <1>2, <2>1 DEF migrationVars, MigrationInv, MigrationTypes, MigrationTypeOK, AliasInv
  <2>3. windowed' = windowed /\ \A d \in Docs : (Bounded(d)' <=> Bounded(d)) /\ (Quiet(d)' <=> Quiet(d))
    BY ZenonT(30), <1>2, <2>1 DEF migrationVars, Bounded, Quiet
  <2> QED BY Zenon, <2>2, <2>3 DEF MigrationInv
<1> QED BY Zenon, <1>1, <1>2

LEMMA AliasStays == MigrationInv /\ MigrationNext => AliasNeverEmpty
<1> SUFFICES ASSUME MigrationInv, MigrationNext, alias # {} PROVE alias' # {}
  BY Zenon DEF AliasNeverEmpty
<1>1. ASSUME Provision PROVE alias' # {}
  BY Zenon, <1>1 DEF Provision
<1>2. ASSUME SwapAlias PROVE alias' # {}
  BY Zenon, <1>2 DEF SwapAlias
<1>3. ASSUME EnsureAlias PROVE alias' # {}
  BY Zenon, <1>3 DEF EnsureAlias
<1> QED BY Zenon, <1>1, <1>2, <1>3 DEF MigrationNext, MigrateIndex, Fails, AliasIndices, EnsureIndex, Reindex,
     Reindexed, DeleteIndex, IndexDoc, Copy

(***************************************************************************)
(* MigrateIndex, for any indices, documents and number of calls, any of    *)
(* which may fail anywhere and leave its copy running: every document not  *)
(* written meanwhile is found through the alias at its last version, a     *)
(* call that returns nil has left the alias on the new index alone with    *)
(* all of them, and the alias is never without an index again.             *)
(***************************************************************************)
THEOREM MigrationKept == MigrationSpec => MigrationContract
<1> DEFINE Promise == MigrationTypeOK' /\ ReadsUnaffected' /\ SuccessIsComplete' /\ AliasNeverEmpty
<1>1. MigrationInv' => MigrationTypeOK' /\ ReadsUnaffected' /\ SuccessIsComplete'
  BY MigrationInvGives, PTL
<1>2. MigrationInv /\ [MigrationNext]_migrationVars => [Promise]_migrationVars
  BY Zenon, <1>1, MigrationStepKeeps, AliasStays
<1> QED BY <1>2, InitMigration, MigrationStepKeeps, PTL DEF MigrationSpec, MigrationContract

-----------------------------------------------------------------------------
(***************************************************************************)
(* The writes of dao.BaseDAO                                               *)
(***************************************************************************)

People == Actors \cup {NoOne}
Rows == [status : {"ACTIVE", "DELETED"}, body : Bodies \cup {NoOne}, createdBy : People, updatedBy : People]

LEMMA RowFacts ==
  /\ NoRow \notin Rows
  /\ \A st \in {"ACTIVE", "DELETED"}, b \in Bodies \cup {NoOne}, c, u \in People :
       /\ RowOf(st, b, c, u) \in Rows
       /\ RowOf(st, b, c, u).createdBy = c /\ RowOf(st, b, c, u).updatedBy = u
<1>1. \A row \in Rows : row # NoRow
  <2> SUFFICES ASSUME NEW row \in Rows, row = NoRow PROVE FALSE
    OBVIOUS
  <2>1. DOMAIN row = {"status", "body", "createdBy", "updatedBy"}
    BY Zenon DEF Rows
  <2>2. DOMAIN row = {"absent"}
    BY Zenon DEF NoRow
  <2> QED BY Zenon, <2>1, <2>2
<1> QED BY ZenonT(30), <1>1 DEF Rows, RowOf

(* An UPDATE of some columns, none of them created_by. *)
LEMMA RowEdit ==
  ASSUME NEW row \in Rows, NEW g, "createdBy" \notin DOMAIN g,
         "status" \in DOMAIN g => g["status"] \in {"ACTIVE", "DELETED"},
         "body" \in DOMAIN g => g["body"] \in Bodies \cup {NoOne},
         "updatedBy" \in DOMAIN g => g["updatedBy"] \in People,
         NEW new, new = [c \in DOMAIN row |-> IF c \in DOMAIN g THEN g[c] ELSE row[c]]
  PROVE  /\ new \in Rows /\ new.createdBy = row.createdBy
         /\ new.updatedBy = IF "updatedBy" \in DOMAIN g THEN g["updatedBy"] ELSE row.updatedBy
<1>1. DOMAIN row = {"status", "body", "createdBy", "updatedBy"}
  BY Zenon DEF Rows
<1>2. /\ new["status"] = IF "status" \in DOMAIN g THEN g["status"] ELSE row["status"]
      /\ new["body"] = IF "body" \in DOMAIN g THEN g["body"] ELSE row["body"]
      /\ new["createdBy"] = row["createdBy"]
      /\ new["updatedBy"] = IF "updatedBy" \in DOMAIN g THEN g["updatedBy"] ELSE row["updatedBy"]
  BY Zenon, <1>1
<1>3. new = RowOf(new["status"], new["body"], new["createdBy"], new["updatedBy"])
  BY Zenon, <1>1 DEF RowOf
<1>4. /\ row["status"] \in {"ACTIVE", "DELETED"} /\ row["body"] \in Bodies \cup {NoOne}
      /\ row["createdBy"] \in People /\ row["updatedBy"] \in People
  BY Zenon DEF Rows
<1>5. /\ new["status"] \in {"ACTIVE", "DELETED"} /\ new["body"] \in Bodies \cup {NoOne}
      /\ new["createdBy"] \in People /\ new["updatedBy"] \in People
  BY Zenon, <1>2, <1>4
<1> QED BY SMTT(30), <1>2, <1>3, <1>5, RowFacts

LEMMA AuditColumns ==
  ASSUME NEW b, NEW actor \in People
  PROVE  LET m == auditInsert([body |-> b], actor) IN
         /\ column(m, "body") = b /\ column(m, "createdBy") = actor /\ column(m, "updatedBy") = actor
         /\ column([body |-> b], "body") = b
         /\ column([body |-> b], "createdBy") = NoOne /\ column([body |-> b], "updatedBy") = NoOne
<1> DEFINE m == auditInsert([body |-> b], actor)
<1>1. DOMAIN m = {"body"} \cup (IF actor = NoOne THEN {} ELSE {"createdBy", "updatedBy"})
  BY Zenon DEF auditInsert
<1>2. /\ m["body"] = b
      /\ actor # NoOne => m["createdBy"] = actor /\ m["updatedBy"] = actor
  BY Zenon DEF auditInsert
<1>3. column(m, "body") = b /\ column(m, "createdBy") = actor /\ column(m, "updatedBy") = actor
  BY Zenon, <1>1, <1>2 DEF column
<1> QED BY Zenon, <1>3 DEF column

(* The row of a key, with its history. *)
RowTrue(k) ==
  /\ entity[k] \in Rows \cup {NoRow} /\ creator[k] \in People /\ editor[k] \in People
  /\ entity[k] # NoRow => /\ entity[k].createdBy = creator[k]
                          /\ entity[k].updatedBy = IF k \in erased THEN NoOne ELSE editor[k]

EntityInv ==
  /\ DOMAIN entity = Keys /\ entity = [k \in Keys |-> entity[k]]
  /\ DOMAIN creator = Keys /\ creator = [k \in Keys |-> creator[k]]
  /\ DOMAIN editor = Keys /\ editor = [k \in Keys |-> editor[k]]
  /\ scoped \in BOOLEAN
  /\ \A k \in Keys : RowTrue(k)

LEMMA EntityInvGives == EntityInv => EntityTypeOK /\ AuditTrue
<1> SUFFICES ASSUME EntityInv PROVE EntityTypeOK /\ AuditTrue
  OBVIOUS
<1>1. \A k \in Keys : entity[k] \in Rows \cup {NoRow} /\ creator[k] \in People /\ editor[k] \in People
  BY Zenon DEF EntityInv, RowTrue
<1>2. creator \in [Keys -> People] /\ editor \in [Keys -> People]
  BY Zenon, <1>1 DEF EntityInv
<1>3. AuditTrue
  BY Zenon DEF EntityInv, AuditTrue, RowTrue, Exist
<1>4. \A k \in Exist : entity[k] \in Rows
  BY Zenon, <1>1 DEF Exist
<1>5. EntityTypeOK
  BY Zenon, <1>2, <1>4 DEF EntityInv, EntityTypeOK, People, Rows
<1> QED BY Zenon, <1>3, <1>5

LEMMA InitEntity == EntityInit => EntityInv
<1> SUFFICES ASSUME EntityInit PROVE EntityInv
  OBVIOUS
<1>1. scoped \in BOOLEAN
  BY Zenon DEF EntityInit
<1>2. \A k \in Keys : RowTrue(k)
  BY Zenon DEF EntityInit, RowTrue, People
<1> QED BY Zenon, <1>1, <1>2 DEF EntityInit, EntityInv

(* A step leaves alone what it does not write. *)
RowRests(k) ==
  /\ entity'[k] = entity[k] /\ creator'[k] = creator[k] /\ editor'[k] = editor[k]
  /\ k \in erased' <=> k \in erased

(* A write of the rows ks that loses none of them, and that overwrites     *)
(* none when it says it did not write.                                     *)
Wrote(ks) ==
  /\ DOMAIN entity' = Keys /\ entity' = [k \in Keys |-> entity'[k]]
  /\ DOMAIN creator' = Keys /\ creator' = [k \in Keys |-> creator'[k]]
  /\ DOMAIN editor' = Keys /\ editor' = [k \in Keys |-> editor'[k]]
  /\ \A k \in Keys \ ks : RowRests(k)
  /\ \A k \in ks : RowTrue(k)' /\ (entity[k] # NoRow => entity'[k] # NoRow)
  /\ answer' \in {"inserted", "ignored", "conflict", "invalid"} => \A k \in ks : entity[k] = NoRow

LEMMA WroteKeeps ==
  ASSUME EntityInv, UNCHANGED scoped, NEW ks \in SUBSET Keys, Wrote(ks)
  PROVE  EntityInv' /\ NeverLost
<1>1. scoped' \in BOOLEAN
  BY Zenon DEF EntityInv
<1>2. \A k \in Keys \ ks : RowTrue(k)'
  BY SMTT(30) DEF EntityInv, Wrote, RowRests, RowTrue
<1>3. EntityInv'
  <2>1. \A k \in Keys : RowTrue(k)'
    BY Zenon, <1>2 DEF Wrote
  <2> QED BY Zenon, <1>1, <2>1 DEF Wrote, EntityInv
<1>4. NeverLost
  BY Zenon DEF NeverLost, Wrote, RowRests, Exist
<1> QED BY Zenon, <1>3, <1>4

(* A call that writes nothing. *)
LEMMA NothingWritten ==
  ASSUME EntityInv, UNCHANGED <<entity, creator, editor, erased>> PROVE Wrote({})
BY Zenon DEF Wrote, RowRests, EntityInv

(* An INSERT where there is no row. *)
LEMMA Inserted ==
  ASSUME EntityInv, NEW k \in Keys, k \notin Exist, NEW b \in Bodies, NEW c \in People, NEW m,
         column(m, "body") = b, column(m, "createdBy") = c, column(m, "updatedBy") = c, insertInto(k, m)
  PROVE  Wrote({k})
<1>1. fresh(m) \in Rows /\ fresh(m).createdBy = c /\ fresh(m).updatedBy = c /\ fresh(m) # NoRow
  <2>1. fresh(m) = RowOf("ACTIVE", b, c, c)
    BY Zenon DEF fresh
  <2> QED BY SMTT(30), <2>1, RowFacts
<1>2. /\ entity' = [entity EXCEPT ![k] = fresh(m)] /\ creator' = [creator EXCEPT ![k] = c]
      /\ editor' = [editor EXCEPT ![k] = c] /\ erased' = erased \ {k}
  BY Zenon DEF insertInto
<1>3. RowTrue(k)'
  BY Zenon, <1>1, <1>2 DEF RowTrue, EntityInv
<1>4. entity[k] = NoRow
  BY Zenon DEF Exist
<1> QED BY Zenon, <1>2, <1>3, <1>4 DEF Wrote, RowRests, EntityInv

(* An UPDATE of some columns of one row, none of them created_by. *)
LEMMA Edited ==
  ASSUME EntityInv, NEW k \in Keys, k \in Exist, NEW g, "createdBy" \notin DOMAIN g,
         "status" \in DOMAIN g => g["status"] \in {"ACTIVE", "DELETED"},
         "body" \in DOMAIN g => g["body"] \in Bodies \cup {NoOne},
         "updatedBy" \in DOMAIN g => g["updatedBy"] \in People,
         entity'[k] = [c \in DOMAIN entity[k] |-> IF c \in DOMAIN g THEN g[c] ELSE entity[k][c]],
         creator'[k] = creator[k], editor'[k] \in People,
         IF "updatedBy" \in DOMAIN g
         THEN g["updatedBy"] = IF k \in erased' THEN NoOne ELSE editor'[k]
         ELSE editor'[k] = editor[k] /\ (k \in erased' <=> k \in erased)
  PROVE  RowTrue(k)' /\ entity'[k] # NoRow
<1>1. entity[k] \in Rows /\ entity[k] # NoRow /\ RowTrue(k)
  BY Zenon DEF EntityInv, RowTrue, Exist
<1>2. /\ entity'[k] \in Rows /\ entity'[k].createdBy = entity[k].createdBy
      /\ entity'[k].updatedBy = IF "updatedBy" \in DOMAIN g THEN g["updatedBy"] ELSE entity[k].updatedBy
  BY SMTT(30), <1>1, RowEdit
<1> QED BY Zenon, <1>1, <1>2, RowFacts DEF RowTrue

LEMMA InsertsWrite ==
  ASSUME EntityInv, NEW k \in Keys, NEW b \in Bodies, NEW actor \in People,
         InsertMap(k, b, actor) \/ Insert(k, b) \/ InsertIgnore(k, b)
  PROVE  \E ks \in SUBSET Keys : Wrote(ks)
<1>1. CASE UNCHANGED <<entity, creator, editor, erased>>
  BY Zenon, <1>1, NothingWritten
<1>2. CASE k \notin Exist /\ insertInto(k, auditInsert([body |-> b], actor))
  <2>1. Wrote({k})
    BY <1>2, AuditColumns, Inserted
  <2> QED BY Zenon, <2>1
<1>3. CASE k \notin Exist /\ insertInto(k, [body |-> b])
  <2>1. NoOne \in People
    BY Zenon DEF People
  <2>2. Wrote({k})
    BY Zenon, <1>3, <2>1, AuditColumns, Inserted
  <2> QED BY ZenonT(30), <2>2
<1> QED BY Zenon, <1>1, <1>2, <1>3 DEF InsertMap, Insert, InsertIgnore, rejected

LEMMA InsertManyWrites ==
  ASSUME EntityInv, NEW ks \in SUBSET Keys, NEW b \in Bodies, NEW ragged \in BOOLEAN,
         InsertMany(ks, b, ragged)
  PROVE  \E ws \in SUBSET Keys : Wrote(ws)
<1>1. CASE UNCHANGED <<entity, creator, editor, erased>>
  BY Zenon, <1>1, NothingWritten
<1>2. CASE /\ ks \cap Exist = {}
           /\ entity' = [k \in Keys |-> IF k \in ks THEN fresh([body |-> b]) ELSE entity[k]]
           /\ creator' = [k \in Keys |-> IF k \in ks THEN NoOne ELSE creator[k]]
           /\ editor' = [k \in Keys |-> IF k \in ks THEN NoOne ELSE editor[k]]
           /\ erased' = erased \ ks
  <2>1. fresh([body |-> b]) = RowOf("ACTIVE", b, NoOne, NoOne) /\ NoOne \in People
    BY Zenon, AuditColumns DEF fresh, People
  <2>2. /\ fresh([body |-> b]) \in Rows /\ fresh([body |-> b]) # NoRow
        /\ fresh([body |-> b]).createdBy = NoOne /\ fresh([body |-> b]).updatedBy = NoOne
    BY SMTT(30), <2>1, RowFacts
  <2>3. \A k \in ks : RowTrue(k)' /\ entity'[k] # NoRow /\ entity[k] = NoRow
    BY Zenon, <1>2, <2>1, <2>2 DEF RowTrue, Exist
  <2>4. \A k \in Keys \ ks : RowRests(k)
    BY Zenon, <1>2 DEF RowRests
  <2>5. Wrote(ks)
    BY Zenon, <1>2, <2>3, <2>4 DEF Wrote
  <2> QED BY Zenon, <2>5
<1> QED BY Zenon, <1>1, <1>2 DEF InsertMany, rejected

LEMMA UpsertWrites ==
  ASSUME EntityInv, NEW k \in Keys, NEW b \in Bodies, NEW cols \in {{}, {"body"}}, NEW actor \in People,
         Upsert(k, b, cols, actor)
  PROVE  Wrote({k})
<1> DEFINE m == auditInsert([body |-> b], actor)
<1> DEFINE g == [c \in cols \cup {"updatedBy"} |-> column(m, c)]
<1>1. CASE k \notin Exist
  <2>1. insertInto(k, m)
    BY Zenon, <1>1 DEF Upsert
  <2> QED BY SMTT(30), <1>1, <2>1, AuditColumns, Inserted
<1>2. CASE k \in Exist
  <2>1. /\ entity' = [entity EXCEPT ![k] =
             [c \in DOMAIN @ |-> IF c \in cols \cup {"updatedBy"} THEN column(m, c) ELSE @[c]]]
        /\ editor' = [editor EXCEPT ![k] = IF actor = NoOne THEN @ ELSE actor]
        /\ erased' = IF actor = NoOne THEN erased \cup {k} ELSE erased \ {k}
        /\ UNCHANGED creator /\ answer' = "ok"
    BY Zenon, <1>2 DEF Upsert, auditUpdateColumns
  <2>2. column(m, "body") = b /\ column(m, "updatedBy") = actor
    BY Zenon, AuditColumns
  <2> HIDE DEF m
  <2>3. /\ DOMAIN g = cols \cup {"updatedBy"} /\ g["updatedBy"] = actor
        /\ "body" \in cols => g["body"] = b
    BY Zenon, <2>2
  <2>4. entity'[k] = [c \in DOMAIN entity[k] |-> IF c \in DOMAIN g THEN g[c] ELSE entity[k][c]]
    BY Zenon, <2>1, <2>3 DEF EntityInv
  <2>5. editor'[k] = (IF actor = NoOne THEN editor[k] ELSE actor) /\ editor'[k] \in People
    BY Zenon, <2>1 DEF EntityInv, RowTrue
  <2>6. g["updatedBy"] = IF k \in erased' THEN NoOne ELSE editor'[k]
    BY Zenon, <2>1, <2>3, <2>5
  <2> HIDE DEF g
  <2>7. RowTrue(k)' /\ entity'[k] # NoRow
    BY ZenonT(30), <1>2, <2>1, <2>3, <2>4, <2>5, <2>6, Edited
  <2>8. \A j \in Keys \ {k} : RowRests(j)
    BY Zenon, <2>1 DEF RowRests, EntityInv
  <2> QED BY Zenon, <2>1, <2>7, <2>8 DEF Wrote, EntityInv
<1> QED BY Zenon, <1>1, <1>2

(* What the columns an Update sets may be. *)
Settable(m) ==
  /\ "createdBy" \notin DOMAIN m
  /\ "status" \in DOMAIN m => m["status"] \in {"ACTIVE", "DELETED"}
  /\ "body" \in DOMAIN m => m["body"] \in Bodies \cup {NoOne}
  /\ "updatedBy" \in DOMAIN m => m["updatedBy"] \in People

LEMMA UpdateWrites ==
  ASSUME EntityInv, NEW ks \in SUBSET Keys, NEW m, Settable(m), NEW actor \in People, Update(ks, m, actor)
  PROVE  Wrote(ks)
<1> DEFINE set == auditUpdate(m, actor)
<1>1. /\ entity' = [k \in Keys |-> IF k \in ks \cap Exist
                                THEN [c \in DOMAIN entity[k] |-> IF c \in DOMAIN set THEN set[c] ELSE entity[k][c]]
                                ELSE entity[k]]
      /\ editor' = [k \in Keys |-> IF k \in ks \cap Exist /\ "updatedBy" \in DOMAIN set
                                THEN (IF "updatedBy" \in DOMAIN m THEN m["updatedBy"] ELSE actor) ELSE editor[k]]
      /\ erased' = IF "updatedBy" \in DOMAIN set THEN erased \ ks ELSE erased
      /\ answer' = "ok" /\ UNCHANGED creator
  BY Zenon DEF Update, auditedSet
<1>2. /\ DOMAIN set = DOMAIN m \cup (IF actor = NoOne THEN {} ELSE {"updatedBy"})
      /\ \A c \in DOMAIN m : set[c] = m[c]
      /\ "updatedBy" \in DOMAIN set \ DOMAIN m => set["updatedBy"] = actor
  BY Zenon DEF auditUpdate
<1> HIDE DEF set
<1>3. ASSUME NEW k \in ks PROVE RowTrue(k)' /\ (entity[k] # NoRow => entity'[k] # NoRow)
  <2>1. CASE k \in Exist
    <3>1. entity'[k] = [c \in DOMAIN entity[k] |-> IF c \in DOMAIN set THEN set[c] ELSE entity[k][c]]
      BY Zenon, <1>1, <2>1
    <3>2. editor'[k] = IF "updatedBy" \in DOMAIN set THEN set["updatedBy"] ELSE editor[k]
      BY Zenon, <1>1, <1>2, <2>1
    <3>3. /\ "createdBy" \notin DOMAIN set
          /\ "status" \in DOMAIN set => set["status"] \in {"ACTIVE", "DELETED"}
          /\ "body" \in DOMAIN set => set["body"] \in Bodies \cup {NoOne}
          /\ "updatedBy" \in DOMAIN set => set["updatedBy"] \in People
      BY Zenon, <1>2 DEF Settable
    <3>4. editor'[k] \in People
      BY Zenon, <3>2, <3>3 DEF EntityInv, RowTrue
    <3>5. IF "updatedBy" \in DOMAIN set
          THEN set["updatedBy"] = IF k \in erased' THEN NoOne ELSE editor'[k]
          ELSE editor'[k] = editor[k] /\ (k \in erased' <=> k \in erased)
      BY Zenon, <1>1, <3>2
    <3> QED BY Zenon, <1>1, <2>1, <3>1, <3>3, <3>4, <3>5, Edited
  <2>2. CASE k \notin Exist
    BY Zenon, <1>1, <2>2 DEF EntityInv, RowTrue, Exist
  <2> QED BY Zenon, <2>1, <2>2
<1>4. \A k \in Keys \ ks : RowRests(k)
  BY Zenon, <1>1 DEF RowRests
<1> QED BY Zenon, <1>1, <1>3, <1>4 DEF Wrote, EntityInv

LEMMA SoftDeleteWrites == ASSUME EntityInv, NEW k \in Keys, SoftDelete(k) PROVE \E ks \in SUBSET Keys : Wrote(ks)
<1>1. CASE k \notin Exist
  <2>1. Wrote({})
    BY Zenon, <1>1, NothingWritten DEF SoftDelete
  <2> QED BY Zenon, <2>1
<1>2. CASE k \in Exist
  <2> DEFINE g == [c \in {"status"} |-> "DELETED"]
  <2>1. /\ entity' = [entity EXCEPT ![k].status = "DELETED"] /\ answer' = "ok"
        /\ UNCHANGED <<creator, editor, erased>>
    BY Zenon, <1>2 DEF SoftDelete
  <2>2. entity'[k] = [entity[k] EXCEPT !.status = "DELETED"]
    BY Zenon, <2>1 DEF EntityInv
  <2>3. entity[k] \in Rows
    BY Zenon, <1>2 DEF EntityInv, RowTrue, Exist
  <2>4. entity'[k] = [c \in DOMAIN entity[k] |-> IF c \in DOMAIN g THEN g[c] ELSE entity[k][c]]
    BY Zenon, <2>2, <2>3 DEF Rows
  <2>5. DOMAIN g = {"status"} /\ g["status"] = "DELETED"
    OBVIOUS
  <2> HIDE DEF g
  <2>6. editor[k] \in People
    BY Zenon DEF EntityInv, RowTrue
  <2>7. RowTrue(k)' /\ entity'[k] # NoRow
    BY Zenon, <1>2, <2>1, <2>4, <2>5, <2>6, Edited
  <2>8. \A j \in Keys \ {k} : RowRests(j)
    BY Zenon, <2>1 DEF RowRests, EntityInv
  <2>9. Wrote({k})
    BY Zenon, <2>1, <2>7, <2>8 DEF Wrote, EntityInv
  <2> QED BY Zenon, <2>9
<1> QED BY Zenon, <1>1, <1>2

LEMMA HardDeleteKeeps ==
  ASSUME EntityInv, UNCHANGED scoped, NEW ks \in SUBSET Keys, HardDelete(ks)
  PROVE  EntityInv' /\ NeverLost
<1>1. /\ entity' = [k \in Keys |-> IF k \in ks THEN NoRow ELSE entity[k]]
      /\ creator' = [k \in Keys |-> IF k \in ks THEN NoOne ELSE creator[k]]
      /\ editor' = [k \in Keys |-> IF k \in ks THEN NoOne ELSE editor[k]]
      /\ erased' = erased \ ks /\ answer' = "ok"
  BY Zenon DEF HardDelete
<1>2. scoped' \in BOOLEAN
  BY Zenon DEF EntityInv
<1>3. \A k \in Keys : RowTrue(k)'
  BY Zenon, <1>1 DEF EntityInv, RowTrue, People
<1>4. EntityInv'
  BY Zenon, <1>1, <1>2, <1>3 DEF EntityInv
<1>5. NeverLost
  BY Zenon, <1>1 DEF NeverLost, Exist
<1> QED BY Zenon, <1>4, <1>5

LEMMA EntityStepKeeps == EntityInv /\ EntityNext => EntityInv' /\ NeverLost
<1> SUFFICES ASSUME EntityInv, EntityNext PROVE EntityInv' /\ NeverLost
  OBVIOUS
<1>1. CASE Configure
  <2>1. scoped' \in BOOLEAN
    BY Zenon, <1>1 DEF Configure
  <2>2. \A k \in Keys : RowTrue(k)'
    BY Zenon, <1>1 DEF Configure, EntityInv, RowTrue
  <2>3. EntityInv'
    BY Zenon, <1>1, <2>1, <2>2 DEF Configure, EntityInv
  <2>4. NeverLost
    BY Zenon, <1>1 DEF Configure, NeverLost, Exist
  <2> QED BY Zenon, <2>3, <2>4
<1>2. CASE UNCHANGED scoped /\ \E ks \in SUBSET Keys : Wrote(ks)
  BY Zenon, <1>2, WroteKeeps
<1>3. ASSUME NEW k \in Keys, NEW b \in Bodies, Insert(k, b) \/ InsertIgnore(k, b)
      PROVE  \E ks \in SUBSET Keys : Wrote(ks)
  <2>1. NoOne \in People
    BY Zenon DEF People
  <2> QED BY Zenon, <1>3, <2>1, InsertsWrite
<1>4. ASSUME NEW k \in Keys, NEW b \in Bodies, NEW actor \in Actors \cup {NoOne},
             InsertMap(k, b, actor) \/ \E cols \in {{}, {"body"}} : Upsert(k, b, cols, actor)
      PROVE  \E ks \in SUBSET Keys : Wrote(ks)
  BY ZenonT(30), <1>4, InsertsWrite, UpsertWrites DEF People
<1>5. ASSUME NEW ks \in SUBSET Keys, NEW b \in Bodies, NEW actor \in Actors \cup {NoOne},
             \/ Update(ks, [body |-> b], actor)
             \/ Update(ks, [body |-> b, updatedBy |-> CHOOSE a \in Actors : TRUE], actor)
      PROVE  \E ws \in SUBSET Keys : Wrote(ws)
  <2>1. (CHOOSE a \in Actors : TRUE) \in People
    BY Zenon, NoOneAssumption DEF People
  <2>2. Settable([body |-> b]) /\ Settable([body |-> b, updatedBy |-> CHOOSE a \in Actors : TRUE])
    BY Zenon, <2>1 DEF Settable
  <2> QED BY Zenon, <1>5, <2>2, UpdateWrites DEF People
<1>6. ASSUME NEW ks \in SUBSET Keys, NEW b \in Bodies, InsertMany(ks, b, FALSE) \/ InsertMany(ks, b, TRUE)
      PROVE  \E ws \in SUBSET Keys : Wrote(ws)
  BY Zenon, <1>6, InsertManyWrites
<1>7. ASSUME NEW k \in Keys, SoftDelete(k) \/ Exists(k) PROVE \E ks \in SUBSET Keys : Wrote(ks)
  BY Zenon, <1>7, SoftDeleteWrites, NothingWritten DEF Exists
<1>8. ASSUME NEW k \in Keys, NEW actor \in Actors, Restore(k, actor) PROVE \E ks \in SUBSET Keys : Wrote(ks)
  <2>1. Settable([status |-> activeValue])
    BY Zenon DEF Settable, activeValue
  <2>2. {k} \in SUBSET Keys /\ actor \in People
    BY Zenon DEF People
  <2> QED BY Zenon, <1>8, <2>1, <2>2, UpdateWrites, NothingWritten DEF Restore
<1>9. ASSUME UNCHANGED scoped, NEW ks \in SUBSET Keys, HardDelete(ks) PROVE EntityInv' /\ NeverLost
  BY Zenon, <1>9, HardDeleteKeeps
<1> QED BY Zenon, <1>1, <1>2, <1>3, <1>4, <1>5, <1>6, <1>7, <1>8, <1>9 DEF EntityNext

(***************************************************************************)
(* The writes of the DAO, for any keys, actors and calls: created_by       *)
(* and updated_by say who created a row and who wrote it last, only a hard *)
(* delete removes a row, and a write that reports it did not write has     *)
(* changed none.                                                           *)
(***************************************************************************)
THEOREM EntityKept == EntitySpec => EntityContract
<1> DEFINE Promise == EntityTypeOK' /\ AuditTrue' /\ NeverLost
<1>1. EntityInv' => EntityTypeOK' /\ AuditTrue'
  BY EntityInvGives, PTL
<1>2. EntityInv /\ [EntityNext]_entityVars => EntityInv'
  <2>1. EntityInv /\ UNCHANGED entityVars => EntityInv'
    BY Zenon DEF EntityInv, RowTrue, entityVars
  <2> QED BY Zenon, <2>1, EntityStepKeeps
<1>3. EntityInv /\ [EntityNext]_entityVars => [Promise]_entityVars
  BY Zenon, <1>1, EntityStepKeeps
<1> QED BY <1>2, <1>3, InitEntity, PTL DEF EntitySpec, EntityContract

-----------------------------------------------------------------------------
(***************************************************************************)
(* The object store                                                        *)
(***************************************************************************)

StoredBodies == {NoBody, PartBody(1, 0) \o PartBody(2, 0)} \cup OtherBodies
Points == Nat \X Nat

(* What is there now, for the listing in progress. *)
There == Entries(object, upload, uploadKey)

(* The coordinator's upload is open or was reaped, and it has the ETags of *)
(* what it stored itself.                                                  *)
CoordInv ==
  /\ \A i \in UploadIds : upload[i] # "none" => uploadKey[i] \in ObjKeys
  /\ opc = "parts" => mine \in UploadIds /\ upload[mine] \in {"open", "aborted"}
  /\ etags \in [PartNos -> Seq(Nat)] /\ \A n \in PartNos : etags[n] \in {NoBody, PartBody(n, 0)}

(* Nothing that is listed lies beyond the marker, and what has been there  *)
(* all the time is still there.                                            *)
ListInv ==
  /\ marker \in Points /\ listed \in Seq(Points) /\ present \subseteq met
  /\ \A e \in Range(listed) : ~beyond(e, marker)
  /\ lister \in Listings => There \subseteq met /\ present \subseteq There
  /\ lister = "none" => listed = <<>> /\ present = {}

(* As long as one ETag was met, what was read is the object up to where    *)
(* the next range begins.                                                  *)
ReadInv ==
  /\ offset \in Nat /\ tags \subseteq StoredBodies \ {NoBody} /\ IsFiniteSet(tags)
  /\ reader = "idle" => offset = 0 /\ readSoFar = <<>>
  /\ reader = "read" =>
       /\ readKey \in ObjKeys /\ tags # {}
       /\ \A t \in tags : tags = {t} => offset < Len(t) /\ readSoFar = SubSeq(t, 1, offset)
  /\ reader = "done" => \A t \in tags : tags = {t} => readSoFar = t

StoreInv == StoreTypeOK /\ CoordInv /\ ListInv /\ ListingComplete /\ ReadInv

LEMMA BodiesAre == StoredBodies \subseteq Seq(Nat) /\ \A b \in StoredBodies \ {NoBody} : Len(b) \in Nat /\ Len(b) > 0
<1>1. <<2>> \in Seq(Nat) /\ <<4>> \in Seq(Nat) /\ <<9, 8, 7>> \in Seq(Nat) /\ <<>> \in Seq(Nat)
  OBVIOUS
<1>2. PartBody(1, 0) = <<2>> /\ PartBody(2, 0) = <<4>>
  BY DEF PartBody
<1>3. <<2>> \o <<4>> \in Seq(Nat)
  BY <1>1
<1>4. StoredBodies \subseteq Seq(Nat)
  BY Zenon, <1>1, <1>2, <1>3 DEF StoredBodies, NoBody, OtherBodies
<1>5. ASSUME NEW b \in Seq(Nat), b # <<>> PROVE Len(b) \in Nat /\ Len(b) > 0
  BY <1>5
<1> QED BY Zenon, <1>4, <1>5 DEF NoBody

LEMMA Order ==
  \A x, y, z \in Points :
    /\ ~beyond(x, x)
    /\ beyond(x, y) /\ beyond(y, z) => beyond(x, z)
    /\ x = y \/ beyond(x, y) \/ beyond(y, x)
BY DEF Points, beyond

LEMMA LeastNatural ==
  ASSUME NEW T, T \subseteq Nat, T # {}
  PROVE  \E x \in T : \A y \in T : x <= y
<1>1. PICK x \in T : \A y \in T : ~ (<<y, x>> \in OpToRel(<, Nat))
  BY Zenon, NatLessThanWellFounded, WFMin
<1>2. ASSUME NEW y \in T PROVE x <= y
  <2>1. y < x => <<y, x>> \in OpToRel(<, Nat)
    BY Zenon DEF OpToRel
  <2>2. ~(<<y, x>> \in OpToRel(<, Nat))
    BY Zenon, <1>1
  <2>3. ~(y < x)
    BY Zenon, <2>1, <2>2
  <2> QED BY <2>3
<1> QED BY Zenon, <1>1, <1>2

(* The bucket's next entry: there is a least one. *)
LEMMA LeastEntry ==
  ASSUME NEW S, S \subseteq Points, S # {}
  PROVE  \E x \in S : \A y \in S : ~beyond(x, y)
<1> DEFINE A == {p[1] : p \in S}
<1>1. PICK a \in A : \A b \in A : a <= b
  <2>1. A \subseteq Nat /\ A # {}
    BY Zenon DEF Points
  <2> HIDE DEF A
  <2> QED BY Zenon, <2>1, LeastNatural
<1> DEFINE B == {p[2] : p \in {q \in S : q[1] = a}}
<1>2. PICK c \in B : \A d \in B : c <= d
  <2>1. B \subseteq Nat /\ B # {}
    BY Zenon, <1>1 DEF Points
  <2> HIDE DEF B
  <2> QED BY Zenon, <2>1, LeastNatural
<1>3. PICK x \in S : x[1] = a /\ x[2] = c
  BY Zenon, <1>2
<1>4. ASSUME NEW y \in S PROVE ~beyond(x, y)
  <2>1. a <= y[1] /\ (y[1] = a => c <= y[2])
    BY Zenon, <1>1, <1>2
  <2>2. x[1] \in Nat /\ x[2] \in Nat /\ y[1] \in Nat /\ y[2] \in Nat
    BY Zenon DEF Points
  <2> QED BY <1>3, <2>1, <2>2 DEF beyond
<1> QED BY Zenon, <1>4

(* Every entry of a listing is a pair of numbers beyond the first marker. *)
LEMMA EntriesAre ==
  (StoreTypeOK /\ CoordInv => There \subseteq Points /\ \A e \in There : beyond(e, <<0, 0>>))
<1> SUFFICES ASSUME StoreTypeOK, CoordInv, NEW e \in There PROVE e \in Points /\ beyond(e, <<0, 0>>)
  BY Zenon
<1>1. \E k \in ObjKeys, i \in Nat : e = <<k, i>>
  <2>1. CASE lister = "uploads"
    <3>1. PICK i \in UploadIds : upload[i] = "open" /\ e = <<uploadKey[i], i>>
      BY Zenon, <2>1 DEF There, Entries
    <3> QED BY Zenon, <3>1, KeysAssumption DEF CoordInv
  <2>2. CASE lister = "objects"
    <3>1. PICK k \in ObjKeys : e = <<k, 0>>
      BY Zenon, <2>2 DEF There, Entries
    <3>2. 0 \in Nat
      OBVIOUS
    <3> QED BY Zenon, <3>1, <3>2
  <2>3. CASE lister = "level"
    <3>1. PICK k \in ObjKeys : e = <<k, 0>>
      BY Zenon, <2>3 DEF There, Entries
    <3>2. 0 \in Nat
      OBVIOUS
    <3> QED BY Zenon, <3>1, <3>2
  <2> QED BY Zenon, <2>1, <2>2, <2>3 DEF There, Entries
<1>2. PICK k \in Nat \ {0}, i \in Nat : e = <<k, i>>
  BY Zenon, <1>1, KeysAssumption
<1> QED BY <1>2 DEF Points, beyond

LEMMA InitStore == StoreInit => StoreInv
<1> SUFFICES ASSUME StoreInit PROVE StoreInv
  OBVIOUS
<1>1. StoreTypeOK
  BY DEF StoreInit, StoreTypeOK
<1>2. CoordInv
  <2>1. NoBody \in Seq(Nat)
    BY DEF NoBody
  <2> QED BY Zenon, <2>1 DEF StoreInit, CoordInv, NoParts
<1>3. Range(<<>>) = {} /\ IsInjective(<<>>)
  BY DEF Range, IsInjective
<1>4. ListInv /\ ListingComplete
  <2>1. <<0, 0>> \in Points /\ <<>> \in Seq(Points)
    BY DEF Points
  <2>2. "none" \notin Listings
    BY Zenon DEF Listings
  <2> QED BY Zenon, <1>3, <2>1, <2>2 DEF StoreInit, ListInv, ListingComplete
<1>5. ReadInv
  <2>1. 0 \in Nat /\ IsFiniteSet({})
    BY FS_EmptySet
  <2> QED BY Zenon, <2>1 DEF StoreInit, ReadInv
<1> QED BY Zenon, <1>1, <1>2, <1>4, <1>5 DEF StoreInv

LEMMA ReadsRest == ASSUME StoreInv, UNCHANGED readVars PROVE ReadInv'
BY Zenon DEF StoreInv, ReadInv, readVars

LEMMA ListRests ==
  ASSUME StoreInv, UNCHANGED listerVars, UNCHANGED <<object, upload, uploadKey>>
  PROVE  ListInv' /\ ListingComplete'
<1>1. There' = There
  BY Zenon DEF There, Entries, listerVars
<1> QED BY Zenon, <1>1 DEF StoreInv, ListInv, ListingComplete, listerVars

(* Whatever changes the bucket, the listing keeps what is needed. *)
LEMMA ObserveKeeps == ASSUME StoreInv, Observe PROVE ListInv' /\ ListingComplete'
<1>1. UNCHANGED <<lister, marker, listed>>
  BY Zenon DEF Observe
<1>2. CASE lister \in Listings
  <2>1. present' = present \cap There' /\ met' = met \cup There'
    BY Zenon, <1>1, <1>2 DEF Observe, There, Entries
  <2>2. lister # "none"
    BY Zenon, <1>2 DEF Listings
  <2> QED BY Zenon, <1>1, <1>2, <2>1, <2>2 DEF StoreInv, ListInv, ListingComplete
<1>3. CASE lister \notin Listings
  <2>1. UNCHANGED <<present, met>>
    BY Zenon, <1>3 DEF Observe
  <2> QED BY Zenon, <1>1, <1>3, <2>1 DEF StoreInv, ListInv, ListingComplete
<1> QED BY Zenon, <1>2, <1>3

(* PutObject, CopyObject and DeleteObject leave one of the bodies at a key. *)
LEMMA ReplaceKeeps ==
  ASSUME StoreInv, NEW k \in ObjKeys, NEW b \in StoredBodies, object' = [object EXCEPT ![k] = b],
         UNCHANGED <<upload, uploadKey, parts>>, UNCHANGED coordVars, UNCHANGED readVars, Observe
  PROVE  StoreInv'
<1>1. StoreTypeOK'
  <2>1. object' \in [ObjKeys -> StoredBodies]
    BY Zenon DEF StoreInv, StoreTypeOK, StoredBodies
  <2> QED BY Zenon, <2>1 DEF StoreInv, StoreTypeOK, StoredBodies, coordVars, readVars, Observe
<1>2. CoordInv'
  BY Zenon DEF StoreInv, CoordInv, coordVars
<1> QED BY Zenon, <1>1, <1>2, ObserveKeeps, ReadsRest DEF StoreInv

LEMMA ObjectsKeep ==
  ASSUME StoreInv, NEW k \in ObjKeys,
         PutObject(k) \/ DeleteObject(k) \/ \E dst \in ObjKeys : CopyObject(k, dst)
  PROVE  StoreInv'
<1>1. object[k] \in StoredBodies /\ OtherBodies \subseteq StoredBodies /\ NoBody \in StoredBodies
  BY Zenon DEF StoreInv, StoreTypeOK, StoredBodies
<1>2. CASE PutObject(k)
  BY Zenon, <1>1, <1>2, ReplaceKeeps DEF PutObject
<1>3. CASE DeleteObject(k)
  BY Zenon, <1>1, <1>3, ReplaceKeeps DEF DeleteObject
<1>4. ASSUME NEW dst \in ObjKeys, CopyObject(k, dst) PROVE StoreInv'
  BY Zenon, <1>1, <1>4, ReplaceKeeps DEF CopyObject
<1> QED BY Zenon, <1>2, <1>3, <1>4

LEMMA EmptyParts == NoParts \in [PartNos -> Seq(Nat)] /\ \A n \in PartNos : NoParts[n] \in {NoBody, PartBody(n, 0)}
<1>1. NoBody \in Seq(Nat)
  BY DEF NoBody
<1> QED BY Zenon, <1>1 DEF NoParts

LEMMA InitiateKeeps == ASSUME StoreInv, NEW k \in ObjKeys, InitiateMultipartUpload(k) PROVE StoreInv'
<1>1. PICK i \in UploadIds :
        /\ upload[i] = "none" /\ upload' = [upload EXCEPT ![i] = "open"]
        /\ uploadKey' = [uploadKey EXCEPT ![i] = k]
        /\ (opc' = "parts" /\ mine' = i /\ etags' = NoParts) \/ UNCHANGED <<opc, mine, etags>>
  BY Zenon DEF InitiateMultipartUpload
<1>2. opc = "idle" /\ UNCHANGED <<object, parts, puts>> /\ UNCHANGED readVars /\ Observe
  BY Zenon DEF InitiateMultipartUpload
<1>3. StoreTypeOK'
  BY Zenon, <1>1, <1>2 DEF StoreInv, StoreTypeOK, readVars, Observe
<1>4. upload'[i] = "open" /\ \A j \in UploadIds : upload'[j] # "none" => uploadKey'[j] \in ObjKeys
  BY Zenon, <1>1 DEF StoreInv, StoreTypeOK, CoordInv
<1>5. CoordInv'
  <2>1. CASE opc' = "parts" /\ mine' = i /\ etags' = NoParts
    BY Zenon, <1>4, <2>1, EmptyParts DEF CoordInv
  <2>2. CASE UNCHANGED <<opc, mine, etags>>
    BY Zenon, <1>2, <1>4, <2>2 DEF StoreInv, CoordInv
  <2> QED BY Zenon, <1>1, <2>1, <2>2
<1> QED BY Zenon, <1>2, <1>3, <1>5, ObserveKeeps, ReadsRest DEF StoreInv

LEMMA PartsKeep ==
  ASSUME StoreInv, NEW n \in PartNos, UploadPart(n) \/ PresignUploadPart(n)
  PROVE  StoreInv'
<1>1. UNCHANGED <<object, upload, uploadKey>> /\ UNCHANGED listerVars /\ UNCHANGED readVars
  BY Zenon DEF UploadPart, PresignUploadPart, listerVars
<1>2. \/ UNCHANGED coordVars
      \/ etags' = [etags EXCEPT ![n] = PartBody(n, 0)] /\ UNCHANGED <<opc, mine>>
      \/ opc' = "idle" /\ mine' = 0 /\ etags' = NoParts
  BY Zenon DEF UploadPart, PresignUploadPart
<1>3. StoreTypeOK'
  BY Zenon, <1>1, <1>2 DEF StoreInv, StoreTypeOK, coordVars, listerVars, readVars
<1>4. CoordInv'
  <2>1. CASE UNCHANGED coordVars
    BY Zenon, <1>1, <2>1 DEF StoreInv, CoordInv, coordVars
  <2>2. CASE etags' = [etags EXCEPT ![n] = PartBody(n, 0)] /\ UNCHANGED <<opc, mine>>
    <3>1. PartBody(n, 0) \in Seq(Nat)
      BY DEF PartBody, PartNos
    <3>2. etags' \in [PartNos -> Seq(Nat)] /\ \A m \in PartNos : etags'[m] \in {NoBody, PartBody(m, 0)}
      BY Zenon, <2>2, <3>1 DEF StoreInv, CoordInv
    <3> QED BY Zenon, <1>1, <2>2, <3>2 DEF StoreInv, CoordInv
  <2>3. CASE opc' = "idle" /\ mine' = 0 /\ etags' = NoParts
    BY Zenon, <1>1, <2>3, EmptyParts DEF StoreInv, CoordInv
  <2> QED BY Zenon, <1>2, <2>1, <2>2, <2>3
<1> QED BY Zenon, <1>1, <1>3, <1>4, ListRests, ReadsRest DEF StoreInv

LEMMA CompleteKeeps == ASSUME StoreInv, CompleteMultipartUpload PROVE StoreInv' /\ AssembledAsAcknowledged
<1>1. /\ opc = "parts" /\ opc' = "idle" /\ mine' = 0 /\ etags' = NoParts /\ UNCHANGED uploadKey
      /\ UNCHANGED readVars /\ Observe /\ \A n \in PartNos : etags[n] = PartBody(n, 0)
  BY Zenon DEF CompleteMultipartUpload, StoreInv, CoordInv
<1>2. mine \in UploadIds /\ upload[mine] \in {"open", "aborted"} /\ uploadKey[mine] \in ObjKeys
  BY Zenon, <1>1 DEF StoreInv, CoordInv
<1> DEFINE whole == PartBody(1, 0) \o PartBody(2, 0)
<1>3. \/ object' = [object EXCEPT ![uploadKey[mine]] = whole] /\ upload' = [upload EXCEPT ![mine] = "completed"]
      \/ UNCHANGED <<object, upload>>
  <2>1. completed(mine)[1] = PartBody(1, 0) /\ completed(mine)[2] = PartBody(2, 0)
    BY Zenon, <1>1 DEF completed, PartNos
  <2> QED BY Zenon, <2>1 DEF CompleteMultipartUpload
<1>4. object' \in [ObjKeys -> StoredBodies] /\ upload' \in [UploadIds -> {"none", "open", "completed", "aborted"}]
  <2>1. object \in [ObjKeys -> StoredBodies] /\ upload \in [UploadIds -> {"none", "open", "completed", "aborted"}]
        /\ whole \in StoredBodies
    BY Zenon DEF StoreInv, StoreTypeOK, StoredBodies
  <2> HIDE DEF whole
  <2> QED BY Zenon, <1>2, <1>3, <2>1
<1>5. StoreTypeOK'
  BY Zenon, <1>1, <1>4 DEF StoreInv, StoreTypeOK, StoredBodies, readVars, Observe
<1>6. CoordInv'
  <2>1. \A i \in UploadIds : upload'[i] # "none" => uploadKey'[i] \in ObjKeys
    <3>1. \A i \in UploadIds : upload'[i] # upload[i] => i = mine
      BY Zenon, <1>3 DEF StoreInv, StoreTypeOK
    <3> QED BY Zenon, <1>1, <1>2, <3>1 DEF StoreInv, CoordInv
  <2> QED BY Zenon, <1>1, <2>1, EmptyParts DEF CoordInv
<1>7. AssembledAsAcknowledged
  BY Zenon, <1>2, <1>3 DEF StoreInv, StoreTypeOK, AssembledAsAcknowledged
<1> QED BY Zenon, <1>1, <1>5, <1>6, <1>7, ObserveKeeps, ReadsRest DEF StoreInv

LEMMA AbortKeeps == ASSUME StoreInv, NEW i \in UploadIds, AbortMultipartUpload(i) PROVE StoreInv'
<1>1. /\ upload[i] = "open" /\ upload' = [upload EXCEPT ![i] = "aborted"] /\ UNCHANGED <<object, uploadKey>>
      /\ (opc' = "idle" /\ mine' = 0 /\ etags' = NoParts) \/ UNCHANGED coordVars
      /\ UNCHANGED readVars /\ Observe
  BY Zenon DEF AbortMultipartUpload
<1>2. StoreTypeOK'
  BY Zenon, <1>1 DEF StoreInv, StoreTypeOK, coordVars, readVars, Observe
<1>3. /\ \A j \in UploadIds : upload'[j] # "none" => upload[j] # "none"
      /\ \A j \in UploadIds : upload[j] \in {"open", "aborted"} => upload'[j] \in {"open", "aborted"}
  BY Zenon, <1>1 DEF StoreInv, StoreTypeOK
<1>4. CoordInv'
  <2>1. \A j \in UploadIds : upload'[j] # "none" => uploadKey'[j] \in ObjKeys
    BY Zenon, <1>1, <1>3 DEF StoreInv, CoordInv
  <2>2. CASE opc' = "idle" /\ mine' = 0 /\ etags' = NoParts
    BY Zenon, <2>1, <2>2, EmptyParts DEF CoordInv
  <2>3. CASE UNCHANGED coordVars
    BY Zenon, <1>3, <2>1, <2>3 DEF StoreInv, CoordInv, coordVars
  <2> QED BY Zenon, <1>1, <2>2, <2>3
<1> QED BY Zenon, <1>1, <1>2, <1>4, ObserveKeeps, ReadsRest DEF StoreInv

(* Steps of readers and listings leave the coordinator and the bucket alone. *)
LEMMA CoordRests == ASSUME StoreInv, UNCHANGED bucketVars, UNCHANGED coordVars PROVE CoordInv'
BY Zenon DEF StoreInv, CoordInv, bucketVars, coordVars

LEMMA StartKeeps == ASSUME StoreInv, StartList PROVE StoreInv'
<1>1. /\ lister' \in Listings /\ marker' = <<0, 0>> /\ listed' = <<>>
      /\ UNCHANGED bucketVars /\ UNCHANGED coordVars /\ UNCHANGED readVars
  BY Zenon DEF StartList
<1>2. present' = There' /\ met' = There'
  <2>1. CASE lister' = "uploads"
    BY Zenon, <1>1, <2>1 DEF StartList, There, Entries, bucketVars
  <2>2. CASE lister' = "objects"
    BY Zenon, <1>1, <2>2 DEF StartList, There, Entries, bucketVars
  <2>3. CASE lister' = "level"
    BY Zenon, <1>1, <2>3 DEF StartList, There, Entries, bucketVars
  <2> QED BY Zenon, <1>1, <2>1, <2>2, <2>3 DEF Listings
<1>3. StoreTypeOK'
  BY Zenon, <1>1 DEF StoreInv, StoreTypeOK, bucketVars, coordVars, readVars
<1>4. CoordInv' /\ There' \subseteq Points /\ \A e \in There' : beyond(e, <<0, 0>>)
  <2>1. CoordInv'
    BY Zenon, <1>1, CoordRests
  <2>2. (StoreTypeOK /\ CoordInv => There \subseteq Points /\ \A e \in There : beyond(e, <<0, 0>>))'
    BY EntriesAre, PTL
  <2> QED BY Zenon, <1>3, <2>1, <2>2
<1>5. ListInv' /\ ListingComplete'
  <2>1. Range(<<>>) = {} /\ IsInjective(<<>>) /\ <<0, 0>> \in Points /\ <<>> \in Seq(Points)
    BY DEF Range, IsInjective, Points
  <2>2. lister' # "none"
    BY Zenon, <1>1 DEF Listings
  <2> QED BY Zenon, <1>1, <1>2, <1>4, <2>1, <2>2 DEF ListInv, ListingComplete
<1> QED BY Zenon, <1>1, <1>3, <1>4, <1>5, ReadsRest DEF StoreInv

LEMMA ListedNext ==
  ASSUME NEW s \in Seq(Points), NEW e \in Points
  PROVE  /\ Append(s, e) \in Seq(Points) /\ Range(Append(s, e)) = Range(s) \cup {e}
         /\ (IsInjective(s) /\ e \notin Range(s) => IsInjective(Append(s, e)))
<1> DEFINE t == Append(s, e)
<1>1. /\ t \in Seq(Points) /\ DOMAIN t = 1..Len(s) + 1 /\ DOMAIN s = 1..Len(s) /\ Len(s) \in Nat
      /\ t[Len(s) + 1] = e /\ \A j \in 1..Len(s) : t[j] = s[j]
  OBVIOUS
<1>2. \A j \in 1..Len(s) + 1 : j \in 1..Len(s) \/ j = Len(s) + 1
  BY <1>1
<1>3. 1..Len(s) \subseteq 1..Len(s) + 1 /\ Len(s) + 1 \in 1..Len(s) + 1
  BY <1>1
<1> HIDE DEF t
<1>4. Range(t) = Range(s) \cup {e}
  BY Zenon, <1>1, <1>2, <1>3 DEF Range
<1>5. IsInjective(s) /\ e \notin Range(s) => IsInjective(t)
  BY Zenon, <1>1, <1>2 DEF IsInjective, Range
<1> QED BY Zenon, <1>1, <1>4, <1>5 DEF t

(* A page moves the marker to the least entry beyond it, which was not listed before. *)
LEMMA PageKeeps == ASSUME StoreInv, ListPage PROVE StoreInv'
<1> DEFINE rest == {e \in There : beyond(e, marker)}
<1>1. /\ lister \in Listings /\ UNCHANGED bucketVars /\ UNCHANGED coordVars /\ UNCHANGED readVars
      /\ \/ /\ rest # {} /\ UNCHANGED <<lister, present, met>>
            /\ listed' = Append(listed, CHOOSE x \in rest : \A y \in rest : ~beyond(x, y))
            /\ marker' = CHOOSE x \in rest : \A y \in rest : ~beyond(x, y)
         \/ rest = {} /\ lister' = "returned" /\ UNCHANGED <<listed, marker, present, met>>
         \/ lister' = "failed" /\ listed' = <<>> /\ present' = {} /\ met' = {} /\ UNCHANGED marker
  BY Zenon DEF ListPage, There, nextMarkers
<1>2. There \subseteq Points /\ marker \in Points /\ present \subseteq There /\ There \subseteq met
  BY Zenon, <1>1, EntriesAre DEF StoreInv, ListInv
<1>3. StoreTypeOK'
  BY Zenon, <1>1 DEF StoreInv, StoreTypeOK, bucketVars, coordVars, readVars
<1>4. "returned" \notin Listings /\ "failed" \notin Listings /\ "none" \notin Listings
  BY Zenon DEF Listings
<1>5. ListInv' /\ ListingComplete'
  <2>1. CASE /\ rest # {} /\ UNCHANGED <<lister, present, met>>
             /\ listed' = Append(listed, CHOOSE x \in rest : \A y \in rest : ~beyond(x, y))
             /\ marker' = CHOOSE x \in rest : \A y \in rest : ~beyond(x, y)
    <3> DEFINE e == marker'
    <3>1. e \in rest /\ \A y \in rest : ~beyond(e, y)
      <4>1. \E x \in rest : \A y \in rest : ~beyond(x, y)
        <5>1. rest \subseteq Points
          BY Zenon, <1>2
        <5> HIDE DEF rest
        <5> QED BY Zenon, <2>1, <5>1, LeastEntry
      <4> HIDE DEF rest
      <4> QED BY Zenon, <2>1, <4>1
    <3>2. e \in There /\ beyond(e, marker) /\ e \in Points /\ listed' = Append(listed, e)
      BY Zenon, <1>2, <2>1, <3>1
    <3>3. \A y \in There : beyond(y, marker) => ~beyond(e, y)
      BY Zenon, <3>1
    <3> HIDE DEF e, rest
    <3>4. There' = There
      BY Zenon, <1>1, <2>1 DEF There, Entries, bucketVars
    <3>5. listed \in Seq(Points) /\ (\A x \in Range(listed) : ~beyond(x, marker)) /\ IsInjective(listed)
      BY Zenon DEF StoreInv, ListInv, ListingComplete
    <3>6. Range(listed) \subseteq Points
      BY <3>5 DEF Range
    <3>7. e \notin Range(listed)
      BY Zenon, <3>2, <3>5
    <3>8. listed' \in Seq(Points) /\ Range(listed') = Range(listed) \cup {e} /\ IsInjective(listed')
      BY Zenon, <3>2, <3>5, <3>7, ListedNext
    <3>9. \A x \in Range(listed') : ~beyond(x, e)
      <4>1. \A x \in Range(listed) : ~beyond(x, e)
        BY Zenon, <1>2, <3>2, <3>5, <3>6, Order
      <4>2. ~beyond(e, e)
        BY Zenon, <3>2, Order
      <4> QED BY Zenon, <3>8, <4>1, <4>2
    <3>10. \A x \in present : x \in Range(listed') \/ beyond(x, e)
      <4>1. \A x \in present : x \in Range(listed) \/ beyond(x, marker)
        BY Zenon DEF StoreInv, ListingComplete
      <4>2. \A x \in There : beyond(x, marker) => x = e \/ beyond(x, e)
        BY Zenon, <1>2, <3>2, <3>3, Order
      <4> QED BY Zenon, <1>2, <3>8, <4>1, <4>2
    <3>11. e \in met /\ Range(listed) \subseteq met
      BY Zenon, <1>2, <3>2 DEF StoreInv, ListingComplete
    <3>12. marker' = e
      BY DEF e
    <3>13. ListInv'
      BY Zenon, <1>1, <1>2, <1>4, <2>1, <3>2, <3>4, <3>8, <3>9, <3>12 DEF ListInv, StoreInv
    <3>14. ListingComplete'
      BY Zenon, <1>1, <2>1, <3>8, <3>10, <3>11, <3>12 DEF ListingComplete
    <3> QED BY Zenon, <3>13, <3>14
  <2>2. CASE rest = {} /\ lister' = "returned" /\ UNCHANGED <<listed, marker, present, met>>
    <3>1. \A x \in present : x \in Range(listed)
      BY Zenon, <1>2, <2>2 DEF StoreInv, ListingComplete
    <3> HIDE DEF rest
    <3> QED BY Zenon, <1>4, <2>2, <3>1 DEF StoreInv, ListInv, ListingComplete
  <2>3. CASE lister' = "failed" /\ listed' = <<>> /\ present' = {} /\ met' = {} /\ UNCHANGED marker
    <3>1. Range(<<>>) = {} /\ IsInjective(<<>>) /\ <<>> \in Seq(Points)
      BY DEF Range, IsInjective
    <3> QED BY Zenon, <1>2, <1>4, <2>3, <3>1 DEF ListInv, ListingComplete
  <2> HIDE DEF rest
  <2> QED BY Zenon, <1>1, <2>1, <2>2, <2>3
<1> QED BY Zenon, <1>1, <1>3, <1>5, CoordRests, ReadsRest DEF StoreInv

LEMMA HeadKeeps == ASSUME StoreInv, NEW k \in ObjKeys, HeadObject(k) PROVE StoreInv'
<1>1. /\ reader = "idle" /\ object[k] # NoBody /\ reader' = "read" /\ readKey' = k /\ chunk' \in 0..2
      /\ tags' = {object[k]} /\ UNCHANGED <<offset, readSoFar>>
      /\ UNCHANGED bucketVars /\ UNCHANGED coordVars /\ UNCHANGED listerVars
  BY Zenon DEF HeadObject
<1>2. StoreTypeOK'
  BY Zenon, <1>1 DEF StoreInv, StoreTypeOK, bucketVars, coordVars, listerVars
<1>3. object[k] \in StoredBodies \ {NoBody}
  BY Zenon, <1>1 DEF StoreInv, StoreTypeOK, StoredBodies
<1>4. ReadInv'
  <2>1. IsFiniteSet({object[k]})
    BY Zenon, FS_Singleton
  <2>2. offset = 0 /\ readSoFar = <<>> /\ offset \in Nat
    BY Zenon, <1>1 DEF StoreInv, ReadInv
  <2>3. object[k] \in Seq(Nat) /\ 0 < Len(object[k])
    BY <1>3, BodiesAre
  <2>4. SubSeq(object[k], 1, 0) = <<>>
    BY <2>3
  <2>5. \A t \in {object[k]} : 0 < Len(t) /\ <<>> = SubSeq(t, 1, 0)
    BY Zenon, <2>3, <2>4
  <2> QED BY Zenon, <1>1, <1>3, <2>1, <2>2, <2>5 DEF ReadInv
<1>5. UNCHANGED <<object, upload, uploadKey>>
  BY Zenon, <1>1 DEF bucketVars
<1> QED BY Zenon, <1>1, <1>2, <1>4, <1>5, CoordRests, ListRests DEF StoreInv

(* Neighbouring ranges of one sequence join. *)
LEMMA RangesJoin ==
  ASSUME NEW t \in Seq(Nat), NEW m \in Nat, NEW k \in Nat, m <= k, k <= Len(t)
  PROVE  /\ SubSeq(t, 1, m) \o SubSeq(t, m + 1, k) = SubSeq(t, 1, k)
         /\ Len(SubSeq(t, 1, k)) = k /\ SubSeq(t, 1, Len(t)) = t
OBVIOUS

LEMMA RangeKeeps == ASSUME StoreInv, GetObjectRange PROVE StoreInv'
<1> DEFINE body == object[readKey]
           upTo == IF chunk > 0 /\ lastByte(offset, chunk) < Len(body) - 1
                   THEN lastByte(offset, chunk) ELSE Len(body) - 1
           now == readSoFar \o SubSeq(body, offset + 1, upTo + 1)
           ended == \E t \in tags : Len(now) >= Len(t)
<1>1. /\ reader = "read" /\ UNCHANGED <<readKey, chunk>>
      /\ UNCHANGED bucketVars /\ UNCHANGED coordVars /\ UNCHANGED listerVars
      /\ \/ reader' = "failed" /\ UNCHANGED <<offset, readSoFar, tags>>
         \/ /\ ~(offset >= Len(body)) /\ readSoFar' = now /\ tags' = tags \cup {body}
            /\ offset' = offset + chunk /\ reader' = IF ended THEN "done" ELSE "read"
  BY Zenon DEF GetObjectRange
<1>2. /\ offset \in Nat /\ chunk \in 0..2 /\ readKey \in ObjKeys /\ body \in StoredBodies /\ tags # {}
      /\ tags \subseteq StoredBodies \ {NoBody} /\ IsFiniteSet(tags)
      /\ \A t \in tags : tags = {t} => offset < Len(t) /\ readSoFar = SubSeq(t, 1, offset)
  BY Zenon, <1>1 DEF StoreInv, StoreTypeOK, ReadInv, StoredBodies
<1>3. StoreTypeOK'
  <2>1. reader' \in {"idle", "read", "done", "failed"}
    BY Zenon, <1>1
  <2> QED BY Zenon, <1>1, <2>1 DEF StoreInv, StoreTypeOK, bucketVars, coordVars, listerVars
<1>4. ReadInv'
  <2>1. CASE reader' = "failed" /\ UNCHANGED <<offset, readSoFar, tags>>
    BY Zenon, <1>2, <2>1 DEF ReadInv
  <2>2. CASE /\ ~(offset >= Len(body)) /\ readSoFar' = now /\ tags' = tags \cup {body}
             /\ offset' = offset + chunk /\ reader' = IF ended THEN "done" ELSE "read"
    <3>1. body \in Seq(Nat) /\ Len(body) \in Nat /\ offset < Len(body) /\ body # NoBody
      <4>1. body \in Seq(Nat)
        BY Zenon, <1>2, BodiesAre
      <4>2. NoBody \in Seq(Nat) /\ Len(NoBody) = 0
        BY DEF NoBody
      <4>3. Len(body) \in Nat
        BY <4>1
      <4> HIDE DEF body
      <4> QED BY <1>2, <2>2, <4>1, <4>2, <4>3
    <3>2. offset' \in Nat /\ tags' \subseteq StoredBodies \ {NoBody} /\ tags' # {}
      <4>1. offset' \in Nat
        BY <1>2, <2>2
      <4> QED BY Zenon, <1>2, <2>2, <3>1, <4>1
    <3>3. IsFiniteSet(tags')
      BY Zenon, <1>2, <2>2, FS_AddElement
    <3>4. ASSUME NEW t \in tags', tags' = {t}
          PROVE  IF ended THEN now = t ELSE offset' < Len(t) /\ now = SubSeq(t, 1, offset')
      <4>1. t = body /\ tags = {body} /\ readSoFar = SubSeq(body, 1, offset)
        BY Zenon, <1>2, <2>2, <3>4
      <4>2. ended <=> Len(now) >= Len(body)
        BY Zenon, <4>1
      <4>3. upTo + 1 \in Nat /\ offset <= upTo + 1 /\ upTo + 1 <= Len(body)
            /\ (upTo + 1 = Len(body) \/ (upTo + 1 = offset + chunk /\ offset + chunk < Len(body)))
        <5> HIDE DEF body
        <5> QED BY <1>2, <3>1 DEF lastByte
      <4>4. now = SubSeq(body, 1, upTo + 1) /\ Len(now) = upTo + 1 /\ SubSeq(body, 1, Len(body)) = body
        <5> HIDE DEF body, upTo
        <5>1. /\ SubSeq(body, 1, offset) \o SubSeq(body, offset + 1, upTo + 1) = SubSeq(body, 1, upTo + 1)
              /\ Len(SubSeq(body, 1, upTo + 1)) = upTo + 1 /\ SubSeq(body, 1, Len(body)) = body
          <6> DEFINE k == upTo + 1
          <6>1. k \in Nat /\ offset <= k /\ k <= Len(body) /\ offset \in Nat /\ body \in Seq(Nat)
            BY Zenon, <1>2, <3>1, <4>3
          <6> HIDE DEF k
          <6>2. /\ SubSeq(body, 1, offset) \o SubSeq(body, offset + 1, k) = SubSeq(body, 1, k)
                /\ Len(SubSeq(body, 1, k)) = k /\ SubSeq(body, 1, Len(body)) = body
            BY Zenon, <6>1, RangesJoin
          <6> QED BY Zenon, <6>2 DEF k
        <5> QED BY Zenon, <4>1, <5>1
      <4>5. CASE upTo + 1 = Len(body)
        <5>1. Len(body) >= Len(body)
          BY <3>1
        <5> HIDE DEF body, upTo, now, ended
        <5> QED BY Zenon, <4>1, <4>2, <4>4, <4>5, <5>1
      <4>6. CASE upTo + 1 = offset + chunk /\ offset + chunk < Len(body)
        <5>1. ~(offset + chunk >= Len(body))
          BY <1>2, <3>1, <4>6
        <5> HIDE DEF body, upTo, now, ended
        <5> QED BY Zenon, <2>2, <4>1, <4>2, <4>4, <4>6, <5>1
      <4> HIDE DEF body, upTo, now, ended
      <4> QED BY Zenon, <4>3, <4>5, <4>6
    <3> HIDE DEF body, now, ended
    <3>5. CASE ended
      BY Zenon, <2>2, <3>2, <3>3, <3>4, <3>5 DEF ReadInv
    <3>6. CASE ~ended
      BY Zenon, <1>1, <1>2, <2>2, <3>2, <3>3, <3>4, <3>6 DEF ReadInv
    <3> QED BY Zenon, <3>5, <3>6
  <2> HIDE DEF body, now, ended
  <2> QED BY Zenon, <1>1, <2>1, <2>2
<1>5. UNCHANGED <<object, upload, uploadKey>>
  BY Zenon, <1>1 DEF bucketVars
<1> QED BY Zenon, <1>1, <1>3, <1>4, <1>5, CoordRests, ListRests DEF StoreInv

LEMMA RestKeeps == ASSUME StoreInv, UNCHANGED storeVars PROVE StoreInv'
<1>1. UNCHANGED listerVars /\ UNCHANGED readVars /\ UNCHANGED coordVars /\ UNCHANGED bucketVars
      /\ UNCHANGED <<object, upload, uploadKey>>
  BY Zenon DEF storeVars, listerVars, readVars, coordVars, bucketVars
<1>2. StoreTypeOK'
  BY Zenon DEF StoreInv, StoreTypeOK, storeVars
<1> QED BY Zenon, <1>1, <1>2, CoordRests, ListRests, ReadsRest DEF StoreInv

LEMMA StoreStep == StoreInv /\ [StoreNext]_storeVars => StoreInv'
<1> SUFFICES ASSUME StoreInv, [StoreNext]_storeVars PROVE StoreInv'
  OBVIOUS
<1>1. CASE \E k \in ObjKeys :
             \/ PutObject(k) \/ DeleteObject(k) \/ InitiateMultipartUpload(k) \/ HeadObject(k)
             \/ \E dst \in ObjKeys : CopyObject(k, dst)
  BY Zenon, <1>1, ObjectsKeep, InitiateKeeps, HeadKeeps
<1>2. CASE \E n \in PartNos : UploadPart(n) \/ PresignUploadPart(n)
  BY Zenon, <1>2, PartsKeep
<1>3. CASE CompleteMultipartUpload
  BY Zenon, <1>3, CompleteKeeps
<1>4. CASE \E i \in UploadIds : AbortMultipartUpload(i)
  BY Zenon, <1>4, AbortKeeps
<1>5. CASE StartList \/ ListPage \/ GetObjectRange
  BY Zenon, <1>5, StartKeeps, PageKeeps, RangeKeeps
<1>6. CASE UNCHANGED storeVars
  BY Zenon, <1>6, RestKeeps
<1> QED BY Zenon, <1>1, <1>2, <1>3, <1>4, <1>5, <1>6 DEF StoreNext

LEMMA AssembledStep == StoreInv /\ [StoreNext]_storeVars => AssembledAsAcknowledged
<1> SUFFICES ASSUME StoreInv, [StoreNext]_storeVars, upload' # upload, opc = "parts" PROVE AssembledAsAcknowledged
  BY Zenon DEF AssembledAsAcknowledged
<1>1. CASE CompleteMultipartUpload
  BY Zenon, <1>1, CompleteKeeps
<1>2. ASSUME NEW i \in UploadIds, AbortMultipartUpload(i) PROVE AssembledAsAcknowledged
  <2>1. mine \in UploadIds /\ upload[mine] # "completed"
    BY Zenon DEF StoreInv, CoordInv
  <2>2. upload'[mine] # "completed"
    BY Zenon, <1>2, <2>1 DEF AbortMultipartUpload, StoreInv, StoreTypeOK
  <2> QED BY Zenon, <2>2 DEF AssembledAsAcknowledged
<1>3. \A k \in ObjKeys : ~InitiateMultipartUpload(k)
  BY Zenon DEF InitiateMultipartUpload
<1>4. \A k \in ObjKeys : ~PutObject(k) /\ ~DeleteObject(k) /\ ~HeadObject(k) /\ \A dst \in ObjKeys : ~CopyObject(k, dst)
  BY Zenon DEF PutObject, DeleteObject, HeadObject, CopyObject, bucketVars
<1>5. \A n \in PartNos : ~UploadPart(n) /\ ~PresignUploadPart(n)
  BY Zenon DEF UploadPart, PresignUploadPart
<1>6. ~StartList /\ ~ListPage /\ ~GetObjectRange /\ ~(UNCHANGED storeVars)
  BY Zenon DEF StartList, ListPage, GetObjectRange, bucketVars, storeVars
<1> QED BY Zenon, <1>1, <1>2, <1>3, <1>4, <1>5, <1>6 DEF StoreNext

LEMMA ReadsFit == StoreInv => RangesFitTogether
<1>1. IsFiniteSet(tags) /\ Cardinality(tags) = 1 => \E t : tags = {t}
  BY Zenon, FS_Singleton
<1> QED BY Zenon, <1>1 DEF StoreInv, ReadInv, RangesFitTogether

(* storage/s3 keeps its contract for every set of keys and uploads: a      *)
(* listing that pages by marker has each entry that stayed exactly once    *)
(* although others come and go between its calls, the ranges of one ETag   *)
(* join to the object, and CompleteMultipartUpload assembles the parts its *)
(* caller was given ETags for, however presigned URLs replace them.        *)
THEOREM StoreKept == StoreSpec => StoreContract
<1>1. StoreInit => StoreInv
  BY InitStore
<1>2. StoreInv /\ [StoreNext]_storeVars => StoreInv'
  BY StoreStep
<1>3. StoreInv => StoreTypeOK /\ ListingComplete /\ RangesFitTogether
  BY Zenon, ReadsFit DEF StoreInv
<1>4. (StoreInv => StoreTypeOK /\ ListingComplete /\ RangesFitTogether)'
  BY <1>3, PTL
<1>5. StoreInv /\ [StoreNext]_storeVars =>
        [StoreTypeOK' /\ ListingComplete' /\ RangesFitTogether' /\ AssembledAsAcknowledged]_storeVars
  BY Zenon, <1>4, StoreStep, AssembledStep
<1> QED BY <1>1, <1>2, <1>5, PTL DEF StoreSpec, StoreContract
=============================================================================
