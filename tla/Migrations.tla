----------------------------- MODULE Migrations -----------------------------
(***************************************************************************)
(* database/postgres/migrate: replicas of old and new binaries that all    *)
(* call Run at boot, while migrations fail half-way, replicas die and an   *)
(* operator repairs a dirty table.  Up and the advisory lock it takes are  *)
(* golang-migrate's (external).                                            *)
(***************************************************************************)
EXTENDS Naturals, Sequences

CONSTANTS
  Boots,       \* the boots of replicas, each one call of Run
  Latest,      \* the newest migration
  MaxRepairs   \* bound on repairs by an operator

ASSUME LatestAssumption == Latest \in Nat \ {0}

VARIABLES
  embeds,    \* boot -> the newest migration of its binary
  bootAt,    \* boot -> where Run is
  target,    \* boot -> the migration Up is applying
  outcome,   \* boot -> what Run returned
  holder,    \* the sessions that have the migrations lock
  recorded, dirty,   \* the migrations table
  schema,    \* the statements the database has executed, <<migration, whole?>>
  repairs

bootVars == <<embeds, bootAt, target, outcome, holder, recorded, dirty, schema, repairs>>

Outcomes == {"none", "nil", "DirtyStateError", "error", "died"}

MigrationsInit ==
  /\ embeds = [b \in Boots |-> 0] /\ bootAt = [b \in Boots |-> "off"]
  /\ target = [b \in Boots |-> 0] /\ outcome = [b \in Boots |-> "none"]
  /\ holder = {} /\ recorded = 0 /\ dirty = FALSE /\ schema = <<>> /\ repairs = 0

Returns(b, result) ==
  /\ outcome' = [outcome EXCEPT ![b] = result]
  /\ bootAt' = [bootAt EXCEPT ![b] = "returned"]

(* Run with Mode none returns at once; open may fail. *)
Run(b) ==
  /\ bootAt[b] = "off"
  /\ \E v \in 0..Latest :
       /\ embeds' = [embeds EXCEPT ![b] = v]
       /\ IF v = 0 THEN Returns(b, "nil")        \* Mode # ModeMigrate
          ELSE \/ Returns(b, "error")            \* open: source, DSN, driver
               \/ bootAt' = [bootAt EXCEPT ![b] = "lock"] /\ UNCHANGED outcome
  /\ UNCHANGED <<target, holder, recorded, dirty, schema, repairs>>

(* Faulty variant: a dirty table is forced clean instead of reported. *)
onDirty_forces(b) == Returns(b, "error") /\ dirty' = FALSE

(* Faulty variant: ErrDirty is taken for ErrNoChange. *)
onDirty_ignored(b) == Returns(b, "nil") /\ UNCHANGED dirty

(* ErrDirty becomes the typed error and nothing is touched. *)
onDirty(b) == Returns(b, "DirtyStateError") /\ UNCHANGED dirty

(* m.Up, and what Run makes of it.  Up waits for the lock, then reads the  *)
(* table: a dirty one is ErrDirty, one at a version the binary does not    *)
(* embed an error, nothing pending ErrNoChange.  closeFn ends the session. *)
Up(b) ==
  /\ bootAt[b] = "lock" /\ holder = {}
  /\ CASE dirty -> onDirty(b) /\ UNCHANGED <<holder, target>>
       [] ~dirty /\ recorded > embeds[b] -> Returns(b, "error") /\ UNCHANGED <<holder, target, dirty>>
       [] ~dirty /\ recorded = embeds[b] -> Returns(b, "nil") /\ UNCHANGED <<holder, target, dirty>>
       [] OTHER -> /\ holder' = {b} /\ target' = [target EXCEPT ![b] = recorded + 1]
                   /\ bootAt' = [bootAt EXCEPT ![b] = "mark"] /\ UNCHANGED <<outcome, dirty>>
  /\ UNCHANGED <<embeds, recorded, schema, repairs>>

(* Up gives up on the lock after its 15 seconds. *)
LockTimeout(b) ==
  /\ bootAt[b] = "lock" /\ holder # {}
  /\ Returns(b, "error")
  /\ UNCHANGED <<embeds, target, holder, recorded, dirty, schema, repairs>>

(* SetVersion(v, true) before the statements of v. *)
MarkDirty(b) ==
  /\ bootAt[b] = "mark" /\ b \in holder
  /\ recorded' = target[b] /\ dirty' = TRUE
  /\ bootAt' = [bootAt EXCEPT ![b] = "exec"]
  /\ UNCHANGED <<embeds, target, outcome, holder, schema, repairs>>

(* The statements: all of them, or some and an error, which Run wraps. *)
Exec(b) ==
  /\ bootAt[b] = "exec" /\ b \in holder
  /\ \/ /\ schema' = Append(schema, <<target[b], TRUE>>)
        /\ bootAt' = [bootAt EXCEPT ![b] = "clean"] /\ UNCHANGED <<outcome, holder>>
     \/ /\ schema' = Append(schema, <<target[b], FALSE>>)
        /\ Returns(b, "error") /\ holder' = {}
  /\ UNCHANGED <<embeds, target, recorded, dirty, repairs>>

(* Faulty variant: one migration too many. *)
pending_orEqual(b) == target[b] <= embeds[b]

(* Whether the source has a migration after the one just applied. *)
pending(b) == target[b] < embeds[b]

(* SetVersion(v, false), then the next migration or the end of Up. *)
MarkClean(b) ==
  /\ bootAt[b] = "clean" /\ b \in holder
  /\ dirty' = FALSE
  /\ IF pending(b)
     THEN /\ target' = [target EXCEPT ![b] = target[b] + 1]
          /\ bootAt' = [bootAt EXCEPT ![b] = "mark"] /\ UNCHANGED <<outcome, holder>>
     ELSE Returns(b, "nil") /\ holder' = {} /\ UNCHANGED target
  /\ UNCHANGED <<embeds, recorded, schema, repairs>>

(* The replica dies, or its session does: the lock goes, Up gets no answer. *)
Dies(b) ==
  /\ bootAt[b] \in {"lock", "mark", "exec", "clean"}
  /\ Returns(b, "died") /\ holder' = holder \ {b}
  /\ UNCHANGED <<embeds, target, recorded, dirty, schema, repairs>>

(* The advice of DirtyStateError: the operator completes the migration by  *)
(* hand and forces the recorded version.                                   *)
Repair ==
  /\ dirty /\ holder = {} /\ repairs < MaxRepairs
  /\ dirty' = FALSE /\ repairs' = repairs + 1
  /\ schema' = Append(SubSeq(schema, 1, recorded - 1), <<recorded, TRUE>>)
  /\ UNCHANGED <<embeds, bootAt, target, outcome, holder, recorded>>

MigrationsNext ==
  \/ \E b \in Boots :
       \/ Run(b) \/ Up(b) \/ LockTimeout(b) \/ MarkDirty(b) \/ Exec(b) \/ MarkClean(b) \/ Dies(b)
  \/ Repair

MigrationsSpec == MigrationsInit /\ [][MigrationsNext]_bootVars

(* Status: the recorded version; no row yet is version 0, not an error. *)
Status == <<recorded, dirty>>

-----------------------------------------------------------------------------
MigrationsTypeOK ==
  /\ embeds \in [Boots -> 0..Latest]
  /\ bootAt \in [Boots -> {"off", "lock", "mark", "exec", "clean", "returned"}]
  /\ target \in [Boots -> 0..Latest] /\ outcome \in [Boots -> Outcomes]
  /\ holder \subseteq Boots /\ \A b, c \in holder : b = c
  /\ recorded \in 0..Latest /\ dirty \in BOOLEAN

(* However boots of old and new binaries race, fail and die, the schema is *)
(* the migrations 1, 2, ... in order, each once; only the one the table    *)
(* records as dirty may be missing, half done or done, and nothing is run  *)
(* on top of it.                                                           *)
AppliedInOrder ==
  /\ \A i \in 1..Len(schema) : schema[i][1] = i
  /\ \A i \in 1..Len(schema) : ~schema[i][2] => dirty /\ i = Status[1]
  /\ Len(schema) \in {IF dirty THEN recorded - 1 ELSE recorded, recorded}

(* A replica that Run lets boot finds every migration it embeds, whole. *)
BootsOnWholeSchema ==
  \A b \in Boots : outcome[b] = "none" /\ outcome'[b] = "nil" /\ embeds'[b] > 0 =>
     \A v \in 1..embeds'[b] : \E i \in 1..Len(schema') : schema'[i] = <<v, TRUE>>

(***************************************************************************)
(* What migrate.Run promises: migrations applied in order, each once, and  *)
(* replicas that boot on a whole schema.                                   *)
(***************************************************************************)
SchemaContract ==
  [][/\ MigrationsTypeOK'
     /\ AppliedInOrder'
     /\ BootsOnWholeSchema]_bootVars
=============================================================================
