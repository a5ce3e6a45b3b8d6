---------------------------- MODULE Transactions ----------------------------
(***************************************************************************)
(* transaction.WithTransaction, InTransaction, their retrying forms over   *)
(* resilience.Retry, and WithAdvisoryLock, on one pool.  The function a    *)
(* caller passes writes through the DAO (or plain SQL): it changes a row   *)
(* with UpdateVersioned, or inserts one, and then logs that in a nested    *)
(* InTransaction.                                                          *)
(*                                                                         *)
(* As PostgreSQL and pgx are used: a statement or a commit may fail with a *)
(* serialization failure or deadlock, or with the connection; the server   *)
(* rolls back what a lost connection had not committed; an updated row is  *)
(* locked until its transaction ends.                                      *)
(***************************************************************************)
EXTENDS Naturals, FiniteSets

CONSTANTS
  TxCallers,     \* goroutines, with one call each
  TxPoolSize,    \* connections of the pool
  TxAttempts     \* RetryConfig.MaxAttempts

ASSUME TxAssumption == TxPoolSize \in Nat \ {0} /\ TxAttempts \in Nat \ {0}

VARIABLES
  mode,       \* the function called
  work,       \* what fn writes: "versioned" or "insert"
  viaDAO,     \* whether fn writes through the DAO or with plain SQL
  tpc,        \* where a call is
  attempt,    \* Retry's attempt, 1-based
  seen,       \* the version the caller has read before the call
  written,    \* what its open transaction has written
  err,        \* the error on its way up
  txConn,     \* callers that hold a connection
  advisory,   \* holder of the advisory lock, {} for none
  aborted,    \* callers whose context is cancelled
  commits,    \* history: commits of a call
  unknown,    \* history: calls whose commit was not answered
  version,    \* the version column of the row
  items,      \* rows inserted
  log         \* rows in the log table

txVars == <<mode, work, viaDAO, tpc, attempt, seen, written, err, txConn, advisory, aborted,
            commits, unknown, version, items, log>>
callArgs == <<mode, work, viaDAO>>
tables == <<version, items, log>>

(* "once" is WithTransaction and InTransaction, "retrying" WithRetryableTx *)
(* and InRetryableTransaction, which put retryTx around them.              *)
Modes == {"once", "retrying", "WithAdvisoryLock"}

(* "40001" stands for both codes that isRetryablePgError knows. *)
Errors == {"none", "40001", "database", "stale", "other"}

TxTypeOK ==
  /\ mode \in [TxCallers -> Modes] /\ work \in [TxCallers -> {"versioned", "insert"}]
  /\ viaDAO \in [TxCallers -> BOOLEAN]
  /\ tpc \in [TxCallers -> {"idle", "begin", "lock", "fn", "nested", "end", "backoff",
                            "unlock", "done", "panicked"}]
  /\ attempt \in [TxCallers -> 1..TxAttempts]
  /\ seen \in [TxCallers -> Nat] /\ commits \in [TxCallers -> Nat]
  /\ written \in [TxCallers -> SUBSET {"row", "log"}]
  /\ err \in [TxCallers -> Errors]
  /\ txConn \subseteq TxCallers /\ Cardinality(txConn) <= TxPoolSize
  /\ advisory \subseteq txConn /\ aborted \subseteq TxCallers /\ unknown \subseteq TxCallers
  /\ version \in Nat /\ items \in Nat /\ log \in Nat

TxInit ==
  /\ mode = [c \in TxCallers |-> "once"]
  /\ work = [c \in TxCallers |-> "insert"]
  /\ viaDAO = [c \in TxCallers |-> TRUE]
  /\ tpc = [c \in TxCallers |-> "idle"]
  /\ attempt = [c \in TxCallers |-> 1]
  /\ seen = [c \in TxCallers |-> 0]
  /\ written = [c \in TxCallers |-> {}]
  /\ err = [c \in TxCallers |-> "none"]
  /\ txConn = {} /\ advisory = {} /\ aborted = {} /\ unknown = {}
  /\ commits = [c \in TxCallers |-> 0]
  /\ version = 0 /\ items = 0 /\ log = 0
-----------------------------------------------------------------------------
goTo(c, where) == tpc' = [tpc EXCEPT ![c] = where]

RowLockedBy(c) == work[c] = "versioned" /\ "row" \in written[c]

(* MapPostgresError: a serialization failure or deadlock becomes a         *)
(* DxError without a cause; an error it does not know is wrapped.          *)
MapPgError(e) == IF e = "40001" THEN "database" ELSE e

fnSees(c, e) == IF viaDAO[c] THEN MapPgError(e) ELSE e

(* Faulty variant: any error is worth a retry. *)
isRetryablePgError_any(e) == e # "none"

(* Faulty variant: the code is not in the list. *)
isRetryablePgError_missing(e) == FALSE

isRetryablePgError(e) == e = "40001"

(* The caller has read the row earlier, outside the transaction. *)
StartCall(c) ==
  /\ tpc[c] = "idle"
  /\ \E m \in Modes : mode' = [mode EXCEPT ![c] = m]
  /\ \E w \in {"versioned", "insert"} : work' = [work EXCEPT ![c] = w]
  /\ \E b \in BOOLEAN : viaDAO' = [viaDAO EXCEPT ![c] = b]
  /\ seen' = [seen EXCEPT ![c] = version]
  /\ goTo(c, "begin")
  /\ UNCHANGED <<attempt, written, err, txConn, advisory, aborted, commits, unknown, tables>>

AbortContext(c) ==
  /\ tpc[c] \notin {"idle", "done", "panicked"}
  /\ c \notin aborted
  /\ aborted' = aborted \cup {c}
  /\ UNCHANGED <<callArgs, tpc, attempt, seen, written, err, txConn, advisory, commits, unknown, tables>>

(* Faulty variant: one attempt too many. *)
attemptsLeft_orEqual(c) == attempt[c] <= TxAttempts

attemptsLeft(c) == attempt[c] < TxAttempts

(* Faulty variant: no rollback after an error. *)
giveBack_onlyAfterCommit(c) == txConn' = IF err[c] = "none" THEN txConn \ {c} ELSE txConn

(* Commit and Rollback hand the connection back to the pool. *)
giveBack(c) == txConn' = txConn \ {c}

(* What fn (or Begin, or Commit) returned goes up: Retry looks at it, and  *)
(* the last or a permanent error ends the call.                            *)
finish(c, e) ==
  /\ err' = [err EXCEPT ![c] = e]
  /\ IF mode[c] = "retrying" /\ attemptsLeft(c) /\ isRetryablePgError(e)
     THEN goTo(c, "backoff")
     ELSE goTo(c, "done")

(* pool.Begin, or pool.Acquire: waits for a connection or fails, for a     *)
(* cancelled context, before Retry's attempt or in the pool.               *)
Begin(c) ==
  /\ tpc[c] = "begin"
  /\ \/ /\ c \notin aborted /\ Cardinality(txConn) < TxPoolSize
        /\ txConn' = txConn \cup {c}
        /\ goTo(c, IF mode[c] = "WithAdvisoryLock" THEN "lock" ELSE "fn")
        /\ UNCHANGED err
     \/ /\ c \in aborted
        /\ finish(c, "other")
        /\ UNCHANGED txConn
  /\ UNCHANGED <<callArgs, attempt, seen, written, advisory, aborted, commits, unknown, tables>>

(* Faulty variant: the update has no version condition. *)
matches_always(c) == TRUE

matches(c) == work[c] = "insert" \/ version = seen[c]

(* fn's first write.  UpdateVersioned touches the row only at the version  *)
(* the caller saw, and reports a stale version otherwise; the row is       *)
(* locked from here on.                                                    *)
Write(c) ==
  /\ tpc[c] = "fn"
  /\ \/ /\ work[c] = "versioned" => \A d \in TxCallers \ {c} : ~RowLockedBy(d)
        /\ matches(c)
        /\ written' = [written EXCEPT ![c] = {"row"}]
        /\ goTo(c, "nested")
        /\ UNCHANGED err
     \/ /\ ~matches(c)
        /\ err' = [err EXCEPT ![c] = "stale"]
        /\ goTo(c, "end")
        /\ UNCHANGED written
     \/ /\ \E e \in {"40001", "other"} : err' = [err EXCEPT ![c] = fnSees(c, e)]
        /\ goTo(c, "end")
        /\ UNCHANGED written
  /\ UNCHANGED <<callArgs, attempt, seen, txConn, advisory, aborted, commits, unknown, tables>>

(* Faulty variant: the nested call has a transaction of its own. *)
Nested_ownTransaction(c) ==
  /\ tpc[c] = "nested"
  /\ log' = log + 1
  /\ goTo(c, "end")
  /\ UNCHANGED <<callArgs, attempt, seen, written, err, txConn, advisory, aborted, commits, unknown,
                 version, items>>

(* The nested InTransaction (or InRetryableTransaction) joins, and does    *)
(* not retry: its error is fn's.                                           *)
Nested(c) ==
  /\ tpc[c] = "nested"
  /\ \/ written' = [written EXCEPT ![c] = @ \cup {"log"}] /\ UNCHANGED err
     \/ /\ \E e \in {"40001", "other"} : err' = [err EXCEPT ![c] = fnSees(c, e)]
        /\ UNCHANGED written
  /\ goTo(c, "end")
  /\ UNCHANGED <<callArgs, attempt, seen, txConn, advisory, aborted, commits, unknown, tables>>

apply(c) ==
  /\ version' = version + (IF RowLockedBy(c) THEN 1 ELSE 0)
  /\ items' = items + (IF work[c] = "insert" THEN 1 ELSE 0)
  /\ log' = log + 1
  /\ commits' = [commits EXCEPT ![c] = @ + 1]

(* fn has returned: Rollback after an error (it ends the transaction, or   *)
(* the connection does), else Commit, which may fail on the server or lose *)
(* its answer.  The connection is released on every path.                  *)
End(c) ==
  /\ tpc[c] = "end" /\ mode[c] # "WithAdvisoryLock"
  /\ giveBack(c)
  /\ written' = [written EXCEPT ![c] = {}]
  /\ \/ err[c] # "none" /\ finish(c, err[c]) /\ UNCHANGED <<tables, commits, unknown>>
     \/ err[c] = "none" /\ c \notin aborted /\ apply(c) /\ finish(c, "none") /\ UNCHANGED unknown
     \/ /\ err[c] = "none"
        /\ \E e \in {"40001", "other"} : finish(c, e)
        /\ UNCHANGED <<tables, commits, unknown>>
     \/ /\ err[c] = "none"
        /\ apply(c) /\ finish(c, "other")
        /\ unknown' = unknown \cup {c}
  /\ UNCHANGED <<callArgs, attempt, seen, advisory, aborted>>

(* Retry's wait; a cancelled context ends it and the call. *)
Backoff(c) ==
  /\ tpc[c] = "backoff"
  /\ \/ /\ c \notin aborted
        /\ attempt' = [attempt EXCEPT ![c] = @ + 1]
        /\ err' = [err EXCEPT ![c] = "none"]
        /\ goTo(c, "begin")
     \/ /\ c \in aborted
        /\ err' = [err EXCEPT ![c] = "other"]
        /\ goTo(c, "done")
        /\ UNCHANGED attempt
  /\ UNCHANGED <<callArgs, seen, written, txConn, advisory, aborted, commits, unknown, tables>>

(* WithAdvisoryLock waits for the lock; its fn does not write here. *)
LockKey(c) ==
  /\ tpc[c] = "lock"
  /\ \/ advisory = {} /\ advisory' = {c} /\ goTo(c, "unlock") /\ UNCHANGED <<txConn, err>>
     \/ /\ c \in aborted
        /\ txConn' = txConn \ {c} /\ finish(c, "other")
        /\ UNCHANGED advisory
  /\ UNCHANGED <<callArgs, attempt, seen, written, aborted, commits, unknown, tables>>

(* fn is over, even by a panic: the deferred calls unlock and release. *)
UnlockKey(c) ==
  /\ tpc[c] = "unlock"
  /\ advisory' = {} /\ txConn' = txConn \ {c}
  /\ \/ finish(c, "none")
     \/ goTo(c, "panicked") /\ UNCHANGED err
  /\ UNCHANGED <<callArgs, attempt, seen, written, aborted, commits, unknown, tables>>

(* fn panics inside a transaction: nothing rolls back or releases. *)
Panic(c) ==
  /\ tpc[c] \in {"fn", "nested"}
  /\ goTo(c, "panicked")
  /\ UNCHANGED <<callArgs, attempt, seen, written, err, txConn, advisory, aborted, commits, unknown, tables>>
-----------------------------------------------------------------------------
TxNext ==
  \E c \in TxCallers :
    \/ StartCall(c) \/ AbortContext(c) \/ Begin(c) \/ Write(c) \/ Nested(c) \/ End(c)
    \/ Backoff(c) \/ LockKey(c) \/ UnlockKey(c) \/ Panic(c)

TxSpec == TxInit /\ [][TxNext]_txVars
-----------------------------------------------------------------------------
(***************************************************************************)
(* The nested call joins (manager.go lines 37-42): what fn and its nested  *)
(* call write is committed together or not at all.                         *)
(***************************************************************************)
AllOrNothing == log = version + items

(***************************************************************************)
(* A call commits at most once, whatever was retried; it returns nil only  *)
(* if it did, and an error after a commit only if the commit was not       *)
(* answered, which is never retried.                                       *)
(***************************************************************************)
CommitsMatchOutcome ==
  \A c \in TxCallers :
    /\ commits[c] <= 1
    /\ tpc[c] = "done" /\ mode[c] # "WithAdvisoryLock" =>
         (commits[c] = 1 <=> err[c] = "none" \/ c \in unknown)

(***************************************************************************)
(* UpdateVersioned loses no update: of the calls that saw one version at   *)
(* most one commits, whatever the others retry.                            *)
(***************************************************************************)
NoLostUpdate ==
  \A c, d \in TxCallers :
    c # d /\ work[c] = "versioned" /\ work[d] = "versioned" /\ seen[c] = seen[d]
      => commits[c] + commits[d] <= 1

(***************************************************************************)
(* A call that is over has given its connection back and holds no lock,    *)
(* whichever way it ended; only a panic inside a transaction keeps them    *)
(* (lines 54-64 defer nothing).                                            *)
(***************************************************************************)
ReleasedUnlessPanic ==
  \A c \in TxCallers :
    /\ c \in txConn /\ tpc[c] \in {"idle", "begin", "backoff", "done", "panicked"}
         => tpc[c] = "panicked" /\ mode[c] # "WithAdvisoryLock"
    /\ written[c] # {} \/ c \in advisory => c \in txConn

(***************************************************************************)
(* Serialization failures that reach Retry are retried: a retrying call    *)
(* gives up on one only after its last attempt.                            *)
(***************************************************************************)
VisibleConflictsRetried ==
  \A c \in TxCallers :
    tpc[c] = "done" /\ mode[c] = "retrying" /\ err[c] = "40001" => attempt[c] = TxAttempts

(***************************************************************************)
(* What package transaction promises: atomic nesting, outcomes that match  *)
(* commits, no lost update, retried conflicts, and resources given back    *)
(* unless fn panics.                                                       *)
(***************************************************************************)
TxContract ==
  /\ TxTypeOK
  /\ AllOrNothing
  /\ CommitsMatchOutcome
  /\ NoLostUpdate
  /\ ReleasedUnlessPanic
  /\ VisibleConflictsRetried
=============================================================================
