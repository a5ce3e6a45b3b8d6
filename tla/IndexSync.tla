------------------------------ MODULE IndexSync -----------------------------
(***************************************************************************)
(* indexing.Worker runs Sync again and again: Sync drains a fresh Source   *)
(* and sends every batch with BulkDo, which retries the whole request when *)
(* it gets no usable answer.  The cluster may have applied a request whose *)
(* answer was lost; it refuses single items (a mapping error) and says so  *)
(* in the response.                                                        *)
(***************************************************************************)
EXTENDS Naturals, Sequences, FiniteSets

CONSTANTS
  Sources,         \* what a Source may yield: sequences of batches of documents
  DocIds,          \* document ids; NoId asks the cluster to assign one
  NoId,
  MaxBulkAttempts, \* SyncConfig.MaxAttempts
  MaxSyncs         \* bound on runs of the worker

(* A document; a mapping refuses the body "bad". *)
SourceDocs == [id : DocIds \cup {NoId}, body : {"v1", "v2", "bad"}]

ASSUME SyncAssumption ==
  /\ NoId \notin DocIds /\ Sources \subseteq Seq(Seq(SourceDocs))
  /\ MaxBulkAttempts \in Nat \ {0} /\ MaxSyncs \in Nat

VARIABLES
  src,       \* the batches the Source has still to yield
  whole,     \* all batches of this run
  spc,       \* "waiting", "next", "bulk", "stopped"
  finished,  \* how the last run ended: "none", "nil", "error", "panic"
  ops,       \* the operations of the current request
  tries,     \* attempts of it
  report,    \* Report: indexed, failed, errors
  inIndex,   \* the index: id -> body
  assigned,  \* documents stored under assigned ids
  offered,   \* history: documents without an id of all requests
  lostReply, \* history: an answer was lost
  syncs      \* runs so far

syncVars == <<src, whole, spc, finished, ops, tries, report, inIndex, assigned, offered, lostReply, syncs>>

NoReport == [indexed |-> 0, failed |-> 0, errors |-> {}]

SyncInit ==
  /\ src = <<>> /\ whole = <<>> /\ spc = "waiting" /\ finished = "none"
  /\ ops = {} /\ tries = 0 /\ report = NoReport
  /\ inIndex = [d \in DocIds |-> "none"]
  /\ assigned = 0 /\ offered = 0 /\ lostReply = FALSE /\ syncs = 0

(* The job ends: runOnce logs an error or recovers a panic, Start waits for *)
(* the next delay.                                                          *)
endRun(how) == spc' = "waiting" /\ finished' = how

(* The delay is over (or RunOnStart). *)
RunOnce ==
  /\ spc = "waiting" /\ syncs < MaxSyncs
  /\ syncs' = syncs + 1
  /\ src' \in Sources /\ whole' = src'
  /\ report' = NoReport /\ spc' = "next" /\ finished' = "none"
  /\ UNCHANGED <<ops, tries, inIndex, assigned, offered, lostReply>>

(* Start returns when its context is cancelled, between two runs. *)
StopSyncs ==
  /\ spc = "waiting"
  /\ spc' = "stopped"
  /\ UNCHANGED <<src, whole, finished, ops, tries, report, inIndex, assigned, offered, lostReply, syncs>>

(* Faulty variant: the first body wins. *)
opsOf_firstWins(batch) ==
  {[n |-> i, id |-> batch[i].id, body |-> batch[i].body] :
     i \in {j \in DOMAIN batch : batch[j].id = NoId \/ \A k \in 1..(j - 1) : batch[k].id # batch[j].id}}

(* The operations of a batch: an id that occurs twice is sent once, with   *)
(* its last body.                                                          *)
opsOf(batch) ==
  {[n |-> i, id |-> batch[i].id, body |-> batch[i].body] :
     i \in {j \in DOMAIN batch : batch[j].id = NoId \/ \A k \in (j + 1)..Len(batch) : batch[k].id # batch[j].id}}

(* ctx.Err(), then Source.Next: the stream is exhausted with or after its  *)
(* last batch; the context, the source or the job's own code may fail.     *)
NextBatch(cancelled) ==
  /\ spc = "next"
  /\ \/ /\ ~cancelled
        /\ IF src = <<>> THEN endRun("nil") /\ UNCHANGED <<src, ops, tries, offered>>
           ELSE /\ src' = Tail(src)
                /\ ops' = opsOf(Head(src))
                /\ offered' = offered + Cardinality({o \in opsOf(Head(src)) : o.id = NoId /\ o.body # "bad"})
                /\ tries' = 1
                /\ spc' = IF Head(src) = <<>> THEN "next" ELSE "bulk"
                /\ UNCHANGED finished
     \/ /\ cancelled
        /\ \E how \in {"error", "panic"} : endRun(how)
        /\ UNCHANGED <<src, ops, tries, offered>>
  /\ UNCHANGED <<whole, report, inIndex, assigned, lostReply, syncs>>

applied ==
  /\ inIndex' = [d \in DocIds |->
                  LET mine == {o \in ops : o.id = d /\ o.body # "bad"}
                  IN IF mine = {} THEN inIndex[d] ELSE (CHOOSE o \in mine : TRUE).body]
  /\ assigned' = assigned + Cardinality({o \in ops : o.id = NoId /\ o.body # "bad"})

(* Faulty variant: one attempt too many. *)
retryOrFail_orEqual ==
  IF tries <= MaxBulkAttempts THEN tries' = tries + 1 /\ UNCHANGED <<spc, finished>>
  ELSE endRun("error") /\ UNCHANGED tries

retryOrFail ==
  IF tries < MaxBulkAttempts THEN tries' = tries + 1 /\ UNCHANGED <<spc, finished>>
  ELSE endRun("error") /\ UNCHANGED tries

(* parseBulkResponse, and the sums of Sync *)
parseBulkResponse(rep) ==
  LET bad == {o \in ops : o.body = "bad"}
  IN [indexed |-> rep.indexed + Cardinality(ops \ bad), failed |-> rep.failed + Cardinality(bad),
      errors |-> rep.errors \cup {o.id : o \in bad}]

(* Faulty variant: a batch with failed items is sent again. *)
BulkDo_retriesItems ==
  /\ spc = "bulk" /\ applied
  /\ IF \E o \in ops : o.body = "bad" THEN retryOrFail /\ UNCHANGED report
     ELSE report' = parseBulkResponse(report) /\ spc' = "next" /\ UNCHANGED <<finished, tries>>
  /\ UNCHANGED <<lostReply, src, whole, ops, offered, syncs>>

(* One attempt of BulkDo's request (DoNDJSON): answered; applied but the   *)
(* answer lost; or not applied, which a status of 400 and above also is.   *)
(* Retry takes every error for transient while the context lives.          *)
BulkDo ==
  /\ spc = "bulk"
  /\ \/ /\ applied
        /\ report' = parseBulkResponse(report)
        /\ spc' = "next"
        /\ UNCHANGED <<finished, tries, lostReply>>
     \/ applied /\ lostReply' = TRUE /\ retryOrFail /\ UNCHANGED report
     \/ retryOrFail /\ UNCHANGED <<report, inIndex, assigned, lostReply>>
  /\ UNCHANGED <<src, whole, ops, offered, syncs>>

SyncNext == RunOnce \/ StopSyncs \/ NextBatch(FALSE) \/ NextBatch(TRUE) \/ BulkDo

SyncSpec == SyncInit /\ [][SyncNext]_syncVars
-----------------------------------------------------------------------------
SyncTypeOK ==
  /\ spc \in {"waiting", "next", "bulk", "stopped"}
  /\ finished \in {"none", "nil", "error", "panic"}
  /\ tries \in 0..MaxBulkAttempts /\ syncs \in 0..MaxSyncs
  /\ inIndex \in [DocIds -> {"none", "v1", "v2"}]
  /\ report.errors \subseteq DocIds \cup {NoId}

(* Where the source has d, and the body it has at the last of these places. *)
places(d) ==
  {p \in UNION {{<<b, i>> : i \in DOMAIN whole[b]} : b \in DOMAIN whole} : whole[p[1]][p[2]].id = d}

notBefore(p, q) == p[1] > q[1] \/ (p[1] = q[1] /\ p[2] >= q[2])

LastOf(d) ==
  IF places(d) = {} THEN "none"
  ELSE LET p == CHOOSE x \in places(d) : \A y \in places(d) : notBefore(x, y) IN whole[p[1]][p[2]].body

(***************************************************************************)
(* A Sync that returns nil has left every document with an id in the index *)
(* as the source last had it, or names it in Report.Errors: "a single bad  *)
(* document never blocks the stream" (sync.go lines 48-50), retries and    *)
(* repeated ids included.                                                  *)
(***************************************************************************)
SyncedOrReported ==
  finished = "nil" =>
    \A d \in DocIds : /\ LastOf(d) = "bad" => d \in report.errors
                     /\ LastOf(d) \notin {"none", "bad"} => inIndex[d] = LastOf(d)

(***************************************************************************)
(* Documents without an id are stored twice only because an answer was     *)
(* lost and BulkDo sent the batch again.                                   *)
(***************************************************************************)
DuplicatesOnlyAfterLostReply == assigned > offered => lostReply

(***************************************************************************)
(* What Sync promises: documents are synced or reported, and duplicated    *)
(* only after a lost answer.                                               *)
(***************************************************************************)
SyncContract ==
  /\ SyncTypeOK
  /\ SyncedOrReported
  /\ DuplicatesOnlyAfterLostReply
=============================================================================
