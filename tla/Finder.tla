------------------------------- MODULE Finder -------------------------------
(***************************************************************************)
(* dao.Finder: criteria are collected by fluent calls and then run as one  *)
(* of the terminals Find, One, Count, Exists and Page, over a table with a *)
(* soft-deleted row and over its join with a second table.  A client walks *)
(* the pages by moving Offset while HasNext.                               *)
(*                                                                         *)
(* Conditions, placeholders and their evaluation are those of Listing.  A  *)
(* result row is what the SELECT list makes of a joined row.               *)
(***************************************************************************)
EXTENDS Listing

CONSTANT MaxFluent   \* bound: fluent calls before the terminal

VARIABLES
  finder,    \* the Finder's fields, and whether its DAO is Unscoped()
  fluent,    \* fluent calls so far
  fstage,    \* "build", "walk", "select" (Page between its statements), "done"
  ftotal,    \* Page's local total
  walked,    \* what the pages returned, in order
  told       \* what the last terminal returned

finderVars == <<finder, fluent, fstage, ftotal, walked, told>>

(* The tables (external).  Row 3 is soft-deleted; row 1 has two partners in *)
(* the joined table, the others none.                                       *)
Stored == [i \in 1..3 |-> [id |-> i, status |-> IF i = 3 THEN Deleted ELSE Active,
                           owner |-> 1, rank |-> IF i = 2 THEN 0 ELSE 1]]
Partners(i) == IF i = 1 THEN {1, 2} ELSE {}
NoPartner == 0

NoAnswer == [kind |-> "none"]
Query == [conds |-> <<>>, order |-> <<>>, limit |-> 0, offset |-> 0, join |-> "none", cols |-> "*",
          group |-> FALSE, having |-> FALSE, distinct |-> FALSE, unscoped |-> FALSE]

FinderInit ==
  /\ finder = Query /\ fluent = 0 /\ fstage = "build"
  /\ ftotal = 0 /\ walked = <<>> /\ told = NoAnswer
-----------------------------------------------------------------------------
(* The fluent calls, each of which changes the Finder in place. *)
fluently(f) ==
  /\ fstage = "build" /\ fluent < MaxFluent
  /\ finder' = f /\ fluent' = fluent + 1
  /\ UNCHANGED <<fstage, ftotal, walked, told>>

FWhere == \E c \in {Cond("id", ">=", 2), Cond("owner", "=", 2), Cond("status", "=", Deleted)} :
            fluently([finder EXCEPT !.conds = Append(@, c)])
FOrderBy == \E o \in {"id", "rank"} : fluently([finder EXCEPT !.order = Append(@, [col |-> o, desc |-> FALSE])])
FOrderByDesc == fluently([finder EXCEPT !.order = Append(@, [col |-> "id", desc |-> TRUE])])
FLimit == \E n \in {-1, 1, 2} : fluently([finder EXCEPT !.limit = n])
FOffset == \E n \in {-1, 1} : fluently([finder EXCEPT !.offset = n])
FJoin == \E j \in {"left", "inner"} : finder.join = "none" /\ fluently([finder EXCEPT !.join = j])
FSelect == finder.cols = "*" /\ fluently([finder EXCEPT !.cols = "rank"])
FDistinct == fluently([finder EXCEPT !.distinct = TRUE])
FGroupBy == fluently([finder EXCEPT !.group = TRUE])
FHaving == fluently([finder EXCEPT !.having = TRUE])
FUnscoped == fluently([finder EXCEPT !.unscoped = TRUE])

inScope(f) == IF f.unscoped THEN f.conds ELSE withSoftDeleteFilter(f.conds)

(* The SelectQuery of Find; One and Page change its limit and offset. *)
findQuery(f) ==
  [conds |-> inScope(f), order |-> f.order, limit |-> f.limit, offset |-> f.offset, join |-> f.join,
   cols |-> f.cols, group |-> f.group, having |-> f.having, distinct |-> f.distinct]

(* Faulty variant: Count leaves the joins out. *)
countQuery_base(f) == [findQuery([Query EXCEPT !.conds = f.conds, !.unscoped = f.unscoped]) EXCEPT !.cols = "count"]

(* The query of Count: DAO.Count without joins, the joins kept with them;  *)
(* no grouping, no DISTINCT, no limit.                                     *)
countQuery(f) ==
  [findQuery([Query EXCEPT !.conds = f.conds, !.unscoped = f.unscoped, !.join = f.join]) EXCEPT !.cols = "count"]

(* Faulty variant: the criteria's own offset is kept. *)
existsQuery_offset(f) == [findQuery([f EXCEPT !.group = FALSE, !.having = FALSE, !.distinct = FALSE]) EXCEPT !.limit = 1]

(* Exists: DAO.Exists (FindOne), or the same with the joins and the columns. *)
existsQuery(f) ==
  [findQuery([Query EXCEPT !.conds = f.conds, !.unscoped = f.unscoped, !.join = f.join, !.cols = f.cols])
     EXCEPT !.limit = 1]
-----------------------------------------------------------------------------
(* The database (external): what it accepts, and the rows it returns.      *)
(* Grouping here is by rank, Having keeps groups of at least two.          *)
accepted(q) ==
  /\ q.group => q.cols = "rank"
  /\ q.having => q.group
  /\ q.group \/ (q.distinct /\ q.cols = "rank") => \A k \in DOMAIN q.order : q.order[k].col = "rank"

joinedRows(q) ==
  LET chosen(row) == \E stmt \in {BuildSelect([conds |-> q.conds, order |-> q.order, limit |-> 0, offset |-> 0])} :
                       evaluate(stmt.where, stmt.args, row) = 2
      with(i) == CASE q.join = "none" -> {NoPartner}
                   [] q.join = "inner" -> Partners(i)
                   [] q.join = "left" -> IF Partners(i) = {} THEN {NoPartner} ELSE Partners(i)
  IN UNION {{[id |-> i, rank |-> Stored[i].rank, with |-> p] : p \in with(i)} :
            i \in {j \in DOMAIN Stored : chosen(Stored[j])}}

(* Rows that DISTINCT or GROUP BY cannot tell apart are one row. *)
merged(q, R) ==
  LET atLeast == IF q.group /\ q.having THEN 2 ELSE 1
  IN IF q.group \/ (q.distinct /\ q.cols = "rank")
     THEN {[id |-> 0, rank |-> r, with |-> NoPartner] :
             r \in {n \in {0, 1} : Cardinality({x \in R : x.rank = n}) >= atLeast}}
     ELSE R
selected(q) == UNION {merged(q, R) : R \in {joinedRows(q)}}

(* All orders the database may return them in, cut by limit and offset. *)
cut(q, s) ==
  LET from == IF q.offset > 0 THEN q.offset ELSE 0
  IN SubSeq(s, from + 1, IF q.limit > 0 THEN Least({from + q.limit, Len(s)}) ELSE Len(s))
returned(q) ==
  {cut(q, s) : s \in {t \in SetToSeqs(selected(q)) :
                        \A i, j \in DOMAIN t : i < j => ~Before(t[j], t[i], q.order)}}
-----------------------------------------------------------------------------
reply(a) == told' = a /\ UNCHANGED <<finder, fluent, ftotal, walked>>

Find ==
  /\ fstage = "build" /\ fstage' = "done"
  /\ IF accepted(findQuery(finder))
     THEN \E s \in returned(findQuery(finder)) : reply([kind |-> "rows", rows |-> s])
     ELSE reply([kind |-> "error"])

One ==
  LET q == [findQuery(finder) EXCEPT !.limit = 1]
  IN /\ fstage = "build" /\ fstage' = "done"
     /\ IF accepted(q)
        THEN \E s \in returned(q) : reply(IF s = <<>> THEN [kind |-> "notFound"] ELSE [kind |-> "row", row |-> s[1]])
        ELSE reply([kind |-> "error"])

FCount ==
  /\ fstage = "build" /\ fstage' = "done"
  /\ reply([kind |-> "count", n |-> Cardinality(joinedRows(countQuery(finder)))])

FExists ==
  /\ fstage = "build" /\ fstage' = "done"
  /\ \E s \in returned(existsQuery(finder)) : reply([kind |-> "exists", yes |-> s # <<>>])

(* Page, first its count; limit and offset are defaulted in locals.  A     *)
(* client that walks starts at offset 0.                                   *)
pageLimit(f) == IF f.limit <= 0 THEN 10 ELSE f.limit
(* Faulty variant: a negative offset is kept. *)
pageOffset_unset(f) == f.offset

pageOffset(f) == IF f.offset < 0 THEN 0 ELSE f.offset

Page ==
  /\ \/ fstage = "build" /\ finder.offset <= 0
     \/ fstage = "walk"
  /\ fstage' = "select"
  /\ ftotal' = Cardinality(joinedRows(countQuery(finder)))
  /\ UNCHANGED <<finder, fluent, walked, told>>

(* Then the rows, unless the offset is past the total.  While HasNext, the *)
(* client moves the Finder's offset by a page.                             *)
PageRows ==
  LET limit == pageLimit(finder)
      offset == pageOffset(finder)
      q == [findQuery(finder) EXCEPT !.limit = limit, !.offset = offset]
  IN /\ fstage = "select"
     /\ \/ /\ ftotal > offset /\ ~accepted(q)
           /\ fstage' = "done" /\ told' = [kind |-> "error"] /\ UNCHANGED <<finder, walked>>
        \/ /\ ftotal > offset => accepted(q)
           /\ \E data \in IF ftotal > offset THEN returned(q) ELSE {<<>>} :
                /\ walked' = walked \o data
                /\ told' = [kind |-> "page", rows |-> data]
                /\ IF hasNext(offset, data, ftotal)
                   THEN fstage' = "walk" /\ finder' = [finder EXCEPT !.offset = offset + limit]
                   ELSE fstage' = "done" /\ UNCHANGED finder
     /\ UNCHANGED <<fluent, ftotal>>

Fluent == \/ FWhere \/ FOrderBy \/ FOrderByDesc \/ FLimit \/ FOffset \/ FJoin \/ FSelect \/ FDistinct
          \/ FGroupBy \/ FHaving \/ FUnscoped

FinderNext == Fluent \/ Find \/ One \/ FCount \/ FExists \/ Page \/ PageRows

FinderSpec == FinderInit /\ [][FinderNext]_finderVars
-----------------------------------------------------------------------------
FinderTypeOK ==
  /\ DOMAIN finder = DOMAIN Query /\ finder.limit \in -1..2 /\ finder.offset \in -1..20
  /\ fluent \in 0..MaxFluent /\ fstage \in {"build", "walk", "select", "done"}
  /\ ftotal \in 0..4 /\ Len(walked) <= 4 /\ (fstage = "walk" => finder.offset > 0)
  /\ told.kind \in {"none", "rows", "row", "notFound", "count", "exists", "page", "error"}

Whole == selected(findQuery(finder))
Untied == \/ \E k \in DOMAIN finder.order : finder.order[k].col = "id" /\ finder.join = "none"
          \/ (finder.group \/ finder.distinct) /\ finder.cols = "rank" /\ finder.order # <<>>

(***************************************************************************)
(* Walking Page by HasNext (lines 224-265) misses nothing: whatever mix of *)
(* joins, columns, DISTINCT, GROUP BY and HAVING, for which Count counts   *)
(* other rows than Page selects, the walk ends only when as many rows as   *)
(* Find would return have been on a page, and those very rows if the order *)
(* has no ties.                                                            *)
(***************************************************************************)
FinderWalkComplete ==
  fstage = "done" /\ told.kind = "page" =>
    /\ Len(walked) = Cardinality(Whole)
    /\ Untied => ToSet(walked) = Whole

(***************************************************************************)
(* The terminals agree with each other about one set of criteria: Exists   *)
(* is true exactly if Count is not 0, One finds nothing only then, Find    *)
(* returns no more rows than Count counts, and none shows a deleted row    *)
(* unless Unscoped.                                                        *)
(***************************************************************************)
TerminalsAgree ==
  LET counted == joinedRows(countQuery(finder))
  IN /\ told.kind = "exists" => told.yes = (counted # {})
     /\ told.kind = "notFound" /\ finder.offset <= 0 /\ ~finder.having => counted = {}
     /\ told.kind = "rows" => /\ Len(told.rows) <= Cardinality(counted)
                                /\ ~finder.unscoped => \A k \in DOMAIN told.rows : told.rows[k].id # 3

(***************************************************************************)
(* What a Finder promises: complete walks by HasNext and terminals that    *)
(* agree.                                                                  *)
(***************************************************************************)
FinderContract ==
  /\ FinderTypeOK
  /\ FinderWalkComplete
  /\ TerminalsAgree
=============================================================================
