------------------------------ MODULE Listing -------------------------------
(***************************************************************************)
(* A paginated list endpoint, from the request to the rows: package        *)
(* request parses the parameters, query turns filters into conditions and  *)
(* conditions into SQL with numbered placeholders, and dao.FindPage counts *)
(* and then reads a page.  A client walks the pages while another one      *)
(* writes through the same DAO.                                            *)
(*                                                                         *)
(* SQL text is a tree whose leaves name a column, an operator and the      *)
(* number of a placeholder; the database (external) evaluates the tree     *)
(* with the arguments, in SQL's three-valued logic.                        *)
(***************************************************************************)
EXTENDS Integers, Sequences, FiniteSets, SequencesExt

CONSTANTS
  RowIds,        \* primary keys, numbers
  Queries,       \* requests: records of parameter name -> sequence of values
  ServiceConds,  \* conditions the service adds in code
  DefaultSize,   \* defaultSize; the code has 10
  MaxSize,       \* maxSize; the code has 100
  MaxSortFields, \* maxSortFields
  MaxWrites      \* bound on writes during a walk

VARIABLES
  rows,      \* the table: id -> row or Absent
  params,    \* the query parameters of the walk
  extra,     \* the service's own conditions
  req,       \* what Build returned, for the current page
  lstage,    \* "idle", "build", "count", "page", "done", "rejected"
  pageNo,    \* the page the client asks for
  total,     \* what Count returned
  page,      \* the page last returned
  got,       \* ids of all pages returned, in order
  written0,  \* the table when the walk began
  writes,    \* writes so far
  aimed      \* history: the conditions of the last write

listVars == <<rows, params, extra, req, lstage, pageNo, total, page, got, written0, writes, aimed>>

Null == -1
Absent == [absent |-> TRUE]
Columns == {"id", "status", "owner", "rank"}
-----------------------------------------------------------------------------
(* query.Condition and its constructors *)
Cond(col, op, v) == [col |-> col, op |-> op, val |-> v, sub |-> <<>>]
Group(op, cs) == [col |-> "", op |-> op, val |-> <<>>, sub |-> cs]

(* conditionSQL: a value becomes the next placeholder; In binds the slice  *)
(* as one; Between binds two, or is always false; a group renders its      *)
(* parts in order.                                                         *)
RECURSIVE conditionSQL(_, _), renderAll(_, _)

(* Faulty variant: all conditions number their placeholders from the same index. *)
nextIdx_same(idx, args) == idx

nextIdx(idx, args) == idx + Len(args)

conditionSQL(c, idx) ==
  LET leaf(args) == [sql |-> [op |-> c.op, col |-> c.col, ph |-> idx, parts |-> <<>>], args |-> args]
  IN CASE c.op \in {"IS NULL", "IS NOT NULL"} -> leaf(<<>>)
       [] c.op = "BETWEEN" /\ Len(c.val) # 2 ->
            [sql |-> [op |-> "1=0", col |-> "", ph |-> idx, parts |-> <<>>], args |-> <<>>]
       [] c.op = "BETWEEN" /\ Len(c.val) = 2 -> leaf(c.val)
       [] c.op \in {"AND", "OR"} ->
            LET r == renderAll(c.sub, idx)
            IN [sql |-> [op |-> c.op, col |-> "", ph |-> idx, parts |-> r.parts], args |-> r.args]
       [] OTHER -> leaf(<<c.val>>)

renderAll(cs, idx) ==
  IF cs = <<>> THEN [parts |-> <<>>, args |-> <<>>]
  ELSE LET h == conditionSQL(Head(cs), idx)
           t == renderAll(Tail(cs), nextIdx(idx, h.args))
       IN [parts |-> <<h.sql>> \o t.parts, args |-> h.args \o t.args]

buildConditions(cs, idx) ==
  LET r == renderAll(cs, idx)
  IN [sql |-> [op |-> "AND", col |-> "", ph |-> idx, parts |-> r.parts], args |-> r.args]

(* BuildSelect: the conditions first, then limit and offset, which 0 leaves out. *)
BuildSelect(q) ==
  LET w == buildConditions(q.conds, 1)
      afterWhere == 1 + Len(w.args)
      lim == IF q.limit > 0 THEN <<q.limit>> ELSE <<>>
      off == IF q.offset > 0 THEN <<q.offset>> ELSE <<>>
  IN [where |-> w.sql, limitPh |-> IF lim = <<>> THEN 0 ELSE afterWhere,
      offsetPh |-> IF off = <<>> THEN 0 ELSE afterWhere + Len(lim),
      order |-> q.order, args |-> w.args \o lim \o off]

(* BuildUpdate: the assignments take the first placeholders (a map, in any *)
(* order; here one assignment), the conditions go on from there.           *)
BuildUpdate(col, v, conds) ==
  LET w == buildConditions(conds, 2)
  IN [set |-> col, setPh |-> 1, where |-> w.sql, args |-> <<v>> \o w.args]

(* BuildDelete: the literal status = 'DELETED', or a DELETE *)
BuildDelete(conds, soft) ==
  LET w == buildConditions(conds, 1) IN [soft |-> soft, where |-> w.sql, args |-> w.args]
-----------------------------------------------------------------------------
(* The database: 2 is true, 1 unknown, 0 false. *)
Truth(b) == IF b THEN 2 ELSE 0
Least(S) == CHOOSE x \in S : \A y \in S : x <= y
Most(S) == CHOOSE x \in S : \A y \in S : x >= y
With(v, others, b) == IF Null \in {v} \cup others THEN 1 ELSE Truth(b)

compare(v, op, w) ==
  CASE op = "="  -> With(v, {w}, v = w)
    [] op = "<>" -> With(v, {w}, v # w)
    [] op = ">"  -> With(v, {w}, v > w)
    [] op = ">=" -> With(v, {w}, v >= w)
    [] op = "<"  -> With(v, {w}, v < w)
    [] op = "<=" -> With(v, {w}, v <= w)
    [] op \in {"LIKE", "ILIKE"} -> With(v, {w}, v = w)

RECURSIVE evaluate(_, _, _)
evaluate(sql, args, row) ==
  LET v == row[sql.col]
      parts == {evaluate(sql.parts[i], args, row) : i \in DOMAIN sql.parts}
  IN CASE sql.op = "AND" -> Least(parts \cup {2})
       [] sql.op = "OR" -> Most(parts \cup {0})
       [] sql.op = "1=0" -> 0
       [] sql.op = "IS NULL" -> Truth(v = Null)
       [] sql.op = "IS NOT NULL" -> Truth(v # Null)
       [] sql.op = "IN" -> Most({compare(v, "=", x) : x \in ToSet(args[sql.ph])} \cup {0})
       [] sql.op = "NOT IN" -> Least({compare(v, "<>", x) : x \in ToSet(args[sql.ph])} \cup {2})
       [] sql.op = "BETWEEN" -> Least({compare(v, ">=", args[sql.ph]), compare(v, "<=", args[sql.ph + 1])})
       [] OTHER -> compare(v, sql.op, args[sql.ph])

Present == {i \in RowIds : rows[i] # Absent}
Matching(stmt) == {i \in Present : evaluate(stmt.where, stmt.args, rows[i]) = 2}

(* ORDER BY compares column by column; rows that tie come in any order. *)
RECURSIVE Before(_, _, _)
Before(r, s, order) ==
  /\ order # <<>>
  /\ LET o == Head(order)
     IN \/ IF o.desc THEN r[o.col] > s[o.col] ELSE r[o.col] < s[o.col]
        \/ r[o.col] = s[o.col] /\ Before(r, s, Tail(order))

Results(stmt) ==
  LET ids == Matching(stmt)
      sorted == {s \in [1..Cardinality(ids) -> ids] :
                   \A i, j \in DOMAIN s : i < j => s[i] # s[j] /\ ~Before(rows[s[j]], rows[s[i]], stmt.order)}
      from == IF stmt.offsetPh = 0 THEN 0 ELSE stmt.args[stmt.offsetPh]
      limit == IF stmt.limitPh = 0 THEN Cardinality(ids) ELSE stmt.args[stmt.limitPh]
  IN {SubSeq(s, from + 1, Least({from + limit, Len(s)})) : s \in sorted}
-----------------------------------------------------------------------------
(* request: the endpoint allows the filters status and owner, the fuzzy    *)
(* filter search, sorting by id and by rank (the API calls it score), and  *)
(* time queries on rank; owner = 1 is the service's constant filter.       *)
allowedFiltersDBMap == [status |-> "status", owner |-> "owner"]
additionalFilters == [owner |-> 1]
allowedSortFields == {"id", "score"}
apiToDBMap == [score |-> "rank"]
allowedQueryParams ==
  {"page", "size", "sort", "search_term", "time", "endtime", "timerel"}
    \cup DOMAIN allowedFiltersDBMap \cup {"search"}

has(q, name) == name \in DOMAIN q
first(q, name) == IF has(q, name) THEN q[name][1] ELSE ""

(* Faulty variant: the size is not capped. *)
parseSize_uncapped(q) == IF has(q, "size") /\ q["size"][1] \notin {Null, 0} THEN q["size"][1] ELSE DefaultSize

(* parseIntOrDefault, and the bounds of Build; Null stands for a value     *)
(* that is no number.                                                      *)
parseSize(q) ==
  LET n == IF has(q, "size") /\ q["size"][1] # Null THEN q["size"][1] ELSE DefaultSize
  IN IF n < 1 THEN DefaultSize ELSE Least({n, MaxSize})

(* Faulty variant: the client's filter replaces the service's. *)
filters_clientLast(q) ==
  [c \in DOMAIN additionalFilters \cup {allowedFiltersDBMap[a] : a \in DOMAIN allowedFiltersDBMap \cap DOMAIN q} |->
     IF has(q, c) THEN q[c] ELSE <<additionalFilters[c]>>]

filters(q) ==
  [c \in DOMAIN additionalFilters \cup {allowedFiltersDBMap[a] : a \in DOMAIN allowedFiltersDBMap \cap DOMAIN q} |->
     IF c \in DOMAIN additionalFilters THEN <<additionalFilters[c]>> ELSE q[c]]

(* extractSort: items are <<field, direction>> pairs; an item without a    *)
(* colon is a pair with an empty direction.  FALSE stands for the error.   *)
sortItems(q) == IF has(q, "sort") THEN q["sort"] ELSE <<>>
sortValid(q) ==
  /\ Len(sortItems(q)) <= MaxSortFields
  /\ \A i \in DOMAIN sortItems(q) : /\ sortItems(q)[i][1] \in allowedSortFields
                                    /\ sortItems(q)[i][2] \in {"asc", "desc"}
extractSort(q) ==
  IF sortItems(q) = <<>> THEN <<[col |-> "id", desc |-> TRUE]>>
  ELSE [i \in DOMAIN sortItems(q) |->
          LET f == sortItems(q)[i][1]
          IN [col |-> IF f \in DOMAIN apiToDBMap THEN apiToDBMap[f] ELSE f,
              desc |-> sortItems(q)[i][2] = "desc"]]

(* extractTemporal for the default time field *)
temporalValid(q) ==
  /\ has(q, "endtime") => has(q, "time")
  /\ has(q, "time") => has(q, "timerel")
extractTemporal(q) ==
  IF ~has(q, "timerel") THEN <<>>
  ELSE <<[field |-> "rank", rel |-> q["timerel"][1], time |-> q["time"], end |-> IF has(q, "endtime") THEN q["endtime"] ELSE <<>>]>>

(* FromFilters, in the order of the column names: one value is an equality,*)
(* several an IN, none is no condition.                                    *)
FromFilters(fs) ==
  LET names == SetToSortSeq(DOMAIN fs, LAMBDA a, b : a = "owner" /\ b = "status")
      one(c) == IF Len(fs[c]) = 0 THEN <<>>
                ELSE IF Len(fs[c]) = 1 THEN <<Cond(c, "=", fs[c][1])>> ELSE <<Cond(c, "IN", fs[c])>>
  IN FlattenSeq([i \in DOMAIN names |-> one(names[i])])

FromTemporal(ts) ==
  FlattenSeq([i \in DOMAIN ts |->
    CASE ts[i].rel = "between" -> <<Cond(ts[i].field, "BETWEEN", ts[i].time \o ts[i].end)>>
      [] ts[i].rel = "after" -> <<Cond(ts[i].field, ">", ts[i].time[1])>>
      [] ts[i].rel = "before" -> <<Cond(ts[i].field, "<", ts[i].time[1])>>
      [] OTHER -> <<>>])

(* PaginatedRequest.Conditions: filters, fuzzy filters, temporal filters *)
Conditions(r) ==
  FromFilters(r.filters)
    \o (IF r.fuzzy = <<>> THEN <<>> ELSE <<Cond("status", "ILIKE", r.fuzzy[1])>>)
    \o FromTemporal(r.temporal)

(* Faulty variant: pages count from zero. *)
Offset_zeroBased(r) == r.page * r.size

Offset(r) == IF r.page < 1 THEN 0 ELSE (r.page - 1) * r.size
-----------------------------------------------------------------------------
(* withSoftDeleteFilter of a DAO with WithSoftDeleteFilter("status"); 9 is *)
(* the DELETED sentinel.                                                   *)
Deleted == 9
Active == 1
withSoftDeleteFilter(conds) == Append(conds, Cond("status", "<>", Deleted))

asked == Conditions(req) \o extra

ListInit ==
  /\ rows = [i \in RowIds |-> [id |-> i, status |-> IF i = 1 THEN Null ELSE Active,
                               owner |-> IF i = 2 THEN 2 ELSE 1, rank |-> i \div 2]]
  /\ params = << >> /\ extra = <<>> /\ req = << >> /\ lstage = "idle"
  /\ pageNo = 1 /\ total = 0 /\ got = <<>> /\ written0 = rows /\ writes = 0 /\ aimed = <<>>
  /\ page = [data |-> <<>>, hasNext |-> FALSE]

StartWalk ==
  /\ lstage = "idle"
  /\ params' \in Queries /\ extra' \in ServiceConds
  /\ lstage' = "build" /\ written0' = rows
  /\ UNCHANGED <<rows, req, pageNo, total, page, got, writes, aimed>>

(* Build, for one page of the walk *)
Build ==
  /\ lstage = "build"
  /\ \/ /\ DOMAIN params \subseteq allowedQueryParams
        /\ sortValid(params) /\ temporalValid(params)
        /\ req' = [page |-> pageNo, size |-> parseSize(params), filters |-> filters(params),
                   fuzzy |-> IF has(params, "search") THEN params["search"] ELSE <<>>,
                   order |-> extractSort(params), temporal |-> extractTemporal(params)]
        /\ lstage' = "count"
     \/ /\ ~(DOMAIN params \subseteq allowedQueryParams /\ sortValid(params) /\ temporalValid(params))
        /\ lstage' = "rejected" /\ UNCHANGED req
  /\ UNCHANGED <<rows, params, extra, pageNo, total, page, got, written0, writes, aimed>>

(* FindPage's first statement *)
Count ==
  /\ lstage = "count"
  /\ total' = Cardinality(Matching(BuildSelect([conds |-> withSoftDeleteFilter(asked), order |-> <<>>, limit |-> 0, offset |-> 0])))
  /\ lstage' = "page"
  /\ UNCHANGED <<rows, params, extra, req, pageNo, page, got, written0, writes, aimed>>

hasNext(offset, data, n) == offset + Len(data) < n

(* The second statement, unless the offset is past the total; the client   *)
(* goes on while HasNext says so.                                          *)
FindPage ==
  LET offset == Offset(req)
      limit == IF req.size <= 0 THEN 10 ELSE req.size
      stmt == BuildSelect([conds |-> withSoftDeleteFilter(asked), order |-> req.order,
                           limit |-> limit, offset |-> offset])
  IN /\ lstage = "page"
     /\ \E data \in IF total > offset THEN Results(stmt) ELSE {<<>>} :
          /\ page' = [data |-> data, hasNext |-> hasNext(offset, data, total)]
          /\ got' = got \o data
          /\ IF hasNext(offset, data, total)
             THEN lstage' = "build" /\ pageNo' = pageNo + 1
             ELSE lstage' = "done" /\ UNCHANGED pageNo
     /\ UNCHANGED <<rows, params, extra, req, total, written0, writes, aimed>>
-----------------------------------------------------------------------------
(* Update, SoftDelete, Restore (an Update of the status), HardDelete and   *)
(* their forms by ids, through the statements they build                   *)
Targets == {<<Cond("id", "=", i)>> : i \in RowIds}
             \cup {<<Cond("rank", "<=", 1), Cond("id", ">=", 3)>>}

ExecUpdate(col, v, conds) ==
  LET stmt == BuildUpdate(col, v, conds)
  IN rows' = [i \in RowIds |-> IF i \in Matching(stmt)
                               THEN [rows[i] EXCEPT ![stmt.set] = stmt.args[stmt.setPh]] ELSE rows[i]]

DeleteRows(conds, soft) ==
  LET stmt == BuildDelete(conds, soft)
  IN rows' = [i \in RowIds |->
                IF i \notin Matching(stmt) THEN rows[i]
                ELSE IF stmt.soft THEN [rows[i] EXCEPT !.status = Deleted] ELSE Absent]

OtherWrites ==
  /\ lstage \in {"idle", "count", "page", "build"} /\ writes < MaxWrites
  /\ writes' = writes + 1
  /\ \E conds \in Targets :
       /\ aimed' = conds
       /\ \/ ExecUpdate("rank", 2, conds) \/ ExecUpdate("status", Active, conds)
          \/ DeleteRows(conds, TRUE) \/ DeleteRows(conds, FALSE)
  /\ UNCHANGED <<params, extra, req, lstage, pageNo, total, page, got, written0>>

ListNext == StartWalk \/ Build \/ Count \/ FindPage \/ OtherWrites

ListSpec == ListInit /\ [][ListNext]_listVars
-----------------------------------------------------------------------------
ListTypeOK ==
  /\ \A i \in RowIds : rows[i] = Absent \/ rows[i].id = i
  /\ lstage \in {"idle", "build", "count", "page", "done", "rejected"}
  /\ pageNo \in Nat \ {0} /\ total \in 0..Cardinality(RowIds) /\ writes \in 0..MaxWrites
  /\ ToSet(got) \subseteq RowIds /\ page.hasNext \in BOOLEAN
  /\ lstage \in {"count", "page", "done"} => req.size \in 1..MaxSize

(* What a condition says of a row, without SQL: the reference. *)
RECURSIVE Says(_, _)
Says(c, row) ==
  LET v == row[c.col]
  IN CASE c.op = "AND" -> \A i \in DOMAIN c.sub : Says(c.sub[i], row)
       [] c.op = "OR" -> \E i \in DOMAIN c.sub : Says(c.sub[i], row)
       [] c.op = "IS NULL" -> v = Null
       [] c.op = "IS NOT NULL" -> v # Null
       [] c.op = "IN" -> v # Null /\ v \in ToSet(c.val)
       [] c.op = "NOT IN" -> v # Null /\ v \notin ToSet(c.val)
       [] c.op = "BETWEEN" -> v # Null /\ Len(c.val) = 2 /\ c.val[1] <= v /\ v <= c.val[2]
       [] OTHER -> compare(v, c.op, c.val) = 2

Wanted(row) == /\ \A i \in DOMAIN asked : Says(asked[i], row)
               /\ row.status \notin {Null, Deleted}

Quiet == rows = written0
TotalOrder == \E i \in DOMAIN req.order : req.order[i].col = "id"

(***************************************************************************)
(* Walking the pages while HasNext (count.go line 44) returns every        *)
(* visible row the request asks for exactly once and in order, if nobody   *)
(* writes meanwhile and the order has no ties: page arithmetic,            *)
(* placeholders and conditions agree across five packages.                 *)
(***************************************************************************)
WalkComplete ==
  lstage = "done" /\ Quiet /\ TotalOrder =>
    /\ IsInjective(got)
    /\ ToSet(got) = {i \in Present : Wanted(rows[i])}
    /\ \A i, j \in DOMAIN got : i < j => Before(rows[got[i]], rows[got[j]], req.order)

(***************************************************************************)
(* Whatever the client sends and others write, a page holds only rows of   *)
(* the service's own filter (AdditionalFilters) that were not soft-deleted *)
(* when it was read.                                                       *)
(***************************************************************************)
ScopeKept ==
  got' # got => \A i \in ToSet(page'.data) :
     rows[i].owner = additionalFilters["owner"] /\ rows[i].status # Deleted

(***************************************************************************)
(* An update or delete changes no row but those its conditions name: the   *)
(* placeholders of SET and WHERE are not mixed up.                         *)
(***************************************************************************)
WritesHitTargets ==
  \A i \in Present : rows'[i] # rows[i] => \A k \in DOMAIN aimed' : Says(aimed'[k], rows[i])

(***************************************************************************)
(* What a list endpoint promises: complete walks, the service's own scope  *)
(* on every page, and writes that hit the rows they name.                  *)
(***************************************************************************)
ListContract ==
  [][/\ ListTypeOK'
     /\ WalkComplete'
     /\ ScopeKept
     /\ WritesHitTargets]_listVars
=============================================================================
