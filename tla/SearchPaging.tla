---------------------------- MODULE SearchPaging ----------------------------
(***************************************************************************)
(* The four ways to page through search results: from/size                 *)
(* (SearchBuilder.Page), search_after (Repo.SearchAfter), search_after on  *)
(* a point in time (OpenPIT) and Scroll, with a writer in between.  The    *)
(* cluster (external) sorts by a unique field, here the document itself.   *)
(***************************************************************************)
EXTENDS Naturals, Sequences, FiniteSets, SequencesExt

CONSTANTS
  HitIds,        \* documents, numbers, in sort order
  DefaultHits,   \* size of a page when the request has none; Elasticsearch has 10
  MaxEdits       \* bound on writes during a walk

VARIABLES
  live,      \* documents in the index
  way,       \* "page", "after", "pit", "scroll"
  size,      \* the size the caller asks for
  frozen,    \* the snapshot of a PIT or scroll
  contexts,  \* PITs and scrolls open on the cluster
  cursor,    \* the next search_after value, or the next page, or position of the scroll
  hits,      \* everything returned so far
  wpc,       \* "idle", "open", "walk", "close", "done"
  always,    \* history: documents there during the whole walk
  ever,      \* history: documents there at some time of it
  edits

pagingVars == <<live, way, size, frozen, contexts, cursor, hits, wpc, always, ever, edits>>

PagingInit ==
  /\ live = HitIds \ {CHOOSE x \in HitIds : \A y \in HitIds : x >= y}
  /\ way = "page" /\ size = 0 /\ frozen = {} /\ contexts = 0 /\ cursor = 0
  /\ hits = <<>> /\ wpc = "idle" /\ always = {} /\ ever = {} /\ edits = 0

sortedHits(S) == SetToSortSeq(S, <)
firstN(s, n) == SubSeq(s, 1, IF n < Len(s) THEN n ELSE Len(s))

(* SearchRequest.Body: size, from and search_after are left out when they  *)
(* are zero; the cluster then takes its defaults.                          *)
Body(req) ==
  [size |-> IF req.size > 0 THEN req.size ELSE DefaultHits, from |-> req.from, after |-> req.after]

(* What the cluster answers: the hits after the cursor, from an offset. *)
searchHits(S, body) ==
  LET rest == sortedHits({h \in S : h > body.after})
  IN firstN(SubSeq(rest, body.from + 1, Len(rest)), body.size)

StartPaging ==
  /\ wpc = "idle"
  /\ way' \in {"page", "after", "pit", "scroll"} /\ size' \in 0..2
  /\ way' = "page" => size' > 0
  /\ cursor' = IF way' = "page" THEN 1 ELSE 0
  /\ wpc' = IF way' \in {"pit", "scroll"} THEN "open" ELSE "walk"
  /\ always' = live /\ ever' = live
  /\ UNCHANGED <<live, frozen, contexts, hits, edits>>

(* OpenPIT; the first Scroll opens and returns a page at once. *)
Open ==
  /\ wpc = "open"
  /\ frozen' = live /\ contexts' = contexts + 1
  /\ LET first == searchHits(live, Body([size |-> size, from |-> 0, after |-> 0]))
     IN IF way = "scroll"
        THEN /\ hits' = first /\ cursor' = Len(first)
             /\ wpc' = IF first = <<>> THEN "close" ELSE "walk"
        ELSE wpc' = "walk" /\ UNCHANGED <<hits, cursor>>
  /\ always' = live /\ ever' = live
  /\ UNCHANGED <<live, way, size, edits>>

(* Faulty variant: pages count from zero. *)
fromOf_zeroBased(page) == page * size

(* SearchBuilder.Page: from = (page-1)*size *)
fromOf(page) == ((IF page < 1 THEN 1 ELSE page) - 1) * size

(* The caller's loop over Do with Page(n, size): it stops at a short page. *)
SearchPage ==
  /\ wpc = "walk" /\ way = "page"
  /\ LET got == searchHits(live, Body([size |-> size, from |-> fromOf(cursor), after |-> 0]))
     IN /\ hits' = hits \o got
        /\ cursor' = cursor + 1
        /\ wpc' = IF Len(got) < size THEN "done" ELSE "walk"
  /\ UNCHANGED <<live, way, size, frozen, contexts, always, ever, edits>>

(* Faulty variant: the cursor is the first hit's. *)
nextOf_first(got) == Head(got)

nextOf(got) == got[Len(got)]

(* SearchAfter, on the index or on the PIT: next is the last hit's sort    *)
(* value, nil (the end) when the page is empty.                            *)
SearchAfter ==
  /\ wpc = "walk" /\ way \in {"after", "pit"}
  /\ LET got == searchHits(IF way = "pit" THEN frozen ELSE live,
                           Body([size |-> size, from |-> 0, after |-> cursor]))
     IN /\ hits' = hits \o got
        /\ IF got = <<>> THEN /\ wpc' = IF way = "pit" THEN "close" ELSE "done"
                              /\ UNCHANGED cursor
           ELSE cursor' = nextOf(got) /\ UNCHANGED wpc
  /\ UNCHANGED <<live, way, size, frozen, contexts, always, ever, edits>>

(* ScrollNext: the cluster keeps the position; an empty page is the end. *)
ScrollNext ==
  /\ wpc = "walk" /\ way = "scroll"
  /\ LET all == sortedHits(frozen)
         got == firstN(SubSeq(all, cursor + 1, Len(all)), Body([size |-> size, from |-> 0, after |-> 0]).size)
     IN /\ hits' = hits \o got
        /\ cursor' = cursor + Len(got)
        /\ wpc' = IF got = <<>> THEN "close" ELSE "walk"
  /\ UNCHANGED <<live, way, size, frozen, contexts, always, ever, edits>>

(* Faulty variant: the context is left open. *)
CloseContext_forgets ==
  /\ wpc = "close" /\ wpc' = "done"
  /\ UNCHANGED <<contexts, live, way, size, frozen, cursor, hits, always, ever, edits>>

(* ClosePIT, ClearScroll *)
CloseContext ==
  /\ wpc = "close"
  /\ contexts' = contexts - 1 /\ wpc' = "done"
  /\ UNCHANGED <<live, way, size, frozen, cursor, hits, always, ever, edits>>

Edit(h) ==
  /\ wpc \in {"open", "walk"} /\ edits < MaxEdits
  /\ edits' = edits + 1
  /\ live' = IF h \in live THEN live \ {h} ELSE live \cup {h}
  /\ always' = always \cap live' /\ ever' = ever \cup live'
  /\ UNCHANGED <<way, size, frozen, contexts, cursor, hits, wpc>>

PagingNext ==
  \/ StartPaging \/ Open \/ SearchPage \/ SearchAfter \/ ScrollNext \/ CloseContext
  \/ \E h \in HitIds : Edit(h)

PagingSpec == PagingInit /\ [][PagingNext]_pagingVars
-----------------------------------------------------------------------------
PagingTypeOK ==
  /\ live \subseteq HitIds /\ frozen \subseteq HitIds
  /\ way \in {"page", "after", "pit", "scroll"}
  /\ wpc \in {"idle", "open", "walk", "close", "done"}
  /\ contexts \in 0..1 /\ (wpc = "done" => contexts = 0)
  /\ ToSet(hits) \subseteq HitIds

(***************************************************************************)
(* "a nil next means there is no further page" (repository/base.go lines   *)
(* 47-51): a walk with search_after returns, in order and without          *)
(* repetition, every document that was there all the time and none that    *)
(* never was, whatever was written meanwhile.                              *)
(***************************************************************************)
SearchAfterComplete ==
  wpc = "done" /\ way = "after" =>
    /\ \A i, j \in DOMAIN hits : i < j => hits[i] < hits[j]
    /\ always \subseteq ToSet(hits) /\ ToSet(hits) \subseteq ever

(***************************************************************************)
(* Paging on a PIT or a scroll returns one snapshot exactly: "one          *)
(* consistent snapshot even while writes continue" (search.go lines        *)
(* 228-229); pages by from and size do if nobody writes.                   *)
(***************************************************************************)
SnapshotExact ==
  wpc = "done" =>
    /\ way \in {"pit", "scroll"} => hits = sortedHits(frozen)
    /\ way = "page" /\ edits = 0 => hits = sortedHits(live)

(***************************************************************************)
(* What paging through search results promises: complete walks with        *)
(* search_after, exact snapshots with a PIT or scroll.                     *)
(***************************************************************************)
PagingContract ==
  /\ PagingTypeOK
  /\ SearchAfterComplete
  /\ SnapshotExact
=============================================================================
