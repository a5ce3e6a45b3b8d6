------------------------- MODULE RequestPathProofs --------------------------
(***************************************************************************)
(* What a request and its answer go through, proved for any number of      *)
(* calls on the response writer and any parties: the chain of response     *)
(* writers, and the envelopes that messages are sealed in.                 *)
(***************************************************************************)
EXTENDS ResponseChain, Envelope, TLAPS

(***************************************************************************)
(* The response on its way down the chain.  The invariant is about the     *)
(* record that the writers transform: which body is compressed and which   *)
(* header announces it, who wrote it, and what the handler had called      *)
(* before.                                                                 *)
(***************************************************************************)
(* The data of a response: the header map, what the connection got, and    *)
(* the state of the selective writer                                       *)
ContentTypes == {"unset", "json", "bin"}
Headers == [ctype : ContentTypes, gzip : BOOLEAN, length : BOOLEAN]
StatusCodes == {0, 200, 204, 404, 500, 503}
Middleware == {"errors", "recovery", "timeout"}
Chunks == [from : SUBSET (Middleware \cup {"handler"}), zip : BOOLEAN]
Outs == [status : StatusCodes, gzip : BOOLEAN, length : BOOLEAN, body : Seq(Chunks), closed : BOOLEAN]
Wraps == [written : BOOLEAN, gw : BOOLEAN]
Responses == [out : Outs, h : Headers, log : StatusCodes \ {0}, wrap : Wraps]

(* Helpers: what one call on each writer makes of a response               *)
LEMMA RangeAppend ==
  ASSUME NEW S, NEW s \in Seq(S), NEW x \in S
  PROVE  Range(Append(s, x)) = Range(s) \cup {x} /\ Append(s, x) \in Seq(S) /\ Append(s, x) # <<>>
<1>1. Append(s, x) \in Seq(S) /\ Append(s, x) # <<>>
  <2>1. Append(s, x) \in Seq(S) /\ Len(Append(s, x)) = Len(s) + 1 /\ Len(s) \in Nat
    OBVIOUS
  <2>2. Len(Append(s, x)) # 0
    BY <2>1
  <2> QED BY <2>1, <2>2
<1>2. ASSUME NEW y \in Range(Append(s, x)) PROVE y \in Range(s) \cup {x}
  BY <1>2 DEF Range
<1>3. ASSUME NEW y \in Range(s) PROVE y \in Range(Append(s, x))
  <2>1. PICK i \in DOMAIN s : y = s[i]
    BY Zenon, <1>3 DEF Range
  <2>2. i \in DOMAIN Append(s, x) /\ Append(s, x)[i] = s[i]
    BY <2>1
  <2> QED BY Zenon, <2>1, <2>2 DEF Range
<1>4. x \in Range(Append(s, x))
  <2>1. Len(s) + 1 \in DOMAIN Append(s, x) /\ Append(s, x)[Len(s) + 1] = x
    OBVIOUS
  <2> QED BY Zenon, <2>1 DEF Range
<1> QED BY Zenon, <1>1, <1>2, <1>3, <1>4

LEMMA ConnHeaderIs ==
  ASSUME NEW out \in Outs, NEW code \in StatusCodes \ {0}, NEW h \in Headers
  PROVE  LET o == connHeader(out, code, h)
         IN /\ o \in Outs /\ o.body = out.body /\ o.closed = out.closed
            /\ out.status # 0 => o = out
            /\ out.status = 0 => o.status = code /\ o.gzip = h.gzip /\ o.length = h.length
<1> DEFINE o1 == [out EXCEPT !.status = code]
           o2 == [o1 EXCEPT !.gzip = h.gzip]
           o3 == [o2 EXCEPT !.length = h.length]
<1>1. h.gzip \in BOOLEAN /\ h.length \in BOOLEAN
  BY Zenon DEF Headers
<1>2. o1 \in Outs /\ o1.body = out.body /\ o1.closed = out.closed /\ o1.status = code
  BY Zenon DEF Outs
<1> HIDE DEF o1
<1>3. o2 \in Outs /\ o2.body = out.body /\ o2.closed = out.closed /\ o2.status = code /\ o2.gzip = h.gzip
  BY Zenon, <1>1, <1>2 DEF Outs
<1> HIDE DEF o2
<1>4. /\ o3 \in Outs /\ o3.body = out.body /\ o3.closed = out.closed /\ o3.status = code /\ o3.gzip = h.gzip
      /\ o3.length = h.length
  BY Zenon, <1>1, <1>3 DEF Outs
<1>5. out.status = 0 => connHeader(out, code, h) = o3
  BY Zenon DEF connHeader, o1, o2, o3
<1>6. out.status # 0 => connHeader(out, code, h) = out
  BY Zenon DEF connHeader
<1> HIDE DEF o3
<1> QED BY Zenon, <1>4, <1>5, <1>6

LEMMA ConnWriteIs ==
  ASSUME NEW out \in Outs, NEW chunk \in Chunks, NEW h \in Headers
  PROVE  LET o == connWrite(out, h, chunk)
             d == connHeader(out, 200, h)
         IN /\ o \in Outs /\ o.closed = out.closed
            /\ o.status = d.status /\ o.gzip = d.gzip /\ o.length = d.length
            /\ o.status = 204 => o.body = out.body
            /\ o.status # 204 => o.body = Append(out.body, chunk)
<1> DEFINE d == connHeader(out, 200, h)
           b == Append(d.body, chunk)
           e == [d EXCEPT !.body = b]
<1>1. d \in Outs /\ d.body = out.body /\ d.closed = out.closed
  BY ConnHeaderIs DEF StatusCodes
<1>2. connWrite(out, h, chunk) = IF d.status = 204 THEN d ELSE e
  BY Zenon DEF connWrite
<1> HIDE DEF d
<1>3. b \in Seq(Chunks)
  BY <1>1 DEF Outs
<1> HIDE DEF b
<1>4. e \in Outs /\ e.status = d.status /\ e.gzip = d.gzip /\ e.length = d.length /\ e.closed = d.closed /\ e.body = b
  BY Zenon, <1>1, <1>3 DEF Outs
<1> HIDE DEF e
<1>5. b = Append(out.body, chunk)
  BY Zenon, <1>1 DEF b
<1> QED BY <1>1, <1>2, <1>4, <1>5 DEF d

LEMMA WriteHeaderIs ==
  ASSUME NEW r \in Responses, NEW code \in StatusCodes \ {0}
  PROVE  LET w == WriteHeader(r, code)
         IN /\ w \in Responses /\ w.log = code /\ w.h = r.h /\ w.wrap = r.wrap
            /\ w.out = connHeader(r.out, code, r.h)
<1> DEFINE o == connHeader(r.out, code, r.h)
           w1 == [r EXCEPT !.log = code]
           w2 == [w1 EXCEPT !.out = o]
<1>1. o \in Outs
  BY Zenon, ConnHeaderIs DEF Responses
<1>2. WriteHeader(r, code) = w2
  BY Zenon DEF WriteHeader
<1> HIDE DEF o
<1>3. w1 \in Responses /\ w1.log = code /\ w1.h = r.h /\ w1.wrap = r.wrap
  BY Zenon DEF Responses
<1> HIDE DEF w1
<1>4. w2 \in Responses /\ w2.log = code /\ w2.h = r.h /\ w2.wrap = r.wrap /\ w2.out = o
  BY Zenon, <1>1, <1>3 DEF Responses
<1> QED BY Zenon, <1>2, <1>4 DEF o

(* The selective writer starts to compress with this write; a write is     *)
(* compressed.                                                             *)
Starts(comp, r) == comp = "selective" /\ ~r.wrap.written /\ r.h.ctype = "json"
Zips(comp, r) == comp = "gzip" \/ r.wrap.gw \/ Starts(comp, r)

LEMMA WriteIs ==
  ASSUME NEW comp \in Compressors, NEW r \in Responses, NEW by \in SUBSET (Middleware \cup {"handler"})
  PROVE  LET w == Write(comp, r, by)
             c == [from |-> by, zip |-> Zips(comp, r)]
         IN /\ w \in Responses /\ w.log = r.log /\ w.wrap.written = TRUE
            /\ w.wrap.gw <=> (r.wrap.gw \/ Starts(comp, r))
            /\ ~Starts(comp, r) => w.h = r.h
            /\ Starts(comp, r) => w.h.gzip = TRUE /\ w.h.length = FALSE
            /\ c \in Chunks /\ c.from = by /\ (c.zip <=> Zips(comp, r))
            /\ w.out = connWrite(r.out, w.h, c)
<1> DEFINE st == Starts(comp, r)
           zp == Zips(comp, r)
           c == [from |-> by, zip |-> zp]
           k == [written |-> TRUE, gw |-> r.wrap.gw \/ st]
           h1 == [r.h EXCEPT !.gzip = TRUE]
           h2 == [h1 EXCEPT !.length = FALSE]
           h == IF st THEN h2 ELSE r.h
           o == connWrite(r.out, h, c)
           w1 == [r EXCEPT !.h = h]
           w2 == [w1 EXCEPT !.wrap = k]
           w3 == [w2 EXCEPT !.out = o]
<1>1. st \in BOOLEAN /\ zp \in BOOLEAN /\ (r.wrap.gw \/ st) \in BOOLEAN
  BY Zenon DEF Starts, Zips
<1>2. k \in Wraps /\ k.written = TRUE /\ k.gw = (r.wrap.gw \/ st)
  BY Zenon, <1>1 DEF Wraps
<1>3. c \in Chunks /\ c.from = by /\ c.zip = zp
  BY Zenon, <1>1 DEF Chunks
<1>4. r.h \in Headers /\ r.out \in Outs /\ r.wrap \in Wraps
  BY Zenon DEF Responses
<1>5. TRUE \in BOOLEAN /\ FALSE \in BOOLEAN
  BY Zenon
<1>6. h1 \in Headers /\ h1.gzip = TRUE
  BY Zenon, <1>4, <1>5 DEF Headers
<1> HIDE DEF h1
<1>7. h2 \in Headers /\ h2.gzip = TRUE /\ h2.length = FALSE
  BY Zenon, <1>5, <1>6 DEF Headers
<1>8. Write(comp, r, by) = w3
  BY Zenon DEF Write, Starts, Zips, h1
<1> HIDE DEF h2, k, c, st, zp
<1>9. h \in Headers /\ (~st => h = r.h) /\ (st => h.gzip = TRUE /\ h.length = FALSE)
  BY Zenon, <1>4, <1>7
<1> HIDE DEF h
<1>10. o \in Outs
  BY <1>3, <1>4, <1>9, ConnWriteIs
<1> HIDE DEF o
<1>11. w1 \in Responses /\ w1.h = h /\ w1.log = r.log
  BY Zenon, <1>9 DEF Responses
<1> HIDE DEF w1
<1>12. w2 \in Responses /\ w2.h = h /\ w2.log = r.log /\ w2.wrap = k
  BY Zenon, <1>2, <1>11 DEF Responses
<1> HIDE DEF w2
<1>13. w3 \in Responses /\ w3.h = h /\ w3.log = r.log /\ w3.wrap = k /\ w3.out = o
  BY Zenon, <1>10, <1>12 DEF Responses
<1> HIDE DEF w3
<1>14. (c.zip <=> zp) /\ (k.gw <=> (r.wrap.gw \/ st))
  BY Zenon, <1>1, <1>2, <1>3
<1> QED BY Zenon, <1>2, <1>3, <1>8, <1>9, <1>13, <1>14 DEF o, c, st, zp

(* Who compresses: gzip every body, the selective writer all or nothing    *)
(* from the first write on, with the header if none was sent before.       *)
ZipInv(comp, r) ==
  /\ comp = "gzip" => r.h.gzip /\ (\A c \in Range(r.out.body) : c.zip) /\ (r.out.status # 0 => r.out.gzip)
  /\ comp = "none" => ~r.h.gzip /\ (\A c \in Range(r.out.body) : ~c.zip) /\ ~r.out.gzip
  /\ comp # "selective" => ~r.wrap.gw
  /\ comp = "selective" =>
       /\ r.h.gzip <=> r.wrap.gw
       /\ \A c \in Range(r.out.body) : c.zip <=> r.wrap.gw
       /\ ~r.wrap.written => r.out.body = <<>> /\ ~r.wrap.gw
       /\ r.out.gzip => r.wrap.gw /\ ~r.out.length
       /\ r.wrap.gw => r.out.status # 0 /\ (r.out.body = <<>> => r.out.status = 204)
  /\ r.out.status \in {0, 204} => r.out.body = <<>>
  /\ r.out.status = 0 => ~r.out.gzip /\ ~r.out.length

ByMiddleware(r) == \E c \in Range(r.out.body) : c.from \cap Middleware # {}

(* A compressed body without the header has a cause: a status was sent     *)
(* before the first write, by the handler or with an error response.       *)
ReasonInv(comp, r, early) ==
  comp = "selective" /\ r.wrap.gw /\ ~r.out.gzip /\ r.out.body # <<>> => early \/ ByMiddleware(r)

(* A Content-Length is one the handler has set.                            *)
LengthInv(r, set) == r.h.length \/ r.out.length => set

ReplyInv(comp, r, early, set) == ZipInv(comp, r) /\ ReasonInv(comp, r, early) /\ LengthInv(r, set)

LEMMA HeaderKeeps ==
  ASSUME NEW comp \in Compressors, NEW r \in Responses, NEW early, NEW set, NEW code \in StatusCodes \ {0},
         ReplyInv(comp, r, early, set)
  PROVE  LET w == WriteHeader(r, code)
         IN /\ w \in Responses /\ ReplyInv(comp, w, early, set) /\ w.log = code
            /\ w.out.status = (IF r.out.status = 0 THEN code ELSE r.out.status)
            /\ w.out.body = r.out.body /\ w.wrap = r.wrap /\ w.h = r.h
<1> DEFINE w == WriteHeader(r, code)
           o == w.out
<1>1. /\ w \in Responses /\ w.log = code /\ w.h = r.h /\ w.wrap = r.wrap
      /\ o = connHeader(r.out, code, r.h)
  BY Zenon, WriteHeaderIs
<1>2. r.out \in Outs /\ r.h \in Headers
  BY Zenon DEF Responses
<1>3. /\ o.body = r.out.body
      /\ r.out.status # 0 => o = r.out
      /\ r.out.status = 0 => o.status = code /\ o.gzip = r.h.gzip /\ o.length = r.h.length
  BY <1>1, <1>2, ConnHeaderIs
<1>4. r.out.status = 0 => r.out.body = <<>>
  BY Zenon DEF ReplyInv, ZipInv
<1> HIDE DEF w
<1>5. ZipInv(comp, w)
  BY <1>1, <1>3, <1>4 DEF ReplyInv, ZipInv, Compressors
<1>6. ReasonInv(comp, w, early)
  BY Zenon, <1>1, <1>3, <1>4 DEF ReplyInv, ReasonInv, ByMiddleware
<1>7. LengthInv(w, set)
  BY Zenon, <1>1, <1>3, <1>4 DEF ReplyInv, LengthInv
<1> QED BY Zenon, <1>1, <1>3, <1>5, <1>6, <1>7 DEF ReplyInv, w

(* What a write adds to the response, unless its status has no body.       *)
Written(r, w, by) ==
  /\ w.log = r.log /\ w.wrap.written
  /\ w.out.status = (IF r.out.status = 0 THEN 200 ELSE r.out.status)
  /\ w.out.status = 204 => w.out.body = r.out.body
  /\ w.out.status # 204 =>
       /\ w.out.body # <<>>
       /\ \E c \in Chunks : Range(w.out.body) = Range(r.out.body) \cup {c} /\ c.from = by

LEMMA WriteKeeps ==
  ASSUME NEW comp \in Compressors, NEW r \in Responses, NEW early, NEW set,
         NEW by \in SUBSET (Middleware \cup {"handler"}), ReplyInv(comp, r, early, set),
         comp = "selective" /\ r.out.status # 0 /\ ~r.wrap.written => early \/ by \cap Middleware # {}
  PROVE  LET w == Write(comp, r, by)
         IN w \in Responses /\ ReplyInv(comp, w, early, set) /\ Written(r, w, by)
<1> DEFINE w == Write(comp, r, by)
           c == [from |-> by, zip |-> Zips(comp, r)]
           o == w.out
           d == connHeader(r.out, 200, w.h)
<1>1. /\ w \in Responses /\ w.log = r.log /\ w.wrap.written = TRUE
      /\ w.wrap.gw <=> (r.wrap.gw \/ Starts(comp, r))
      /\ ~Starts(comp, r) => w.h = r.h
      /\ Starts(comp, r) => w.h.gzip = TRUE /\ w.h.length = FALSE
      /\ c \in Chunks /\ c.from = by /\ (c.zip <=> Zips(comp, r))
      /\ o = connWrite(r.out, w.h, c)
  BY ZenonT(30), WriteIs
<1>2. r.out \in Outs /\ w.h \in Headers /\ r.out.body \in Seq(Chunks) /\ r.out.status \in StatusCodes
  BY Zenon, <1>1 DEF Responses, Outs
<1> HIDE DEF c, w
<1>3. /\ o.status = d.status /\ o.gzip = d.gzip /\ o.length = d.length
      /\ o.status = 204 => o.body = r.out.body
      /\ o.status # 204 => o.body = Append(r.out.body, c)
  <2>1. r.out \in Outs /\ w.h \in Headers /\ c \in Chunks /\ o = connWrite(r.out, w.h, c)
    BY Zenon, <1>1, <1>2
  <2> QED BY <2>1, ConnWriteIs
<1>4. /\ r.out.status # 0 => d = r.out
      /\ r.out.status = 0 => d.status = 200 /\ d.gzip = w.h.gzip /\ d.length = w.h.length
  <2>1. 200 \in StatusCodes \ {0}
    BY DEF StatusCodes
  <2> QED BY <1>2, <2>1, ConnHeaderIs
<1> HIDE DEF d, o
<1>5. /\ o.status = (IF r.out.status = 0 THEN 200 ELSE r.out.status)
      /\ r.out.status # 0 => o.gzip = r.out.gzip /\ o.length = r.out.length
      /\ r.out.status = 0 => o.gzip = w.h.gzip /\ o.length = w.h.length
  BY ZenonT(30), <1>3, <1>4
<1>6. /\ o.status # 204 => Range(o.body) = Range(r.out.body) \cup {c} /\ o.body # <<>>
      /\ o.status = 204 => o.body = <<>> /\ r.out.body = <<>>
  <2>1. r.out.status = 204 => r.out.body = <<>>
    BY Zenon DEF ReplyInv, ZipInv
  <2>2. o.status # 204 => Range(o.body) = Range(r.out.body) \cup {c} /\ o.body # <<>>
    <3>1. Range(Append(r.out.body, c)) = Range(r.out.body) \cup {c} /\ Append(r.out.body, c) # <<>>
      BY <1>1, <1>2, RangeAppend
    <3> QED BY ZenonT(30), <1>3, <3>1
  <2>3. o.status = 204 => r.out.status = 204
    BY <1>5
  <2> QED BY Zenon, <1>3, <2>1, <2>2, <2>3
<1>7. \A x : x \notin Range(<<>>)
  BY DEF Range
<1>8. ZipInv(comp, w)
  <2>1. CASE comp = "gzip"
    BY <1>1, <1>5, <1>6, <1>7, <2>1 DEF ReplyInv, ZipInv, Starts, Zips, o
  <2>2. CASE comp = "none"
    BY <1>1, <1>5, <1>6, <1>7, <2>2 DEF ReplyInv, ZipInv, Starts, Zips, o
  <2>3. CASE comp = "selective"
    <3>1. w.h.gzip <=> w.wrap.gw
      BY Zenon, <1>1, <2>3 DEF ReplyInv, ZipInv
    <3>2. ~r.wrap.gw /\ Starts(comp, r) => r.out.body = <<>>
      BY Zenon, <2>3 DEF ReplyInv, ZipInv, Starts
    <3>3. \A x \in Range(o.body) : x.zip <=> w.wrap.gw
      BY <1>1, <1>5, <1>6, <1>7, <2>3, <3>2 DEF ReplyInv, ZipInv, Zips
    <3>4. o.gzip => w.wrap.gw /\ ~o.length
      BY Zenon, <1>1, <1>5, <2>3 DEF ReplyInv, ZipInv
    <3>5. o.status \notin {0} /\ (o.status = 204 <=> o.body = <<>>)
      BY <1>5, <1>6
    <3> QED BY Zenon, <1>1, <2>3, <3>1, <3>3, <3>4, <3>5 DEF ZipInv, o
  <2> QED BY Zenon, <2>1, <2>2, <2>3 DEF Compressors
<1>9. ReasonInv(comp, w, early)
  <2> SUFFICES ASSUME comp = "selective", w.wrap.gw, ~o.gzip, o.body # <<>>, ~early
               PROVE  ByMiddleware(w)
    BY Zenon DEF ReasonInv, o
  <2>1. r.out.status # 0 /\ o.status # 204 /\ ~r.out.gzip
    BY Zenon, <1>1, <1>5, <1>6 DEF ReplyInv, ZipInv
  <2>2. CASE Starts(comp, r)
    <3>1. c.from \cap Middleware # {}
      BY Zenon, <1>1, <2>1, <2>2 DEF Starts
    <3> QED BY Zenon, <1>6, <2>1, <3>1 DEF ByMiddleware, o
  <2>3. CASE ~Starts(comp, r)
    <3>1. r.wrap.gw
      BY Zenon, <1>1, <2>3
    <3>2. CASE r.out.body # <<>>
      BY Zenon, <1>6, <2>1, <3>1, <3>2 DEF ReplyInv, ReasonInv, ByMiddleware, o
    <3>3. CASE r.out.body = <<>>
      BY ZenonT(30), <1>5, <2>1, <3>1, <3>3 DEF ReplyInv, ZipInv
    <3> QED BY Zenon, <3>2, <3>3
  <2> QED BY Zenon, <2>2, <2>3
<1>10. LengthInv(w, set)
  BY Zenon, <1>1, <1>5 DEF ReplyInv, LengthInv, o
<1>11. Written(r, w, by)
  BY ZenonT(30), <1>1, <1>3, <1>5, <1>6 DEF Written, o
<1> QED BY Zenon, <1>1, <1>8, <1>9, <1>10, <1>11 DEF ReplyInv, w

(* Setting a Content-Type or a Content-Length touches nothing but them.    *)
LEMMA SetKeeps ==
  ASSUME NEW comp \in Compressors, NEW r \in Responses, NEW early, NEW set, NEW h \in Headers,
         ReplyInv(comp, r, early, set), h.gzip = r.h.gzip, h.length => set
  PROVE  LET w == [r EXCEPT !.h = h]
         IN /\ w \in Responses /\ ReplyInv(comp, w, early, set)
            /\ w.h = h /\ w.out = r.out /\ w.log = r.log /\ w.wrap = r.wrap
<1> DEFINE w == [r EXCEPT !.h = h]
<1>1. w \in Responses /\ w.h = h /\ w.out = r.out /\ w.log = r.log /\ w.wrap = r.wrap
  BY Zenon DEF Responses
<1> HIDE DEF w
<1>2. ReplyInv(comp, w, early, set)
  BY <1>1 DEF ReplyInv, ZipInv, ReasonInv, LengthInv, ByMiddleware
<1> QED BY Zenon, <1>1, <1>2 DEF w

(* The header map of r with another Content-Type                           *)
LEMMA TypeSet ==
  ASSUME NEW h \in Headers, NEW t \in ContentTypes
  PROVE  LET g == [h EXCEPT !.ctype = t] IN g \in Headers /\ g.gzip = h.gzip /\ g.length = h.length
BY Zenon DEF Headers

ErrorCodes == {404, 500, 503}
ErrorWriters == {{"errors"}, {"recovery"}, {"timeout"}}

(* An error response of the middleware: the status is the error's unless   *)
(* one was sent before, and the body is the error's unless that was 204.   *)
Answered(r, w, code, by) ==
  /\ w.log = code
  /\ w.out.status = (IF r.out.status = 0 THEN code ELSE r.out.status)
  /\ w.out.status # 204 => \E c \in Chunks : Range(w.out.body) = Range(r.out.body) \cup {c} /\ c.from = by

LEMMA ErrorKeeps ==
  ASSUME NEW comp \in Compressors, NEW r \in Responses, NEW early, NEW set, NEW code \in ErrorCodes,
         NEW by \in ErrorWriters, ReplyInv(comp, r, early, set)
  PROVE  LET w == WriteError(comp, r, code, by)
         IN w \in Responses /\ ReplyInv(comp, w, early, set) /\ Answered(r, w, code, by)
<1> DEFINE t == "json"
           h == [r.h EXCEPT !.ctype = t]
           a == [r EXCEPT !.h = h]
           b == WriteHeader(a, code)
           w == Write(comp, b, by)
<1>1. WriteError(comp, r, code, by) = w
  BY Zenon DEF WriteError
<1>0. t \in ContentTypes
  BY Zenon DEF ContentTypes
<1>2. code \in StatusCodes \ {0} /\ code # 0
  BY DEF StatusCodes, ErrorCodes
<1> HIDE DEF t
<1>3. a \in Responses /\ ReplyInv(comp, a, early, set) /\ a.out = r.out
  <2>1. r.h \in Headers
    BY Zenon DEF Responses
  <2>2. h \in Headers /\ h.gzip = r.h.gzip /\ h.length = r.h.length
    BY Zenon, <1>0, <2>1, TypeSet
  <2>3. h.length => set
    BY Zenon, <2>2 DEF ReplyInv, LengthInv
  <2> HIDE DEF h
  <2> QED BY <2>2, <2>3, SetKeeps
<1> HIDE DEF a
<1>4. /\ b \in Responses /\ ReplyInv(comp, b, early, set) /\ b.log = code
      /\ b.out.status = (IF r.out.status = 0 THEN code ELSE r.out.status) /\ b.out.body = r.out.body
  BY <1>2, <1>3, HeaderKeeps
<1> HIDE DEF b
<1>5. by \in SUBSET (Middleware \cup {"handler"}) /\ by \cap Middleware # {}
  BY Zenon DEF Middleware, ErrorWriters
<1>8. comp = "selective" /\ b.out.status # 0 /\ ~b.wrap.written => early \/ by \cap Middleware # {}
  BY Zenon, <1>5
<1>6. w \in Responses /\ ReplyInv(comp, w, early, set) /\ Written(b, w, by)
  <2>1. b \in Responses
    BY Zenon, <1>4
  <2>2. ReplyInv(comp, b, early, set)
    BY Zenon, <1>4
  <2>3. by \in SUBSET (Middleware \cup {"handler"})
    BY Zenon, <1>5
  <2> QED BY Zenon, <2>1, <2>2, <2>3, <1>8, WriteKeeps
<1> HIDE DEF w
<1>7. w.out.status = b.out.status
  BY Zenon, <1>2, <1>4, <1>6 DEF Written
<1> QED BY <1>1, <1>4, <1>6, <1>7 DEF Written, Answered
(* What the handler buffers in the timeoutWriter *)
Buffers == [code : {0, 200, 204, 404}, buf : Seq({"handler", "errors"}), ctype : ContentTypes,
            length : BOOLEAN, timedOut : BOOLEAN]

(* What is sent early, and what Content-Length is set, is the handler's.   *)
BufferInv(early, set) ==
  /\ tw.code \in {200, 204} => early
  /\ tw.code = 404 => "errors" \in Range(tw.buf)
  /\ tw.length => set

(* A flushed response carries the buffered status and only what the        *)
(* handler or the error handler wrote.                                     *)
Flushed(w) ==
  /\ tw.code # 0 => w.out.status = tw.code /\ w.log = tw.code
  /\ tw.code = 0 => w.out.status \in {0, 200} /\ w.log = 200
  /\ \A c \in Range(w.out.body) : c.from \subseteq {"handler", "errors"}

LEMMA FlushKeeps ==
  ASSUME NEW comp \in Compressors, NEW r \in Responses, NEW early, NEW set, chain.comp = comp, tw \in Buffers,
         ReplyInv(comp, r, early, set), BufferInv(early, set),
         r.out.status = 0, r.log = 200, ~r.wrap.written
  PROVE  LET w == flush(r)
         IN w \in Responses /\ ReplyInv(comp, w, early, set) /\ Flushed(w)
<1> DEFINE t == IF tw.ctype = "unset" THEN r.h.ctype ELSE tw.ctype
           l == r.h.length \/ tw.length
           h == [ctype |-> t, gzip |-> r.h.gzip, length |-> l]
           b == [r EXCEPT !.h = h]
           c == IF tw.code # 0 THEN WriteHeader(b, tw.code) ELSE b
           by == Range(tw.buf)
           w == IF tw.buf = <<>> THEN c ELSE Write(comp, c, by)
<1>1. /\ tw.code \in {0, 200, 204, 404} /\ tw.buf \in Seq({"handler", "errors"}) /\ tw.ctype \in ContentTypes
      /\ r.h \in Headers /\ r.h.ctype \in ContentTypes
  BY Zenon DEF Buffers, Responses, Headers
<1>2. l \in BOOLEAN /\ r.h.gzip \in BOOLEAN
  BY Zenon, <1>1 DEF Headers
<1>3. flush(r) = w
  BY Zenon DEF flush
<1>4. t \in ContentTypes
  BY <1>1
<1>5. l => set
  BY Zenon DEF BufferInv, ReplyInv, LengthInv
<1> HIDE DEF t, l
<1>12. h \in Headers /\ h.gzip = r.h.gzip /\ h.length = l
  BY Zenon, <1>2, <1>4 DEF Headers
<1> HIDE DEF h
<1>6. b \in Responses /\ ReplyInv(comp, b, early, set) /\ b.out = r.out /\ b.log = r.log /\ b.wrap = r.wrap
  BY <1>5, <1>12, SetKeeps
<1> HIDE DEF b
<1>7. r.out.body = <<>>
  BY Zenon DEF ReplyInv, ZipInv
<1>8. /\ c \in Responses /\ ReplyInv(comp, c, early, set) /\ c.wrap = r.wrap /\ c.out.body = <<>>
      /\ tw.code # 0 => c.out.status = tw.code /\ c.log = tw.code
      /\ tw.code = 0 => c.out.status = 0 /\ c.log = 200
  <2>1. CASE tw.code # 0
    <3>1. PICK code \in StatusCodes \ {0} : code = tw.code
      BY <1>1, <2>1 DEF StatusCodes
    <3>2. c = WriteHeader(b, code)
      BY Zenon, <2>1, <3>1
    <3> HIDE DEF c
    <3>3. /\ c \in Responses /\ ReplyInv(comp, c, early, set) /\ c.log = code
          /\ c.out.status = (IF b.out.status = 0 THEN code ELSE b.out.status)
          /\ c.out.body = b.out.body /\ c.wrap = b.wrap
      BY <1>6, <3>2, HeaderKeeps
    <3> QED BY <1>6, <1>7, <2>1, <3>1, <3>3
  <2>2. CASE tw.code = 0
    BY ZenonT(30), <1>6, <1>7, <2>2
  <2> QED BY Zenon, <2>1, <2>2
<1> HIDE DEF c
<1>9. \A x : x \notin Range(<<>>)
  BY DEF Range
<1>10. CASE tw.buf = <<>>
  BY <1>3, <1>8, <1>9, <1>10 DEF Flushed
<1>11. CASE tw.buf # <<>>
  <2>1. by \subseteq {"handler", "errors"}
    BY <1>1 DEF Range
  <2>2. by \in SUBSET (Middleware \cup {"handler"})
    BY Zenon, <2>1 DEF Middleware
  <2>3. comp = "selective" /\ c.out.status # 0 /\ ~c.wrap.written => early \/ by \cap Middleware # {}
    BY <1>1, <1>8 DEF BufferInv, Middleware
  <2> HIDE DEF by
  <2>4. w \in Responses /\ ReplyInv(comp, w, early, set) /\ Written(c, w, by)
    BY <1>8, <1>11, <2>2, <2>3, WriteKeeps
  <2> HIDE DEF w
  <2>5. \A x \in Range(w.out.body) : x.from \subseteq {"handler", "errors"}
    <3>1. CASE w.out.status = 204
      BY <1>8, <1>9, <2>4, <3>1 DEF Written
    <3>2. CASE w.out.status # 204
      <4>1. PICK x \in Chunks : Range(w.out.body) = Range(c.out.body) \cup {x} /\ x.from = by
        BY Zenon, <2>4, <3>2 DEF Written
      <4> QED BY Zenon, <1>8, <1>9, <2>1, <4>1
    <3> QED BY Zenon, <3>1, <3>2
  <2>6. (tw.code # 0 => w.out.status = tw.code /\ w.log = tw.code) /\ (tw.code = 0 => w.out.status = 200 /\ w.log = 200)
    BY <1>8, <2>4 DEF Written
  <2> QED BY <1>3, <2>4, <2>5, <2>6 DEF Flushed
<1> QED BY Zenon, <1>10, <1>11

(* The handler's history: an explicit status, a Content-Length, anything   *)
(* that sends the header, and a status or panic after that.                *)
Ops == {"json", "bin", "length", "200", "204", "write", "panic"}
early == \E i \in DOMAIN calls : calls[i] \in {"200", "204"}
lengthSet == "length" \in Range(calls)
begun == \E i \in DOMAIN calls : calls[i] \in {"200", "204", "write"}
again == \E i, j \in DOMAIN calls : /\ i < j
                                    /\ calls[i] \in {"200", "204", "write"}
                                    /\ calls[j] \in {"200", "204", "panic"}

(* Nothing was written to the connection or its wrappers.                  *)
Untouched == sent.status = 0 /\ logged = 200 /\ ~wrapper.written /\ ~wrapper.gw

ChainData ==
  /\ chain \in [comp : Compressors, timeout : BOOLEAN]
  /\ now \in Responses /\ tw \in Buffers /\ ops \in 0..MaxOps /\ calls \in Seq(Ops)
  /\ handler \in {"idle", "run", "returned"} /\ serving \in {"wait", "close", "done", "crashed"}

(* Without Timeout the request ends with its handler.                      *)
StageInv ==
  /\ handler = "idle" => serving = "wait" /\ Untouched /\ ~chain.timeout /\ ~tw.timedOut
  /\ ~chain.timeout => (handler # "returned" <=> serving = "wait") /\ serving # "crashed"

(* With Timeout nothing is sent before the select; what is sent then is    *)
(* the 503 alone or the response of a handler that has returned.           *)
TimeoutInv ==
  chain.timeout =>
    /\ serving = "wait" => ~tw.timedOut
    /\ serving \in {"wait", "crashed"} /\ ~tw.timedOut => Untouched
    /\ tw.timedOut => sent.status = 503 /\ logged = 503 /\ authors = {"timeout"}
    /\ ~tw.timedOut /\ serving \in {"close", "done"} =>
         handler = "returned" /\ sent.status # 503 /\ "timeout" \notin authors

(* The logged status is the one sent unless another was set after it.      *)
LogInv ==
  /\ sent.status = 0 => logged = 200
  /\ sent.status # 0 /\ logged # sent.status => again
  /\ ~chain.timeout /\ handler = "run" /\ sent.status # 0 => begun

(* Only an explicit status sends the header before the first write.        *)
EarlyInv ==
  ~chain.timeout /\ handler = "run" /\ chain.comp = "selective" /\ sent.status # 0 /\ ~wrapper.written => early

(* Who has finished has answered, and has closed what it compressed.       *)
DoneInv ==
  serving = "done" =>
    sent.status # 0 /\ (sent.body # <<>> /\ (chain.comp = "gzip" \/ wrapper.gw) => sent.closed)

ChainInv ==
  /\ ChainData /\ StageInv /\ TimeoutInv /\ LogInv /\ EarlyInv /\ DoneInv
  /\ BufferInv(early, lengthSet) /\ ReplyInv(chain.comp, now, early, lengthSet)

LEMMA CallsGrow ==
  ASSUME calls \in Seq(Ops), NEW op \in Ops, calls' = Append(calls, op)
  PROVE  /\ calls' \in Seq(Ops)
         /\ early => early'
         /\ lengthSet => lengthSet'
         /\ begun => begun'
         /\ again => again'
         /\ op \in {"200", "204"} => early'
         /\ op = "length" => lengthSet'
         /\ op \in {"200", "204", "write"} => begun'
         /\ begun /\ op \in {"200", "204", "panic"} => again'
<1> DEFINE n == Len(calls) + 1
<1>1. /\ calls' \in Seq(Ops) /\ DOMAIN calls = 1..Len(calls) /\ DOMAIN calls' = 1..n /\ Len(calls) \in Nat
      /\ calls'[n] = op /\ \A i \in DOMAIN calls : calls'[i] = calls[i]
  OBVIOUS
<1>2. n \in DOMAIN calls' /\ \A i \in DOMAIN calls : i \in DOMAIN calls' /\ i < n
  BY <1>1
<1> HIDE DEF n
<1>3. (early => early') /\ (op \in {"200", "204"} => early')
  BY Zenon, <1>1, <1>2 DEF early
<1>4. (lengthSet => lengthSet') /\ (op = "length" => lengthSet')
  <2>1. Range(calls') = Range(calls) \cup {op}
    BY RangeAppend
  <2> QED BY Zenon, <2>1 DEF lengthSet
<1>5. (begun => begun') /\ (op \in {"200", "204", "write"} => begun')
  BY Zenon, <1>1, <1>2 DEF begun
<1>6. (again => again') /\ (begun /\ op \in {"200", "204", "panic"} => again')
  BY Zenon, <1>1, <1>2 DEF again, begun
<1> QED BY Zenon, <1>1, <1>3, <1>4, <1>5, <1>6

(* More history only excuses more.                                         *)
LEMMA ReplyWeaker ==
  ASSUME NEW comp \in Compressors, NEW r \in Responses, NEW e, NEW s, NEW e2, NEW s2,
         ReplyInv(comp, r, e, s), e => e2, s => s2
  PROVE  ReplyInv(comp, r, e2, s2)
BY Zenon DEF ReplyInv, ReasonInv, LengthInv

LEMMA Landed ==
  ASSUME NEW r \in Responses, land(r)
  PROVE  now' = r /\ sent' = r.out /\ logged' = r.log /\ wrapper' = r.wrap
BY Zenon DEF land, now, Responses

LEMMA ChainInvGives == ChainInv => ChainContract
<1> SUFFICES ASSUME ChainInv PROVE ChainContract
  OBVIOUS
<1>1. /\ sent \in Outs /\ header \in Headers /\ logged \in StatusCodes \ {0} /\ wrapper \in Wraps
      /\ ReplyInv(chain.comp, now, early, lengthSet) /\ now.out = sent /\ now.wrap = wrapper /\ now.h = header
      /\ chain.comp \in Compressors
  BY Zenon DEF ChainInv, ChainData, now, Responses
<1>2. sent.gzip \in BOOLEAN
  BY Zenon, <1>1 DEF Outs
<1>3. \A c \in Range(sent.body) : c.zip \in BOOLEAN /\ c \in Chunks
  <2>1. sent.body \in Seq(Chunks)
    BY Zenon, <1>1 DEF Outs
  <2>2. \A c \in Range(sent.body) : c \in Chunks
    BY <2>1 DEF Range
  <2> QED BY Zenon, <2>2 DEF Chunks
<1>4. sent.body # <<>> => \E c \in Range(sent.body) : TRUE
  <2>1. sent.body \in Seq(Chunks)
    BY ZenonT(30), <1>1 DEF Outs
  <2>2. sent.body # <<>> => 1 \in DOMAIN sent.body
    BY <2>1
  <2> QED BY Zenon, <2>2 DEF Range
<1>5. ChainTypeOK
  BY <1>1 DEF ChainInv, ChainData, ChainTypeOK, Headers, ContentTypes, StatusCodes, Wraps, Outs, Buffers
<1>6. WholeResponse
  BY DEF ChainInv, ChainData, TimeoutInv, Untouched, WholeResponse
<1>7. LoggedStatusTrue
  BY Zenon DEF ChainInv, LogInv, DoneInv, LoggedStatusTrue, again
<1>8. Decodable
  <2> DEFINE zipped == {c.zip : c \in Range(sent.body)}
  <2> SUFFICES ASSUME serving = "done", sent.body # <<>>
               PROVE  /\ zipped = {TRUE} => sent.closed
                      /\ zipped # {TRUE, FALSE}
                      /\ sent.gzip => zipped = {TRUE}
                      /\ chain.comp # "selective" => (zipped = {TRUE} <=> sent.gzip)
                      /\ zipped = {TRUE} /\ ~sent.gzip =>
                           authors \cap {"errors", "recovery", "timeout"} # {} \/ early
    BY Zenon DEF Decodable, early
  <2>1. PICK c \in Range(sent.body) : TRUE
    BY Zenon, <1>4
  <2>2. sent.status # 0 /\ (chain.comp = "gzip" \/ wrapper.gw => sent.closed)
    BY Zenon DEF ChainInv, DoneInv
  <2>3. \A d \in Range(sent.body) : d.zip <=> c.zip
    BY <1>1, <2>1 DEF ReplyInv, ZipInv, Compressors
  <2>4. zipped = {c.zip}
    BY Zenon, <1>3, <2>1, <2>3
  <2>5. (zipped = {TRUE} <=> c.zip) /\ zipped # {TRUE, FALSE}
    BY Zenon, <1>3, <2>1, <2>4
  <2> HIDE DEF zipped
  <2>6. /\ c.zip => sent.closed
        /\ sent.gzip => c.zip
        /\ chain.comp # "selective" => (c.zip <=> sent.gzip)
        /\ c.zip /\ ~sent.gzip => chain.comp = "selective" /\ wrapper.gw
    BY <1>1, <2>1, <2>2 DEF ReplyInv, ZipInv, Compressors
  <2>7. c.zip /\ ~sent.gzip => early \/ ByMiddleware(now)
    BY Zenon, <1>1, <2>6 DEF ReplyInv, ReasonInv
  <2>8. ByMiddleware(now) => authors \cap {"errors", "recovery", "timeout"} # {}
    BY Zenon, <1>1 DEF ByMiddleware, authors, Middleware
  <2> QED BY Zenon, <2>5, <2>6, <2>7, <2>8
<1>9. LengthFits
  <2>1. sent.length => lengthSet
    BY Zenon, <1>1 DEF ReplyInv, LengthInv
  <2>2. chain.comp = "selective" /\ sent.length => ~sent.gzip
    BY Zenon, <1>1 DEF ReplyInv, ZipInv
  <2> QED BY Zenon, <1>2, <2>1, <2>2 DEF LengthFits, lengthSet
<1> QED BY Zenon, <1>5, <1>6, <1>7, <1>8, <1>9 DEF ChainContract
LEMMA InitChain == ChainInit => ChainInv
<1> SUFFICES ASSUME ChainInit PROVE ChainInv
  OBVIOUS
<1>1. /\ now.out = nothing /\ now.h = noHeader /\ now.log = 200 /\ now.wrap = [written |-> FALSE, gw |-> FALSE]
      /\ now = [out |-> nothing, h |-> noHeader, log |-> 200, wrap |-> [written |-> FALSE, gw |-> FALSE]]
  BY Zenon DEF ChainInit, now
<1>2. nothing \in Outs /\ noHeader \in Headers /\ [written |-> FALSE, gw |-> FALSE] \in Wraps /\ freshWriter \in Buffers
  <2>1. <<>> \in Seq(Chunks) /\ <<>> \in Seq({"handler", "errors"})
    OBVIOUS
  <2> QED BY ZenonT(30), <2>1 DEF nothing, noHeader, freshWriter, Outs, Headers, Wraps, Buffers, StatusCodes, ContentTypes
<1>3. ChainData
  <2>1. <<>> \in Seq(Ops) /\ 200 \in StatusCodes \ {0} /\ "none" \in Compressors
    BY DEF StatusCodes, Compressors
  <2>2. now \in Responses
    BY <1>1, <1>2, <2>1 DEF Responses
  <2>3. chain \in [comp : Compressors, timeout : BOOLEAN]
    BY Zenon, <2>1 DEF ChainInit
  <2> QED BY <1>2, <2>1, <2>2, <2>3, ChainAssumption DEF ChainInit, ChainData
<1>4. StageInv /\ TimeoutInv /\ LogInv /\ EarlyInv /\ DoneInv
  BY Zenon DEF ChainInit, StageInv, TimeoutInv, LogInv, EarlyInv, DoneInv, Untouched, nothing, freshWriter
<1>5. BufferInv(early, lengthSet)
  BY DEF ChainInit, BufferInv, freshWriter
<1>6. ReplyInv(chain.comp, now, early, lengthSet)
  <2>1. \A x : x \notin Range(<<>>)
    BY DEF Range
  <2> QED BY Zenon, <1>1, <2>1 DEF ChainInit, ReplyInv, ZipInv, ReasonInv, LengthInv, nothing, noHeader
<1> QED BY Zenon, <1>3, <1>4, <1>5, <1>6 DEF ChainInv

LEMMA BeginKeeps == ASSUME ChainInv, Begin PROVE ChainInv'
<1>1. PICK comp \in Compressors, timeout \in BOOLEAN :
        chain' = [comp |-> comp, timeout |-> timeout] /\ header' = [noHeader EXCEPT !.gzip = comp = "gzip"]
  BY Zenon DEF Begin
<1>2. chain'.comp = comp /\ (chain'.timeout <=> timeout)
  BY Zenon, <1>1
<1>3. header' \in Headers /\ (header'.gzip <=> comp = "gzip") /\ ~header'.length
  <2>1. (comp = "gzip") \in BOOLEAN
    BY Zenon
  <2>2. PICK z \in BOOLEAN : z = (comp = "gzip")
    BY Zenon, <2>1
  <2>3. header' = [ctype |-> "unset", gzip |-> z, length |-> FALSE]
    BY Zenon, <1>1, <2>2 DEF noHeader
  <2>4. header' \in Headers /\ header'.gzip = z /\ header'.length = FALSE
    BY Zenon, <2>3 DEF Headers, ContentTypes
  <2> QED BY Zenon, <2>2, <2>4
<1>4. /\ handler = "idle" /\ handler' = "run" /\ serving' = "wait" /\ serving = "wait"
      /\ sent' = sent /\ logged' = logged /\ wrapper' = wrapper /\ tw' = tw /\ ops' = ops /\ calls' = calls
      /\ Untouched /\ Untouched'
  BY Zenon DEF Begin, ChainInv, StageInv, Untouched
<1>5. now' \in Responses /\ now'.out = sent /\ now'.h = header' /\ now'.wrap = wrapper /\ now.out = sent
  BY Zenon, <1>3, <1>4 DEF ChainInv, ChainData, now, Responses
<1>6. ChainData'
  <2>1. chain' \in [comp : Compressors, timeout : BOOLEAN]
    BY Zenon, <1>1
  <2> QED BY Zenon, <1>4, <1>5, <2>1 DEF ChainInv, ChainData
<1>7. early' = early /\ lengthSet' = lengthSet /\ again' = again /\ begun' = begun
  BY Zenon, <1>4 DEF early, lengthSet, again, begun
<1>8. sent.status = 0 /\ ~sent.gzip /\ ~sent.length /\ sent.body = <<>> /\ ~wrapper.gw
  BY ZenonT(30), <1>4, <1>5 DEF Untouched, ChainInv, ReplyInv, ZipInv
<1>9. ReplyInv(comp, now', early', lengthSet')
  <2>1. \A x : x \notin Range(<<>>)
    BY DEF Range
  <2> QED BY Zenon, <1>3, <1>5, <1>8, <2>1 DEF ReplyInv, ZipInv, ReasonInv, LengthInv
<1>10. BufferInv(early, lengthSet)'
  BY ZenonT(30), <1>4, <1>7 DEF ChainInv, BufferInv
<1>11. ~tw.timedOut
  BY Zenon, <1>4 DEF ChainInv, StageInv
<1>12. StageInv' /\ TimeoutInv' /\ LogInv' /\ EarlyInv' /\ DoneInv'
  BY Zenon, <1>4, <1>11 DEF StageInv, TimeoutInv, LogInv, EarlyInv, DoneInv, Untouched
<1> QED BY Zenon, <1>2, <1>6, <1>9, <1>10, <1>12 DEF ChainInv
(* A call that goes straight to the connection.                            *)
LEMMA DirectCallKeeps ==
  ASSUME ChainInv, NEW op \in Ops \ {"panic"}, Call(op), ~chain.timeout
  PROVE  ChainInv'
<1> DEFINE w == direct(op)
<1>1. /\ handler = "run" /\ handler' = "run" /\ serving' = serving /\ chain' = chain /\ tw' = tw
      /\ ops < MaxOps /\ ops' = ops + 1 /\ calls' = Append(calls, op) /\ land(w)
  BY Zenon DEF Call
<1>2. /\ now \in Responses /\ calls \in Seq(Ops) /\ serving = "wait" /\ ops \in 0..MaxOps /\ tw \in Buffers
      /\ chain \in [comp : Compressors, timeout : BOOLEAN]
  BY Zenon, <1>1 DEF ChainInv, ChainData, StageInv
<1>3. PICK comp \in Compressors : comp = chain.comp
  BY Zenon, <1>2
<1>4. now.out = sent /\ now.log = logged /\ now.wrap = wrapper /\ now.h = header /\ header \in Headers
  BY Zenon, <1>2 DEF now, Responses
<1>5. /\ calls' \in Seq(Ops) /\ (early => early') /\ (lengthSet => lengthSet')
      /\ (begun => begun') /\ (again => again')
      /\ op \in {"200", "204"} => early'
      /\ op = "length" => lengthSet'
      /\ op \in {"200", "204", "write"} => begun'
      /\ begun /\ op \in {"200", "204", "panic"} => again'
  BY Zenon, <1>1, <1>2, CallsGrow
<1>6. ReplyInv(comp, now, early', lengthSet')
  <2>1. ReplyInv(comp, now, early, lengthSet)
    BY Zenon, <1>3 DEF ChainInv
  <2> QED BY Zenon, <1>2, <1>5, <2>1, ReplyWeaker
<1>7. /\ sent.status = 0 => logged = 200
      /\ sent.status # 0 /\ logged # sent.status => again
      /\ sent.status # 0 => begun
      /\ comp = "selective" /\ sent.status # 0 /\ ~wrapper.written => early
  BY Zenon, <1>1, <1>3 DEF ChainInv, LogInv, EarlyInv
<1>8. /\ w \in Responses /\ ReplyInv(comp, w, early', lengthSet')
      /\ w.out.status = 0 => w.log = 200
      /\ w.out.status # 0 /\ w.log # w.out.status => again'
      /\ w.out.status # 0 => begun'
      /\ comp = "selective" /\ w.out.status # 0 /\ ~w.wrap.written => early'
  <2>1. CASE op = "write"
    <3> DEFINE by == {"handler"}
    <3>1. w = Write(comp, now, by)
      BY Zenon, <1>3, <2>1 DEF direct
    <3>2. by \in SUBSET (Middleware \cup {"handler"})
      OBVIOUS
    <3> HIDE DEF w, by
    <3>3. comp = "selective" /\ now.out.status # 0 /\ ~now.wrap.written => early' \/ by \cap Middleware # {}
      BY Zenon, <1>4, <1>5, <1>7
    <3>4. w \in Responses /\ ReplyInv(comp, w, early', lengthSet') /\ Written(now, w, by)
      BY Zenon, <1>2, <1>6, <3>1, <3>2, <3>3, WriteKeeps
    <3> QED BY ZenonT(30), <1>4, <1>5, <1>7, <2>1, <3>4 DEF Written
  <2>2. CASE op \in {"json", "bin", "length"}
    <3> DEFINE h == IF op = "length" THEN [header EXCEPT !.length = TRUE] ELSE [header EXCEPT !.ctype = op]
    <3>1. w = [now EXCEPT !.h = h]
      BY Zenon, <1>4, <2>2 DEF direct, now
    <3>2. h \in Headers /\ h.gzip = now.h.gzip /\ (op # "length" => h.length = header.length)
      <4>1. TRUE \in BOOLEAN /\ (op # "length" => op \in ContentTypes)
        BY Zenon, <2>2 DEF ContentTypes
      <4> QED BY Zenon, <1>4, <4>1 DEF Headers
    <3>3. h.length => lengthSet'
      BY Zenon, <1>4, <1>5, <1>6, <3>2 DEF ReplyInv, LengthInv
    <3> HIDE DEF h, w
    <3>4. /\ w \in Responses /\ ReplyInv(comp, w, early', lengthSet')
          /\ w.out = now.out /\ w.log = now.log /\ w.wrap = now.wrap
      BY <1>2, <1>6, <3>1, <3>2, <3>3, SetKeeps
    <3> QED BY ZenonT(30), <1>4, <1>5, <1>7, <3>4
  <2>3. CASE op \in {"200", "204"}
    <3>1. PICK code \in StatusCodes \ {0} : code = IF op = "200" THEN 200 ELSE 204
      BY DEF StatusCodes
    <3>2. w = WriteHeader(now, code)
      BY ZenonT(30), <2>3, <3>1 DEF direct
    <3>3. /\ w \in Responses /\ ReplyInv(comp, w, early', lengthSet') /\ w.log = code
          /\ w.out.status = (IF now.out.status = 0 THEN code ELSE now.out.status)
      BY <1>2, <1>6, <3>2, HeaderKeeps
    <3> HIDE DEF w
    <3> QED BY <1>4, <1>5, <1>7, <2>3, <3>1, <3>3
  <2> QED BY Zenon, <2>1, <2>2, <2>3 DEF Ops
<1> HIDE DEF w
<1>9. now' = w /\ sent' = w.out /\ logged' = w.log /\ wrapper' = w.wrap
  BY Zenon, <1>1, <1>8, Landed
<1>10. ChainData'
  BY <1>1, <1>2, <1>5, <1>8, <1>9, ChainAssumption DEF ChainData
<1>11. StageInv' /\ TimeoutInv' /\ DoneInv'
  BY Zenon, <1>1, <1>2 DEF StageInv, TimeoutInv, DoneInv
<1>12. LogInv' /\ EarlyInv'
  BY Zenon, <1>1, <1>3, <1>8, <1>9 DEF LogInv, EarlyInv
<1>13. BufferInv(early, lengthSet)'
  BY <1>1, <1>5 DEF ChainInv, BufferInv
<1> QED BY Zenon, <1>1, <1>3, <1>8, <1>9, <1>10, <1>11, <1>12, <1>13 DEF ChainInv

(* A call that the timeoutWriter buffers leaves the response alone.        *)
LEMMA BufferedKeeps ==
  ASSUME ChainInv, NEW op \in Ops, chain.timeout, handler = "run", serving # "crashed",
         tw' \in Buffers, tw'.timedOut = tw.timedOut, calls' = Append(calls, op), ops' \in 0..MaxOps,
         UNCHANGED <<chain, sent, header, logged, wrapper>>,
         handler' \in {"run", "returned"}, serving' \in {serving, "crashed"},
         BufferInv(early, lengthSet)'
  PROVE  ChainInv'
<1>1. /\ chain' = chain /\ sent' = sent /\ header' = header /\ logged' = logged /\ wrapper' = wrapper
      /\ now' = now /\ authors' = authors
  BY Zenon DEF now, authors
<1>2. /\ now \in Responses /\ calls \in Seq(Ops) /\ chain \in [comp : Compressors, timeout : BOOLEAN]
      /\ serving \in {"wait", "close", "done", "crashed"}
  BY Zenon DEF ChainInv, ChainData
<1>3. PICK comp \in Compressors : comp = chain.comp
  BY Zenon, <1>2
<1>4. calls' \in Seq(Ops) /\ (early => early') /\ (lengthSet => lengthSet') /\ (again => again')
  BY Zenon, <1>2, CallsGrow
<1>5. ReplyInv(comp, now, early', lengthSet')
  <2>1. ReplyInv(comp, now, early, lengthSet)
    BY Zenon, <1>3 DEF ChainInv
  <2> QED BY <1>2, <1>4, <2>1, ReplyWeaker
<1>6. ChainData'
  BY Zenon, <1>1, <1>2, <1>4 DEF ChainData
<1>7. StageInv' /\ EarlyInv' /\ LogInv'
  BY Zenon, <1>1, <1>4 DEF ChainInv, StageInv, EarlyInv, LogInv
<1>8. TimeoutInv'
  BY <1>1, <1>2 DEF ChainInv, TimeoutInv, Untouched
<1>9. DoneInv'
  BY Zenon, <1>1 DEF ChainInv, DoneInv
<1> QED BY Zenon, <1>1, <1>3, <1>5, <1>6, <1>7, <1>8, <1>9 DEF ChainInv
LEMMA CallKeeps == ASSUME ChainInv, NEW op \in Ops \ {"panic"}, Call(op) PROVE ChainInv'
<1>1. CASE chain.timeout
  <2>1. /\ handler = "run" /\ serving # "crashed" /\ handler' = "run" /\ serving' = serving
        /\ ops < MaxOps /\ ops' = ops + 1 /\ calls' = Append(calls, op) /\ chain' = chain
        /\ sent' = sent /\ header' = header /\ logged' = logged /\ wrapper' = wrapper
        /\ tw' = buffered(op) \/ tw' = tw
    BY Zenon, <1>1 DEF Call
  <2>2. tw \in Buffers /\ calls \in Seq(Ops) /\ ops \in 0..MaxOps /\ BufferInv(early, lengthSet)
    BY Zenon DEF ChainInv, ChainData
  <2>3. /\ (early => early') /\ (lengthSet => lengthSet')
        /\ op \in {"200", "204"} => early'
        /\ op = "length" => lengthSet'
    BY Zenon, <2>1, <2>2, CallsGrow
  <2>4. /\ tw' \in Buffers /\ tw'.timedOut = tw.timedOut
        /\ tw'.code \in {200, 204} => tw'.code = tw.code \/ op \in {"200", "204"}
        /\ tw'.length => tw.length \/ op = "length"
        /\ tw'.code = 404 => tw.code = 404 /\ Range(tw.buf) \subseteq Range(tw'.buf)
    <3>1. CASE tw' = tw
      BY Zenon, <2>2, <3>1
    <3>2. CASE op = "write" /\ tw' = buffered(op)
      <4> DEFINE b == Append(tw.buf, "handler")
      <4>1. tw.buf \in Seq({"handler", "errors"}) /\ "handler" \in {"handler", "errors"}
        BY ZenonT(30), <2>2 DEF Buffers
      <4>2. Range(b) = Range(tw.buf) \cup {"handler"} /\ b \in Seq({"handler", "errors"})
        BY Zenon, <4>1, RangeAppend
      <4>3. tw' = [tw EXCEPT !.buf = b]
        BY Zenon, <3>2 DEF buffered
      <4> HIDE DEF b
      <4>4. tw' \in Buffers
        BY ZenonT(30), <2>2, <4>2, <4>3 DEF Buffers
      <4>5. tw'.timedOut = tw.timedOut /\ tw'.code = tw.code /\ tw'.length = tw.length /\ tw'.buf = b
        BY Zenon, <2>2, <4>3 DEF Buffers
      <4> QED BY Zenon, <4>2, <4>4, <4>5
    <3>3. CASE op = "length" /\ tw' = buffered(op)
      <4>1. TRUE \in BOOLEAN
        OBVIOUS
      <4>2. tw' = [tw EXCEPT !.length = TRUE]
        BY Zenon, <3>3 DEF buffered
      <4>3. tw' \in Buffers /\ tw'.timedOut = tw.timedOut /\ tw'.code = tw.code /\ tw'.buf = tw.buf
        <5>1. tw' \in Buffers
          BY ZenonT(30), <2>2, <4>1, <4>2 DEF Buffers
        <5>2. tw'.timedOut = tw.timedOut /\ tw'.code = tw.code /\ tw'.buf = tw.buf
          BY Zenon, <2>2, <4>2 DEF Buffers
        <5> QED BY Zenon, <5>1, <5>2
      <4> QED BY ZenonT(30), <3>3, <4>3
    <3>4. CASE op \in {"json", "bin"} /\ tw' = buffered(op)
      <4>1. tw' = [tw EXCEPT !.ctype = op] /\ op \in ContentTypes
        BY Zenon, <3>4 DEF buffered, ContentTypes
      <4>2. /\ tw' \in Buffers /\ tw'.timedOut = tw.timedOut /\ tw'.code = tw.code /\ tw'.buf = tw.buf
            /\ tw'.length = tw.length
        BY <2>2, <4>1 DEF Buffers
      <4> QED BY Zenon, <4>2
    <3>5. CASE op \in {"200", "204"} /\ tw' = buffered(op)
      <4>1. PICK code \in {200, 204} : tw' = [tw EXCEPT !.code = code]
        BY <3>5 DEF buffered
      <4>2. /\ tw' \in Buffers /\ tw'.timedOut = tw.timedOut /\ tw'.code = code /\ tw'.length = tw.length
        BY <2>2, <4>1 DEF Buffers
      <4> QED BY <3>5, <4>2
    <3> QED BY Zenon, <2>1, <3>1, <3>2, <3>3, <3>4, <3>5 DEF Ops
  <2>5. BufferInv(early, lengthSet)'
    BY <2>2, <2>3, <2>4 DEF BufferInv
  <2>6. ops' \in 0..MaxOps
    BY <2>1, <2>2, ChainAssumption
  <2> QED BY Zenon, <1>1, <2>1, <2>4, <2>5, <2>6, BufferedKeeps
<1>2. CASE ~chain.timeout
  BY Zenon, <1>2, DirectCallKeeps
<1> QED BY Zenon, <1>1, <1>2

LEMMA ReturnKeeps == ASSUME ChainInv, Return PROVE ChainInv'
<1>1. /\ handler = "run" /\ serving # "crashed" /\ handler' = "returned"
      /\ serving' = (IF chain.timeout THEN serving ELSE "close")
      /\ chain' = chain /\ tw' = tw /\ sent' = sent /\ header' = header /\ logged' = logged /\ wrapper' = wrapper
      /\ ops' = ops /\ calls' = calls
  BY Zenon DEF Return
<1>2. /\ now' = now /\ authors' = authors /\ early' = early /\ lengthSet' = lengthSet /\ again' = again
      /\ begun' = begun
  BY Zenon, <1>1 DEF now, authors, early, lengthSet, again, begun
<1>3. ChainData' /\ StageInv' /\ DoneInv'
  BY Zenon, <1>1, <1>2 DEF ChainInv, ChainData, StageInv, DoneInv
<1>4. TimeoutInv' /\ LogInv' /\ EarlyInv'
  BY <1>1, <1>2 DEF ChainInv, TimeoutInv, Untouched, LogInv, EarlyInv
<1>5. BufferInv(early, lengthSet)' /\ ReplyInv(chain.comp, now, early, lengthSet)'
  BY ZenonT(30), <1>1, <1>2 DEF ChainInv, BufferInv
<1> QED BY Zenon, <1>3, <1>4, <1>5 DEF ChainInv

(* An error response of GlobalErrorHandler or Recovery in the request's    *)
(* own goroutine.                                                          *)
LEMMA DirectErrorKeeps ==
  ASSUME ChainInv, ~chain.timeout, handler = "run", handler' = "returned", serving' = "close",
         NEW code \in ErrorCodes, NEW by \in ErrorWriters,
         land(WriteError(chain.comp, now, code, by)), calls' = Append(calls, "panic"), UNCHANGED <<chain, tw, ops>>
  PROVE  ChainInv'
<1> DEFINE w == WriteError(chain.comp, now, code, by)
<1>1. chain' = chain /\ tw' = tw /\ ops' = ops
  OBVIOUS
<1>2. /\ now \in Responses /\ calls \in Seq(Ops) /\ chain \in [comp : Compressors, timeout : BOOLEAN]
      /\ now.out = sent
  BY Zenon DEF ChainInv, ChainData, now
<1>3. PICK comp \in Compressors : comp = chain.comp
  BY Zenon, <1>2
<1>4. /\ calls' \in Seq(Ops) /\ (early => early') /\ (lengthSet => lengthSet')
      /\ begun => again'
  <2> DEFINE op == "panic"
  <2>1. op \in Ops /\ calls' = Append(calls, op) /\ op \in {"200", "204", "panic"}
    BY Zenon DEF Ops
  <2> HIDE DEF op
  <2> QED BY Zenon, <1>2, <2>1, CallsGrow
<1>5. ReplyInv(comp, now, early', lengthSet')
  <2>1. ReplyInv(comp, now, early, lengthSet)
    BY Zenon, <1>3 DEF ChainInv
  <2> QED BY <1>2, <1>4, <2>1, ReplyWeaker
<1>6. w = WriteError(comp, now, code, by)
  BY Zenon, <1>3
<1>7. land(w)
  OBVIOUS
<1> HIDE DEF w
<1>8. w \in Responses /\ ReplyInv(comp, w, early', lengthSet') /\ Answered(now, w, code, by)
  BY Zenon, <1>2, <1>5, <1>6, ErrorKeeps
<1>9. now' = w /\ sent' = w.out /\ logged' = w.log /\ wrapper' = w.wrap
  BY Zenon, <1>7, <1>8, Landed
<1>10. ChainData'
  BY Zenon, <1>1, <1>2, <1>4, <1>8, <1>9 DEF ChainInv, ChainData
<1>11. StageInv' /\ TimeoutInv' /\ DoneInv' /\ EarlyInv'
  BY Zenon, <1>1 DEF StageInv, TimeoutInv, DoneInv, EarlyInv
<1>12. LogInv'
  <2>1. sent.status # 0 => begun
    BY Zenon DEF ChainInv, LogInv
  <2> QED BY <1>1, <1>2, <1>4, <1>8, <1>9, <2>1 DEF LogInv, Answered, ErrorCodes
<1>13. BufferInv(early, lengthSet)'
  BY <1>1, <1>4 DEF ChainInv, BufferInv
<1> QED BY Zenon, <1>1, <1>3, <1>8, <1>9, <1>10, <1>11, <1>12, <1>13 DEF ChainInv
LEMMA PanicDxErrorKeeps == ASSUME ChainInv, PanicDxError PROVE ChainInv'
<1>1. CASE chain.timeout
  <2> DEFINE op == "panic"
             t1 == [tw EXCEPT !.ctype = "json"]
             t2 == [t1 EXCEPT !.code = 404]
             b == Append(tw.buf, "errors")
             t3 == [t2 EXCEPT !.buf = b]
  <2>1. /\ handler = "run" /\ serving # "crashed" /\ handler' = "returned" /\ serving' = serving
        /\ ops' = ops /\ calls' = Append(calls, op) /\ chain' = chain
        /\ sent' = sent /\ header' = header /\ logged' = logged /\ wrapper' = wrapper
        /\ tw' = [tw EXCEPT !.ctype = "json", !.code = 404, !.buf = Append(@, "errors")] \/ tw' = tw
    BY <1>1 DEF PanicDxError
  <2>2. tw \in Buffers /\ calls \in Seq(Ops) /\ ops \in 0..MaxOps /\ BufferInv(early, lengthSet) /\ op \in Ops
    BY Zenon DEF ChainInv, ChainData, Ops
  <2>3. tw.buf \in Seq({"handler", "errors"}) /\ "errors" \in {"handler", "errors"}
    BY ZenonT(30), <2>2 DEF Buffers
  <2>4. Range(b) = Range(tw.buf) \cup {"errors"} /\ b \in Seq({"handler", "errors"})
    BY Zenon, <2>3, RangeAppend
  <2>5. tw' = t3 \/ tw' = tw
    BY Zenon, <2>1, <2>2 DEF Buffers
  <2> HIDE DEF b, op
  <2>6. t1 \in Buffers /\ t1.timedOut = tw.timedOut /\ t1.length = tw.length
    BY <2>2 DEF Buffers, ContentTypes
  <2> HIDE DEF t1
  <2>7. t2 \in Buffers /\ t2.timedOut = tw.timedOut /\ t2.length = tw.length /\ t2.code = 404
    BY <2>6 DEF Buffers
  <2> HIDE DEF t2
  <2>8. t3 \in Buffers /\ t3.timedOut = tw.timedOut /\ t3.length = tw.length /\ t3.code = 404 /\ t3.buf = b
    BY <2>4, <2>7 DEF Buffers
  <2> HIDE DEF t3
  <2>9. (early => early') /\ (lengthSet => lengthSet')
    BY Zenon, <2>1, <2>2, CallsGrow
  <2>10. tw' \in Buffers /\ tw'.timedOut = tw.timedOut
    BY Zenon, <2>2, <2>5, <2>8
  <2>11. BufferInv(early, lengthSet)'
    BY <2>2, <2>4, <2>5, <2>8, <2>9 DEF BufferInv
  <2> QED BY Zenon, <1>1, <2>1, <2>2, <2>10, <2>11, BufferedKeeps
<1>2. CASE ~chain.timeout
  <2> DEFINE code == 404
             by == {"errors"}
  <2>1. code \in ErrorCodes /\ by \in ErrorWriters
    BY DEF ErrorCodes, ErrorWriters
  <2>2. /\ handler = "run" /\ handler' = "returned" /\ serving' = "close" /\ calls' = Append(calls, "panic")
        /\ land(WriteError(chain.comp, now, code, by)) /\ UNCHANGED <<chain, tw, ops>>
    BY Zenon, <1>2 DEF PanicDxError
  <2> HIDE DEF code, by
  <2> QED BY Zenon, <1>2, <2>1, <2>2, DirectErrorKeeps
<1> QED BY Zenon, <1>1, <1>2

LEMMA PanicKeeps == ASSUME ChainInv, Panic PROVE ChainInv'
<1>1. CASE chain.timeout
  <2> DEFINE op == "panic"
  <2>1. /\ handler = "run" /\ serving # "crashed" /\ handler' = "returned" /\ serving' = "crashed"
        /\ ops' = ops /\ calls' = Append(calls, op) /\ chain' = chain /\ tw' = tw
        /\ sent' = sent /\ header' = header /\ logged' = logged /\ wrapper' = wrapper
    BY Zenon, <1>1 DEF Panic
  <2>2. tw \in Buffers /\ calls \in Seq(Ops) /\ ops \in 0..MaxOps /\ BufferInv(early, lengthSet) /\ op \in Ops
    BY ZenonT(30) DEF ChainInv, ChainData, Ops
  <2> HIDE DEF op
  <2>3. (early => early') /\ (lengthSet => lengthSet')
    BY Zenon, <2>1, <2>2, CallsGrow
  <2>4. BufferInv(early, lengthSet)'
    BY ZenonT(30), <2>1, <2>2, <2>3 DEF BufferInv
  <2> QED BY Zenon, <1>1, <2>1, <2>2, <2>4, BufferedKeeps
<1>2. CASE ~chain.timeout
  <2> DEFINE code == 500
             by == {"recovery"}
  <2>1. code \in ErrorCodes /\ by \in ErrorWriters
    BY DEF ErrorCodes, ErrorWriters
  <2>2. /\ handler = "run" /\ handler' = "returned" /\ serving' = "close" /\ calls' = Append(calls, "panic")
        /\ land(WriteError(chain.comp, now, code, by)) /\ UNCHANGED <<chain, tw, ops>>
    BY Zenon, <1>2 DEF Panic
  <2> HIDE DEF code, by
  <2> QED BY ZenonT(30), <1>2, <2>1, <2>2, DirectErrorKeeps
<1> QED BY ZenonT(30), <1>1, <1>2
LEMMA FlushStepKeeps == ASSUME ChainInv, Flush PROVE ChainInv'
<1> DEFINE w == flush(now)
<1>1. /\ chain.timeout /\ serving = "wait" /\ handler = "returned" /\ land(w) /\ serving' = "close"
      /\ chain' = chain /\ tw' = tw /\ handler' = handler /\ ops' = ops /\ calls' = calls
  BY Zenon DEF Flush
<1>2. /\ now \in Responses /\ chain \in [comp : Compressors, timeout : BOOLEAN] /\ tw \in Buffers
      /\ now.out = sent /\ now.log = logged /\ now.wrap = wrapper
  BY Zenon DEF ChainInv, ChainData, now
<1>3. PICK comp \in Compressors : chain.comp = comp
  BY Zenon, <1>2
<1>4. ~tw.timedOut /\ Untouched
  BY Zenon, <1>1 DEF ChainInv, TimeoutInv
<1>5. now.out.status = 0 /\ now.log = 200 /\ ~now.wrap.written
  BY Zenon, <1>2, <1>4 DEF Untouched
<1>6. ReplyInv(comp, now, early, lengthSet) /\ BufferInv(early, lengthSet)
  BY Zenon, <1>3 DEF ChainInv
<1>7. w \in Responses /\ ReplyInv(comp, w, early, lengthSet) /\ Flushed(w)
  BY <1>2, <1>3, <1>5, <1>6, FlushKeeps
<1> HIDE DEF w
<1>8. now' = w /\ sent' = w.out /\ logged' = w.log /\ wrapper' = w.wrap
  BY Zenon, <1>1, <1>7, Landed
<1>9. early' = early /\ lengthSet' = lengthSet
  BY Zenon, <1>1 DEF early, lengthSet
<1>10. ChainData'
  BY Zenon, <1>1, <1>7, <1>8 DEF ChainInv, ChainData
<1>11. StageInv' /\ EarlyInv' /\ DoneInv'
  BY Zenon, <1>1 DEF StageInv, EarlyInv, DoneInv
<1>12. tw.code \in {0, 200, 204, 404}
  BY Zenon, <1>2 DEF Buffers
<1>13. LogInv'
  BY <1>1, <1>7, <1>8, <1>12 DEF LogInv, Flushed
<1>14. TimeoutInv'
  <2>1. "timeout" \notin authors'
    BY <1>7, <1>8 DEF authors, Flushed
  <2>2. sent'.status # 503
    BY <1>7, <1>8, <1>12 DEF Flushed
  <2> QED BY Zenon, <1>1, <1>4, <2>1, <2>2 DEF TimeoutInv
<1>15. BufferInv(early, lengthSet)'
  BY ZenonT(30), <1>1, <1>6, <1>9 DEF BufferInv
<1> QED BY Zenon, <1>1, <1>3, <1>7, <1>8, <1>9, <1>10, <1>11, <1>13, <1>14, <1>15 DEF ChainInv

LEMMA ExpireKeeps == ASSUME ChainInv, Expire PROVE ChainInv'
<1> DEFINE code == 503
           by == {"timeout"}
           w == WriteError(chain.comp, now, code, by)
<1>1. /\ chain.timeout /\ serving = "wait" /\ handler # "idle" /\ land(w) /\ serving' = "close"
      /\ tw' = [tw EXCEPT !.timedOut = TRUE]
      /\ chain' = chain /\ handler' = handler /\ ops' = ops /\ calls' = calls
  BY Zenon DEF Expire
<1>2. /\ now \in Responses /\ chain \in [comp : Compressors, timeout : BOOLEAN] /\ tw \in Buffers
      /\ now.out = sent
  BY Zenon DEF ChainInv, ChainData, now
<1>3. PICK comp \in Compressors : chain.comp = comp
  BY Zenon, <1>2
<1>4. sent.status = 0
  BY Zenon, <1>1 DEF ChainInv, TimeoutInv, Untouched
<1>5. ReplyInv(comp, now, early, lengthSet) /\ BufferInv(early, lengthSet)
  BY ZenonT(30), <1>3 DEF ChainInv
<1>6. code \in ErrorCodes /\ by \in ErrorWriters /\ w = WriteError(comp, now, code, by)
  BY <1>3 DEF ErrorCodes, ErrorWriters
<1> HIDE DEF w, code, by
<1>7. w \in Responses /\ ReplyInv(comp, w, early, lengthSet) /\ Answered(now, w, code, by)
  BY Zenon, <1>2, <1>5, <1>6, ErrorKeeps
<1>8. now' = w /\ sent' = w.out /\ logged' = w.log /\ wrapper' = w.wrap
  BY Zenon, <1>1, <1>7, Landed
<1>9. early' = early /\ lengthSet' = lengthSet
  BY Zenon, <1>1 DEF early, lengthSet
<1>10. /\ tw' \in Buffers /\ tw'.timedOut = TRUE
       /\ tw'.code = tw.code /\ tw'.buf = tw.buf /\ tw'.length = tw.length
  <2>1. TRUE \in BOOLEAN
    OBVIOUS
  <2> QED BY ZenonT(30), <1>1, <1>2, <2>1 DEF Buffers
<1>11. ChainData'
  BY Zenon, <1>1, <1>7, <1>8, <1>10 DEF ChainInv, ChainData
<1>12. StageInv' /\ EarlyInv' /\ DoneInv'
  BY Zenon, <1>1 DEF StageInv, EarlyInv, DoneInv
<1>13. sent'.status = 503 /\ logged' = 503
  BY <1>2, <1>4, <1>7, <1>8 DEF Answered, code
<1>14. authors' = {"timeout"}
  <2>1. sent.body = <<>>
    BY Zenon, <1>2, <1>4, <1>5 DEF ReplyInv, ZipInv
  <2>2. PICK c \in Chunks : Range(w.out.body) = Range(sent.body) \cup {c} /\ c.from = by
    BY <1>2, <1>7, <1>8, <1>13 DEF Answered
  <2>3. Range(<<>>) = {}
    BY DEF Range
  <2>4. Range(sent'.body) = {c}
    BY Zenon, <1>8, <2>1, <2>2, <2>3
  <2> QED BY Zenon, <2>2, <2>4 DEF authors, by
<1>15. LogInv' /\ TimeoutInv'
  BY <1>1, <1>10, <1>13, <1>14 DEF LogInv, TimeoutInv
<1>16. BufferInv(early, lengthSet)'
  BY <1>5, <1>9, <1>10 DEF BufferInv
<1> QED BY Zenon, <1>1, <1>3, <1>7, <1>8, <1>9, <1>11, <1>12, <1>15, <1>16 DEF ChainInv
LEMMA FinishKeeps == ASSUME ChainInv, Finish PROVE ChainInv'
<1> DEFINE r == WriteHeader(now, 200)
           o == r.out
           unclosed == chain.comp = "gzip" \/ wrapper.gw
           closes == unclosed /\ o.status # 204
           p == [o EXCEPT !.closed = closes]
<1>1. /\ now \in Responses /\ chain \in [comp : Compressors, timeout : BOOLEAN]
      /\ now.out = sent /\ now.h = header /\ now.wrap = wrapper /\ now.log = logged /\ 200 \in StatusCodes \ {0}
      /\ logged \in StatusCodes \ {0} /\ header \in Headers /\ wrapper \in Wraps
  BY DEF ChainInv, ChainData, now, StatusCodes, Responses
<1>2. PICK comp \in Compressors : chain.comp = comp
  BY Zenon, <1>1
<1>3. ReplyInv(comp, now, early, lengthSet)
  BY Zenon, <1>2 DEF ChainInv
<1>4. /\ r \in Responses /\ ReplyInv(comp, r, early, lengthSet) /\ r.wrap = now.wrap /\ r.h = now.h
      /\ o.status = (IF sent.status = 0 THEN 200 ELSE sent.status) /\ o.body = sent.body
      /\ o = connHeader(sent, 200, header)
  <2> DEFINE code == 200
  <2>1. code \in StatusCodes \ {0} /\ r = WriteHeader(now, code)
    BY Zenon, <1>1
  <2> HIDE DEF code, r
  <2>2. /\ r \in Responses /\ ReplyInv(comp, r, early, lengthSet) /\ r.wrap = now.wrap /\ r.h = now.h
        /\ o.status = (IF now.out.status = 0 THEN code ELSE now.out.status) /\ o.body = now.out.body
    BY <1>1, <1>3, <2>1, HeaderKeeps
  <2>3. o = connHeader(now.out, code, now.h)
    BY ZenonT(30), <1>1, <2>1, WriteHeaderIs
  <2> QED BY ZenonT(30), <1>1, <2>2, <2>3 DEF code
<1> HIDE DEF r
<1>5. /\ serving = "close" /\ serving' = "done" /\ sent' = p
      /\ chain' = chain /\ header' = header /\ logged' = logged /\ wrapper' = wrapper
      /\ tw' = tw /\ handler' = handler /\ ops' = ops /\ calls' = calls
  BY <1>4 DEF Finish
<1>6. closes \in BOOLEAN
  BY Zenon
<1>7. o \in Outs
  BY Zenon, <1>4 DEF Responses
<1> HIDE DEF closes, o
<1>8. /\ p \in Outs /\ p.status = o.status /\ p.body = o.body /\ p.gzip = o.gzip /\ p.length = o.length
      /\ p.closed = closes
  BY Zenon, <1>6, <1>7 DEF Outs
<1> HIDE DEF p
<1>9. now' \in Responses /\ now'.out = p /\ now'.h = header /\ now'.wrap = wrapper
  BY Zenon, <1>1, <1>5, <1>8 DEF now, Responses
<1>10. /\ early' = early /\ lengthSet' = lengthSet /\ again' = again /\ authors' = authors
  BY <1>4, <1>5, <1>8 DEF early, lengthSet, again, authors
<1>11. ReplyInv(comp, now', early', lengthSet')
  BY <1>1, <1>4, <1>8, <1>9, <1>10 DEF ReplyInv, ZipInv, ReasonInv, LengthInv, ByMiddleware, o
<1>12. ChainData'
  BY Zenon, <1>5, <1>9 DEF ChainInv, ChainData
<1>13. StageInv'
  BY Zenon, <1>5 DEF ChainInv, StageInv
<1>14. TimeoutInv' /\ LogInv' /\ EarlyInv'
  <2>1. (sent.status = 0 => sent'.status = 200) /\ (sent.status # 0 => sent'.status = sent.status)
    BY <1>4, <1>5, <1>8
  <2>2. TimeoutInv'
    BY <1>5, <1>10, <2>1 DEF ChainInv, TimeoutInv
  <2>3. LogInv' /\ EarlyInv'
    BY Zenon, <1>5, <1>10, <2>1 DEF ChainInv, LogInv, EarlyInv, StageInv
  <2> QED BY Zenon, <2>2, <2>3
<1>15. DoneInv'
  <2>1. sent'.status # 0 /\ (sent'.status = 204 => sent'.body = <<>>)
    <3>1. p.status = 204 => p.body = <<>>
      BY Zenon, <1>9, <1>11 DEF ReplyInv, ZipInv
    <3> QED BY <1>4, <1>5, <1>8, <3>1
  <2>2. unclosed /\ sent'.status # 204 => sent'.closed
    BY Zenon, <1>5, <1>8 DEF closes
  <2> QED BY Zenon, <1>5, <2>1, <2>2 DEF DoneInv
<1>16. BufferInv(early, lengthSet)'
  BY ZenonT(30), <1>5, <1>10 DEF ChainInv, BufferInv
<1> QED BY Zenon, <1>2, <1>5, <1>11, <1>12, <1>13, <1>14, <1>15, <1>16 DEF ChainInv

(***************************************************************************)
(* For any number of calls on the writer, in any order, under each of the  *)
(* compressors, with and without Timeout, with panics and a deadline at    *)
(* any moment: the client gets one whole response, it can decode the body  *)
(* or the handler broke the order of header and body, a Content-Length on  *)
(* the wire was set by the handler, and the access log has the status that *)
(* was sent unless the handler set another after it.                       *)
(***************************************************************************)
THEOREM ChainKept == ChainSpec => []ChainContract
<1>1. ASSUME ChainInv, [ChainNext]_chainVars PROVE ChainInv'
  <2>1. CASE Begin
    BY Zenon, <1>1, <2>1, BeginKeeps
  <2>2. CASE Return
    BY ZenonT(30), <1>1, <2>2, ReturnKeeps
  <2>3. CASE PanicDxError
    BY ZenonT(30), <1>1, <2>3, PanicDxErrorKeeps
  <2>4. CASE Panic
    BY ZenonT(30), <1>1, <2>4, PanicKeeps
  <2>5. CASE Flush
    BY ZenonT(30), <1>1, <2>5, FlushStepKeeps
  <2>6. CASE Expire
    BY ZenonT(30), <1>1, <2>6, ExpireKeeps
  <2>7. CASE Finish
    BY ZenonT(30), <1>1, <2>7, FinishKeeps
  <2>8. ASSUME NEW op \in {"json", "bin", "length", "200", "204", "write"}, Call(op) PROVE ChainInv'
    <3>1. op \in Ops \ {"panic"}
      BY Zenon DEF Ops
    <3> QED BY Zenon, <1>1, <2>8, <3>1, CallKeeps
  <2>9. CASE UNCHANGED chainVars
    <3>1. /\ now' = now /\ authors' = authors /\ early' = early /\ lengthSet' = lengthSet /\ again' = again
          /\ begun' = begun
      BY Zenon, <2>9 DEF chainVars, now, authors, early, lengthSet, again, begun
    <3> QED BY <1>1, <2>9, <3>1 DEF chainVars, ChainInv, ChainData, StageInv, TimeoutInv, Untouched, LogInv,
                              EarlyInv, DoneInv, BufferInv
  <2> QED BY Zenon, <1>1, <2>1, <2>2, <2>3, <2>4, <2>5, <2>6, <2>7, <2>8, <2>9 DEF ChainNext
<1> QED BY <1>1, InitChain, ChainInvGives, PTL DEF ChainSpec

-----------------------------------------------------------------------------
(***************************************************************************)
(* Envelopes.  The invariant adds what Seal knew and Open relies on: both  *)
(* keys of the envelope that exists are P-256, nothing is damaged or       *)
(* opened without one.                                                     *)
(***************************************************************************)
Fields == Inner \cup Outer \cup {"token"}
Envelopes == [by : Parties, to : Parties]

SealedInv ==
  \/ envelope = {} /\ damaged = {} /\ opening = notOpened
  \/ \E e \in Envelopes : envelope = {e} /\ keys[e.by] = "P-256" /\ keys[e.to] = "P-256"

EnvelopeInv ==
  /\ keys \in [Parties -> {"none", "P-256"}] /\ damaged \subseteq Fields
  /\ envelope # {} <=> sealing = "ok"
  /\ SealedInv
  /\ OpenedIsSealed /\ UndamagedOpens /\ NeverPanics

LEMMA EnvelopeInvGives == EnvelopeInv => EnvelopeContract
<1> SUFFICES ASSUME EnvelopeInv PROVE EnvelopeContract
  OBVIOUS
<1>1. \A e, f \in envelope : e = f
  BY Zenon DEF EnvelopeInv, SealedInv
<1> QED BY Zenon, <1>1 DEF EnvelopeInv, EnvelopeContract, EnvelopeTypeOK, Fields

(* Before Open the contract about opening holds vacuously. *)
LEMMA NotOpened ==
  ASSUME EnvelopeInv, NEW e \in Envelopes
  PROVE  /\ notOpened.result = "none"
         /\ e.by # notOpened.peer
  BY Zenon, PartyAssumption DEF notOpened, Envelopes

LEMMA InitEnvelope == EnvelopeInit => EnvelopeInv
  BY SMTT(30) DEF EnvelopeInit, EnvelopeInv, SealedInv, OpenedIsSealed, UndamagedOpens, NeverPanics, notOpened

LEMMA LoadKeyKeeps ==
  ASSUME EnvelopeInv, NEW p \in Parties, NEW f \in PrivateFiles, LoadKey(p, f)
  PROVE  EnvelopeInv'
<1>1. ParsePrivateKeyPEM(f) \in {"none", "P-256"}
  BY Zenon DEF PrivateFiles, ParsePrivateKeyPEM, requireP256
<1>2. keys' \in [Parties -> {"none", "P-256"}]
  BY Zenon, <1>1 DEF LoadKey, EnvelopeInv
<1> QED BY Zenon, <1>2 DEF LoadKey, EnvelopeInv, SealedInv, OpenedIsSealed, UndamagedOpens, NeverPanics

LEMMA SealKeeps ==
  ASSUME EnvelopeInv, NEW by \in Parties, NEW to \in Parties, Seal(by, to)
  PROVE  EnvelopeInv'
<1> DEFINE e == [by |-> by, to |-> to]
<1>1. sealing = "none" /\ envelope = {} /\ damaged = {} /\ opening = notOpened
  BY Zenon DEF EnvelopeInv, Seal, SealedInv
<1>2. keys' = keys /\ damaged' = {} /\ opening' = notOpened /\ keys[by] \in {"none", "P-256"}
  BY Zenon, <1>1 DEF EnvelopeInv, Seal
<1>3. e \in Envelopes /\ e.by = by /\ e.to = to
  BY Zenon DEF Envelopes
<1>4. \/ sealing' = "error" /\ envelope' = {}
      \/ sealing' = "ok" /\ envelope' = {e} /\ keys[by] = "P-256" /\ keys[to] = "P-256"
  BY Zenon, <1>2 DEF Seal
<1> HIDE DEF e
<1>5. SealedInv'
  BY Zenon, <1>2, <1>3, <1>4 DEF SealedInv
<1>6. (envelope' # {} <=> sealing' = "ok") /\ sealing' # "panic"
  BY Zenon, <1>4
<1>7. OpenedIsSealed' /\ UndamagedOpens' /\ NeverPanics'
  BY Zenon, <1>2, <1>3, <1>4, <1>6, NotOpened DEF OpenedIsSealed, UndamagedOpens, NeverPanics
<1> QED BY Zenon, <1>2, <1>5, <1>6, <1>7 DEF EnvelopeInv

LEMMA DamageKeeps ==
  ASSUME EnvelopeInv, NEW f \in Fields, Damage(f)
  PROVE  EnvelopeInv'
<1>1. UNCHANGED <<keys, envelope, sealing, opening>> /\ opening = notOpened /\ envelope # {}
  BY Zenon DEF Damage
<1>2. damaged' \subseteq Fields
  BY Zenon DEF Damage, EnvelopeInv
<1>3. PICK e \in Envelopes : envelope = {e} /\ keys[e.by] = "P-256" /\ keys[e.to] = "P-256"
  BY Zenon, <1>1 DEF EnvelopeInv, SealedInv
<1>4. SealedInv'
  BY Zenon, <1>1, <1>3 DEF SealedInv
<1>5. OpenedIsSealed' /\ UndamagedOpens'
  BY Zenon, <1>1, <1>3, NotOpened DEF OpenedIsSealed, UndamagedOpens
<1> QED BY Zenon, <1>1, <1>2, <1>4, <1>5 DEF EnvelopeInv, NeverPanics

(* What open can return for an envelope *)
LEMMA OpenReturns ==
  ASSUME damaged \subseteq Fields, NEW e \in Envelopes, NEW me \in Parties, NEW peer \in Parties,
         NEW res \in open(e, me, peer)
  PROVE  /\ res \in {"error", "plaintext"}
         /\ res = "plaintext" => e.by = peer /\ e.to = me /\ damaged \subseteq {"sid"}
         /\ damaged \subseteq {"sid"} /\ e.by = peer /\ e.to = me => res = "plaintext"
<1>1. CASE "token" \in damaged \/ "alg" \in damaged \/ ~verifyES256(e, peer) \/ "enc" \in damaged
  <2>1. res = "error"
    BY Zenon, <1>1 DEF open
  <2>2. damaged \subseteq {"sid"} => e.by # peer
    BY Zenon, <1>1 DEF verifyES256, Inner
  <2> QED BY Zenon, <2>1, <2>2
<1>2. CASE ~("token" \in damaged \/ "alg" \in damaged \/ ~verifyES256(e, peer) \/ "enc" \in damaged)
  <2>1. res \in decrypt(e, me)
    BY Zenon, <1>2 DEF open
  <2>2. peer = e.by /\ damaged \subseteq {"sid"}
    BY Zenon, <1>2 DEF verifyES256, Inner, Outer, Fields
  <2>3. res = IF me # e.to THEN "error" ELSE "plaintext"
    BY Zenon, <2>1, <2>2 DEF decrypt
  <2> QED BY Zenon, <2>2, <2>3
<1> QED BY Zenon, <1>1, <1>2

LEMMA OpenKeeps ==
  ASSUME EnvelopeInv, NEW me \in Parties, NEW peer \in Parties, Open(me, peer)
  PROVE  EnvelopeInv'
<1>1. PICK e \in envelope :
        \E res \in IF keys[me] = "none" \/ keys[peer] = "none" THEN {"error"} ELSE open(e, me, peer) :
          opening' = [result |-> res, me |-> me, peer |-> peer]
  BY Zenon DEF Open
<1>2. PICK res \in IF keys[me] = "none" \/ keys[peer] = "none" THEN {"error"} ELSE open(e, me, peer) :
        opening' = [result |-> res, me |-> me, peer |-> peer]
  BY Zenon, <1>1
<1>3. opening'.result = res /\ opening'.me = me /\ opening'.peer = peer
  BY Zenon, <1>2
<1>4. UNCHANGED <<keys, envelope, damaged, sealing>>
  BY Zenon DEF Open
<1>5. e \in Envelopes /\ envelope = {e} /\ keys[e.by] = "P-256" /\ keys[e.to] = "P-256"
  BY Zenon, <1>1 DEF EnvelopeInv, SealedInv
<1>6. /\ res \in {"error", "plaintext"}
      /\ res = "plaintext" => e.by = peer /\ e.to = me /\ damaged \subseteq {"sid"}
      /\ damaged \subseteq {"sid"} /\ e.by = peer /\ e.to = me => res = "plaintext"
  <2>1. CASE keys[me] = "none" \/ keys[peer] = "none"
    BY Zenon, <1>2, <1>5, <2>1
  <2>2. CASE ~(keys[me] = "none" \/ keys[peer] = "none")
    <3>1. res \in open(e, me, peer)
      BY Zenon, <1>2, <2>2
    <3>2. damaged \subseteq Fields
      BY Zenon DEF EnvelopeInv
    <3> QED BY ZenonT(30), <1>5, <3>1, <3>2, OpenReturns
  <2> QED BY Zenon, <2>1, <2>2
<1>7. SealedInv'
  BY Zenon, <1>4, <1>5 DEF SealedInv
<1>8. OpenedIsSealed' /\ UndamagedOpens' /\ NeverPanics'
  BY Zenon, <1>3, <1>4, <1>5, <1>6 DEF EnvelopeInv, OpenedIsSealed, UndamagedOpens, NeverPanics
<1> QED BY Zenon, <1>4, <1>7, <1>8 DEF EnvelopeInv

LEMMA EnvelopeStepKeeps == EnvelopeInv /\ [EnvelopeNext]_envelopeVars => EnvelopeInv'
<1> SUFFICES ASSUME EnvelopeInv, [EnvelopeNext]_envelopeVars PROVE EnvelopeInv'
  OBVIOUS
<1>1. ASSUME NEW p \in Parties, NEW f \in PrivateFiles, LoadKey(p, f) PROVE EnvelopeInv'
  BY Zenon, <1>1, LoadKeyKeeps
<1>2. ASSUME NEW p \in Parties, NEW q \in Parties, Seal(p, q) \/ Open(p, q) PROVE EnvelopeInv'
  BY Zenon, <1>2, SealKeeps, OpenKeeps
<1>3. ASSUME NEW f \in Inner \cup Outer \cup {"token"}, Damage(f) PROVE EnvelopeInv'
  BY Zenon, <1>3, DamageKeeps DEF Fields
<1>4. CASE AnotherMessage
  BY Zenon, <1>4 DEF AnotherMessage, EnvelopeInv, SealedInv, OpenedIsSealed, UndamagedOpens, NeverPanics, notOpened
<1>5. CASE UNCHANGED envelopeVars
  BY Zenon, <1>5 DEF envelopeVars, EnvelopeInv, SealedInv, OpenedIsSealed, UndamagedOpens, NeverPanics
<1> QED BY Zenon, <1>1, <1>2, <1>3, <1>4, <1>5 DEF EnvelopeNext

(***************************************************************************)
(* For every set of parties and every damage: what Open returns was sealed *)
(* by the expected signer for this recipient, an undamaged envelope opens, *)
(* and neither Seal nor Open panics, because keys of other curves are      *)
(* refused on loading and Open verifies before it decrypts.                *)
(***************************************************************************)
THEOREM EnvelopeKept == EnvelopeSpec => []EnvelopeContract
<1> QED BY InitEnvelope, EnvelopeStepKeeps, EnvelopeInvGives, PTL DEF EnvelopeSpec
=============================================================================
