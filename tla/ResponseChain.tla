--------------------------- MODULE ResponseChain ---------------------------
(***************************************************************************)
(* One request on its way through the middleware of package middleware, in *)
(* the order the stacks use: Logger, Compression or SelectiveCompression,  *)
(* Recovery, Timeout, GlobalErrorHandler, handler.  The writers that wrap  *)
(* one another decide what the client gets; with Timeout the handler runs  *)
(* in a goroutine of its own and may outlive the request.                  *)
(***************************************************************************)
EXTENDS Naturals, Sequences, Functions

CONSTANT MaxOps   \* bound: the calls a handler makes on its ResponseWriter

ASSUME ChainAssumption == MaxOps \in Nat

Compressors == {"none", "gzip", "selective"}

VARIABLES
  chain,    \* the chain that serves the request: [comp, timeout]
  header,   \* the header map of the connection: [ctype, gzip, length]
  sent,     \* what is on the wire: [status, gzip, length, body, closed]
  logged,   \* responseWriter.status of Logger
  wrapper,  \* responseWriterWrapper: [written, gw]
  tw,       \* timeoutWriter: [code, buf, ctype, length, timedOut]
  handler,  \* "idle", "run", "returned", or the panic under way
  serving,  \* "wait" (before the select), "close", "done", "crashed"
  ops,      \* calls the handler made
  calls     \* history: what the handler called, in order

chainVars == <<chain, header, sent, logged, wrapper, tw, handler, serving, ops, calls>>

noHeader == [ctype |-> "unset", gzip |-> FALSE, length |-> FALSE]
nothing == [status |-> 0, gzip |-> FALSE, length |-> FALSE, body |-> <<>>, closed |-> FALSE]
freshWriter == [code |-> 0, buf |-> <<>>, ctype |-> "unset", length |-> FALSE, timedOut |-> FALSE]

ChainInit ==
  /\ chain = [comp |-> "none", timeout |-> FALSE]
  /\ header = noHeader /\ sent = nothing /\ logged = 200
  /\ wrapper = [written |-> FALSE, gw |-> FALSE] /\ tw = freshWriter
  /\ handler = "idle" /\ serving = "wait" /\ ops = 0 /\ calls = <<>>
-----------------------------------------------------------------------------
(* net/http's own writer.  The first WriteHeader sends the headers, later  *)
(* ones are ignored; a status without a body drops what is written.        *)

connHeader(out, code, h) ==
  IF out.status # 0 THEN out
  ELSE [out EXCEPT !.status = code, !.gzip = h.gzip, !.length = h.length]

connWrite(out, h, chunk) ==
  LET started == connHeader(out, 200, h) IN
  IF started.status = 204 THEN started ELSE [started EXCEPT !.body = Append(@, chunk)]

(* A response on its way down: the record the operators below transform.   *)
now == [out |-> sent, h |-> header, log |-> logged, wrap |-> wrapper]

land(r) == sent' = r.out /\ header' = r.h /\ logged' = r.log /\ wrapper' = r.wrap

(* Faulty variant: only the default status is reported.                    *)
WriteHeader_unrecorded(r, code) == [r EXCEPT !.out = connHeader(r.out, code, r.h)]

(* Logger notes every status it is given, the superfluous ones too.        *)
WriteHeader(r, code) == [r EXCEPT !.log = code, !.out = connHeader(r.out, code, r.h)]

(* Faulty variant: the first body is compressed, the later ones are not.   *)
Write_firstOnly(comp, r, by) ==
  LET zip == comp = "gzip" \/ (comp = "selective" /\ ~r.wrap.written /\ r.h.ctype = "json")
      h == IF comp = "selective" /\ zip THEN [r.h EXCEPT !.gzip = TRUE] ELSE r.h IN
  [r EXCEPT !.h = h, !.wrap = [written |-> TRUE, gw |-> r.wrap.gw \/ (comp = "selective" /\ zip)],
            !.out = connWrite(r.out, h, [from |-> by, zip |-> zip])]

(* Faulty variant: a Content-Length set by the handler is kept.            *)
Write_keepsLength(comp, r, by) ==
  LET starts == comp = "selective" /\ ~r.wrap.written /\ r.h.ctype = "json"
      zip == comp = "gzip" \/ r.wrap.gw \/ starts
      h == [r.h EXCEPT !.gzip = @ \/ starts] IN
  [r EXCEPT !.h = h, !.wrap = [written |-> TRUE, gw |-> r.wrap.gw \/ starts],
            !.out = connWrite(r.out, h, [from |-> by, zip |-> zip])]

(* The first body under SelectiveCompression decides, by its Content-Type, *)
(* whether a gzip stream starts; the header it then sets reaches the wire  *)
(* only if the status has not been sent.                                   *)
Write(comp, r, by) ==
  LET starts == comp = "selective" /\ ~r.wrap.written /\ r.h.ctype = "json"
      zip == comp = "gzip" \/ r.wrap.gw \/ starts
      h == IF starts THEN [r.h EXCEPT !.gzip = TRUE, !.length = FALSE] ELSE r.h IN
  [r EXCEPT !.h = h, !.wrap = [written |-> TRUE, gw |-> r.wrap.gw \/ starts],
            !.out = connWrite(r.out, h, [from |-> by, zip |-> zip])]

WriteError(comp, r, code, by) ==
  Write(comp, WriteHeader([r EXCEPT !.h.ctype = "json"], code), by)
-----------------------------------------------------------------------------
(* Compression sets Content-Encoding and drops Content-Length before the   *)
(* handler runs.                                                           *)
Begin ==
  /\ handler = "idle"
  /\ \E comp \in Compressors, timeout \in BOOLEAN :
       /\ chain' = [comp |-> comp, timeout |-> timeout]
       /\ header' = [noHeader EXCEPT !.gzip = comp = "gzip"]
  /\ handler' = "run"
  /\ UNCHANGED <<sent, logged, wrapper, tw, serving, ops, calls>>

(* timeoutWriter: everything is buffered.  timedOut is written without     *)
(* synchronisation, so a handler that goes on may or may not see it.       *)
buffered(op) ==
  IF op = "write" THEN [tw EXCEPT !.buf = Append(@, "handler")]
  ELSE IF op = "length" THEN [tw EXCEPT !.length = TRUE]
  ELSE IF op \in {"json", "bin"} THEN [tw EXCEPT !.ctype = op]
  ELSE [tw EXCEPT !.code = IF op = "200" THEN 200 ELSE 204]

direct(op) ==
  IF op = "write" THEN Write(chain.comp, now, {"handler"})
  ELSE IF op = "length" THEN [now EXCEPT !.h.length = TRUE]
  ELSE IF op \in {"json", "bin"} THEN [now EXCEPT !.h.ctype = op]
  ELSE WriteHeader(now, IF op = "200" THEN 200 ELSE 204)

(* The handler sets a Content-Type or Content-Length, sends a status or    *)
(* writes.                                                                 *)
Call(op) ==
  /\ handler = "run" /\ serving # "crashed" /\ ops < MaxOps
  /\ IF chain.timeout
     THEN /\ tw' \in {buffered(op)} \cup (IF tw.timedOut THEN {tw} ELSE {})
          /\ UNCHANGED <<sent, header, logged, wrapper>>
     ELSE land(direct(op)) /\ UNCHANGED tw
  /\ ops' = ops + 1 /\ calls' = Append(calls, op)
  /\ UNCHANGED <<chain, handler, serving>>

Return ==
  /\ handler = "run" /\ serving # "crashed"
  /\ handler' = "returned"
  /\ serving' = IF chain.timeout THEN serving ELSE "close"
  /\ UNCHANGED <<chain, header, sent, logged, wrapper, tw, ops, calls>>

(* A panic with a DxError becomes that error's response at                 *)
(* GlobalErrorHandler, next to the handler.                                *)
PanicDxError ==
  /\ handler = "run" /\ serving # "crashed"
  /\ handler' = "returned" /\ calls' = Append(calls, "panic")
  /\ IF chain.timeout
     THEN /\ tw' \in {[tw EXCEPT !.ctype = "json", !.code = 404, !.buf = Append(@, "errors")]}
                     \cup (IF tw.timedOut THEN {tw} ELSE {})
          /\ UNCHANGED <<sent, header, logged, wrapper, serving>>
     ELSE land(WriteError(chain.comp, now, 404, {"errors"})) /\ serving' = "close" /\ UNCHANGED tw
  /\ UNCHANGED <<chain, ops>>

(* Any other panic unwinds the goroutine it happens in: to Recovery when   *)
(* the handler runs in the request's goroutine, to the end of the process  *)
(* when it runs in the one Timeout starts.                                 *)
Panic ==
  /\ handler = "run" /\ serving # "crashed"
  /\ handler' = "returned" /\ calls' = Append(calls, "panic")
  /\ IF chain.timeout
     THEN serving' = "crashed" /\ UNCHANGED <<sent, header, logged, wrapper>>
     ELSE serving' = "close" /\ land(WriteError(chain.comp, now, 500, {"recovery"}))
  /\ UNCHANGED <<chain, tw, ops>>

(* Faulty variant: a status is sent even when the handler set none.        *)
flush_anyStatus(r) == WriteHeader([r EXCEPT !.h.ctype = tw.ctype], tw.code)

(* timeoutWriter.flush: headers, then the status if one was set, then the  *)
(* body if there is one.                                                   *)
flush(r) ==
  LET h == [ctype |-> IF tw.ctype = "unset" THEN r.h.ctype ELSE tw.ctype,
            gzip |-> r.h.gzip, length |-> r.h.length \/ tw.length]
      b == [r EXCEPT !.h = h]
      c == IF tw.code # 0 THEN WriteHeader(b, tw.code) ELSE b IN
  IF tw.buf = <<>> THEN c ELSE Write(chain.comp, c, Range(tw.buf))

Flush ==
  /\ chain.timeout /\ serving = "wait" /\ handler = "returned"
  /\ land(flush(now)) /\ serving' = "close"
  /\ UNCHANGED <<chain, tw, handler, ops, calls>>

(* Faulty variant: what the handler had buffered is sent with the 503.     *)
Expire_flushes ==
  /\ chain.timeout /\ serving = "wait" /\ handler # "idle"
  /\ tw' = [tw EXCEPT !.timedOut = TRUE]
  /\ land(WriteError(chain.comp, flush(now), 503, {"timeout"})) /\ serving' = "close"
  /\ UNCHANGED <<chain, handler, ops, calls>>

(* The deadline passes or the client goes away; when the handler has just  *)
(* returned the select may still take this case.                           *)
Expire ==
  /\ chain.timeout /\ serving = "wait" /\ handler # "idle"
  /\ tw' = [tw EXCEPT !.timedOut = TRUE]
  /\ land(WriteError(chain.comp, now, 503, {"timeout"})) /\ serving' = "close"
  /\ UNCHANGED <<chain, handler, ops, calls>>

(* The compressor closes its stream, which sends headers that were still   *)
(* unsent; so does net/http when the outermost handler returns.            *)
Finish ==
  /\ serving = "close" /\ serving' = "done"
  /\ LET out == connHeader(sent, 200, header)
         open == chain.comp = "gzip" \/ wrapper.gw IN
     sent' = [out EXCEPT !.closed = open /\ out.status # 204]
  /\ UNCHANGED <<chain, header, logged, wrapper, tw, handler, ops, calls>>

ChainNext ==
  \/ Begin \/ Return \/ PanicDxError \/ Panic \/ Flush \/ Expire \/ Finish
  \/ \E op \in {"json", "bin", "length", "200", "204", "write"} : Call(op)

ChainSpec == ChainInit /\ [][ChainNext]_chainVars
-----------------------------------------------------------------------------
authors == UNION {c.from : c \in Range(sent.body)}

ChainTypeOK ==
  /\ chain \in [comp : Compressors, timeout : BOOLEAN]
  /\ header \in [ctype : {"unset", "json", "bin"}, gzip : BOOLEAN, length : BOOLEAN]
  /\ sent.status \in {0, 200, 204, 404, 500, 503} /\ logged \in {200, 204, 404, 500, 503}
  /\ wrapper \in [written : BOOLEAN, gw : BOOLEAN]
  /\ tw.code \in {0, 200, 204, 404} /\ ops \in 0..MaxOps
  /\ handler \in {"idle", "run", "returned"} /\ serving \in {"wait", "close", "done", "crashed"}

(***************************************************************************)
(* Under Timeout the client gets the handler's whole response or the 503,  *)
(* never a piece of both, however the deadline, the handler's calls and    *)
(* its return interleave; and what a late handler writes is never sent.    *)
(***************************************************************************)
WholeResponse ==
  chain.timeout /\ sent.status # 0 =>
    /\ "timeout" \in authors <=> tw.timedOut
    /\ "timeout" \in authors => authors = {"timeout"} /\ sent.status = 503
    /\ sent.status = 503 => tw.timedOut

(***************************************************************************)
(* The status Logger reports, and the audit middleware records, is the one *)
(* the client got, unless the handler itself sent a status or a body and   *)
(* then sent another status or panicked.                                   *)
(***************************************************************************)
LoggedStatusTrue ==
  serving = "done" /\ logged # sent.status =>
    \E i, j \in DOMAIN calls : /\ i < j
                               /\ calls[i] \in {"200", "204", "write"}
                               /\ calls[j] \in {"200", "204", "panic"}

(***************************************************************************)
(* A finished response is decodable: its body is wholly gzip and complete, *)
(* and announced, or wholly plain and not announced.  SelectiveCompression *)
(* breaks this when the status is sent before the first byte of the body,  *)
(* as WriteError and a flushed status do: the stream starts after the      *)
(* headers have left.                                                      *)
(***************************************************************************)
Decodable ==
  LET zipped == {c.zip : c \in Range(sent.body)} IN
  serving = "done" /\ sent.body # <<>> =>
    /\ zipped = {TRUE} => sent.closed
    /\ zipped # {TRUE, FALSE}
    /\ sent.gzip => zipped = {TRUE}
    /\ chain.comp # "selective" => (zipped = {TRUE} <=> sent.gzip)
    /\ zipped = {TRUE} /\ ~sent.gzip =>
         \/ authors \cap {"errors", "recovery", "timeout"} # {}
         \/ \E i \in DOMAIN calls : calls[i] \in {"200", "204"}

(***************************************************************************)
(* A Content-Length set by the handler is on the wire only with the body   *)
(* it counts.  Compression removes the length before the handler runs, so  *)
(* one that the handler sets stays with the compressed body; the selective *)
(* writer removes it in time unless the status is already sent.            *)
(***************************************************************************)
LengthFits ==
  serving = "done" /\ sent.length /\ (\E c \in Range(sent.body) : c.zip) =>
    /\ "length" \in Range(calls)
    /\ chain.comp = "selective" => sent.gzip = FALSE

(***************************************************************************)
(* What the middleware promises about a response: it is whole, decodable,  *)
(* of the length it says, and logged with its status.                      *)
(***************************************************************************)
ChainContract ==
  /\ ChainTypeOK
  /\ WholeResponse
  /\ LoggedStatusTrue
  /\ Decodable
  /\ LengthFits
=============================================================================
