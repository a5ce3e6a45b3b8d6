--------------------------- MODULE DeliveryProofs ---------------------------
(***************************************************************************)
(* What must not get lost on its way out, proved for any number of         *)
(* callers, connections, requests and documents: published messages, the   *)
(* audit events of a service that shuts down, and the documents of an      *)
(* index sync.                                                             *)
(***************************************************************************)
EXTENDS ReliablePublisher, Draining, IndexSync, FiniteSetTheorems,
        WellFoundedInduction, TLAPS

(***************************************************************************)
(* ReliablePublisher                                                       *)
(***************************************************************************)

(* One call: before its write nothing of it is at the broker; a confirm is *)
(* due only while the call waits for it, and an ack means stored.          *)
CallInv(g) ==
  /\ pc[g] \notin {"idle", "confirm"} => ~transit[g] /\ stored[g] = 0 /\ result[g] = "none"
  /\ confirm[g] # "none" => pc[g] = "confirm"
  /\ confirm[g] = "pending" => transit[g] \/ stored[g] = 1
  /\ confirm[g] = "acked" => stored[g] = 1
  /\ transit[g] => stored[g] = 0
  /\ pc[g] = "confirm" => confirms
  /\ confirms /\ result[g] = "nil" => stored[g] = 1

(* dial's locals are set only between the dial and the close. *)
DialInv(g) ==
  /\ pc[g] # "swap" => fresh[g] = NoConn
  /\ pc[g] # "closeOld" => old[g] = NoConn

(***************************************************************************)
(* The inductive invariant.                                                *)
(***************************************************************************)
IInv ==
  /\ TypeOK
  /\ NoConnectionLeak
  /\ \A g \in Callers : CallInv(g) /\ DialInv(g)

LEMMA InitIInv == Init => IInv
<1> SUFFICES ASSUME Init PROVE IInv
  OBVIOUS
<1>1. TypeOK
  <2>1. confirms \in BOOLEAN /\ closed \in BOOLEAN
    BY Zenon, PublisherAssumption DEF Init
  <2>2. conn \in Conns \cup {NoConn} /\ open \subseteq Conns
    BY PublisherAssumption DEF Init, Conns, NoConn
  <2>3. /\ pc \in [Callers -> {"idle", "read", "write", "confirm", "dial", "swap", "closeOld"}]
        /\ try \in [Callers -> {1, 2}]
        /\ ch \in [Callers -> Conns \cup {NoConn}]
        /\ fresh \in [Callers -> Conns \cup {NoConn}]
        /\ old \in [Callers -> Conns \cup {NoConn}]
        /\ confirm \in [Callers -> {"none", "pending", "acked", "nacked"}]
        /\ result \in [Callers -> {"none", "nil", "err"}]
        /\ stored \in [Callers -> 0..1]
    BY DEF Init
  <2>4. transit \in [Callers -> BOOLEAN] /\ hit \in [Callers -> BOOLEAN]
    BY Zenon DEF Init
  <2> QED BY Zenon, <2>1, <2>2, <2>3, <2>4 DEF TypeOK
<1>2. NoConnectionLeak
  BY Zenon DEF Init, NoConnectionLeak
<1>3. ASSUME NEW g \in Callers PROVE CallInv(g) /\ DialInv(g)
  BY Zenon DEF Init, CallInv, DialInv
<1> QED BY Zenon, <1>1, <1>2, <1>3 DEF IInv

(* What a step leaves alone for caller q. *)
SameFor(q) ==
  /\ pc'[q] = pc[q] /\ transit'[q] = transit[q] /\ confirm'[q] = confirm[q]
  /\ result'[q] = result[q] /\ stored'[q] = stored[q]
  /\ fresh'[q] = fresh[q] /\ old'[q] = old[q]

LEMMA OneCall ==
  ASSUME NEW g \in Callers, IInv, TypeOK', confirms' = confirms,
         \A q \in Callers \ {g} : SameFor(q),
         CallInv(g)', DialInv(g)', NoConnectionLeak'
  PROVE  IInv'
<1>1. ASSUME NEW q \in Callers \ {g} PROVE CallInv(q)' /\ DialInv(q)'
  BY <1>1 DEF IInv, SameFor, CallInv, DialInv
<1> QED BY Zenon, <1>1 DEF IInv

(***************************************************************************)
(* Closing connections keeps the invariant's part about every call: the    *)
(* messages that are lost are those whose confirm turns into a nack.       *)
(***************************************************************************)
LEMMA ShutKeeps ==
  ASSUME NEW cs, NEW g \in Callers, IInv, shut(cs),
         UNCHANGED <<confirms, stored, result>>,
         pc'[g] = pc[g] \/ (pc[g] = "closeOld" /\ pc'[g] = "read")
  PROVE  CallInv(g)'
<1>1. /\ transit'[g] => transit[g]
      /\ transit[g] /\ ~transit'[g] => ch[g] \in cs
      /\ confirm'[g] = IF ch[g] \in cs /\ confirm[g] = "pending" THEN "nacked" ELSE confirm[g]
  BY Zenon DEF shut, IInv, TypeOK
<1> QED BY Zenon, <1>1 DEF IInv, CallInv

LEMMA ShutTypes ==
  ASSUME NEW cs, IInv, shut(cs)
  PROVE  /\ open' \subseteq open
         /\ transit' \in [Callers -> BOOLEAN]
         /\ confirm' \in [Callers -> {"none", "pending", "acked", "nacked"}]
<1>1. transit' \in [Callers -> BOOLEAN]
  BY Zenon DEF shut
<1> QED BY Zenon, <1>1 DEF shut, IInv, TypeOK

LEMMA NextIInv == IInv /\ [Next]_vars => IInv'
<1> SUFFICES ASSUME IInv, [Next]_vars PROVE IInv'
  OBVIOUS
<1> USE DEF shared
<1>1. ASSUME NEW g \in Callers, Begin(g) PROVE IInv'
  <2> USE <1>1 DEF Begin
  <2>1. TypeOK' /\ \A q \in Callers \ {g} : SameFor(q)
    BY DEF IInv, TypeOK, SameFor, CallInv
  <2>2. CallInv(g)'
    BY Zenon DEF IInv, TypeOK, CallInv
  <2>3. DialInv(g)'
    BY Zenon DEF IInv, TypeOK, DialInv
  <2>4. NoConnectionLeak'
    BY Zenon DEF IInv, TypeOK, DialInv, NoConnectionLeak
  <2> QED BY Zenon, <2>1, <2>2, <2>3, <2>4, OneCall
<1>2. ASSUME NEW g \in Callers, ReadChannel(g) PROVE IInv'
  <2> USE <1>2 DEF ReadChannel, closedErr, return
  <2>1. TypeOK' /\ \A q \in Callers \ {g} : SameFor(q)
    BY DEF IInv, TypeOK, SameFor, CallInv
  <2>2. CallInv(g)'
    BY DEF IInv, TypeOK, CallInv
  <2>3. DialInv(g)'
    BY Zenon DEF IInv, TypeOK, DialInv
  <2>4. NoConnectionLeak'
    BY Zenon DEF IInv, TypeOK, DialInv, NoConnectionLeak
  <2> QED BY Zenon, <2>1, <2>2, <2>3, <2>4, OneCall
<1>3. ASSUME NEW g \in Callers, Write(g) PROVE IInv'
  <2> USE <1>3 DEF Write, return
  <2>1. TypeOK' /\ \A q \in Callers \ {g} : SameFor(q)
    BY DEF IInv, TypeOK, SameFor, CallInv
  <2>2. CallInv(g)'
    BY Zenon DEF IInv, TypeOK, CallInv
  <2>3. DialInv(g)'
    BY Zenon DEF IInv, TypeOK, DialInv
  <2>4. NoConnectionLeak'
    BY Zenon DEF IInv, TypeOK, DialInv, NoConnectionLeak
  <2> QED BY Zenon, <2>1, <2>2, <2>3, <2>4, OneCall
<1>4. ASSUME NEW g \in Callers, WriteClosed(g) PROVE IInv'
  <2> USE <1>4 DEF WriteClosed, closedErr, return
  <2>1. TypeOK' /\ \A q \in Callers \ {g} : SameFor(q)
    BY DEF IInv, TypeOK, SameFor, CallInv
  <2>2. CallInv(g)'
    BY DEF IInv, TypeOK, CallInv
  <2>3. DialInv(g)'
    BY Zenon DEF IInv, TypeOK, DialInv
  <2>4. NoConnectionLeak'
    BY Zenon DEF IInv, TypeOK, DialInv, NoConnectionLeak
  <2> QED BY Zenon, <2>1, <2>2, <2>3, <2>4, OneCall
<1>5. ASSUME NEW g \in Callers, Confirmed(g) PROVE IInv'
  <2> USE <1>5 DEF Confirmed, return
  <2>1. TypeOK' /\ \A q \in Callers \ {g} : SameFor(q)
    BY DEF IInv, TypeOK, SameFor, CallInv
  <2>2. CallInv(g)'
    BY Zenon DEF IInv, TypeOK, CallInv
  <2>3. DialInv(g)'
    BY Zenon DEF IInv, TypeOK, DialInv
  <2>4. NoConnectionLeak'
    BY Zenon DEF IInv, TypeOK, DialInv, NoConnectionLeak
  <2> QED BY Zenon, <2>1, <2>2, <2>3, <2>4, OneCall
<1>6. ASSUME NEW g \in Callers, ContextDone(g) PROVE IInv'
  <2> USE <1>6 DEF ContextDone, return
  <2>1. TypeOK' /\ \A q \in Callers \ {g} : SameFor(q)
    BY DEF IInv, TypeOK, SameFor, CallInv
  <2>2. CallInv(g)'
    BY DEF IInv, TypeOK, CallInv
  <2>3. DialInv(g)'
    BY Zenon DEF IInv, TypeOK, DialInv
  <2>4. NoConnectionLeak'
    BY Zenon DEF IInv, TypeOK, DialInv, NoConnectionLeak
  <2> QED BY Zenon, <2>1, <2>2, <2>3, <2>4, OneCall
<1>7. ASSUME NEW g \in Callers, WriteFails(g) PROVE IInv'
  <2> USE <1>7 DEF WriteFails, return
  <2>1. TypeOK' /\ \A q \in Callers \ {g} : SameFor(q)
    BY DEF IInv, TypeOK, SameFor, CallInv
  <2>2. CallInv(g)'
    BY DEF IInv, TypeOK, CallInv
  <2>3. DialInv(g)'
    BY Zenon DEF IInv, TypeOK, DialInv
  <2>4. NoConnectionLeak'
    BY Zenon DEF IInv, TypeOK, DialInv, NoConnectionLeak
  <2> QED BY Zenon, <2>1, <2>2, <2>3, <2>4, OneCall
<1>8. ASSUME NEW g \in Callers, DialFails(g) PROVE IInv'
  <2> USE <1>8 DEF DialFails, return
  <2>1. TypeOK' /\ \A q \in Callers \ {g} : SameFor(q)
    BY DEF IInv, TypeOK, SameFor, CallInv
  <2>2. CallInv(g)'
    BY DEF IInv, TypeOK, CallInv
  <2>3. DialInv(g)'
    BY Zenon DEF IInv, TypeOK, DialInv
  <2>4. NoConnectionLeak'
    BY Zenon DEF IInv, TypeOK, DialInv, NoConnectionLeak
  <2> QED BY Zenon, <2>1, <2>2, <2>3, <2>4, OneCall
<1>9. ASSUME NEW g \in Callers, Dial(g) PROVE IInv'
  <2> USE <1>9 DEF Dial
  <2>1. TypeOK' /\ \A q \in Callers \ {g} : SameFor(q)
    BY DEF IInv, TypeOK, SameFor, CallInv
  <2>2. CallInv(g)'
    BY Zenon DEF IInv, TypeOK, CallInv
  <2>3. DialInv(g)'
    BY Zenon DEF IInv, TypeOK, DialInv
  <2>4. NoConnectionLeak'
    BY Zenon DEF IInv, TypeOK, DialInv, NoConnectionLeak
  <2> QED BY Zenon, <2>1, <2>2, <2>3, <2>4, OneCall
<1>10. ASSUME NEW g \in Callers, Swap(g) PROVE IInv'
  <2> USE <1>10 DEF Swap
  <2>1. TypeOK' /\ \A q \in Callers \ {g} : SameFor(q)
    BY Zenon DEF IInv, TypeOK, SameFor, CallInv
  <2>2. CallInv(g)'
    BY Zenon DEF IInv, TypeOK, CallInv
  <2>3. DialInv(g)'
    BY Zenon DEF IInv, TypeOK, DialInv
  <2>4. NoConnectionLeak'
    BY DEF IInv, TypeOK, DialInv, NoConnectionLeak
  <2> QED BY Zenon, <2>1, <2>2, <2>3, <2>4, OneCall
<1>11. ASSUME NEW g \in Callers, Store(g) PROVE IInv'
  <2> USE <1>11 DEF Store
  <2>1. TypeOK' /\ \A q \in Callers \ {g} : SameFor(q)
    BY DEF IInv, TypeOK, SameFor, CallInv
  <2>2. CallInv(g)'
    BY DEF IInv, TypeOK, CallInv
  <2>3. DialInv(g)'
    BY Zenon DEF IInv, TypeOK, DialInv
  <2>4. NoConnectionLeak'
    BY Zenon DEF IInv, TypeOK, DialInv, NoConnectionLeak
  <2> QED BY Zenon, <2>1, <2>2, <2>3, <2>4, OneCall
<1>12. ASSUME NEW g \in Callers, BrokerAck(g) PROVE IInv'
  <2> USE <1>12 DEF BrokerAck
  <2>1. TypeOK' /\ \A q \in Callers \ {g} : SameFor(q)
    BY Zenon DEF IInv, TypeOK, SameFor, CallInv
  <2>2. CallInv(g)'
    BY Zenon DEF IInv, TypeOK, CallInv
  <2>3. DialInv(g)'
    BY Zenon DEF IInv, TypeOK, DialInv
  <2>4. NoConnectionLeak'
    BY Zenon DEF IInv, TypeOK, DialInv, NoConnectionLeak
  <2> QED BY Zenon, <2>1, <2>2, <2>3, <2>4, OneCall
<1>13. ASSUME NEW g \in Callers, BrokerNack(g) PROVE IInv'
  <2> USE <1>13 DEF BrokerNack
  <2>1. TypeOK' /\ \A q \in Callers \ {g} : SameFor(q)
    BY Zenon DEF IInv, TypeOK, SameFor, CallInv
  <2>2. CallInv(g)'
    BY Zenon DEF IInv, TypeOK, CallInv
  <2>3. DialInv(g)'
    BY Zenon DEF IInv, TypeOK, DialInv
  <2>4. NoConnectionLeak'
    BY Zenon DEF IInv, TypeOK, DialInv, NoConnectionLeak
  <2> QED BY Zenon, <2>1, <2>2, <2>3, <2>4, OneCall

<1>14. ASSUME NEW g \in Callers, CloseOld(g) PROVE IInv'
  <2> USE <1>14 DEF CloseOld
  <2>1. TypeOK'
    BY Zenon, ShutTypes DEF IInv, TypeOK
  <2>2. ASSUME NEW q \in Callers PROVE CallInv(q)'
    BY Zenon, <2>2, ShutKeeps DEF IInv, TypeOK
  <2>3. ASSUME NEW q \in Callers PROVE DialInv(q)'
    BY Zenon, <2>3 DEF IInv, TypeOK, DialInv
  <2>4. NoConnectionLeak'
    BY DEF IInv, TypeOK, DialInv, NoConnectionLeak, shut
  <2> QED BY Zenon, <2>1, <2>2, <2>3, <2>4 DEF IInv
<1>15. ASSUME NEW c \in Conns, Drop(c) PROVE IInv'
  <2> USE <1>15 DEF Drop
  <2>1. TypeOK'
    BY Zenon, ShutTypes DEF IInv, TypeOK
  <2>2. ASSUME NEW q \in Callers PROVE CallInv(q)'
    BY Zenon, <2>2, ShutKeeps DEF IInv, TypeOK
  <2>3. ASSUME NEW q \in Callers PROVE DialInv(q)'
    BY Zenon, <2>3 DEF IInv, TypeOK, DialInv
  <2>4. NoConnectionLeak'
    BY Zenon DEF IInv, TypeOK, DialInv, NoConnectionLeak, shut
  <2> QED BY Zenon, <2>1, <2>2, <2>3, <2>4 DEF IInv
<1>16. ASSUME Close PROVE IInv'
  <2> USE <1>16 DEF Close
  <2>1. TypeOK'
    BY Zenon, ShutTypes DEF IInv, TypeOK
  <2>2. ASSUME NEW q \in Callers PROVE CallInv(q)'
    BY Zenon, <2>2, ShutKeeps DEF IInv, TypeOK
  <2>3. ASSUME NEW q \in Callers PROVE DialInv(q)'
    BY Zenon, <2>3 DEF IInv, TypeOK, DialInv
  <2>4. NoConnectionLeak'
    BY Zenon DEF IInv, TypeOK, DialInv, NoConnectionLeak, shut
  <2> QED BY Zenon, <2>1, <2>2, <2>3, <2>4 DEF IInv
<1>17. CASE UNCHANGED vars
  BY Zenon, <1>17 DEF vars, call, IInv, TypeOK, CallInv, DialInv, NoConnectionLeak
<1> QED
  BY Zenon, <1>1, <1>2, <1>3, <1>4, <1>5, <1>6, <1>7, <1>8, <1>9, <1>10, <1>11, <1>12, <1>13,
     <1>14, <1>15, <1>16, <1>17 DEF Next, Publishing, Broker

LEMMA PublisherIInv == Spec => []IInv
BY InitIInv, NextIInv, PTL DEF Spec

(***************************************************************************)
(* In confirm mode a Publish that returned nil left exactly one copy of    *)
(* its message at the broker, whatever connections other callers' redials  *)
(* closed under it.                                                        *)
(***************************************************************************)
THEOREM ReportsWhatIsStored == Spec => []StoredAsReported
<1>1. IInv => StoredAsReported
  BY Zenon DEF IInv, CallInv, StoredAsReported, NilMeansStored
<1> QED BY <1>1, PublisherIInv, PTL

(***************************************************************************)
(* Concurrent redials leak no connection: dial closes what it replaced.    *)
(***************************************************************************)
THEOREM RedialsLeakNothing == Spec => []NoConnectionLeak
<1>1. IInv => NoConnectionLeak
  BY Zenon DEF IInv
<1> QED BY <1>1, PublisherIInv, PTL

-----------------------------------------------------------------------------
(***************************************************************************)
(* The end of a service                                                    *)
(***************************************************************************)

DrainTypes ==
  /\ server \in {"serving", "draining", "returned", "stopping", "exited"}
  /\ forced \in BOOLEAN /\ eventsClosed \in BOOLEAN /\ drained \in BOOLEAN
  /\ request \in [HttpReqs -> {"new", "running", "returned", "sent", "over", "panicked"}]
  /\ outcome \in [HttpReqs -> [status : {200, 500}, action : BOOLEAN]]
  /\ events \in Seq(HttpReqs) /\ Len(events) <= QueueSize
  /\ emitting \subseteq HttpReqs
  /\ record \in [HttpReqs -> {"none", "going", "stored", "failed", "lost"}]

(* The channel is closed after Start has returned, drain ends after that,  *)
(* and without force Start returns when nothing is in flight.              *)
StopInv ==
  /\ eventsClosed <=> server \in {"stopping", "exited"}
  /\ drained => eventsClosed /\ events = <<>> /\ emitting = {}
  /\ server = "exited" => drained
  /\ server \in {"returned", "stopping", "exited"} /\ ~forced => InFlight = {}
  /\ refused # {} => forced

(* Every event that was sent is queued, being emitted, or settled. *)
EventInv ==
  \A r \in HttpReqs : request[r] \in {"sent", "over"} =>
    r \in Range(events) \cup emitting \cup emitted \cup failed \cup dropped \cup refused

DrainInv == DrainTypes /\ StopInv /\ EventInv /\ RecordsTrue

LEMMA InitDrain == DrainInit => DrainInv
<1> SUFFICES ASSUME DrainInit PROVE DrainInv
  OBVIOUS
<1>1. forced \in BOOLEAN /\ eventsClosed \in BOOLEAN /\ drained \in BOOLEAN /\ ~eventsClosed /\ ~drained
  BY Zenon DEF DrainInit
<1>2. outcome \in [HttpReqs -> [status : {200, 500}, action : BOOLEAN]]
  BY ZenonT(30) DEF DrainInit
<1>3. DrainTypes
  BY <1>1, <1>2, QueueAssumption DEF DrainInit, DrainTypes
<1>4. StopInv /\ EventInv
  BY Zenon, <1>1 DEF DrainInit, StopInv, EventInv
<1>5. RecordsTrue
  BY Zenon DEF DrainInit, RecordsTrue
<1> QED BY Zenon, <1>3, <1>4, <1>5 DEF DrainInv

LEMMA RangeFacts ==
  ASSUME NEW S, NEW s \in Seq(S), NEW r \in S
  PROVE  /\ Range(Append(s, r)) = Range(s) \cup {r}
         /\ s # <<>> => Head(s) \in S /\ Tail(s) \in Seq(S)
                        /\ Range(s) = Range(Tail(s)) \cup {Head(s)}
<1>0. Len(s) \in Nat /\ DOMAIN s = 1..Len(s)
  OBVIOUS
<1>1. Range(Append(s, r)) = Range(s) \cup {r}
  <2>1. /\ DOMAIN Append(s, r) = 1..Len(s) + 1 /\ Append(s, r)[Len(s) + 1] = r
        /\ \A i \in 1..Len(s) : Append(s, r)[i] = s[i]
    OBVIOUS
  <2>2. Range(s) \cup {r} \subseteq Range(Append(s, r))
    BY <1>0, <2>1 DEF Range
  <2>3. ASSUME NEW i \in 1..Len(s) + 1 PROVE Append(s, r)[i] \in Range(s) \cup {r}
    <3>1. CASE i = Len(s) + 1
      BY Zenon, <2>1, <3>1
    <3>2. CASE i # Len(s) + 1
      <4>1. i \in DOMAIN s /\ Append(s, r)[i] = s[i]
        BY <1>0, <2>1, <3>2
      <4> QED BY Zenon, <4>1 DEF Range
    <3> QED BY Zenon, <3>1, <3>2
  <2>4. Range(Append(s, r)) \subseteq Range(s) \cup {r}
    BY Zenon, <2>1, <2>3 DEF Range
  <2> QED BY Zenon, <2>2, <2>4
<1>2. ASSUME s # <<>>
      PROVE  Head(s) \in S /\ Tail(s) \in Seq(S) /\ Range(s) = Range(Tail(s)) \cup {Head(s)}
  <2>1. Head(s) = s[1] /\ Tail(s) \in Seq(S) /\ Len(s) \in Nat /\ Len(s) >= 1
    BY <1>2
  <2>2. Len(Tail(s)) = Len(s) - 1 /\ \A i \in 1..Len(s) - 1 : Tail(s)[i] = s[i + 1]
    BY <1>2
  <2>3. Range(Tail(s)) \cup {Head(s)} \subseteq Range(s)
    BY <2>1, <2>2 DEF Range
  <2>4. ASSUME NEW i \in 1..Len(s) PROVE s[i] \in Range(Tail(s)) \cup {Head(s)}
    <3>1. CASE i = 1
      BY Zenon, <2>1, <3>1
    <3>2. CASE i # 1
      <4>1. i - 1 \in 1..Len(Tail(s)) /\ Tail(s)[i - 1] = s[i]
        BY <2>1, <2>2, <3>2
      <4>2. i - 1 \in DOMAIN Tail(s)
        BY <2>1, <4>1
      <4> QED BY Zenon, <4>1, <4>2 DEF Range
    <3> QED BY Zenon, <3>1, <3>2
  <2>5. Range(s) \subseteq Range(Tail(s)) \cup {Head(s)}
    BY <2>4 DEF Range
  <2> QED BY <2>1, <2>3, <2>5
<1> QED BY Zenon, <1>1, <1>2

LEMMA DrainStep == DrainInv /\ (DrainNext \/ UNCHANGED drainVars) => DrainInv'
<1> SUFFICES ASSUME DrainInv, DrainNext \/ UNCHANGED drainVars PROVE DrainInv'
  OBVIOUS
<1> USE DEF DrainInv, workerVars
<1>1. ASSUME NEW r \in HttpReqs, Serve(r) PROVE DrainInv'
  <2>1. DrainTypes'
    BY ZenonT(30), <1>1 DEF Serve, DrainTypes
  <2>2. StopInv' /\ EventInv' /\ RecordsTrue'
    BY <1>1 DEF Serve, DrainTypes, StopInv, EventInv, RecordsTrue
  <2> QED BY Zenon, <2>1, <2>2
<1>2. CASE Signal
  <2>1. DrainTypes'
    BY Zenon, <1>2 DEF Signal, DrainTypes
  <2>2. StopInv' /\ EventInv'
    BY Zenon, <1>2 DEF Signal, StopInv, EventInv, InFlight
  <2>3. RecordsTrue'
    BY Zenon, <1>2 DEF Signal, RecordsTrue
  <2> QED BY Zenon, <2>1, <2>2, <2>3
<1>3. CASE ListenFails \/ ShutdownTimeout
  <2>1. forced' \in BOOLEAN /\ forced'
    BY Zenon, <1>3 DEF ListenFails, ShutdownTimeout
  <2>2. /\ server \in {"serving", "draining"} /\ server' = "returned"
        /\ UNCHANGED <<request, outcome, workerVars, record>>
    BY Zenon, <1>3 DEF ListenFails, ShutdownTimeout
  <2>3. DrainTypes' /\ EventInv'
    BY ZenonT(30), <2>1, <2>2 DEF DrainTypes, EventInv
  <2>4. StopInv' /\ RecordsTrue'
    BY Zenon, <2>1, <2>2 DEF StopInv, RecordsTrue
  <2> QED BY Zenon, <2>3, <2>4
<1>4. CASE Drained
  <2>1. DrainTypes'
    BY Zenon, <1>4 DEF Drained, DrainTypes
  <2>2. StopInv' /\ EventInv'
    BY Zenon, <1>4 DEF Drained, StopInv, EventInv, InFlight
  <2>3. RecordsTrue'
    BY Zenon, <1>4 DEF Drained, RecordsTrue
  <2> QED BY Zenon, <2>1, <2>2, <2>3
<1>5. ASSUME NEW r \in HttpReqs, HandlerReturns(r) PROVE DrainInv'
  <2>1. PICK s \in {200, 500}, a \in BOOLEAN :
          outcome' = [outcome EXCEPT ![r] = [status |-> s, action |-> a]]
    BY ZenonT(30), <1>5 DEF HandlerReturns
  <2>2. outcome' \in [HttpReqs -> [status : {200, 500}, action : BOOLEAN]]
    <3>1. [status |-> s, action |-> a] \in [status : {200, 500}, action : BOOLEAN]
      OBVIOUS
    <3>2. outcome \in [HttpReqs -> [status : {200, 500}, action : BOOLEAN]]
      BY Zenon DEF DrainTypes
    <3> QED BY Zenon, <2>1, <3>1, <3>2
  <2>3. \A q \in HttpReqs \ {r} : outcome'[q] = outcome[q]
    BY <2>1 DEF DrainTypes
  <2>4. /\ request[r] = "running" /\ request'[r] = "returned" /\ record[r] = "none"
        /\ \A q \in HttpReqs \ {r} : request'[q] = request[q]
    BY <1>5 DEF HandlerReturns, DrainTypes, RecordsTrue
  <2>5. DrainTypes'
    BY <1>5, <2>2 DEF HandlerReturns, DrainTypes
  <2>6. StopInv' /\ EventInv'
    BY <1>5, <2>4 DEF HandlerReturns, StopInv, EventInv, InFlight
  <2>7. RecordsTrue'
    BY <1>5, <2>3, <2>4 DEF HandlerReturns, RecordsTrue
  <2> QED BY Zenon, <2>5, <2>6, <2>7
<1>6. ASSUME NEW r \in HttpReqs, HandlerPanics(r) PROVE DrainInv'
  <2>1. DrainTypes'
    BY Zenon, <1>6 DEF HandlerPanics, DrainTypes
  <2>2. StopInv' /\ EventInv' /\ RecordsTrue'
    <3>0. request[r] = "running" /\ UNCHANGED <<server, forced, outcome, workerVars, record>>
      BY Zenon, <1>6 DEF HandlerPanics
    <3>1. request'[r] = "panicked" /\ \A q \in HttpReqs \ {r} : request'[q] = request[q]
      BY <1>6 DEF HandlerPanics, DrainTypes
    <3>2. InFlight' \subseteq InFlight
      BY Zenon, <3>0, <3>1 DEF InFlight
    <3>3. StopInv'
      BY Zenon, <3>0, <3>1, <3>2 DEF StopInv
    <3>4. EventInv'
      BY Zenon, <3>0, <3>1 DEF EventInv
    <3>5. RecordsTrue'
      BY Zenon, <3>0, <3>1 DEF RecordsTrue
    <3> QED BY Zenon, <3>3, <3>4, <3>5
  <2> QED BY ZenonT(30), <2>1, <2>2
<1>7. ASSUME NEW r \in HttpReqs, Send(r) PROVE DrainInv'
  <2>1. /\ request[r] = "returned" /\ record[r] = "none"
        /\ request'[r] = IF eventsClosed THEN "over" ELSE "sent"
        /\ \A q \in HttpReqs \ {r} : request'[q] = request[q]
        /\ UNCHANGED <<server, forced, outcome, eventsClosed, emitting, drained, emitted, failed, record>>
    BY <1>7 DEF Send, DrainTypes, RecordsTrue
  <2>2. CASE eventsClosed
    <3>1. events' = events /\ refused' = refused \cup {r} /\ dropped' = dropped
      BY Zenon, <1>7, <2>2 DEF Send
    <3>2. forced
      BY Zenon, <2>1, <2>2 DEF StopInv, InFlight
    <3>3. DrainTypes'
      BY SMTT(30), <1>7, <2>1, <3>1 DEF Send, DrainTypes
    <3>4. StopInv' /\ EventInv'
      BY Zenon, <2>1, <2>2, <3>1, <3>2 DEF StopInv, EventInv
    <3>5. RecordsTrue'
      BY <2>1, <2>2, <3>1 DEF RecordsTrue
    <3> QED BY Zenon, <3>3, <3>4, <3>5
  <2>3. CASE ~eventsClosed
    <3>1. refused' = refused /\ dropped \subseteq dropped'
      BY Zenon, <1>7, <2>3 DEF Send
    <3>2. /\ events' \in Seq(HttpReqs) /\ Len(events') <= QueueSize
          /\ Range(events) \subseteq Range(events') /\ r \in Range(events') \cup dropped'
      <4>1. CASE Len(events) = QueueSize
        BY ZenonT(30), <1>7, <2>3, <4>1 DEF Send, DrainTypes
      <4>2. CASE Len(events) # QueueSize
        <5>1. events' = Append(events, r) /\ Len(events) \in Nat /\ Len(events) < QueueSize
          BY <1>7, <2>3, <4>2, QueueAssumption DEF Send, DrainTypes
        <5>2. Len(Append(events, r)) = Len(events) + 1 /\ Append(events, r) \in Seq(HttpReqs)
          BY DEF DrainTypes
        <5>3. Range(Append(events, r)) = Range(events) \cup {r}
          BY RangeFacts DEF DrainTypes
        <5> QED BY <5>1, <5>2, <5>3, QueueAssumption
      <4> QED BY Zenon, <4>1, <4>2
    <3>3. DrainTypes'
      BY SMTT(30), <1>7, <2>1, <3>2 DEF Send, DrainTypes
    <3>4. EventInv'
      BY Zenon, <2>1, <2>3, <3>1, <3>2 DEF EventInv
    <3>5. StopInv' /\ RecordsTrue'
      BY <2>1, <2>3, <3>1 DEF StopInv, RecordsTrue, InFlight
    <3> QED BY Zenon, <3>3, <3>4, <3>5
  <2> QED BY Zenon, <2>2, <2>3
<1>8. ASSUME NEW r \in HttpReqs, Audited(r) PROVE DrainInv'
  <2>1. /\ request[r] = "sent" /\ request'[r] = "over" /\ record[r] = "none"
        /\ \A q \in HttpReqs \ {r} : request'[q] = request[q] /\ record'[q] = record[q]
        /\ UNCHANGED <<server, forced, outcome, workerVars>>
    BY SMTT(30), <1>8 DEF Audited, DrainTypes, RecordsTrue
  <2>2. record'[r] = IF outcome[r] = [status |-> 200, action |-> TRUE] THEN "going" ELSE "none"
    <3>1. record'[r] = IF outcome[r].action /\ outcome[r].status \in statusesToAudit
                       THEN "going" ELSE "none"
      BY <1>8, <2>1 DEF Audited, DrainTypes
    <3>2. outcome[r] \in [status : {200, 500}, action : BOOLEAN]
      BY DEF DrainTypes
    <3>3. outcome[r].action /\ outcome[r].status \in statusesToAudit
            <=> outcome[r] = [status |-> 200, action |-> TRUE]
      <4>1. outcome[r] = [status |-> outcome[r].status, action |-> outcome[r].action]
        BY Zenon, <3>2
      <4>2. outcome[r].action => outcome[r].action = TRUE
        BY Zenon, <3>2
      <4>3. outcome[r].status \in statusesToAudit => outcome[r].status = 200
        BY <3>2 DEF statusesToAudit
      <4>4. ASSUME outcome[r] = [status |-> 200, action |-> TRUE]
            PROVE  outcome[r].action /\ outcome[r].status = 200
        <5>1. [status |-> 200, action |-> TRUE].action
          BY Zenon
        <5>2. [status |-> 200, action |-> TRUE].status = 200
          OBVIOUS
        <5> QED BY ZenonT(30), <4>4, <5>1, <5>2
      <4>5. 200 \in statusesToAudit
        BY ZenonT(30) DEF statusesToAudit
      <4>6. ASSUME outcome[r].action, outcome[r].status \in statusesToAudit
            PROVE  outcome[r] = [status |-> 200, action |-> TRUE]
        BY Zenon, <4>1, <4>2, <4>3, <4>6
      <4> QED BY Zenon, <4>4, <4>5, <4>6
    <3> QED BY Zenon, <3>1, <3>3
  <2>3. DrainTypes'
    BY SMTT(30), <1>8, <2>1 DEF Audited, DrainTypes
  <2>4. StopInv' /\ EventInv'
    BY Zenon, <2>1 DEF StopInv, EventInv, InFlight
  <2>5. RecordsTrue'
    BY <2>1, <2>2 DEF RecordsTrue
  <2> QED BY ZenonT(30), <2>3, <2>4, <2>5
<1>9. ASSUME NEW r \in HttpReqs, PublishRecord(r) PROVE DrainInv'
  <2>1. DrainTypes'
    BY <1>9 DEF PublishRecord, DrainTypes
  <2>2. StopInv' /\ EventInv'
    BY Zenon, <1>9 DEF PublishRecord, StopInv, EventInv, InFlight
  <2>3. RecordsTrue'
    BY <1>9 DEF PublishRecord, DrainTypes, RecordsTrue
  <2> QED BY ZenonT(30), <2>1, <2>2, <2>3
<1>10. CASE TakeEvent
  <2>1. /\ Head(events) \in HttpReqs /\ Tail(events) \in Seq(HttpReqs)
        /\ Range(events) = Range(Tail(events)) \cup {Head(events)}
    BY <1>10, RangeFacts DEF TakeEvent, DrainTypes
  <2>2. Len(Tail(events)) <= QueueSize
    BY <1>10, QueueAssumption DEF TakeEvent, DrainTypes
  <2>3. DrainTypes' /\ EventInv'
    BY SMTT(30), <1>10, <2>1, <2>2 DEF TakeEvent, DrainTypes, EventInv
  <2>4. StopInv' /\ RecordsTrue'
    BY Zenon, <1>10 DEF TakeEvent, StopInv, RecordsTrue, InFlight
  <2> QED BY ZenonT(30), <2>3, <2>4
<1>11. CASE EmitReturns
  <2>1. DrainTypes' /\ EventInv'
    BY Zenon, <1>11 DEF EmitReturns, DrainTypes, EventInv
  <2>2. StopInv' /\ RecordsTrue'
    BY Zenon, <1>11 DEF EmitReturns, StopInv, RecordsTrue, InFlight
  <2> QED BY ZenonT(30), <2>1, <2>2
<1>12. CASE DrainReturns
  <2>1. drained' \in BOOLEAN
    BY Zenon, <1>12 DEF DrainReturns
  <2>2. DrainTypes'
    BY Zenon, <1>12, <2>1 DEF DrainReturns, DrainTypes
  <2>3. StopInv' /\ EventInv'
    BY Zenon, <1>12, <2>1 DEF DrainReturns, StopInv, EventInv, InFlight
  <2>4. RecordsTrue'
    BY Zenon, <1>12 DEF DrainReturns, RecordsTrue
  <2> QED BY Zenon, <2>2, <2>3, <2>4
<1>13. CASE StopWorker
  <2>1. eventsClosed' \in BOOLEAN /\ eventsClosed'
    BY Zenon, <1>13 DEF StopWorker
  <2>2. DrainTypes'
    BY Zenon, <1>13, <2>1 DEF StopWorker, DrainTypes
  <2>3. StopInv' /\ EventInv'
    BY Zenon, <1>13, <2>1 DEF StopWorker, StopInv, EventInv, InFlight
  <2>4. RecordsTrue'
    BY Zenon, <1>13 DEF StopWorker, RecordsTrue
  <2> QED BY Zenon, <2>2, <2>3, <2>4
<1>14. CASE Exit
  <2>1. DrainTypes'
    BY Zenon, <1>14 DEF Exit, DrainTypes
  <2>2. StopInv' /\ EventInv'
    BY Zenon, <1>14 DEF Exit, StopInv, EventInv, InFlight
  <2>3. RecordsTrue'
    BY SMTT(30), <1>14 DEF Exit, DrainTypes, RecordsTrue
  <2> QED BY Zenon, <2>1, <2>2, <2>3
<1>15. CASE UNCHANGED drainVars
  <2>1. DrainTypes'
    BY Zenon, <1>15 DEF drainVars, DrainTypes
  <2>2. StopInv' /\ EventInv'
    BY Zenon, <1>15 DEF drainVars, StopInv, EventInv, InFlight
  <2>3. RecordsTrue'
    BY Zenon, <1>15 DEF drainVars, RecordsTrue
  <2> QED BY Zenon, <2>1, <2>2, <2>3
<1> QED
  BY Zenon, <1>1, <1>2, <1>3, <1>4, <1>5, <1>6, <1>7, <1>8, <1>9, <1>10, <1>11, <1>12, <1>13, <1>14,
     <1>15 DEF DrainNext, Wind

LEMMA DrainInvGives == DrainInv => DrainContract
<1> SUFFICES ASSUME DrainInv PROVE DrainContract
  OBVIOUS
<1>1. Range(events) \subseteq HttpReqs
  BY DEF DrainInv, DrainTypes, Range
<1>2. DrainTypeOK
  BY ZenonT(30), <1>1 DEF DrainInv, DrainTypes, DrainTypeOK
<1>3. EventsAccountedFor
  <2>1. ASSUME server = "exited" PROVE events = <<>> /\ emitting = {}
    BY Zenon, <2>1 DEF DrainInv, StopInv
  <2>2. Range(<<>>) = {}
    BY DEF Range
  <2> QED BY Zenon, <2>1, <2>2 DEF DrainInv, EventInv, EventsAccountedFor
<1>4. SendPanicsOnlyWhenForced
  BY Zenon DEF DrainInv, StopInv, SendPanicsOnlyWhenForced
<1> QED BY Zenon, <1>2, <1>3, <1>4 DEF DrainInv, DrainContract

(***************************************************************************)
(* For any number of requests and any queue: when Stop returns every audit *)
(* event is emitted, failed, dropped or refused, Send meets the closed     *)
(* channel only after a forced shutdown, and audit records say the truth.  *)
(***************************************************************************)
THEOREM DrainKept == DrainSpec => []DrainContract
<1>1. DrainInv /\ [DrainNext]_drainVars => DrainInv'
  BY Zenon, DrainStep
<1> QED BY <1>1, InitDrain, DrainInvGives, PTL DEF DrainSpec

-----------------------------------------------------------------------------
(***************************************************************************)
(* Index sync.  Of the batches the source has yielded, all but the one in  *)
(* the current request are answered.  Up to an answered batch, the last    *)
(* place of a document in the source decides what the index or the report  *)
(* has; while a request is under way this is kept for the documents that   *)
(* are not in it.                                                          *)
(***************************************************************************)
Has(d, b, i) == b \in 1..Len(whole) /\ i \in 1..Len(whole[b]) /\ whole[b][i].id = d

LastUpTo(d, k, b, i) ==
  /\ Has(d, b, i) /\ b <= k
  /\ \A c, j \in Nat : Has(d, c, j) /\ c <= k => c < b \/ (c = b /\ j <= i)

Told(d, body) == IF body = "bad" THEN d \in report.errors ELSE inIndex[d] = body

SyncedTo(d, k) == \A b, i \in Nat : LastUpTo(d, k, b, i) => Told(d, whole[b][i].body)

Yielded == Len(whole) - Len(src)

unnamed(S) == {o \in S : o.id = NoId /\ o.body # "bad"}

SourceInv ==
  /\ whole \in Seq(Seq(SourceDocs)) /\ src \in Seq(Seq(SourceDocs)) /\ Len(src) <= Len(whole)
  /\ \A i \in 1..Len(src) : src[i] = whole[Yielded + i]

SyncData ==
  /\ spc \in {"waiting", "next", "bulk", "stopped"} /\ finished \in {"none", "nil", "error", "panic"}
  /\ tries \in 0..MaxBulkAttempts /\ syncs \in 0..MaxSyncs
  /\ inIndex \in [DocIds -> {"none", "v1", "v2"}]
  /\ report.errors \subseteq DocIds \cup {NoId}

IndexInv ==
  /\ spc = "next" => finished = "none" /\ \A d \in DocIds : SyncedTo(d, Yielded)
  /\ spc = "bulk" => /\ finished = "none" /\ Yielded >= 1 /\ ops = opsOf(whole[Yielded]) /\ tries >= 1
                     /\ \A d \in DocIds : (\A o \in ops : o.id # d) => SyncedTo(d, Yielded - 1)
  /\ finished = "nil" => \A d \in DocIds : SyncedTo(d, Len(whole))

CopiesInv ==
  /\ assigned \in Nat /\ offered \in Nat
  /\ ~lostReply => assigned + (IF spc = "bulk" THEN Cardinality(unnamed(ops)) ELSE 0) <= offered

SyncInv == SourceInv /\ SyncData /\ IndexInv /\ CopiesInv

LEMMA LeastNatural ==
  ASSUME NEW T, T \subseteq Nat, T # {}
  PROVE  \E x \in T : \A y \in T : x <= y
<1>1. PICK x \in T : \A y \in T : ~ (<<y, x>> \in OpToRel(<, Nat))
  BY Zenon, NatLessThanWellFounded, WFMin
<1>2. ASSUME NEW y \in T PROVE x <= y
  <2>1. y < x => <<y, x>> \in OpToRel(<, Nat)
    BY Zenon, x \in Nat, y \in Nat DEF OpToRel
  <2>2. ~(<<y, x>> \in OpToRel(<, Nat))
    BY Zenon, <1>1
  <2>3. ~(y < x)
    BY Zenon, <2>1, <2>2
  <2> QED BY <2>3
<1> QED BY Zenon, <1>1, <1>2

LEMMA GreatestUpTo ==
  ASSUME NEW n \in Nat, NEW T, T \subseteq 0..n, T # {}
  PROVE  \E x \in T : \A y \in T : y <= x
<1> DEFINE U == {n - y : y \in T}
<1>1. U \subseteq Nat /\ U # {}
  <2>1. \A y \in T : n - y \in Nat
    OBVIOUS
  <2>2. U # {}
    BY Zenon
  <2> QED BY Zenon, <2>1, <2>2
<1>2. PICK u \in U : \A v \in U : u <= v
  BY Zenon, <1>1, LeastNatural
<1>3. PICK x \in T : u = n - x
  BY Zenon, <1>2
<1>4. \A y \in T : n - x <= n - y
  BY Zenon, <1>2, <1>3
<1> QED BY <1>4

LEMMA PlacesAre ==
  ASSUME SourceInv, NEW d
  PROVE  \A p : p \in places(d) <=> \E b, i \in Nat : p = <<b, i>> /\ Has(d, b, i)
<1>1. DOMAIN whole = 1..Len(whole) /\ \A b \in 1..Len(whole) : DOMAIN whole[b] = 1..Len(whole[b])
  BY DEF SourceInv
<1>2. ASSUME NEW p
      PROVE  p \in places(d) <=>
               \E b \in 1..Len(whole) : \E i \in 1..Len(whole[b]) : p = <<b, i>> /\ whole[b][i].id = d
  BY <1>1 DEF places
<1>3. 1..Len(whole) \subseteq Nat /\ \A b \in 1..Len(whole) : 1..Len(whole[b]) \subseteq Nat
  BY DEF SourceInv
<1> QED BY Zenon, <1>2, <1>3 DEF Has

(* A document that is in the source has a last place there. *)
LEMMA LastExists ==
  ASSUME SourceInv, NEW d, places(d) # {}
  PROVE  \E x \in places(d) : \A y \in places(d) : notBefore(x, y)
<1> DEFINE B == {b \in 1..Len(whole) : \E i \in Nat : Has(d, b, i)}
<1>1. B # {}
  BY Zenon, PlacesAre DEF Has
<1>2. PICK b \in B : \A c \in B : c <= b
  <2>1. Len(whole) \in Nat /\ B \subseteq 0..Len(whole)
    BY DEF SourceInv
  <2> QED BY Zenon, <1>1, <2>1, GreatestUpTo
<1> DEFINE I == {i \in 1..Len(whole[b]) : Has(d, b, i)}
<1>3. I # {} /\ Len(whole[b]) \in Nat
  <2>1. PICK i \in Nat : Has(d, b, i)
    BY Zenon, <1>2
  <2>2. i \in I
    BY Zenon, <2>1 DEF Has
  <2>3. whole[b] \in Seq(SourceDocs)
    BY <1>2 DEF SourceInv
  <2> QED BY <2>2, <2>3
<1>4. PICK i \in I : \A j \in I : j <= i
  <2>1. I \subseteq 0..Len(whole[b])
    BY <1>3
  <2> QED BY Zenon, <1>3, <2>1, GreatestUpTo
<1>5. <<b, i>> \in places(d)
  BY <1>2, <1>3, <1>4, PlacesAre
<1>6. ASSUME NEW y \in places(d) PROVE notBefore(<<b, i>>, y)
  <2>1. PICK c, j \in Nat : y = <<c, j>> /\ Has(d, c, j)
    BY Zenon, PlacesAre
  <2>2. c \in B /\ (c = b => j \in I)
    BY Zenon, <2>1 DEF Has
  <2>3. c <= b /\ (c = b => j <= i)
    BY Zenon, <1>2, <1>4, <2>2
  <2> QED BY <1>2, <1>3, <1>4, <2>1, <2>3 DEF notBefore
<1> QED BY Zenon, <1>5, <1>6

LEMMA YieldedBatch ==
  ASSUME SourceInv, Yielded >= 1
  PROVE  Yielded \in 1..Len(whole) /\ whole[Yielded] \in Seq(SourceDocs)
BY DEF SourceInv, Yielded

LEMMA FreshCount ==
  ASSUME NEW batch \in Seq(SourceDocs)
  PROVE  Cardinality(unnamed(opsOf(batch))) \in Nat
<1> DEFINE sent == {j \in DOMAIN batch : batch[j].id = NoId \/ \A k \in (j + 1)..Len(batch) : batch[k].id # batch[j].id}
           op(i) == [n |-> i, id |-> batch[i].id, body |-> batch[i].body]
           f == [i \in sent |-> op(i)]
<1>1. IsFiniteSet(sent)
  <2>1. IsFiniteSet(1..Len(batch)) /\ sent \in SUBSET (1..Len(batch))
    BY FS_Interval
  <2> QED BY Zenon, <2>1, FS_Subset
<1>2. opsOf(batch) = {op(i) : i \in sent}
  BY Zenon DEF opsOf
<1> HIDE DEF sent
<1>3. f \in Surjection(sent, opsOf(batch))
  BY Zenon, <1>2 DEF Surjection
<1>4. IsFiniteSet(opsOf(batch))
  BY Zenon, <1>1, <1>3, FS_Surjection
<1>5. IsFiniteSet(unnamed(opsOf(batch)))
  BY Zenon, <1>4, FS_Subset DEF unnamed
<1> QED BY Zenon, <1>5, FS_CardinalityType

LEMMA SyncInvGives == SyncInv => SyncContract
<1> SUFFICES ASSUME SyncInv PROVE SyncContract
  OBVIOUS
<1>1. SyncTypeOK
  BY Zenon DEF SyncInv, SyncData, SyncTypeOK
<1>2. ASSUME finished = "nil", NEW d \in DocIds, places(d) # {}
      PROVE  Told(d, LastOf(d)) /\ LastOf(d) \in {"v1", "v2", "bad"}
  <2> DEFINE p == CHOOSE x \in places(d) : \A y \in places(d) : notBefore(x, y)
  <2>1. p \in places(d) /\ \A y \in places(d) : notBefore(p, y)
    BY Zenon, <1>2, LastExists DEF SyncInv
  <2>2. LastOf(d) = whole[p[1]][p[2]].body
    BY Zenon, <1>2 DEF LastOf
  <2> HIDE DEF p
  <2>3. PICK b, i \in Nat : p = <<b, i>> /\ Has(d, b, i)
    BY Zenon, <2>1, PlacesAre DEF SyncInv
  <2>4. ASSUME NEW c \in Nat, NEW j \in Nat, Has(d, c, j) PROVE c < b \/ (c = b /\ j <= i)
    <3>1. notBefore(p, <<c, j>>)
      BY Zenon, <2>1, <2>4, PlacesAre DEF SyncInv
    <3> QED BY Zenon, <2>3, <3>1 DEF notBefore
  <2>5. LastUpTo(d, Len(whole), b, i)
    <3>1. Len(whole) \in Nat
      BY DEF SyncInv, SourceInv
    <3>2. b \in 1..Len(whole)
      BY Zenon, <2>3 DEF Has
    <3>3. b <= Len(whole)
      BY <3>1, <3>2
    <3> QED BY Zenon, <2>3, <2>4, <3>3 DEF LastUpTo
  <2>6. Told(d, whole[b][i].body)
    BY Zenon, <1>2, <2>3, <2>5 DEF SyncInv, IndexInv, SyncedTo
  <2>7. whole[b][i] \in SourceDocs
    BY <2>3 DEF Has, SyncInv, SourceInv
  <2> QED BY Zenon, <2>2, <2>3, <2>6, <2>7 DEF SourceDocs
<1>3. SyncedOrReported
  <2> SUFFICES ASSUME finished = "nil", NEW d \in DocIds
               PROVE  /\ LastOf(d) = "bad" => d \in report.errors
                      /\ LastOf(d) \notin {"none", "bad"} => inIndex[d] = LastOf(d)
    BY Zenon DEF SyncedOrReported
  <2>1. CASE places(d) = {}
    BY Zenon, <2>1 DEF LastOf
  <2>2. CASE places(d) # {}
    BY Zenon, <1>2, <2>2 DEF Told
  <2> QED BY Zenon, <2>1, <2>2
<1>4. DuplicatesOnlyAfterLostReply
  <2>1. spc = "bulk" => Cardinality(unnamed(ops)) \in Nat
    BY Zenon, YieldedBatch, FreshCount DEF SyncInv, IndexInv
  <2> QED BY <2>1 DEF SyncInv, CopiesInv, DuplicatesOnlyAfterLostReply
<1> QED BY Zenon, <1>1, <1>3, <1>4 DEF SyncContract

LEMMA InitSync == SyncInit => SyncInv
<1> SUFFICES ASSUME SyncInit PROVE SyncInv
  OBVIOUS
<1>1. SourceInv
  BY DEF SyncInit, SourceInv, Yielded
<1>2. SyncData
  BY SyncAssumption DEF SyncInit, SyncData, NoReport
<1>3. IndexInv /\ CopiesInv
  BY DEF SyncInit, IndexInv, CopiesInv
<1> QED BY Zenon, <1>1, <1>2, <1>3 DEF SyncInv

(* What is told of a document stays told while its index entry stays and   *)
(* the report grows.                                                       *)
LEMMA StaysSynced ==
  ASSUME NEW d \in DocIds, NEW k \in Nat, SyncedTo(d, k), UNCHANGED whole,
         inIndex'[d] = inIndex[d], report.errors \subseteq report'.errors
  PROVE  SyncedTo(d, k)'
BY DEF SyncedTo, LastUpTo, Has, Told

(* A batch that does not have the document does not change its last place. *)
LEMMA NotInBatch ==
  ASSUME SourceInv, NEW d \in DocIds, NEW k \in Nat, SyncedTo(d, k),
         \A i \in Nat : ~LastUpTo(d, k + 1, k + 1, i)
  PROVE  SyncedTo(d, k + 1)
<1> SUFFICES ASSUME NEW b \in Nat, NEW i \in Nat, LastUpTo(d, k + 1, b, i)
             PROVE  Told(d, whole[b][i].body)
  BY Zenon DEF SyncedTo
<1>1. b <= k
  BY DEF LastUpTo
<1>2. LastUpTo(d, k, b, i)
  BY <1>1 DEF LastUpTo
<1> QED BY Zenon, <1>2 DEF SyncedTo

LEMMA RunOnceKeeps == ASSUME SyncInv, RunOnce PROVE SyncInv'
<1>1. SourceInv'
  BY SyncAssumption DEF RunOnce, SourceInv, Yielded
<1>2. SyncData'
  BY SyncAssumption DEF RunOnce, SyncInv, SyncData, NoReport
<1>3. IndexInv'
  <2>1. Yielded' = 0
    BY <1>1 DEF RunOnce, Yielded, SourceInv
  <2>2. \A d \in DocIds : SyncedTo(d, 0)'
    BY <1>1 DEF SyncedTo, LastUpTo, Has, SourceInv
  <2> QED BY Zenon, <2>1, <2>2 DEF RunOnce, IndexInv
<1>4. CopiesInv'
  BY Zenon DEF RunOnce, SyncInv, CopiesInv
<1> QED BY Zenon, <1>1, <1>2, <1>3, <1>4 DEF SyncInv

(* A run that ends other than with nil *)
LEMMA EndKeeps ==
  ASSUME SyncInv, UNCHANGED <<src, whole, report, syncs>>,
         spc' \in {"waiting", "stopped"}, finished' \in {"none", "error", "panic"},
         SyncData', CopiesInv'
  PROVE  SyncInv'
<1>1. SourceInv'
  BY Zenon DEF SyncInv, SourceInv, Yielded
<1>2. IndexInv'
  BY Zenon DEF IndexInv
<1> QED BY Zenon, <1>1, <1>2 DEF SyncInv

LEMMA StopSyncsKeeps == ASSUME SyncInv, StopSyncs PROVE SyncInv'
<1>1. SourceInv' /\ SyncData'
  BY Zenon DEF StopSyncs, SyncInv, SourceInv, SyncData, Yielded
<1>2. IndexInv'
  BY DEF StopSyncs, SyncInv, IndexInv, SyncedTo, LastUpTo, Has, Told
<1>3. CopiesInv'
  BY Zenon DEF StopSyncs, SyncInv, CopiesInv
<1> QED BY Zenon, <1>1, <1>2, <1>3 DEF SyncInv

LEMMA NextBatchKeeps == ASSUME SyncInv, NEW cancelled \in BOOLEAN, NextBatch(cancelled) PROVE SyncInv'
<1>1. /\ spc = "next" /\ UNCHANGED <<whole, report, inIndex, assigned, lostReply, syncs>>
      /\ SourceInv /\ SyncData /\ IndexInv /\ CopiesInv
  BY Zenon DEF NextBatch, SyncInv
<1>2. CASE \E how \in {"error", "panic"} : endRun(how) /\ UNCHANGED <<src, ops, tries, offered>>
  <2>1. SyncData' /\ CopiesInv'
    BY Zenon, <1>1, <1>2 DEF endRun, SyncData, CopiesInv
  <2> QED BY Zenon, <1>1, <1>2, <2>1, EndKeeps DEF endRun
<1>3. CASE src = <<>> /\ endRun("nil") /\ UNCHANGED <<src, ops, tries, offered>>
  <2>1. SourceInv' /\ SyncData' /\ CopiesInv'
    BY Zenon, <1>1, <1>3 DEF endRun, SourceInv, SyncData, CopiesInv, Yielded
  <2>2. Yielded = Len(whole) /\ Yielded \in Nat
    <3>1. Len(whole) \in Nat /\ Len(src) = 0
      BY <1>1, <1>3 DEF SourceInv
    <3> QED BY <3>1 DEF Yielded
  <2>3. \A d \in DocIds : SyncedTo(d, Len(whole))'
    <3>1. \A d \in DocIds : SyncedTo(d, Len(whole))
      BY Zenon, <1>1, <2>2 DEF IndexInv
    <3>2. whole' = whole /\ report' = report /\ inIndex' = inIndex
      BY Zenon, <1>1
    <3> QED BY ZenonT(30), <3>1, <3>2 DEF SyncedTo, LastUpTo, Has, Told
  <2>4. IndexInv'
    BY Zenon, <1>3, <2>3 DEF endRun, IndexInv
  <2> QED BY Zenon, <2>1, <2>4 DEF SyncInv
<1>4. CASE /\ src # <<>> /\ src' = Tail(src) /\ ops' = opsOf(Head(src))
           /\ offered' = offered + Cardinality(unnamed(opsOf(Head(src)))) /\ tries' = 1
           /\ spc' = (IF Head(src) = <<>> THEN "next" ELSE "bulk") /\ UNCHANGED finished
  <2> DEFINE batch == Head(src)
  <2>0. PICK k \in Nat : k = Yielded
    <3>1. Yielded \in Nat
      BY <1>1 DEF SourceInv, Yielded
    <3> QED BY Zenon, <3>1
  <2>1. /\ k \in Nat /\ Yielded' = k + 1 /\ k + 1 \in 1..Len(whole) /\ batch = whole[k + 1] /\ batch \in Seq(SourceDocs)
        /\ SourceInv'
    <3>1. /\ src \in Seq(Seq(SourceDocs)) /\ whole \in Seq(Seq(SourceDocs)) /\ Len(src) \in Nat /\ Len(src) >= 1
          /\ Len(Tail(src)) = Len(src) - 1 /\ Tail(src) \in Seq(Seq(SourceDocs)) /\ Head(src) = src[1]
          /\ \A i \in 1..Len(Tail(src)) : Tail(src)[i] = src[i + 1]
      BY <1>1, <1>4 DEF SourceInv
    <3>2. k \in Nat /\ Yielded' = k + 1 /\ k + 1 \in 1..Len(whole)
      <4>1. Len(whole) \in Nat /\ Len(src) <= Len(whole) /\ whole' = whole /\ src' = Tail(src)
        BY <1>1, <1>4 DEF SourceInv
      <4> QED BY <2>0, <3>1, <4>1 DEF Yielded
    <3>3. batch = whole[k + 1] /\ batch \in Seq(SourceDocs)
      <4>1. 1 \in 1..Len(src) /\ src[1] = whole[k + 1]
        BY <1>1, <2>0, <3>1 DEF SourceInv
      <4>2. whole[k + 1] \in Seq(SourceDocs)
        BY <3>1, <3>2
      <4> QED BY Zenon, <2>0, <3>1, <4>1, <4>2
    <3>4. ASSUME NEW i \in 1..Len(Tail(src)) PROVE Tail(src)[i] = whole[k + 1 + i]
      <4>1. i + 1 \in 1..Len(src) /\ k + (i + 1) = k + 1 + i
        BY <3>1, <3>2
      <4> QED BY Zenon, <1>1, <2>0, <3>1, <4>1 DEF SourceInv
    <3>5. SourceInv'
      BY <1>1, <1>4, <3>1, <3>2, <3>4 DEF SourceInv
    <3> QED BY Zenon, <3>2, <3>3, <3>5
  <2>2. SyncData'
    BY <1>1, <1>4, SyncAssumption DEF SyncData
  <2>3. CopiesInv'
    <3>1. Cardinality(unnamed(opsOf(batch))) \in Nat
      BY Zenon, <2>1, FreshCount
    <3> HIDE DEF batch
    <3>2. unnamed(ops)' = unnamed(opsOf(batch))
      BY Zenon, <1>4 DEF unnamed, batch
    <3>3. offered' = offered + Cardinality(unnamed(opsOf(batch)))
      BY Zenon, <1>4 DEF batch
    <3> QED BY <1>1, <3>1, <3>2, <3>3 DEF CopiesInv
  <2>4. \A d \in DocIds : SyncedTo(d, k)'
    BY Zenon, <1>1, <2>0, <2>1, StaysSynced DEF IndexInv, SyncData
  <2>5. CASE batch = <<>>
    <3>1. ASSUME NEW d \in DocIds PROVE SyncedTo(d, k + 1)'
      <4>1. \A i \in Nat : ~Has(d, k + 1, i)
        BY <2>1, <2>5 DEF Has
      <4>2. \A i \in Nat : ~LastUpTo(d, k + 1, k + 1, i)
        BY Zenon, <4>1 DEF LastUpTo
      <4>3. SyncedTo(d, k + 1)
        BY Zenon, <1>1, <2>0, <4>2, NotInBatch DEF IndexInv
      <4> QED BY <1>1, <4>3, k + 1 \in Nat, StaysSynced
    <3>2. IndexInv'
      BY Zenon, <1>1, <1>4, <2>1, <2>5, <3>1 DEF IndexInv
    <3> QED BY Zenon, <2>1, <2>2, <2>3, <3>2 DEF SyncInv
  <2>6. CASE batch # <<>>
    <3>1. ops' = opsOf(whole[k + 1])' /\ spc' = "bulk" /\ finished' = "none" /\ tries' = 1
      BY Zenon, <1>1, <1>4, <2>1, <2>6 DEF IndexInv, opsOf
    <3>2. IndexInv'
      BY <2>1, <2>4, <3>1 DEF IndexInv
    <3> QED BY ZenonT(30), <2>1, <2>2, <2>3, <3>2 DEF SyncInv
  <2> QED BY Zenon, <2>5, <2>6
<1> QED BY Zenon, <1>2, <1>3, <1>4 DEF NextBatch, unnamed

(* The operations of a batch: the last place of an id is sent, and no      *)
(* other with that id.                                                     *)
LEMMA OpsAre ==
  ASSUME NEW batch \in Seq(SourceDocs), NEW o
  PROVE  o \in opsOf(batch) <=>
           \E i \in 1..Len(batch) :
             /\ o = [n |-> i, id |-> batch[i].id, body |-> batch[i].body]
             /\ batch[i].id = NoId \/ \A j \in (i + 1)..Len(batch) : batch[j].id # batch[i].id
<1>1. DOMAIN batch = 1..Len(batch)
  OBVIOUS
<1> QED BY Zenon, <1>1 DEF opsOf

(* The attempt that is applied: the index has the last body of each id of  *)
(* the request, unless the mapping refused it, and is otherwise unchanged. *)
LEMMA AppliedGives ==
  ASSUME SyncInv, spc = "bulk", applied, NEW d \in DocIds
  PROVE  /\ inIndex' \in [DocIds -> {"none", "v1", "v2"}]
         /\ (\A o \in ops : o.id # d) => inIndex'[d] = inIndex[d]
         /\ \A o \in ops : o.id = d /\ o.body # "bad" => inIndex'[d] = o.body
<1> DEFINE mine(e) == {o \in ops : o.id = e /\ o.body # "bad"}
<1>1. inIndex' = [e \in DocIds |-> IF mine(e) = {} THEN inIndex[e] ELSE (CHOOSE o \in mine(e) : TRUE).body]
  BY Zenon DEF applied
<1>2. PICK batch \in Seq(SourceDocs) : ops = opsOf(batch)
  BY Zenon, YieldedBatch DEF SyncInv, IndexInv
<1>3. ASSUME NEW o \in ops PROVE o.body \in {"v1", "v2", "bad"}
  <2>1. PICK i \in 1..Len(batch) : o = [n |-> i, id |-> batch[i].id, body |-> batch[i].body]
    BY <1>2, <1>3, OpsAre
  <2>2. batch[i] \in SourceDocs
    BY <1>2, <2>1
  <2> QED BY Zenon, <2>1, <2>2 DEF SourceDocs
<1>4. ASSUME NEW e \in DocIds, NEW o \in mine(e), NEW q \in mine(e) PROVE o = q
  <2>1. PICK i \in 1..Len(batch) : /\ o = [n |-> i, id |-> batch[i].id, body |-> batch[i].body]
                                   /\ batch[i].id = NoId \/ \A j \in (i + 1)..Len(batch) : batch[j].id # batch[i].id
    BY Zenon, <1>2, <1>4, OpsAre
  <2>2. PICK j \in 1..Len(batch) : /\ q = [n |-> j, id |-> batch[j].id, body |-> batch[j].body]
                                   /\ batch[j].id = NoId \/ \A m \in (j + 1)..Len(batch) : batch[m].id # batch[j].id
    BY Zenon, <1>2, <1>4, OpsAre
  <2>3. batch[i].id = e /\ batch[j].id = e /\ e # NoId
    BY Zenon, <1>4, <2>1, <2>2, SyncAssumption
  <2>4. ~(i < j) /\ ~(j < i)
    <3>1. \A a, b, m \in Nat : b \in 1..m /\ a < b => b \in (a + 1)..m
      OBVIOUS
    <3>2. Len(batch) \in Nat /\ i \in Nat /\ j \in Nat
      BY <1>2
    <3> QED BY Zenon, <2>1, <2>2, <2>3, <3>1, <3>2
  <2>5. i = j
    <3>1. i \in Nat /\ j \in Nat
      BY <1>2
    <3> QED BY <2>4, <3>1
  <2> QED BY Zenon, <2>1, <2>2, <2>5
<1>5. ASSUME NEW e \in DocIds, mine(e) # {}
      PROVE  inIndex'[e] \in {"v1", "v2"} /\ \A o \in mine(e) : inIndex'[e] = o.body
  <2> DEFINE q == CHOOSE o \in mine(e) : TRUE
  <2>1. q \in mine(e)
    BY Zenon, <1>5
  <2>2. inIndex'[e] = q.body
    BY Zenon, <1>1, <1>5
  <2> HIDE DEF q
  <2>3. q.body \in {"v1", "v2"}
    BY Zenon, <1>3, <2>1
  <2>4. \A o \in mine(e) : o = q
    BY Zenon, <1>4, <2>1
  <2> QED BY Zenon, <2>2, <2>3, <2>4
<1>6. ASSUME NEW e \in DocIds, mine(e) = {} PROVE inIndex'[e] = inIndex[e]
  BY Zenon, <1>1, <1>6
<1>7. inIndex' \in [DocIds -> {"none", "v1", "v2"}]
  <2>1. \A e \in DocIds : inIndex[e] \in {"none", "v1", "v2"}
    BY Zenon DEF SyncInv, SyncData
  <2>2. \A e \in DocIds : inIndex'[e] \in {"none", "v1", "v2"}
    BY Zenon, <1>5, <1>6, <2>1
  <2> HIDE DEF mine
  <2>3. inIndex' = [e \in DocIds |-> inIndex'[e]]
    BY <1>1
  <2> QED BY Zenon, <2>2, <2>3
<1>8. (\A o \in ops : o.id # d) => mine(d) = {}
  OBVIOUS
<1>9. \A o \in ops : o.id = d /\ o.body # "bad" => o \in mine(d)
  OBVIOUS
<1> QED BY ZenonT(30), <1>5, <1>6, <1>7, <1>8, <1>9

(* The last place of a document up to the batch of the request is either   *)
(* in that batch, and then an operation of the request, or before it.      *)
LEMMA LastIsSent ==
  ASSUME SyncInv, spc = "bulk", NEW d \in DocIds, NEW b \in Nat, NEW i \in Nat,
         LastUpTo(d, Yielded, b, i)
  PROVE  \/ \E o \in ops : o.id = d /\ o.body = whole[b][i].body
         \/ (\A o \in ops : o.id # d) /\ LastUpTo(d, Yielded - 1, b, i)
<1> DEFINE k == Yielded
           batch == whole[k]
<1>1. k \in 1..Len(whole) /\ Len(whole) \in Nat /\ batch \in Seq(SourceDocs) /\ ops = opsOf(batch) /\ Len(batch) \in Nat
  <2>1. SourceInv /\ Yielded >= 1 /\ ops = opsOf(whole[Yielded])
    BY Zenon DEF SyncInv, IndexInv
  <2>2. k \in 1..Len(whole) /\ batch \in Seq(SourceDocs)
    BY Zenon, <2>1, YieldedBatch
  <2>3. Len(whole) \in Nat /\ Len(batch) \in Nat
    BY <2>1, <2>2 DEF SourceInv
  <2> QED BY Zenon, <2>1, <2>2, <2>3
<1>2. /\ Has(d, b, i) /\ b <= k
      /\ \A c, j \in Nat : Has(d, c, j) /\ c <= k => c < b \/ (c = b /\ j <= i)
  BY Zenon DEF LastUpTo
<1> HIDE DEF k
<1>3. CASE b = k
  <2>1. i \in 1..Len(batch) /\ batch[i].id = d
    BY Zenon, <1>2, <1>3 DEF Has
  <2>2. ASSUME NEW j \in (i + 1)..Len(batch) PROVE batch[j].id # d
    <3>1. j \in Nat /\ ~(j <= i) /\ j \in 1..Len(batch)
      BY <1>1, <2>1
    <3>2. batch[j].id = d => Has(d, k, j)
      BY Zenon, <1>1, <3>1 DEF Has
    <3> QED BY <1>1, <1>2, <1>3, <3>1, <3>2
  <2>3. [n |-> i, id |-> batch[i].id, body |-> batch[i].body] \in ops
    BY <1>1, <2>1, <2>2, OpsAre
  <2> QED BY Zenon, <1>3, <2>1, <2>3
<1>4. CASE b # k
  <2>1. ASSUME NEW o \in ops, o.id = d PROVE FALSE
    <3>1. PICK j \in 1..Len(batch) : o = [n |-> j, id |-> batch[j].id, body |-> batch[j].body]
      BY <1>1, <2>1, OpsAre
    <3>2. Has(d, k, j) /\ j \in Nat /\ k \in Nat
      BY <1>1, <2>1, <3>1 DEF Has
    <3> QED BY <1>2, <1>4, <3>2
  <2>2. LastUpTo(d, k - 1, b, i)
    BY <1>1, <1>2, <1>4 DEF LastUpTo
  <2> QED BY Zenon, <2>1, <2>2 DEF k
<1> QED BY Zenon, <1>3, <1>4

LEMMA BulkDoKeeps == ASSUME SyncInv, BulkDo PROVE SyncInv'
<1>1. /\ spc = "bulk" /\ UNCHANGED <<src, whole, ops, offered, syncs>>
      /\ SourceInv /\ SyncData /\ IndexInv /\ CopiesInv
  BY Zenon DEF BulkDo, SyncInv
<1>2. SourceInv' /\ UNCHANGED Yielded
  BY Zenon, <1>1 DEF SourceInv, Yielded
<1>3. /\ Yielded \in Nat /\ Yielded - 1 \in Nat /\ Cardinality(unnamed(ops)) \in Nat
      /\ finished = "none" /\ tries >= 1
  <2>1. Yielded \in 1..Len(whole) /\ whole[Yielded] \in Seq(SourceDocs)
    BY Zenon, <1>1, YieldedBatch DEF IndexInv
  <2>2. Cardinality(unnamed(ops)) \in Nat
    BY Zenon, <1>1, <2>1, FreshCount DEF IndexInv
  <2> QED BY <1>1, <2>1, <2>2 DEF IndexInv
<1>4. ASSUME applied
      PROVE  /\ inIndex' \in [DocIds -> {"none", "v1", "v2"}]
             /\ assigned' = assigned + Cardinality(unnamed(ops))
  <2>1. assigned' = assigned + Cardinality(unnamed(ops))
    BY Zenon, <1>4 DEF applied, unnamed
  <2>2. CASE DocIds = {}
    <3> DEFINE new(d) == LET mine == {o \in ops : o.id = d /\ o.body # "bad"}
                         IN IF mine = {} THEN inIndex[d] ELSE (CHOOSE o \in mine : TRUE).body
    <3>1. inIndex' = [d \in DocIds |-> new(d)]
      BY Zenon, <1>4 DEF applied
    <3> HIDE DEF new
    <3> QED BY Zenon, <2>1, <2>2, <3>1
  <2>3. CASE DocIds # {}
    <3>1. PICK d \in DocIds : TRUE
      BY Zenon, <2>3
    <3> QED BY Zenon, <1>1, <1>4, <2>1, <3>1, AppliedGives
  <2> QED BY Zenon, <2>1, <2>2, <2>3
<1>5. CASE applied /\ report' = parseBulkResponse(report) /\ spc' = "next" /\ UNCHANGED <<finished, tries, lostReply>>
  <2>1. report.errors \subseteq report'.errors /\ \A o \in ops : o.body = "bad" => o.id \in report'.errors
    BY Zenon, <1>5 DEF parseBulkResponse
  <2>2. SyncData'
    <3>1. ASSUME NEW o \in ops PROVE o.id \in DocIds \cup {NoId}
      <4>1. PICK batch \in Seq(SourceDocs) : ops = opsOf(batch)
        BY Zenon, <1>1, YieldedBatch DEF IndexInv
      <4>2. PICK i \in 1..Len(batch) : o = [n |-> i, id |-> batch[i].id, body |-> batch[i].body]
        BY <3>1, <4>1, OpsAre
      <4>3. batch[i] \in SourceDocs
        BY <4>1, <4>2
      <4> QED BY Zenon, <4>2, <4>3 DEF SourceDocs
    <3>2. report'.errors \subseteq DocIds \cup {NoId}
      BY ZenonT(30), <1>1, <1>5, <3>1 DEF parseBulkResponse, SyncData
    <3> QED BY Zenon, <1>1, <1>4, <1>5, <3>2 DEF SyncData
  <2>3. CopiesInv'
    BY <1>1, <1>3, <1>4, <1>5 DEF CopiesInv
  <2>4. ASSUME NEW d \in DocIds, NEW b \in Nat, NEW i \in Nat, LastUpTo(d, Yielded, b, i)
        PROVE  Told(d, whole[b][i].body)'
    <3>1. CASE \E o \in ops : o.id = d /\ o.body = whole[b][i].body
      <4>1. PICK o \in ops : o.id = d /\ o.body = whole[b][i].body
        BY Zenon, <3>1
      <4>2. o.body # "bad" => inIndex'[d] = o.body
        BY Zenon, <1>1, <1>5, <4>1, AppliedGives
      <4>3. o.body = "bad" => d \in report'.errors
        BY Zenon, <2>1, <4>1
      <4> QED BY Zenon, <1>1, <4>1, <4>2, <4>3 DEF Told
    <3>2. CASE (\A o \in ops : o.id # d) /\ LastUpTo(d, Yielded - 1, b, i)
      <4>1. inIndex'[d] = inIndex[d]
        BY Zenon, <1>1, <1>5, <3>2, AppliedGives
      <4>2. Told(d, whole[b][i].body)
        BY Zenon, <1>1, <3>2 DEF IndexInv, SyncedTo
      <4> QED BY Zenon, <1>1, <2>1, <4>1, <4>2 DEF Told
    <3> QED BY ZenonT(30), <1>1, <2>4, <3>1, <3>2, LastIsSent
  <2>5. \A d \in DocIds : SyncedTo(d, Yielded)'
    BY ZenonT(30), <1>1, <1>2, <2>4 DEF SyncedTo, LastUpTo, Has
  <2>6. IndexInv'
    BY Zenon, <1>3, <1>5, <2>5 DEF IndexInv
  <2> QED BY Zenon, <1>2, <2>2, <2>3, <2>6 DEF SyncInv
<1>6. ASSUME UNCHANGED report, retryOrFail, SyncData', CopiesInv', applied \/ UNCHANGED inIndex
      PROVE  SyncInv'
  <2>1. CASE endRun("error")
    BY Zenon, <1>1, <1>6, <2>1, EndKeeps DEF endRun
  <2>2. CASE tries' = tries + 1 /\ UNCHANGED <<spc, finished>>
    <3>1. ASSUME NEW d \in DocIds, \A o \in ops : o.id # d PROVE SyncedTo(d, Yielded - 1)'
      <4>1. inIndex'[d] = inIndex[d]
        BY Zenon, <1>1, <1>6, <3>1, AppliedGives
      <4>2. SyncedTo(d, Yielded - 1)
        BY Zenon, <1>1, <3>1 DEF IndexInv
      <4> QED BY Zenon, <1>1, <1>2, <1>6, <4>1, <4>2 DEF SyncedTo, LastUpTo, Has, Told
    <3>2. opsOf(whole[Yielded])' = opsOf(whole[Yielded])
      BY Zenon, <1>1, <1>2 DEF opsOf
    <3>3. IndexInv'
      <4>1. tries' >= 1 /\ spc' = "bulk" /\ finished' = "none"
        <5>1. tries \in Nat /\ tries >= 1
          BY <1>1, <1>3, SyncAssumption DEF SyncData
        <5>2. tries + 1 >= 1
          BY <5>1
        <5> QED BY Zenon, <1>1, <1>3, <2>2, <5>2
      <4>2. Yielded' >= 1 /\ ops' = opsOf(whole[Yielded])'
        BY Zenon, <1>1, <1>2, <3>2 DEF IndexInv
      <4> QED BY Zenon, <1>1, <3>1, <4>1, <4>2 DEF IndexInv
    <3> QED BY Zenon, <1>2, <1>6, <3>3 DEF SyncInv
  <2> QED BY Zenon, <1>6, <2>1, <2>2 DEF retryOrFail
<1>7. ASSUME UNCHANGED report, retryOrFail, applied \/ UNCHANGED inIndex PROVE SyncData'
  <2>1. inIndex' \in [DocIds -> {"none", "v1", "v2"}]
    BY Zenon, <1>1, <1>4, <1>7 DEF SyncData
  <2> QED BY <1>1, <1>7, <2>1, SyncAssumption DEF SyncData, retryOrFail, endRun
<1>8. CASE applied /\ lostReply' = TRUE /\ retryOrFail /\ UNCHANGED report
  <2>1. CopiesInv'
    BY <1>1, <1>3, <1>4, <1>8 DEF CopiesInv
  <2> QED BY Zenon, <1>6, <1>7, <1>8, <2>1
<1>9. CASE retryOrFail /\ UNCHANGED <<report, inIndex, assigned, lostReply>>
  <2>1. CopiesInv'
    BY <1>1, <1>3, <1>9 DEF CopiesInv, retryOrFail, endRun
  <2> QED BY Zenon, <1>6, <1>7, <1>9, <2>1
<1> QED BY Zenon, <1>5, <1>8, <1>9 DEF BulkDo

(***************************************************************************)
(* For every source, whatever its batches hold, any number of documents    *)
(* and attempts: a Sync that returns nil has left every document as the    *)
(* source last had it, or reports it; and a document without an id is      *)
(* stored twice only after an answer was lost.                             *)
(***************************************************************************)
THEOREM SyncKept == SyncSpec => []SyncContract
<1>1. SyncInv /\ [SyncNext]_syncVars => SyncInv'
  <2> SUFFICES ASSUME SyncInv, [SyncNext]_syncVars PROVE SyncInv'
    OBVIOUS
  <2>1. CASE RunOnce \/ StopSyncs
    BY Zenon, <2>1, RunOnceKeeps, StopSyncsKeeps
  <2>2. CASE NextBatch(TRUE) \/ NextBatch(FALSE)
    BY Zenon, <2>2, NextBatchKeeps
  <2>3. CASE BulkDo
    BY Zenon, <2>3, BulkDoKeeps
  <2>4. CASE UNCHANGED syncVars
    <3>1. SourceInv' /\ SyncData'
      BY Zenon, <2>4 DEF syncVars, SyncInv, SourceInv, SyncData, Yielded
    <3>2. IndexInv'
      <4>1. ASSUME NEW d \in DocIds
            PROVE  /\ SyncedTo(d, Yielded) => SyncedTo(d, Yielded)'
                   /\ SyncedTo(d, Yielded - 1) => SyncedTo(d, Yielded - 1)'
                   /\ SyncedTo(d, Len(whole)) => SyncedTo(d, Len(whole))'
        BY Zenon, <2>4 DEF syncVars, SyncedTo, LastUpTo, Has, Told, Yielded
      <4>2. Yielded' = Yielded /\ opsOf(whole[Yielded])' = opsOf(whole[Yielded])
        BY Zenon, <2>4 DEF syncVars, Yielded, opsOf
      <4> QED BY Zenon, <2>4, <4>1, <4>2 DEF syncVars, SyncInv, IndexInv
    <3>3. CopiesInv'
      BY Zenon, <2>4 DEF syncVars, SyncInv, CopiesInv, unnamed
    <3> QED BY Zenon, <3>1, <3>2, <3>3 DEF SyncInv
  <2> QED BY Zenon, <2>1, <2>2, <2>3, <2>4 DEF SyncNext
<1> QED BY <1>1, InitSync, SyncInvGives, PTL DEF SyncSpec
=============================================================================
