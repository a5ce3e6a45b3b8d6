----------------------------- MODULE TrustStore -----------------------------
(***************************************************************************)
(* trust.Store under mtls: the anchors and revocation lists are swapped as *)
(* one snapshot while handshakes run.  A server reads the pool at the      *)
(* ClientHello and the lists when the chain is built; a client without a   *)
(* server name verifies everything in VerifyPeer; a client with one uses   *)
(* the pool its configuration was made with.                               *)
(*                                                                         *)
(* A certificate names its issuer: an anchor, or an intermediate of one    *)
(* that the peer may forget to send.  crypto/tls and crypto/x509 are       *)
(* external; handshakes are full ones, since a resumed session calls none  *)
(* of this code.                                                           *)
(***************************************************************************)
EXTENDS Naturals

CONSTANTS
  Anchors,      \* certificate authorities
  SerialNos,    \* serial numbers
  Revocable,    \* bound: the serial numbers that appear on revocation lists
  Unwelcome,    \* serial numbers the PolicyFunc rejects, {} for a nil policy
  Handshakes,   \* concurrent handshakes
  MaxSwaps      \* bound: calls of Replace

ASSUME SwapAssumption == Revocable \subseteq SerialNos /\ MaxSwaps \in Nat

VARIABLES
  snap,        \* Store.snap
  swaps,       \* calls of Replace so far
  config,      \* the configuration in use: "none", "server", "client", or "named"
  roots,       \* the pool when it was made; RootCAs of a "named" one
  shake        \* per handshake: its progress, and the snapshots in force since it began

trustVars == <<snap, swaps, config, roots, shake>>

Issuers == [anchor : Anchors, sub : BOOLEAN]
Certs == {c \in [issuer : Issuers, serial : SerialNos, sendsSub : BOOLEAN, parses : BOOLEAN] :
            ~c.issuer.sub \/ ~c.parses => c.sendsSub}
Snapshots == [anchors : SUBSET Anchors, crls : SUBSET (Issuers \X SerialNos)]

Idle == [at |-> "idle"]

(* New: trusts nothing until the first Replace. *)
TrustInit ==
  /\ snap = [anchors |-> {}, crls |-> {}]
  /\ swaps = 0 /\ config = "none" /\ roots = {}
  /\ shake = [h \in Handshakes |-> Idle]

running(h) == shake[h].at \in {"chain", "verify"}

(* Replace: one atomic store; lists of at most one entry. *)
Replace ==
  /\ swaps < MaxSwaps /\ swaps' = swaps + 1
  /\ \E a \in SUBSET Anchors, c \in {{}} \cup {{e} : e \in Issuers \X Revocable} :
       snap' = [anchors |-> a, crls |-> c]
  /\ shake' = [h \in Handshakes |-> IF running(h) THEN [shake[h] EXCEPT !.seen = @ \cup {snap'}] ELSE shake[h]]
  /\ UNCHANGED <<config, roots>>

(* Faulty variant: the pool is read once, when the configuration is made. *)
ClientCAs_captured == roots

ClientCAs == snap.anchors

(* ServerConfig, and ClientConfig without and with a server name, for one  *)
(* process of the model; without a provider they return an error.          *)
Configure(kind) ==
  /\ config = "none"
  /\ \/ config' = kind /\ roots' = snap.anchors
     \/ UNCHANGED <<config, roots>>
  /\ UNCHANGED <<snap, swaps, shake>>

ServerConfig == Configure("server")
ClientConfig == Configure("client") \/ Configure("named")
-----------------------------------------------------------------------------
(* x509: a chain to the pool, through the intermediate if it was sent *)
chains(pool, cert) == cert.issuer.anchor \in pool /\ (cert.issuer.sub => cert.sendsSub)

(* Faulty variants: the issuer is not compared; nothing is revoked. *)
onCRL_anyIssuer(cert, crls) == \E e \in crls : e[2] = cert.serial
onCRL_never(cert, crls) == FALSE

onCRL(cert, crls) == \E e \in crls : e[1] = cert.issuer /\ e[2] = cert.serial

welcome(cert) == cert.serial \notin Unwelcome

Verify(cert, s) ==
  /\ s.anchors # {}
  /\ chains(s.anchors, cert) /\ ~onCRL(cert, s.crls) /\ welcome(cert)

(* VerifyPeer, with and without chains the TLS stack built *)
VerifyPeer(cert, chained, s) ==
  IF chained THEN ~onCRL(cert, s.crls) /\ welcome(cert)
  ELSE cert.parses /\ Verify(cert, s)
-----------------------------------------------------------------------------
(* A handshake begins; GetConfigForClient reads the pool. *)
Hello(h) ==
  /\ shake[h] = Idle /\ config # "none"
  /\ \E cert \in Certs :
       shake' = [shake EXCEPT ![h] =
         [at |-> IF config = "client" THEN "verify" ELSE "chain", cert |-> cert,
          pool |-> IF config = "server" THEN ClientCAs ELSE roots, seen |-> {snap}]]
  /\ UNCHANGED <<snap, swaps, config, roots>>

settle(h, ok) == shake' = [shake EXCEPT ![h].at = IF ok THEN "accepted" ELSE "refused"]

(* The TLS stack parses the peer's certificates and builds the chain; for  *)
(* a named server that and the host name, which matches, decide.           *)
BuildChain(h) ==
  /\ shake[h].at = "chain"
  /\ LET ok == shake[h].cert.parses /\ chains(shake[h].pool, shake[h].cert)
     IN IF ok /\ config = "server"
        THEN shake' = [shake EXCEPT ![h].at = "verify"]
        ELSE settle(h, ok)
  /\ UNCHANGED <<snap, swaps, config, roots>>

(* VerifyPeerCertificate *)
CheckPeer(h) ==
  /\ shake[h].at = "verify"
  /\ settle(h, VerifyPeer(shake[h].cert, config = "server", snap))
  /\ UNCHANGED <<snap, swaps, config, roots>>

TrustNext ==
  \/ Replace \/ ServerConfig \/ ClientConfig
  \/ \E h \in Handshakes : Hello(h) \/ BuildChain(h) \/ CheckPeer(h)

TrustSpec == TrustInit /\ [][TrustNext]_trustVars
-----------------------------------------------------------------------------
TrustTypeOK ==
  /\ snap \in Snapshots /\ swaps \in 0..MaxSwaps
  /\ config \in {"none", "server", "client", "named"} /\ roots \subseteq Anchors
  /\ \A h \in Handshakes :
       \/ shake[h] = Idle
       \/ /\ shake[h].at \in {"chain", "verify", "accepted", "refused"} /\ shake[h].cert \in Certs
          /\ shake[h].seen \subseteq Snapshots /\ shake[h].seen # {}
          /\ shake[h].pool \subseteq Anchors
          /\ config = "server" => \E s \in shake[h].seen : shake[h].pool = s.anchors

Settled(kind, at) == {shake[h] : h \in {g \in Handshakes : shake[g].at = at /\ config = kind}}

(***************************************************************************)
(* Replace takes effect at once for servers and for clients without a      *)
(* server name (mtls.go lines 26-27): whoever is accepted was anchored and *)
(* not revoked in snapshots in force during the handshake, a client's in   *)
(* one and the same; and nobody is accepted on an empty store.             *)
(***************************************************************************)
AcceptedWasTrusted ==
  /\ \A k \in Settled("server", "accepted") :
       /\ \E s \in k.seen : chains(s.anchors, k.cert)
       /\ \E s \in k.seen : <<k.cert.issuer, k.cert.serial>> \notin s.crls
       /\ k.cert.serial \notin Unwelcome
  /\ \A k \in Settled("client", "accepted") :
       \E s \in k.seen : chains(s.anchors, k.cert) /\ <<k.cert.issuer, k.cert.serial>> \notin s.crls

(***************************************************************************)
(* A swap never refuses a peer by accident: one that every snapshot in     *)
(* force during its handshake trusts is accepted, also when the swap falls *)
(* between the reading of the pool and that of the lists.                  *)
(***************************************************************************)
SwapRefusesNobody ==
  \A kind \in {"server", "client"} : \A k \in Settled(kind, "refused") :
    \/ ~k.cert.parses \/ k.cert.serial \in Unwelcome
    \/ \E s \in k.seen : ~chains(s.anchors, k.cert) \/ <<k.cert.issuer, k.cert.serial>> \in s.crls

(***************************************************************************)
(* What the trust store promises under mtls: swaps take effect at once and *)
(* refuse nobody by accident.                                              *)
(***************************************************************************)
TrustContract ==
  /\ TrustTypeOK
  /\ AcceptedWasTrusted
  /\ SwapRefusesNobody
=============================================================================
