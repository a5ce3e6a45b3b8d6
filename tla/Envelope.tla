------------------------------ MODULE Envelope ------------------------------
(***************************************************************************)
(* Sign-then-open envelopes (crypto/envelope): keys are loaded from PEM    *)
(* files, a message is sealed for a recipient, carried over a transport    *)
(* that may damage it, and opened.  The primitives are perfect; what is    *)
(* modelled is which fields are covered by what, in which order Open looks *)
(* at them, and where the primitives panic instead of failing: r.FillBytes *)
(* on a number of another curve, GCM on a nonce of another length.         *)
(***************************************************************************)
EXTENDS Naturals, FiniteSets

CONSTANTS
  Parties,     \* key owners
  MaxDamaged   \* bound: the fields of one message that the transport changes

(* "none" stands for no party *)
ASSUME PartyAssumption == "none" \notin Parties

VARIABLES
  keys,      \* the loaded key of each party: "none", or its curve
  envelope,  \* {} or {[by, to]}
  damaged,   \* fields the transport has changed
  sealing,   \* how Seal ended
  opening    \* how Open ended, and for whom

envelopeVars == <<keys, envelope, damaged, sealing, opening>>

PrivateFiles == {"pkcs8 P-256", "sec1 P-256", "pkcs8 P-384", "pkcs8 RSA", "no PEM"}
Inner == {"enc", "epk", "iv", "ct", "rid"}     \* sealed
Outer == {"alg", "sid", "sig"}                 \* outer, besides the payload
notOpened == [result |-> "none", me |-> "none", peer |-> "none"]

EnvelopeInit ==
  /\ keys = [p \in Parties |-> "none"] /\ envelope = {} /\ damaged = {}
  /\ sealing = "none" /\ opening = notOpened
-----------------------------------------------------------------------------
(* Faulty variant: any elliptic curve will do.                             *)
requireP256_any(curve) == curve

requireP256(curve) == IF curve = "P-256" THEN curve ELSE "none"

(* PKCS#8 first, then SEC1; what is not an ECDSA key is an error.          *)
ParsePrivateKeyPEM(file) ==
  CASE file \in {"no PEM", "pkcs8 RSA"} -> "none"
    [] file \in {"pkcs8 P-256", "sec1 P-256"} -> requireP256("P-256")
    [] file = "pkcs8 P-384" -> requireP256("P-384")

(* A party loads its private key; the others get its public half.          *)
LoadKey(p, file) ==
  /\ keys[p] = "none" /\ envelope = {} /\ sealing = "none"
  /\ keys' = [keys EXCEPT ![p] = ParsePrivateKeyPEM(file)]
  /\ UNCHANGED <<envelope, damaged, sealing, opening>>

(* ECDH of the fresh P-256 key with a key of another curve is an error;    *)
(* the signature of another curve does not fit 64 bytes.                   *)
Seal(by, to) ==
  /\ sealing = "none"
  /\ sealing' = IF keys[by] = "none" \/ keys[to] # "P-256" THEN "error"
                ELSE IF keys[by] # "P-256" THEN "panic" ELSE "ok"
  /\ envelope' = IF sealing' = "ok" THEN {[by |-> by, to |-> to]} ELSE {}
  /\ UNCHANGED <<keys, damaged, opening>>

Damage(field) ==
  /\ envelope # {} /\ opening = notOpened /\ Cardinality(damaged) < MaxDamaged
  /\ damaged' = damaged \cup {field}
  /\ UNCHANGED <<keys, envelope, sealing, opening>>

(* The signature covers the payload, all of the inner fields.              *)
verifyES256(e, peer) == peer = e.by /\ damaged \cap (Inner \cup {"sig"}) = {}

(* gcm.Open panics on a nonce of the wrong length.                         *)
decrypt(e, me) ==
  IF "epk" \in damaged \/ me # e.to THEN {"error"}
  ELSE IF "iv" \in damaged THEN {"error", "panic"}
  ELSE IF "ct" \in damaged THEN {"error"} ELSE {"plaintext"}

(* Faulty variant: decrypt first, then verify.                             *)
open_decryptsFirst(e, me, peer) ==
  IF "token" \in damaged \/ "alg" \in damaged \/ "enc" \in damaged THEN {"error"}
  ELSE IF decrypt(e, me) # {"plaintext"} THEN decrypt(e, me)
  ELSE IF verifyES256(e, peer) THEN {"plaintext"} ELSE {"error"}

(* Faulty variant: the signature is checked against the embedded key id.   *)
open_trustsSID(e, me, peer) ==
  IF "token" \in damaged \/ "alg" \in damaged \/ ~verifyES256(e, e.by) THEN {"error"}
  ELSE decrypt(e, me)

(* Faulty variant: the routing hint must name the peer.                    *)
open_checksSID(e, me, peer) ==
  IF "token" \in damaged \/ "alg" \in damaged \/ "sid" \in damaged
     \/ ~verifyES256(e, peer) \/ "enc" \in damaged THEN {"error"}
  ELSE decrypt(e, me)

open(e, me, peer) ==
  IF "token" \in damaged \/ "alg" \in damaged
     \/ ~verifyES256(e, peer) \/ "enc" \in damaged THEN {"error"}
  ELSE decrypt(e, me)

Open(me, peer) ==
  /\ opening = notOpened
  /\ \E e \in envelope :
       \E r \in IF keys[me] = "none" \/ keys[peer] = "none" THEN {"error"} ELSE open(e, me, peer) :
         opening' = [result |-> r, me |-> me, peer |-> peer]
  /\ UNCHANGED <<keys, envelope, damaged, sealing>>

(* Another message.                                                        *)
AnotherMessage ==
  /\ sealing # "none" /\ sealing' = "none"
  /\ envelope' = {} /\ damaged' = {} /\ opening' = notOpened /\ UNCHANGED keys

EnvelopeNext ==
  \/ \E p \in Parties, f \in PrivateFiles : LoadKey(p, f)
  \/ \E p, q \in Parties : Seal(p, q) \/ Open(p, q)
  \/ \E f \in Inner \cup Outer \cup {"token"} : Damage(f)
  \/ AnotherMessage

EnvelopeSpec == EnvelopeInit /\ [][EnvelopeNext]_envelopeVars
-----------------------------------------------------------------------------
EnvelopeTypeOK ==
  /\ keys \in [Parties -> {"none", "P-256"}]
  /\ (\A e, f \in envelope : e = f) /\ damaged \subseteq Inner \cup Outer \cup {"token"}
  /\ envelope # {} <=> sealing = "ok"

(***************************************************************************)
(* What Open returns is what the expected signer sealed for this           *)
(* recipient: no damage to the message or its signature goes unnoticed.    *)
(***************************************************************************)
OpenedIsSealed ==
  opening.result = "plaintext" =>
    /\ \E e \in envelope : e.by = opening.peer /\ e.to = opening.me
    /\ damaged \subseteq {"sid"}

(***************************************************************************)
(* Round trip: an undamaged envelope (the key ids are only hints) opens    *)
(* with the keys it was made for.                                          *)
(***************************************************************************)
UndamagedOpens ==
  \A e \in envelope :
    damaged \subseteq {"sid"} /\ e.by = opening.peer /\ e.to = opening.me
      => opening.result = "plaintext"

(***************************************************************************)
(* Neither call panics, although the primitives beneath do: key files of   *)
(* another curve are refused on loading, and because Open verifies before  *)
(* it decrypts a damaged nonce never reaches GCM.                          *)
(***************************************************************************)
NeverPanics == sealing # "panic" /\ opening.result # "panic"

(***************************************************************************)
(* What envelopes promise: what opens was sealed, what is undamaged opens, *)
(* and nothing panics.                                                     *)
(***************************************************************************)
EnvelopeContract ==
  /\ EnvelopeTypeOK
  /\ OpenedIsSealed
  /\ UndamagedOpens
  /\ NeverPanics
=============================================================================
