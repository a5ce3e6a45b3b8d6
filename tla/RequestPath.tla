----------------------------- MODULE RequestPath ----------------------------
(***************************************************************************)
(* What a request meets on its way in and out, side by side: the response  *)
(* writers and the timeout, the rate limiters, the health probes, the      *)
(* identity behind a gateway, machine clients, envelopes, TLS trust and    *)
(* outgoing gRPC calls.  They share no state, so subject picks the one a   *)
(* behaviour is about and the state spaces add up.                         *)
(***************************************************************************)
EXTENDS ResponseChain, RateLimits, HealthProbes, Identity, AppIdentity, Envelope,
        TrustStore, GrpcCalls

VARIABLE subject

pathVars == <<subject, chainVars, rateVars, healthVars, identityVars, appVars, envelopeVars,
              trustVars, grpcVars>>

PathInit ==
  /\ subject \in {"chain", "rate", "health", "identity", "app", "envelope", "trust", "grpc"}
  /\ ChainInit /\ RateInit /\ HealthInit /\ IdentityInit /\ AppInit /\ EnvelopeInit
  /\ TrustInit /\ GrpcInit

ChainStep ==
  /\ subject = "chain" /\ ChainNext
  /\ UNCHANGED <<subject, rateVars, healthVars, identityVars, appVars, envelopeVars, trustVars, grpcVars>>

RateStep ==
  /\ subject = "rate" /\ RateNext
  /\ UNCHANGED <<subject, chainVars, healthVars, identityVars, appVars, envelopeVars, trustVars, grpcVars>>

HealthStep ==
  /\ subject = "health" /\ HealthNext
  /\ UNCHANGED <<subject, chainVars, rateVars, identityVars, appVars, envelopeVars, trustVars, grpcVars>>

IdentityStep ==
  /\ subject = "identity" /\ IdentityNext
  /\ UNCHANGED <<subject, chainVars, rateVars, healthVars, appVars, envelopeVars, trustVars, grpcVars>>

AppStep ==
  /\ subject = "app" /\ AppNext
  /\ UNCHANGED <<subject, chainVars, rateVars, healthVars, identityVars, envelopeVars, trustVars, grpcVars>>

EnvelopeStep ==
  /\ subject = "envelope" /\ EnvelopeNext
  /\ UNCHANGED <<subject, chainVars, rateVars, healthVars, identityVars, appVars, trustVars, grpcVars>>

TrustStep ==
  /\ subject = "trust" /\ TrustNext
  /\ UNCHANGED <<subject, chainVars, rateVars, healthVars, identityVars, appVars, envelopeVars, grpcVars>>

GrpcStep ==
  /\ subject = "grpc" /\ GrpcNext
  /\ UNCHANGED <<subject, chainVars, rateVars, healthVars, identityVars, appVars, envelopeVars, trustVars>>

PathNext ==
  \/ ChainStep \/ RateStep \/ HealthStep \/ IdentityStep \/ AppStep \/ EnvelopeStep
  \/ TrustStep \/ GrpcStep

PathSpec == PathInit /\ [][PathNext]_pathVars
-----------------------------------------------------------------------------
(* Tokens with realm and client roles, repeated and empty ones, without an *)
(* e-mail, with scopes, and with a blank subject.                          *)
claim(id, email, org, realm, client, scopes) ==
  [id |-> id, email |-> email, org |-> org, realm |-> realm, client |-> client, scopes |-> scopes]

SomeSubjects ==
  {claim(<<"a">>, <<"e">>, <<>>, <<<<"q">>, <<"p">>>>, <<<<"q">>>>, {}),
   claim(<<"a">>, <<>>, <<"o">>, <<<<>>>>, <<>>, {[scope |-> "*", entity |-> "e1"]}),
   claim(<<"a">>, <<"e">>, <<>>, <<<<"q">>>>, <<<<"p">>>>,
         {[scope |-> "data-access", entity |-> "e2"]}),
   claim(<<" ">>, <<>>, <<>>, <<>>, <<>>, {})}

(* Retry policies: capped without jitter; uncapped, so that a Duration     *)
(* overflows; no attempts at all; a multiplier below one.  Two of them     *)
(* also retry the context codes.                                           *)
policyOf(n, base, mult, max, jittered, codes) ==
  [attempts |-> n, base |-> base, mult |-> mult, max |-> max, jitter |-> jittered, codes |-> codes]

SomePolicies ==
  {policyOf(3, 4, 2, 5, FALSE, {"transient", "ctx"}), policyOf(3, 2, 4, 0, TRUE, {"transient"}),
   policyOf(0, 1, 1, 3, TRUE, {"transient"}), policyOf(2, 1, 0, 3, TRUE, {"transient", "ctx"})}
=============================================================================
