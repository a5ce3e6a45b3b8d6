------------------------------ MODULE Identity ------------------------------
(***************************************************************************)
(* Who is calling, from the gateway to the handler of a service behind it. *)
(* The gateway signs X-Subject-* headers (transport/headers), the service  *)
(* resolves them or a bearer token to a user (auth/resolver, auth/jwt) and *)
(* a route asks for the gateway, a role or a delegation scope.  Meanwhile  *)
(* the shared secret is rotated and time passes.  Text is a sequence of    *)
(* characters; HMAC and JWT signatures are taken to be perfect.            *)
(***************************************************************************)
EXTENDS Integers, Sequences, SequencesExt

CONSTANTS
  Gateways,   \* gateway processes, restarted one by one
  Subjects,   \* claims of the tokens: [id, email, org, realm, client, scopes]
  MaxAge,     \* Config.MaxAge, in units of the clock
  Tolerance,  \* the 10 seconds a header may come from the future
  MaxTime     \* bound: the clock

ASSUME AgeAssumption == MaxAge \in Nat \ {0} /\ Tolerance \in Nat

VARIABLES
  gwSecret,   \* Secret of a gateway
  upstream,   \* the service's Config and clock: [secret, also, direct, skew]
  settled,    \* since when every gateway signs with the new secret
  clock,      \* of the gateways
  mail,       \* the request under way: {} or {[headers, from, leftover, at]}
  verdict     \* what became of it: [status, user, origin, route]

identityVars == <<gwSecret, upstream, settled, clock, mail, verdict>>

Routes == {"open", "gatewayOnly", "role", "scope"}
Credentials == {"none", "basic", "valid", "expired"}   \* Authorization
noUser == [id |-> <<>>, email |-> <<>>, org |-> <<>>, roles |-> <<>>, scopes |-> {}]
unanswered == [status |-> 0, user |-> noUser, origin |-> "none", route |-> "open"]

IdentityInit ==
  /\ gwSecret = [g \in Gateways |-> "old"]
  /\ upstream = [secret |-> "old", also |-> {}, direct |-> "off", skew |-> 0]
  /\ settled = -1 /\ clock = 0 /\ mail = {} /\ verdict = unanswered
-----------------------------------------------------------------------------
(* transport/headers                                                       *)

join(sep, texts) ==
  IF texts = <<>> THEN <<>>
  ELSE FoldLeft(LAMBDA acc, t : acc \o <<sep>> \o t, Head(texts), Tail(texts))

split(sep, text) ==
  FoldLeft(LAMBDA acc, c : IF c = sep THEN Append(acc, <<>>)
                           ELSE [acc EXCEPT ![Len(acc)] = Append(@, c)], <<<<>>>>, text)

(* The order of strings; a role is empty or a single character here.       *)
rank(role) == IF role = <<>> THEN 0 ELSE CHOOSE i \in 1..3 : <<"c", "p", "q">>[i] = role[1]
sorted(roles) == SortSeq(roles, LAMBDA s, t : rank(s) < rank(t))

joinRoles(roles) == join(",", sorted(roles))

splitRoles(joined) == IF joined = <<>> THEN <<>> ELSE split(",", joined)

(* Faulty variant: the signature leaves the e-mail out.                    *)
canonicalString_noEmail(h) == <<join("|", <<h.id, h.roles, h.org>>), h.issued>>

canonicalString(h) == <<join("|", <<h.id, h.email, h.roles, h.org>>), h.issued>>

blank(text) == Range(text) \subseteq {" "}

containsSeparator(user) ==
  \/ "|" \in Range(user.id) \cup Range(user.email) \cup Range(user.org)
  \/ \E i \in DOMAIN user.roles : Range(user.roles[i]) \cap {"|", ","} # {}

(* Faulty variant: a blank id is signed.                                   *)
signable_anyId(user) == ~containsSeparator(user)

(* Sign refuses a blank id and fields with a separator.                    *)
signable(user) == ~blank(user.id) /\ ~containsSeparator(user)

Sign(user, secret) ==
  LET h == [id |-> user.id, email |-> user.email, roles |-> joinRoles(user.roles),
            org |-> user.org, issued |-> clock] IN
  [fields |-> h, sig |-> <<secret, canonicalString(h)>>]

(* Apply: a header that Sign did not set keeps the value it had.           *)
Apply(signed, leftover) ==
  [signed EXCEPT !.fields.email = IF @ = <<>> THEN leftover ELSE @]

makeUser(h) ==
  [id |-> h.id, email |-> h.email, org |-> h.org, roles |-> splitRoles(h.roles), scopes |-> {}]

(* Faulty variant: the secrets of a rollover are not tried.                *)
verifies_primaryOnly(m) ==
  /\ clock + upstream.skew - m.fields.issued \in (-Tolerance)..MaxAge
  /\ ~blank(m.fields.id)
  /\ m.sig = <<upstream.secret, canonicalString(m.fields)>>

verifies(m) ==
  /\ clock + upstream.skew - m.fields.issued \in (-Tolerance)..MaxAge
  /\ ~blank(m.fields.id)
  /\ \E s \in {upstream.secret} \cup upstream.also : m.sig = <<s, canonicalString(m.fields)>>

(* jwt                                                                     *)
(* Faulty variant: the roles of the clients are left out.                  *)
AllRoles_realmOnly(claims) == claims.realm

AllRoles(claims) ==
  FoldLeft(LAMBDA acc, r : IF r \in Range(acc) THEN acc ELSE Append(acc, r),
           <<>>, claims.realm \o claims.client)

bearerUser(claims) ==
  [id |-> claims.id, email |-> claims.email, org |-> claims.org,
   roles |-> AllRoles(claims), scopes |-> claims.scopes]

(* The synthetic user of a service whose jwt.enabled is false.             *)
mockUser == [id |-> <<"0">>, email |-> <<"d">>, org |-> <<>>,
             roles |-> <<<<"c">>, <<"p">>>>, scopes |-> {}]
-----------------------------------------------------------------------------
(* The service starts with signed headers, the direct path or both; its    *)
(* clock differs from the gateways'.  With neither Middleware panics.      *)
Boot ==
  /\ clock = 0 /\ mail = {} /\ verdict = unanswered /\ upstream.also = {}
  /\ \E s \in {"old", ""}, d \in {"off", "dev", "keycloak"}, k \in (-Tolerance - 1)..1 :
       /\ s # "" \/ d # "off"
       /\ upstream' = [secret |-> s, also |-> {}, direct |-> d, skew |-> k]
  /\ UNCHANGED <<gwSecret, settled, clock, mail, verdict>>

(* The rollover: the service accepts both secrets, the gateways change     *)
(* theirs one by one, the service makes the new one its own, and gives the *)
(* old one up when nothing signed with it can still be valid.              *)
AcceptBoth ==
  /\ upstream.secret = "old" /\ upstream' = [upstream EXCEPT !.also = {"new"}]
  /\ UNCHANGED <<gwSecret, settled, clock, mail, verdict>>

ChangeGateway(g) ==
  /\ "new" \in upstream.also /\ gwSecret[g] = "old"
  /\ gwSecret' = [gwSecret EXCEPT ![g] = "new"]
  /\ settled' = IF \A o \in Gateways : gwSecret'[o] = "new" THEN clock ELSE settled
  /\ UNCHANGED <<upstream, clock, mail, verdict>>

ChangeService ==
  /\ upstream.secret = "old" /\ upstream.also = {"new"}
  /\ upstream' = [upstream EXCEPT !.secret = "new", !.also = {"old"}]
  /\ UNCHANGED <<gwSecret, settled, clock, mail, verdict>>

DropOld ==
  /\ upstream.secret = "new" /\ settled >= 0 /\ clock - settled > MaxAge + Tolerance
  /\ upstream' = [upstream EXCEPT !.also = {}]
  /\ UNCHANGED <<gwSecret, settled, clock, mail, verdict>>

TimePasses ==
  /\ clock < MaxTime /\ clock' = clock + 1
  /\ UNCHANGED <<gwSecret, upstream, settled, mail, verdict>>
-----------------------------------------------------------------------------
(* A request through a gateway, which signs for the user of its token;     *)
(* leftover is an e-mail header that was already on the outgoing request.  *)
Forward(g, claims, leftover) ==
  /\ mail = {} /\ signable(bearerUser(claims))
  /\ mail' = {[headers |-> {Apply(Sign(bearerUser(claims), gwSecret[g]), leftover)},
               from |-> claims, leftover |-> leftover, at |-> clock]}
  /\ UNCHANGED <<gwSecret, upstream, settled, clock, verdict>>

(* A request that did not pass a gateway.                                  *)
CallDirectly(claims) ==
  /\ mail = {}
  /\ mail' = {[headers |-> {}, from |-> claims, leftover |-> <<>>, at |-> clock]}
  /\ UNCHANGED <<gwSecret, upstream, settled, clock, verdict>>

refuse(code, route) == [status |-> code, user |-> noUser, origin |-> "none", route |-> route]

(* ForRoles and ForScope                                                   *)
required == {<<"p">>}
ForRoles(user) == \E i \in DOMAIN user.roles : user.roles[i] \in required
ForScope(user, scope, entity) ==
  \E s \in user.scopes : s.entity \in {entity, "*"} /\ s.scope \in {scope, "*"}

permitted(route, user, origin) ==
  CASE route = "open" -> TRUE
    [] route = "gatewayOnly" -> origin = "gateway"
    [] route = "role" -> ForRoles(user)
    [] route = "scope" -> ForScope(user, "data-access", "e1")

serve(route, user, origin) ==
  IF permitted(route, user, origin)
  THEN [status |-> 200, user |-> user, origin |-> origin, route |-> route]
  ELSE refuse(403, route)

(* jwt.Middleware behind the resolver's own look at the scheme.            *)
bearer(claims, authz, route) ==
  IF upstream.direct = "off" \/ authz \in {"none", "basic"} THEN refuse(401, route)
  ELSE IF upstream.direct = "dev" THEN serve(route, mockUser, "direct")
  ELSE IF authz = "valid" THEN serve(route, bearerUser(claims), "direct")
  ELSE refuse(401, route)

(* Faulty variant: a signature that fails falls through to the token.      *)
resolve_fallsThrough(m, authz, route) ==
  LET valid == {h \in m.headers : upstream.secret # "" /\ verifies(h)} IN
  IF valid = {} THEN bearer(m.from, authz, route)
  ELSE serve(route, makeUser((CHOOSE h \in valid : TRUE).fields), "gateway")

(* resolver.Middleware: a signature decides when there is one; the token   *)
(* counts only without one.                                                *)
resolve(m, authz, route) ==
  IF upstream.secret = "" \/ m.headers = {} THEN bearer(m.from, authz, route)
  ELSE LET h == CHOOSE x \in m.headers : TRUE IN
       IF verifies(h) THEN serve(route, makeUser(h.fields), "gateway") ELSE refuse(401, route)

(* The request also has an Authorization header, or none, and a route.     *)
Receive ==
  /\ verdict.status = 0
  /\ \E m \in mail, authz \in Credentials, route \in Routes :
       verdict' = resolve(m, authz, route)
  /\ UNCHANGED <<gwSecret, upstream, settled, clock, mail>>

NextRequest ==
  /\ verdict.status # 0 /\ mail' = {} /\ verdict' = unanswered
  /\ UNCHANGED <<gwSecret, upstream, settled, clock>>

IdentityNext ==
  \/ Boot \/ AcceptBoth \/ ChangeService \/ DropOld \/ TimePasses \/ Receive \/ NextRequest
  \/ \E g \in Gateways : ChangeGateway(g)
  \/ \E c \in Subjects : \/ CallDirectly(c)
                         \/ \E g \in Gateways, l \in {<<>>, <<"x">>} : Forward(g, c, l)

IdentitySpec == IdentityInit /\ [][IdentityNext]_identityVars
-----------------------------------------------------------------------------
IdentityTypeOK ==
  /\ gwSecret \in [Gateways -> {"old", "new"}]
  /\ upstream.secret \in {"", "old", "new"}
  /\ upstream.also \subseteq {"old", "new"} \ {upstream.secret}
  /\ settled \in -1..clock /\ clock \in 0..MaxTime
  /\ verdict.status \in {0, 200, 401, 403} /\ verdict.route \in Routes
  /\ verdict.origin \in {"gateway", "direct"} <=> verdict.status = 200
  /\ \A m \in mail : \A h \in m.headers :
       ~blank(h.fields.id) /\ h.fields.issued \in 0..clock

theMail == CHOOSE m \in mail : TRUE
staleHeader == theMail.leftover # <<>> /\ theMail.from.email = <<>>
hmacUsed == upstream.secret # "" /\ mail # {} /\ theMail.headers # {}

(***************************************************************************)
(* A user that a handler sees behind the gateway is the one the gateway    *)
(* signed for: same id, e-mail and organisation, and the roles of the      *)
(* token, sorted and without repetition (a single empty role name is       *)
(* lost); a header left over from elsewhere never becomes part of it.      *)
(***************************************************************************)
IdentityTrue ==
  verdict.origin = "gateway" =>
    LET u == bearerUser(theMail.from) IN
    /\ verdict.user = [u EXCEPT !.scopes = {},
                         !.roles = IF @ = <<<<>>>> THEN <<>> ELSE sorted(@)]
    /\ ~staleHeader

(***************************************************************************)
(* The role decision survives the forwarding: behind the gateway a role    *)
(* route opens exactly when a realm or client role of the token is the     *)
(* required one.  Scopes are not among the headers, so a scope route       *)
(* refuses every user who comes through the gateway.                       *)
(***************************************************************************)
RoleDecisionSurvives ==
  verdict.status \in {200, 403} /\ hmacUsed =>
    /\ verdict.route = "role" =>
         (verdict.status = 200 <=>
            (Range(theMail.from.realm) \cup Range(theMail.from.client)) \cap required # {})
    /\ verdict.route = "scope" => verdict.status = 403

(***************************************************************************)
(* A rotation made in the documented way refuses nobody: a signed request  *)
(* is turned away only when it is older than MaxAge, when the service's    *)
(* clock is further behind than the tolerance, or when it carries a        *)
(* leftover optional header.                                               *)
(***************************************************************************)
RotationRefusesNobody ==
  verdict.status = 0 /\ verdict'.status = 401 /\ hmacUsed =>
     \/ clock + upstream.skew - theMail.at > MaxAge
     \/ upstream.skew < -Tolerance
     \/ staleHeader

(***************************************************************************)
(* A signature decides: where signed headers are configured, a request     *)
(* that carries a signature is never let in on the strength of its bearer  *)
(* token, and a route for the gateway is open to signed requests only.     *)
(***************************************************************************)
SignatureDecides ==
  verdict.status = 200 =>
    /\ hmacUsed <=> verdict.origin = "gateway"
    /\ verdict.route = "gatewayOnly" => hmacUsed

(***************************************************************************)
(* What identity behind the gateway promises: the user and the role        *)
(* decision are those of the token, a signature decides, and a rotation    *)
(* refuses nobody.                                                         *)
(***************************************************************************)
IdentityContract ==
  [][/\ IdentityTypeOK'
     /\ IdentityTrue'
     /\ RoleDecisionSurvives'
     /\ SignatureDecides'
     /\ RotationRefusesNobody]_identityVars
=============================================================================
