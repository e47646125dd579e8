-------------------------------- MODULE Auth --------------------------------
(***************************************************************************)
(* Authentication and authorization of a request: the extractors of        *)
(* src/auth/extractor.rs (front-end), the providers of src/auth/provider.rs*)
(* (back-end), and AuthService::call of src/auth/layer.rs, which runs them.*)
(*                                                                         *)
(* All of it is pure: nothing is remembered from one request to the next.  *)
(* What a request carries is a record                                      *)
(*   [authz |-> [scheme, user, secret],  the Authorization header          *)
(*    key   |-> [user, secret],          the two custom headers            *)
(*    peer  |-> user]                    the SPIFFE identity of the peer   *)
(* where scheme is "absent", "malformed", "basic", "bearer" or "other".    *)
(* A bearer secret is "valid", "expired" or "forged"; any secret may be    *)
(* "garbled" (undecodable: the several errors of that are one here).       *)
(***************************************************************************)
EXTENDS Integers, Sequences

CONSTANTS
  Users,       \* AuthConfig::users: user -> [password, roles]
  Roles,       \* AuthConfig::roles: role -> [permissions, super_user]
  Provider,    \* "no_op" or "config"
  Extractors,  \* kinds of the configured extractors: one, or a stack
  Challenge,   \* the first extractor's WWW-Authenticate; Absent if its realm
               \*   makes no header value
  Absent       \* an absent header, user or password

ASSUME AuthAssumption ==
  /\ Provider \in {"no_op", "config"}
  /\ Extractors \in Seq({"no_op", "basic", "header", "jwt", "spiffe"})

(* StackedAuthExtractor::new: an empty stack is a NoOp one.  A stack inside *)
(* a stack behaves like its elements in its place.                         *)
Stack == IF Extractors = <<>> THEN <<"no_op">> ELSE Extractors

(* AuthError: a kind, and what some kinds tell of.                         *)
NoError        == [kind |-> "none", of |-> Absent]
Error(kind)    == [kind |-> kind, of |-> Absent]
UnknownAuthScheme(scheme) == [kind |-> "UnknownAuthScheme", of |-> scheme]
NoPermission(permission)  == [kind |-> "NoPermission", of |-> permission]

Token(user, token) == [user |-> user, token |-> token, secret |-> Absent, error |-> NoError]
Password(user, p)  == [user |-> user, token |-> "password", secret |-> p, error |-> NoError]
Failed(e)          == [user |-> Absent, token |-> "none", secret |-> Absent, error |-> e]

-----------------------------------------------------------------------------
(* extract_auth of each extractor.                                         *)
BasicExtract(r) ==
  CASE r.authz.scheme = "absent"    -> Failed(Error("NoAuthProvided"))
    [] r.authz.scheme = "malformed" -> Failed(Error("InvalidAuthHeader"))
    [] r.authz.scheme \in {"bearer", "other"} -> Failed(UnknownAuthScheme(r.authz.scheme))
    [] r.authz.scheme = "basic" ->
         IF r.authz.secret = "garbled" THEN Failed(Error("InvalidAuthPayload"))
                                       ELSE Password(r.authz.user, r.authz.secret)

HeaderExtract(r) ==
  LET unusable == {Absent, "garbled"}
      because(value) == Error(IF value = Absent THEN "NoAuthProvided" ELSE "InvalidAuthPayload")
  IN  IF r.key.user \in unusable THEN Failed(because(r.key.user))
      ELSE IF r.key.secret \in unusable THEN Failed(because(r.key.secret))
      ELSE Password(r.key.user, r.key.secret)

(* Does nothing, and never fails.                                          *)
NoOpExtract == Token(Absent, "absent")

(* A token without a usable `sub` claim names no user.                     *)
JwtExtract(r) ==
  CASE r.authz.scheme = "absent"    -> Failed(Error("NoAuthProvided"))
    [] r.authz.scheme = "malformed" -> Failed(Error("InvalidAuthHeader"))
    [] r.authz.scheme \in {"basic", "other"} -> Failed(UnknownAuthScheme(r.authz.scheme))
    [] r.authz.scheme = "bearer" ->
         CASE r.authz.secret = "garbled" -> Failed(Error("InvalidAuthPayload"))
           [] r.authz.secret \in {"expired", "forged"} -> Failed(Error("AuthFailed"))
           [] r.authz.secret = "valid"   -> Token(r.authz.user, "verified")

SpiffeExtract(r) == IF r.peer = Absent THEN Failed(Error("NoAuthProvided"))
                                       ELSE Token(r.peer, "verified")

ExtractBy(kind, r) ==
  CASE kind = "no_op"  -> NoOpExtract
    [] kind = "basic"  -> BasicExtract(r)
    [] kind = "header" -> HeaderExtract(r)
    [] kind = "jwt"    -> JwtExtract(r)
    [] kind = "spiffe" -> SpiffeExtract(r)

(* The first extractor that succeeds wins; if none does, the first error   *)
(* is reported, whichever kind of credentials the request carries.         *)
Succeeding(r) == {i \in DOMAIN Stack : ExtractBy(Stack[i], r).error = NoError}
extract_auth(r) ==
  ExtractBy(Stack[IF Succeeding(r) = {} THEN 1
                  ELSE CHOOSE i \in Succeeding(r) : \A j \in Succeeding(r) : i <= j], r)

(* What the client is told of an error.  UserNotFound and AuthFailed share *)
(* one text; each of the others has a text of its own.                     *)
(* Mutant: an unknown user is told so.                                     *)
to_string_Telling(e) == [text |-> e.kind, of |-> e.of]
to_string(e) ==
  [text |-> IF e.kind \in {"UserNotFound", "AuthFailed"} THEN "Authentication failed"
                                                        ELSE e.kind,
   of   |-> e.of]

(* error_response: a stack answers the way its first extractor does.       *)
Challenging == Stack[1] \in {"basic", "jwt"}
StatusOf(e) ==
  IF Stack[1] = "no_op" THEN 500
  ELSE IF e.kind \in {"NoAuthProvided", "UserNotFound", "AuthFailed"}
  THEN IF Challenging THEN 401 ELSE 403
  ELSE IF e.kind = "NoPermission" THEN 403 ELSE 400

Response(status, title, challenge) ==
  [status |-> status, title |-> title, challenge |-> challenge]
InvalidRealm == [text |-> "Invalid HTTP Basic realm value", of |-> Absent]

(* A 401 asks for credentials; a realm that cannot be sent makes it a 500. *)
error_response(e) ==
  IF ~(Challenging /\ StatusOf(e) = 401) THEN Response(StatusOf(e), to_string(e), Absent)
  ELSE IF Challenge = Absent THEN Response(500, InvalidRealm, Absent)
  ELSE Response(401, to_string(e), Challenge)

-----------------------------------------------------------------------------
(* ConfigAuthProvider and NoOpAuthProvider.  A user without a password in  *)
(* the configuration matches no password.                                  *)
Known(u) == u \in DOMAIN Users

authenticate(a) ==
  CASE Provider = "no_op"     -> NoError
    [] Provider = "config" ->
         IF a.token = "absent" THEN Error("AuthFailed")
         ELSE IF a.token = "verified" THEN NoError
         ELSE IF ~Known(a.user) THEN Error("UserNotFound")
         ELSE IF Users[a.user].password # Absent /\ Users[a.user].password = a.secret
              THEN NoError ELSE Error("AuthFailed")

(* Mutant: a role grants what any of the configured roles grants.          *)
authorize_AnyRole(u, p) ==
  IF Provider = "config" /\ ~Known(u) THEN Error("UserNotFound")
  ELSE IF \E r \in DOMAIN Roles : Roles[r].super_user \/ p \in Roles[r].permissions
       THEN NoError ELSE NoPermission(p)
authorize(u, p) ==
  IF Provider = "no_op" THEN NoError
  ELSE IF ~Known(u) THEN Error("UserNotFound")
  ELSE IF \E r \in Users[u].roles \cap DOMAIN Roles :
            Roles[r].super_user \/ p \in Roles[r].permissions
       THEN NoError ELSE NoPermission(p)

(* AuthService::call: extract, authenticate, then authorize each of the    *)
(* handler's permissions in turn; the first error decides.                 *)
FirstError(u, perms) ==
  LET failing == {i \in DOMAIN perms : authorize(u, perms[i]) # NoError}
  IN  IF failing = {} THEN NoError
      ELSE authorize(u, perms[CHOOSE i \in failing : \A j \in failing : i <= j])

Verdict(r, perms) ==
  LET a == extract_auth(r) IN
  IF a.error # NoError THEN a.error
  ELSE IF authenticate(a) # NoError THEN authenticate(a)
  ELSE FirstError(a.user, perms)

-----------------------------------------------------------------------------
(* The access the documentation promises, said without extractors: the     *)
(* request proves an identity in a way the service is configured to        *)
(* accept, and every required permission is granted to that user.          *)
Proves(r, u) ==
  LET kinds == {Stack[i] : i \in DOMAIN Stack}
      secret(p) == Known(u) /\ p = Users[u].password /\ p # Absent
  IN  \/ "basic" \in kinds /\ r.authz.scheme = "basic" /\ r.authz.user = u
         /\ secret(r.authz.secret)
      \/ "header" \in kinds /\ r.key.user = u /\ secret(r.key.secret)
      \/ "jwt" \in kinds /\ r.authz.scheme = "bearer" /\ r.authz.user = u
         /\ r.authz.secret = "valid"
      \/ "spiffe" \in kinds /\ r.peer = u /\ u # Absent

Granted(u, p) ==
  /\ Known(u)
  /\ \E r \in Users[u].roles : r \in DOMAIN Roles
       /\ (Roles[r].super_user \/ p \in Roles[r].permissions)

MayRun(r, perms) ==
  Provider = "config" =>
    \E u \in DOMAIN Users \cup {r.authz.user, r.peer} :
      Proves(r, u) /\ \A p \in perms : Granted(u, p)
=============================================================================
