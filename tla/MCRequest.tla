------------------------------ MODULE MCRequest ------------------------------
(***************************************************************************)
(* Instances of Request: two connections, a stack of extractors, users     *)
(* with and without roles, and handlers with different settings.           *)
(***************************************************************************)
EXTENDS Request, TLC

CONSTANTS c1, c2

TwoClients == {c1, c2}

MCUsers == "ann" :> [password |-> "pa", roles |-> {"operator"}]
        @@ "bob" :> [password |-> Absent, roles |-> {"guest", "nothing"}]
MCRoles == "operator" :> [permissions |-> {"call"}, super_user |-> FALSE]
        @@ "guest"    :> [permissions |-> {}, super_user |-> FALSE]
        @@ "root"     :> [permissions |-> {}, super_user |-> TRUE]
BasicHeaderJwt == <<"basic", "header", "jwt">>

NoHeader == [scheme |-> "absent", user |-> Absent, secret |-> Absent]
Cred(scheme, user, secret) == [scheme |-> scheme, user |-> user, secret |-> secret]
NoPair == [user |-> Absent, secret |-> Absent]
Pair(user, secret) == [user |-> user, secret |-> secret]
Carries(a, k) == [authz |-> a, key |-> k, peer |-> Absent]

MCRequests ==
  { Carries(NoHeader, NoPair),
    Carries(Cred("basic", "ann", "pa"), NoPair),
    Carries(Cred("basic", "ann", "pb"), NoPair),
    Carries(Cred("basic", "eve", "pa"), NoPair),
    Carries(Cred("bearer", "bob", "valid"), NoPair),
    Carries(Cred("bearer", "ann", "expired"), Pair("bob", "pa")) }

Handlers == {"guarded", "open", "off"}
MCDeclared == "guarded" :> [no_auth |-> FALSE, permissions |-> <<"call">>]
           @@ "open"    :> [no_auth |-> TRUE,  permissions |-> <<>>]
           @@ "off"     :> [no_auth |-> TRUE,  permissions |-> <<>>]
Settings(disabled, burst, default, min, max) ==
  [disabled |-> disabled, burst |-> burst, use_x_timeout |-> TRUE,
   default_timeout |-> default, min_timeout |-> min, max_timeout |-> max]
MCConfig == "guarded" :> Settings(FALSE, 1, 1, None, 1)
         @@ "open"    :> Settings(FALSE, 0, None, None, None)
         @@ "off"     :> Settings(TRUE, 0, None, None, None)
MCXTimeouts == {None, Garbled, 1, 2}
=============================================================================
