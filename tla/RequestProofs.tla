---------------------------- MODULE RequestProofs ----------------------------
(***************************************************************************)
(* Theorems about Auth and Request, for any stack of extractors, users,    *)
(* roles, permissions and requests, any number of connections, and any     *)
(* configuration of the handlers.                                          *)
(***************************************************************************)
EXTENDS Request, FiniteSetTheorems, TLAPS

USE AuthAssumption

(* The first of some positions: every set of naturals has a least element. *)
(* (By the well-founded ordering of finite sets, here of initial segments: *)
(* it is the one the library states without an operator parameter.)        *)
LEMMA LeastNatural ==
  ASSUME NEW S, S \subseteq Nat, S # {}
  PROVE  \E i \in S : \A j \in S : i <= j
<1> DEFINE UpTo == {0..i : i \in S}
<1>1. UpTo \subseteq FiniteSubsetsOf(Nat)
  <2>1. ASSUME NEW i \in S PROVE IsFiniteSet(0..i) /\ 0..i \subseteq Nat
    BY FS_Interval
  <2> QED BY <2>1 DEF FiniteSubsetsOf
<1>2. PICK B \in UpTo : \A C \in UpTo : ~(<<C, B>> \in StrictSubsetOrdering(Nat))
  <2>1. UpTo # {}
    OBVIOUS
  <2> HIDE DEF UpTo
  <2> QED BY <1>1, <2>1, FS_StrictSubsetOrderingWellFounded, WFMin
<1>3. PICK i \in S : B = 0..i
  OBVIOUS
<1>4. ASSUME NEW j \in S, ~(i <= j) PROVE FALSE
  <2>1. 0..j \subseteq 0..i /\ i \in 0..i /\ i \notin 0..j
    BY <1>4
  <2>2. 0..j \in SUBSET Nat /\ 0..i \in SUBSET Nat
    OBVIOUS
  <2>3. <<0..j, 0..i>> \in StrictSubsetOrdering(Nat)
    BY <2>1, <2>2 DEF StrictSubsetOrdering
  <2> QED BY <1>2, <1>3, <2>3
<1> QED BY <1>4

-----------------------------------------------------------------------------
(* Authentication and authorization.                                       *)

(* There is a first extractor, and each is of a known kind.                *)
LEMMA StackType ==
  /\ DOMAIN Stack \subseteq Nat /\ 1 \in DOMAIN Stack
  /\ \A i \in DOMAIN Stack : Stack[i] \in {"no_op", "basic", "header", "jwt", "spiffe"}
<1>1. CASE Extractors = <<>>
  BY <1>1 DEF Stack
<1>2. CASE Extractors # <<>>
  <2>1. DOMAIN Extractors = 1..Len(Extractors) /\ Len(Extractors) \in Nat \ {0}
    BY <1>2
  <2> QED BY <1>2, <2>1 DEF Stack
<1> QED BY <1>1, <1>2

(* Which extractor decides: one that succeeds, or else the first.          *)
LEMMA Decides ==
  ASSUME NEW r
  PROVE  \/ Succeeding(r) = {} /\ extract_auth(r) = ExtractBy(Stack[1], r)
            /\ extract_auth(r).error # NoError
         \/ \E i \in Succeeding(r) : /\ extract_auth(r) = ExtractBy(Stack[i], r)
                                     /\ extract_auth(r).error = NoError
<1>1. CASE Succeeding(r) = {}
  <2>1. extract_auth(r) = ExtractBy(Stack[1], r)
    BY <1>1 DEF extract_auth
  <2> QED BY <1>1, <2>1, StackType DEF Succeeding
<1>2. CASE Succeeding(r) # {}
  <2> DEFINE k == CHOOSE i \in Succeeding(r) : \A j \in Succeeding(r) : i <= j
  <2>1. Succeeding(r) \subseteq Nat
    BY StackType DEF Succeeding
  <2>2. k \in Succeeding(r)
    <3>1. \E i \in Succeeding(r) : \A j \in Succeeding(r) : i <= j
      BY <1>2, <2>1, LeastNatural
    <3> QED BY <3>1
  <2>3. extract_auth(r) = ExtractBy(Stack[k], r)
    BY <1>2 DEF extract_auth
  <2> HIDE DEF k
  <2> QED BY <2>2, <2>3 DEF Succeeding
<1> QED BY <1>1, <1>2

(* The permissions are all authorized if no first error is found.          *)
LEMMA AllAuthorized ==
  ASSUME NEW u, NEW perms, DOMAIN perms \subseteq Nat, FirstError(u, perms) = NoError
  PROVE  \A i \in DOMAIN perms : authorize(u, perms[i]) = NoError
<1> DEFINE failing == {i \in DOMAIN perms : authorize(u, perms[i]) # NoError}
<1> DEFINE k == CHOOSE i \in failing : \A j \in failing : i <= j
<1>1. ASSUME failing # {} PROVE FALSE
  <2>1. k \in failing
    <3>1. \E i \in failing : \A j \in failing : i <= j
      <4>1. failing \subseteq Nat
        OBVIOUS
      <4> HIDE DEF failing
      <4> QED BY <1>1, <4>1, LeastNatural
    <3> HIDE DEF failing
    <3> QED BY <3>1
  <2>2. FirstError(u, perms) = authorize(u, perms[k])
    BY <1>1 DEF FirstError
  <2>3. authorize(u, perms[k]) # NoError
    <3> HIDE DEF k
    <3> QED BY <2>1
  <2> QED BY <2>2, <2>3
<1> QED BY <1>1

(* The requests that can be made sense of.                                 *)
WellFormed(r) ==
  /\ r.authz.scheme \in {"absent", "malformed", "basic", "bearer", "other"}
  /\ r.authz.scheme = "bearer" => r.authz.secret \in {"valid", "expired", "forged", "garbled"}

(* Whatever extractor succeeds, who passes authentication has proved to be *)
(* the user that is authorized next.                                       *)
LEMMA AuthenticatedProves ==
  ASSUME NEW r, WellFormed(r), Provider = "config",
         NEW i \in DOMAIN Stack, NEW a, a = ExtractBy(Stack[i], r),
         a.error = NoError, authenticate(a) = NoError
  PROVE  Proves(r, a.user) /\ a.user \in DOMAIN Users \cup {r.authz.user, r.peer}
<1>0. Stack[i] \in {Stack[j] : j \in DOMAIN Stack}
  OBVIOUS
<1>1. CASE Stack[i] = "no_op"
  BY <1>1 DEF ExtractBy, NoOpExtract, Token, authenticate, Error, NoError
<1>2. CASE Stack[i] = "basic"
  <2>1. r.authz.scheme = "basic" /\ a = Password(r.authz.user, r.authz.secret)
    BY <1>2 DEF ExtractBy, NoOpExtract, BasicExtract, Failed, Error, UnknownAuthScheme, NoError, WellFormed
  <2>2. /\ Known(a.user) /\ Users[a.user].password # Absent
        /\ Users[a.user].password = r.authz.secret /\ a.user = r.authz.user
    BY <2>1 DEF Password, authenticate, Error, NoError
  <2> QED BY <1>0, <1>2, <2>1, <2>2 DEF Proves
<1>3. CASE Stack[i] = "header"
  <2>1. a = Password(r.key.user, r.key.secret)
    BY <1>3 DEF ExtractBy, NoOpExtract, HeaderExtract, Failed, Error, UnknownAuthScheme, NoError
  <2>2. /\ Known(a.user) /\ Users[a.user].password # Absent
        /\ Users[a.user].password = r.key.secret /\ a.user = r.key.user
    BY <2>1 DEF Password, authenticate, Error, NoError
  <2> QED BY <1>0, <1>3, <2>1, <2>2 DEF Proves, Known
<1>4. CASE Stack[i] = "jwt"
  <2>1. r.authz.scheme = "bearer" /\ r.authz.secret = "valid" /\ a = Token(r.authz.user, "verified")
    BY <1>4 DEF ExtractBy, NoOpExtract, JwtExtract, Failed, Error, UnknownAuthScheme, NoError, WellFormed
  <2> QED BY <1>0, <1>4, <2>1 DEF Proves, Token
<1>5. CASE Stack[i] = "spiffe"
  <2>1. r.peer # Absent /\ a = Token(r.peer, "verified")
    BY <1>5 DEF ExtractBy, NoOpExtract, SpiffeExtract, Failed, Error, UnknownAuthScheme, NoError
  <2> QED BY <1>0, <1>5, <2>1 DEF Proves, Token
<1> QED BY <1>1, <1>2, <1>3, <1>4, <1>5, StackType

(* Authentication and authorization let a request through only if it has   *)
(* the access the documentation promises, said without extractors.         *)
THEOREM VerdictSound ==
  ASSUME NEW r, WellFormed(r), NEW perms, DOMAIN perms \subseteq Nat,
         Verdict(r, perms) = NoError
  PROVE  MayRun(r, {perms[i] : i \in DOMAIN perms})
<1> SUFFICES ASSUME Provider = "config"
             PROVE  \E u \in DOMAIN Users \cup {r.authz.user, r.peer} :
                      Proves(r, u) /\ \A p \in {perms[i] : i \in DOMAIN perms} : Granted(u, p)
  BY DEF MayRun
<1> DEFINE a == extract_auth(r)
<1>1. a.error = NoError /\ authenticate(a) = NoError /\ FirstError(a.user, perms) = NoError
  BY DEF Verdict
<1>2. PICK i \in DOMAIN Stack : a = ExtractBy(Stack[i], r)
  BY <1>1, Decides DEF Succeeding
<1> HIDE DEF a
<1>3. Proves(r, a.user) /\ a.user \in DOMAIN Users \cup {r.authz.user, r.peer}
  BY <1>1, <1>2, AuthenticatedProves
<1>4. \A i2 \in DOMAIN perms : authorize(a.user, perms[i2]) = NoError
  BY <1>1, AllAuthorized
<1>5. ASSUME NEW p, authorize(a.user, p) = NoError PROVE Granted(a.user, p)
  BY <1>5 DEF authorize, Granted, Error, NoError, NoPermission
<1> QED BY <1>3, <1>4, <1>5

(* Requests of the same shape look the same to every extractor.            *)
LEMMA SameErrors ==
  ASSUME NEW r, NEW s, WellFormed(r), WellFormed(s), Plain(r), Plain(s),
         Shape(r) = Shape(s), NEW i \in DOMAIN Stack
  PROVE  ExtractBy(Stack[i], r).error = ExtractBy(Stack[i], s).error
<1>1. /\ r.authz.scheme = s.authz.scheme /\ r.authz.scheme \in {"absent", "basic"}
      /\ (r.key.user = Absent) = (s.key.user = Absent)
      /\ (r.key.secret = Absent) = (s.key.secret = Absent)
  BY DEF Shape, Plain
<1>2. CASE Stack[i] = "no_op"
  BY <1>2 DEF ExtractBy, NoOpExtract
<1>3. CASE Stack[i] = "basic"
  BY <1>1, <1>3 DEF ExtractBy, NoOpExtract, BasicExtract, Failed, Error, UnknownAuthScheme, NoError, Password, Plain
<1>4. CASE Stack[i] = "header"
  BY <1>1, <1>4 DEF ExtractBy, NoOpExtract, HeaderExtract, Failed, Error, UnknownAuthScheme, NoError, Password, Plain
<1>5. CASE Stack[i] = "jwt"
  BY <1>1, <1>5 DEF ExtractBy, NoOpExtract, JwtExtract, Failed, Error, UnknownAuthScheme, NoError
<1>6. CASE Stack[i] = "spiffe"
  BY <1>6 DEF ExtractBy, NoOpExtract, SpiffeExtract, Plain
<1> QED BY <1>2, <1>3, <1>4, <1>5, <1>6, StackType

(* Of those that an extractor makes something of, and that prove nothing,  *)
(* some are refused for the user, the others for the password.             *)
LEMMA RefusedForUserOrPassword ==
  ASSUME NEW r, WellFormed(r), Plain(r), ProvesNothing(r), NEW perms,
         NEW i \in DOMAIN Stack, extract_auth(r) = ExtractBy(Stack[i], r),
         extract_auth(r).error = NoError, Verdict(r, perms) # NoError
  PROVE  Verdict(r, perms) \in {Error("UserNotFound"), Error("AuthFailed")}
<1> DEFINE a == extract_auth(r)
<1>1. Verdict(r, perms) = IF authenticate(a) # NoError THEN authenticate(a)
                          ELSE FirstError(a.user, perms)
  BY DEF Verdict
<1>2. a = ExtractBy(Stack[i], r) /\ a.error = NoError
  OBVIOUS
<1> HIDE DEF a
<1>3. ASSUME Provider = "no_op" PROVE FALSE
  <2>1. authenticate(a) = NoError /\ \A p : authorize(a.user, p) = NoError
    BY <1>3 DEF authenticate, authorize
  <2>2. FirstError(a.user, perms) = NoError
    BY <2>1 DEF FirstError
  <2> QED BY <1>1, <2>1, <2>2
<1>4. ASSUME Provider = "config", a.token = "password"
      PROVE  authenticate(a) \in {Error("UserNotFound"), Error("AuthFailed")}
  <2>1. ASSUME authenticate(a) = NoError PROVE FALSE
    <3>1. Proves(r, a.user)
      BY <1>2, <1>4, <2>1, AuthenticatedProves
    <3>2. a.user \in DOMAIN Users
      BY <1>4, <2>1 DEF authenticate, Known, Error, NoError
    <3> QED BY <3>1, <3>2 DEF ProvesNothing
  <2> QED BY <1>4, <2>1 DEF authenticate
<1>5. ASSUME Provider = "config" PROVE authenticate(a) \in {Error("UserNotFound"), Error("AuthFailed")}
  <2>1. CASE Stack[i] = "no_op"
    BY <1>2, <1>5, <2>1 DEF ExtractBy, NoOpExtract, Token, authenticate, Error, NoError
  <2>2. CASE Stack[i] = "basic"
    <3>1. a.token = "password"
      BY <1>2, <2>2 DEF ExtractBy, NoOpExtract, BasicExtract, Password, Failed, Error, UnknownAuthScheme, NoError, Plain
    <3> QED BY <1>4, <1>5, <3>1
  <2>3. CASE Stack[i] = "header"
    <3>1. a.token = "password"
      BY <1>2, <2>3 DEF ExtractBy, NoOpExtract, HeaderExtract, Password, Failed, Error, UnknownAuthScheme, NoError
    <3> QED BY <1>4, <1>5, <3>1
  <2>4. Stack[i] # "jwt"
    BY <1>2 DEF ExtractBy, NoOpExtract, JwtExtract, Failed, Error, UnknownAuthScheme, NoError, Plain
  <2>5. Stack[i] # "spiffe"
    BY <1>2 DEF ExtractBy, NoOpExtract, SpiffeExtract, Failed, Error, UnknownAuthScheme, NoError, Plain
  <2> QED BY <2>1, <2>2, <2>3, <2>4, <2>5, StackType
<1>6. Error("UserNotFound") # NoError /\ Error("AuthFailed") # NoError
  BY DEF Error, NoError
<1> QED BY <1>1, <1>3, <1>5, <1>6

(* The response to a request that proves nothing, its status, its text and *)
(* its challenge, depends on the shape of the request alone: not on        *)
(* whether the user exists, and not on the password.                       *)
THEOREM RefusedAlike ==
  ASSUME NEW r, NEW s, WellFormed(r), WellFormed(s), Plain(r), Plain(s),
         Shape(r) = Shape(s), ProvesNothing(r), ProvesNothing(s), NEW perms,
         Verdict(r, perms) # NoError, Verdict(s, perms) # NoError
  PROVE  error_response(Verdict(r, perms)) = error_response(Verdict(s, perms))
<1>1. Succeeding(r) = Succeeding(s)
  BY SameErrors DEF Succeeding
<1>2. CASE Succeeding(r) = {}
  <2>1. /\ extract_auth(r) = ExtractBy(Stack[1], r) /\ extract_auth(r).error # NoError
        /\ extract_auth(s) = ExtractBy(Stack[1], s) /\ extract_auth(s).error # NoError
    BY <1>1, <1>2, Decides
  <2>2. extract_auth(r).error = extract_auth(s).error
    BY <2>1, SameErrors, StackType
  <2> QED BY <2>1, <2>2 DEF Verdict
<1>3. CASE Succeeding(r) # {}
  <2>1. PICK i \in Succeeding(r) : extract_auth(r) = ExtractBy(Stack[i], r)
                                   /\ extract_auth(r).error = NoError
    BY <1>3, Decides
  <2>2. PICK j \in Succeeding(s) : extract_auth(s) = ExtractBy(Stack[j], s)
                                   /\ extract_auth(s).error = NoError
    BY <1>1, <1>3, Decides
  <2>3. i \in DOMAIN Stack /\ j \in DOMAIN Stack
    BY DEF Succeeding
  <2>4. Verdict(r, perms) \in {Error("UserNotFound"), Error("AuthFailed")}
    BY <2>1, <2>3, RefusedForUserOrPassword
  <2>5. Verdict(s, perms) \in {Error("UserNotFound"), Error("AuthFailed")}
    BY <2>2, <2>3, RefusedForUserOrPassword
  <2>6. error_response(Error("UserNotFound")) = error_response(Error("AuthFailed"))
    BY DEF error_response, StatusOf, to_string, Error
  <2> QED BY <2>4, <2>5, <2>6
<1> QED BY <1>2, <1>3

-----------------------------------------------------------------------------
(* The life of a request.                                                  *)

USE RequestAssumption

(* A challenge comes with a 401 only.                                      *)
IsReply(x) == x.status \in Statuses /\ (x.challenge # Absent => x.status = 401)

DataOK ==
  /\ stage \in [Client -> {"idle", "running", "replied"}]
  /\ DOMAIN request = Client
  /\ left \in [Client -> Nat \cup {None}]
  /\ call \in [Client -> [x_timeout : {None, 0}] \cup {None}]
  /\ DOMAIN reply = Client /\ \A c \in Client : reply[c] # None => IsReply(reply[c])
  /\ tokens \in [Handler -> Nat]
  /\ \A h \in Handler : tokens[h] <= Config[h].burst
  /\ active \in Int /\ drops \in 0..MaxDrops

(* Deadlines and outgoing calls belong to a running handler.               *)
Owned ==
  \A c \in Client : left[c] # None \/ call[c] # None => stage[c] = "running"

(* A handler runs for a request that got through authentication; a request *)
(* that authentication refused got the answer to what it found.            *)
Judged ==
  \A c \in Client :
    LET q == request[c] IN
    /\ stage[c] = "running" \/ Refused(c) => q.handler \in Handler /\ q.carries \in Requests
    /\ stage[c] = "running" => AuthError(q.handler, q.carries) = NoError
    /\ Refused(c) => /\ AuthError(q.handler, q.carries) # NoError
                     /\ reply[c] = error_response(AuthError(q.handler, q.carries))

(* The gauge counts the running handlers, and every request dropped.       *)
GaugeLeaks == active = Cardinality(Running) + drops

IInv == DataOK /\ Owned /\ Judged /\ GaugeLeaks

(* Deadlines are durations.                                                *)
LEMMA DeadlineType ==
  ASSUME NEW h \in Handler, NEW xt \in XTimeouts
  PROVE  get_deadline(Config[h], xt) \in Nat \cup {None}
<1>1. Asked(Config[h], xt) \in Nat \cup {None}
  BY DEF Asked
<1> QED BY <1>1 DEF get_deadline

(* What authentication answers, and the bare answers, are replies.         *)
LEMMA ReplyTypes ==
  /\ \A e : IsReply(error_response(e)) /\ error_response(e).status \in {400, 401, 403, 500}
  /\ \A s \in Statuses : IsReply(Bare(s)) /\ Bare(s).status = s
<1>1. ASSUME NEW e
      PROVE  IsReply(error_response(e)) /\ error_response(e).status \in {400, 401, 403, 500}
  BY DEF IsReply, error_response, Response, StatusOf, Challenging, Statuses
<1>2. ASSUME NEW s \in Statuses PROVE IsReply(Bare(s)) /\ Bare(s).status = s
  BY DEF IsReply, Bare, Response
<1> QED BY <1>1, <1>2

(* Initially no request is there, and every rate limit is full.            *)
LEMMA InitInv == Init => IInv
<1> SUFFICES ASSUME Init PROVE IInv
  OBVIOUS
<1>1. DataOK
  BY DEF Init, DataOK
<1>2. Owned /\ Judged
  BY DEF Init, Owned, Judged, Refused
<1>3. Running = {}
  BY DEF Init, Running
<1>4. GaugeLeaks
  BY <1>3, FS_EmptySet DEF Init, GaugeLeaks
<1> QED BY <1>1, <1>2, <1>4 DEF IInv

(* A request that arrives is answered, or its handler starts.              *)
LEMMA ArriveCases ==
  ASSUME NEW c \in Client, NEW h, NEW r, NEW xt, Arrive(c, h, r, xt)
  PROVE  /\ stage[c] # "running" /\ drops' = drops
         /\ \/ Turned(c, h, r, Bare(404)) /\ tokens' = tokens
            \/ Turned(c, h, r, Bare(429)) /\ tokens' = tokens
            \/ /\ Turned(c, h, r, error_response(AuthError(h, r))) /\ tokens' = tokens
               /\ AuthError(h, r) # NoError
            \/ /\ ~Exhausted(h) /\ Spend(h) /\ Runs(c, h, r, xt)
               /\ AuthError(h, r) = NoError
BY DEF Arrive

(* The steps of a running handler that end it.                             *)
Ends(c) == Answers(c) \/ Panics(c) \/ TimesOut(c)
LEMMA EndsCases ==
  ASSUME NEW c \in Client, Ends(c)
  PROVE  /\ stage[c] = "running" /\ tokens' = tokens /\ drops' = drops
         /\ \E s \in {200, 500, 504} : Reply(c, s)
BY DEF Ends, Answers, Panics, TimesOut

(* The values keep their types.                                            *)
LEMMA DataStep == ASSUME DataOK, [Next]_vars PROVE DataOK'
<1> USE DEF DataOK
<1>1. CASE UNCHANGED vars
  BY <1>1 DEF vars
<1>2. CASE Tick
  BY <1>2 DEF Tick, Ticking
<1>3. ASSUME NEW h \in Handler, Refill(h) PROVE DataOK'
  BY <1>3 DEF Refill
<1>4. ASSUME NEW c \in Client, NEW h \in Handler, NEW r \in Requests, NEW xt \in XTimeouts,
             Arrive(c, h, r, xt)
      PROVE  DataOK'
  <2>1. ASSUME NEW s, IsReply(s), Turned(c, h, r, s), tokens' = tokens, drops' = drops
        PROVE  DataOK'
    BY <2>1 DEF Turned
  <2>2. ASSUME ~Exhausted(h), Spend(h), Runs(c, h, r, xt), drops' = drops PROVE DataOK'
    <3>1. /\ tokens' \in [Handler -> Nat]
          /\ \A g \in Handler : tokens'[g] <= Config[g].burst
      BY <2>2 DEF Spend, Limited, Exhausted
    <3>2. left' \in [Client -> Nat \cup {None}]
      BY <2>2, DeadlineType DEF Runs
    <3> QED BY <2>2, <3>1, <3>2 DEF Runs
  <2>3. IsReply(Bare(404)) /\ IsReply(Bare(429)) /\ IsReply(error_response(AuthError(h, r)))
    BY ReplyTypes DEF Statuses
  <2> QED BY <1>4, <2>1, <2>2, <2>3, ArriveCases
<1>5. ASSUME NEW c \in Client, SendCall(c) PROVE DataOK'
  BY <1>5 DEF SendCall, time_left
<1>6. ASSUME NEW c \in Client, CallReturns(c) PROVE DataOK'
  BY <1>6 DEF CallReturns
<1>7. ASSUME NEW c \in Client, Ends(c) PROVE DataOK'
  <2>1. PICK s \in {200, 500, 504} : Reply(c, s)
    BY <1>7, EndsCases
  <2>2. IsReply(Bare(s)) /\ tokens' = tokens /\ drops' = drops
    BY <1>7, EndsCases, ReplyTypes DEF Statuses
  <2> QED BY <2>1, <2>2 DEF Reply
<1>8. ASSUME NEW c \in Client, ClientLeaves(c) PROVE DataOK'
  BY <1>8 DEF ClientLeaves
<1> QED BY <1>1, <1>2, <1>3, <1>4, <1>5, <1>6, <1>7, <1>8 DEF Next, Ends

(* Whatever ends a handler ends its deadline and its call.                 *)
LEMMA OwnedStep == ASSUME DataOK, Owned, [Next]_vars PROVE Owned'
<1> USE DEF DataOK, Owned
<1>1. CASE UNCHANGED vars
  BY <1>1 DEF vars
<1>2. CASE Tick
  BY <1>2 DEF Tick, Ticking
<1>3. ASSUME NEW h \in Handler, Refill(h) PROVE Owned'
  BY <1>3 DEF Refill
<1>4. ASSUME NEW c \in Client, NEW h \in Handler, NEW r \in Requests, NEW xt \in XTimeouts,
             Arrive(c, h, r, xt)
      PROVE  Owned'
  <2>1. ASSUME NEW s, Turned(c, h, r, s), stage[c] # "running" PROVE Owned'
    BY <2>1 DEF Turned
  <2>2. ASSUME Runs(c, h, r, xt) PROVE Owned'
    BY <2>2 DEF Runs
  <2> QED BY <1>4, <2>1, <2>2, ArriveCases
<1>5. ASSUME NEW c \in Client, SendCall(c) PROVE Owned'
  BY <1>5 DEF SendCall
<1>6. ASSUME NEW c \in Client, CallReturns(c) PROVE Owned'
  BY <1>6 DEF CallReturns
<1>7. ASSUME NEW c \in Client, Ends(c) PROVE Owned'
  <2>1. PICK s \in {200, 500, 504} : Reply(c, s)
    BY <1>7, EndsCases
  <2> QED BY <2>1 DEF Reply
<1>8. ASSUME NEW c \in Client, ClientLeaves(c) PROVE Owned'
  BY <1>8 DEF ClientLeaves
<1> QED BY <1>1, <1>2, <1>3, <1>4, <1>5, <1>6, <1>7, <1>8 DEF Next, Ends

(* A step that leaves what a client asked, its stage and its reply alone   *)
(* leaves what was found of it alone.                                      *)
JudgedOf(c) ==
  /\ stage[c] = "running" \/ Refused(c) =>
       request[c].handler \in Handler /\ request[c].carries \in Requests
  /\ stage[c] = "running" => AuthError(request[c].handler, request[c].carries) = NoError
  /\ Refused(c) => /\ AuthError(request[c].handler, request[c].carries) # NoError
                   /\ reply[c] = error_response(AuthError(request[c].handler, request[c].carries))
LEMMA JudgedStep == ASSUME DataOK, Judged, [Next]_vars PROVE Judged'
<1> USE DEF DataOK
<1>0. Judged <=> \A c \in Client : JudgedOf(c)
  BY DEF Judged, JudgedOf
<1>1. ASSUME NEW c \in Client, stage'[c] = stage[c], request'[c] = request[c],
             reply'[c] = reply[c]
      PROVE  JudgedOf(c)'
  BY <1>0, <1>1 DEF JudgedOf, Refused, AuthError
<1>2. ASSUME UNCHANGED <<stage, request, reply>> PROVE Judged'
  BY <1>1, <1>2 DEF Judged, JudgedOf
<1>3. ASSUME NEW c \in Client, JudgedOf(c)',
             \A d \in Client \ {c} : /\ stage'[d] = stage[d] /\ request'[d] = request[d]
                                     /\ reply'[d] = reply[d]
      PROVE  Judged'
  BY <1>1, <1>3 DEF Judged, JudgedOf
<1>4. ASSUME NEW c \in Client, NEW h \in Handler, NEW r \in Requests, NEW xt \in XTimeouts,
             Arrive(c, h, r, xt)
      PROVE  Judged'
  <2>1. ASSUME NEW s, Turned(c, h, r, s)
        PROVE  /\ stage'[c] = "replied" /\ reply'[c] = s
               /\ request'[c].handler = h /\ request'[c].carries = r
               /\ \A d \in Client \ {c} : /\ stage'[d] = stage[d] /\ request'[d] = request[d]
                                          /\ reply'[d] = reply[d]
    BY <2>1 DEF Turned
  <2>2. ASSUME NEW s \in {404, 429}, Turned(c, h, r, Bare(s)) PROVE Judged'
    <3>1. ~Refused(c)' /\ stage'[c] # "running"
      <4>1. Bare(s).status = s
        BY ReplyTypes DEF Statuses
      <4> QED BY <2>1, <2>2, <4>1 DEF Refused
    <3> QED BY <1>3, <2>1, <2>2, <3>1 DEF JudgedOf
  <2>3. ASSUME Turned(c, h, r, error_response(AuthError(h, r))), AuthError(h, r) # NoError
        PROVE  Judged'
    <3>1. JudgedOf(c)'
      BY <2>1, <2>3 DEF JudgedOf, AuthError
    <3> QED BY <1>3, <2>1, <2>3, <3>1
  <2>4. ASSUME Runs(c, h, r, xt), AuthError(h, r) = NoError PROVE Judged'
    <3>1. /\ stage'[c] = "running" /\ request'[c].handler = h /\ request'[c].carries = r
          /\ \A d \in Client \ {c} : /\ stage'[d] = stage[d] /\ request'[d] = request[d]
                                     /\ reply'[d] = reply[d]
      BY <2>4 DEF Runs
    <3>2. JudgedOf(c)'
      BY <2>4, <3>1 DEF JudgedOf, Refused, AuthError
    <3> QED BY <1>3, <3>1, <3>2
  <2> QED BY <1>4, <2>2, <2>3, <2>4, ArriveCases
<1>5. ASSUME NEW c \in Client, Ends(c) PROVE Judged'
  <2>1. PICK s \in {200, 500, 504} : Reply(c, s)
    BY <1>5, EndsCases
  <2>2. /\ stage'[c] = "replied" /\ request'[c] = NoRequest
        /\ \A d \in Client \ {c} : /\ stage'[d] = stage[d] /\ request'[d] = request[d]
                                   /\ reply'[d] = reply[d]
    BY <2>1 DEF Reply
  <2>3. JudgedOf(c)'
    BY <2>2 DEF JudgedOf, Refused, NoRequest
  <2> QED BY <1>3, <2>2, <2>3
<1>6. ASSUME NEW c \in Client, ClientLeaves(c) PROVE Judged'
  <2>1. /\ stage'[c] = "idle"
        /\ \A d \in Client \ {c} : /\ stage'[d] = stage[d] /\ request'[d] = request[d]
                                   /\ reply'[d] = reply[d]
    BY <1>6 DEF ClientLeaves
  <2>2. JudgedOf(c)'
    BY <2>1 DEF JudgedOf, Refused
  <2> QED BY <1>3, <2>1, <2>2
<1>7. ASSUME \/ UNCHANGED vars \/ Tick \/ \E h \in Handler : Refill(h)
             \/ \E c \in Client : SendCall(c) \/ CallReturns(c)
      PROVE  UNCHANGED <<stage, request, reply>>
  BY <1>7 DEF vars, Tick, Refill, SendCall, CallReturns
<1> QED BY <1>2, <1>4, <1>5, <1>6, <1>7 DEF Next, Ends

(* The running handlers are finitely many.                                 *)
LEMMA RunningFinite == IsFiniteSet(Running) /\ Cardinality(Running) \in Nat
BY FS_Subset, FS_CardinalityType DEF Running

(* What a step of one request does to the set of running handlers.         *)
LEMMA RunningChanges ==
  ASSUME NEW c \in Client, \A d \in Client \ {c} : stage'[d] = stage[d]
  PROVE  /\ (stage[c] = "running") = (stage'[c] = "running") => Running' = Running
         /\ stage[c] # "running" /\ stage'[c] = "running" =>
              Cardinality(Running') = Cardinality(Running) + 1
         /\ stage[c] = "running" /\ stage'[c] # "running" =>
              Cardinality(Running') = Cardinality(Running) - 1
<1>1. ASSUME stage[c] # "running", stage'[c] = "running"
      PROVE  c \notin Running /\ Running' = Running \cup {c}
  BY <1>1 DEF Running
<1>2. ASSUME stage[c] = "running", stage'[c] # "running"
      PROVE  c \in Running /\ Running' = Running \ {c}
  BY <1>2 DEF Running
<1>3. ASSUME (stage[c] = "running") = (stage'[c] = "running") PROVE Running' = Running
  BY <1>3 DEF Running
<1>4. ASSUME c \notin Running PROVE Cardinality(Running \cup {c}) = Cardinality(Running) + 1
  BY <1>4, RunningFinite, FS_AddElement
<1>5. ASSUME c \in Running PROVE Cardinality(Running \ {c}) = Cardinality(Running) - 1
  BY <1>5, RunningFinite, FS_RemoveElement
<1> QED BY <1>1, <1>2, <1>3, <1>4, <1>5

(* The gauge follows the running handlers and keeps those dropped.         *)
LEMMA GaugeStep == ASSUME DataOK, GaugeLeaks, [Next]_vars PROVE GaugeLeaks'
<1>0. /\ Cardinality(Running) \in Nat /\ active \in Int /\ drops \in Int
      /\ stage \in [Client -> {"idle", "running", "replied"}]
  BY RunningFinite DEF DataOK
<1>1. ASSUME UNCHANGED <<stage, active, drops>> PROVE GaugeLeaks'
  BY <1>1 DEF GaugeLeaks, Running
<1>2. ASSUME \/ UNCHANGED vars \/ Tick \/ \E h \in Handler : Refill(h)
             \/ \E c \in Client : SendCall(c) \/ CallReturns(c)
      PROVE  UNCHANGED <<stage, active, drops>>
  BY <1>2 DEF vars, Tick, Refill, SendCall, CallReturns
<1>3. ASSUME NEW c \in Client, NEW h \in Handler, NEW r \in Requests, NEW xt \in XTimeouts,
             Arrive(c, h, r, xt)
      PROVE  GaugeLeaks'
  <2>1. ASSUME NEW s, Turned(c, h, r, s), stage[c] # "running", drops' = drops
        PROVE  GaugeLeaks'
    <3>1. Running' = Running
      BY <1>0, <2>1, RunningChanges DEF Turned
    <3> QED BY <2>1, <3>1 DEF Turned, GaugeLeaks
  <2>2. ASSUME Runs(c, h, r, xt), stage[c] # "running", drops' = drops PROVE GaugeLeaks'
    <3>1. Cardinality(Running') = Cardinality(Running) + 1
      BY <1>0, <2>2, RunningChanges DEF Runs
    <3>2. active' = active + 1
      BY <2>2 DEF Runs
    <3> QED BY <1>0, <2>2, <3>1, <3>2 DEF GaugeLeaks
  <2> QED BY <1>3, <2>1, <2>2, ArriveCases
<1>4. ASSUME NEW c \in Client, Ends(c) PROVE GaugeLeaks'
  <2>1. PICK s \in {200, 500, 504} : Reply(c, s)
    BY <1>4, EndsCases
  <2>2. stage[c] = "running" /\ drops' = drops
    BY <1>4, EndsCases
  <2>3. Cardinality(Running') = Cardinality(Running) - 1
    BY <1>0, <2>1, <2>2, RunningChanges DEF Reply
  <2>4. active' = active - 1
    BY <2>1 DEF Reply
  <2> QED BY <1>0, <2>2, <2>3, <2>4 DEF GaugeLeaks
<1>5. ASSUME NEW c \in Client, ClientLeaves(c) PROVE GaugeLeaks'
  <2>1. Cardinality(Running') = Cardinality(Running) - 1
    BY <1>0, <1>5, RunningChanges DEF ClientLeaves
  <2>2. active' = active /\ drops' = drops + 1
    BY <1>5 DEF ClientLeaves
  <2> QED BY <1>0, <2>1, <2>2 DEF GaugeLeaks
<1> QED BY <1>1, <1>2, <1>3, <1>4, <1>5 DEF Next, Ends

(* The strengthened invariant holds from the first state on.               *)
LEMMA Invariance == Spec => []IInv
<1>1. IInv /\ [Next]_vars => IInv'
  BY DataStep, OwnedStep, JudgedStep, GaugeStep DEF IInv
<1> QED BY <1>1, InitInv, PTL DEF Spec

(* Every variable of the application keeps its type, and the gauge of      *)
(* active requests never goes below zero.                                  *)
THEOREM TypeCorrect == Spec => []TypeOK
<1>1. ASSUME IInv PROVE TypeOK
  <2>1. DataOK /\ Owned /\ GaugeLeaks
    BY <1>1 DEF IInv
  <2>2. active \in Nat
    BY <2>1, RunningFinite DEF GaugeLeaks, DataOK
  <2>3. \A h \in Handler : tokens[h] \in 0..Config[h].burst
    BY <2>1 DEF DataOK
  <2>4. \A c \in Client : left[c] # None => left[c] \in Nat /\ stage[c] = "running"
    BY <2>1 DEF DataOK, Owned
  <2>6. \A c \in Client : call[c] # None => call[c].x_timeout \in {None, 0}
    BY <2>1 DEF DataOK
  <2>5. /\ stage \in [Client -> {"idle", "running", "replied"}]
        /\ \A c \in Client : reply[c] # None => IsReply(reply[c])
        /\ drops \in 0..MaxDrops
    BY <2>1 DEF DataOK
  <2> QED BY Zenon, <2>2, <2>3, <2>4, <2>5, <2>6 DEF TypeOK, IsReply
<1> QED BY <1>1, Invariance, PTL

(* A handler that wants authentication runs only for a user who proved to  *)
(* be one, and to whom all its permissions are granted.                    *)
THEOREM PermittedRun == Spec => []OnlyPermittedRun
<1>1. ASSUME IInv PROVE OnlyPermittedRun
  <2> SUFFICES ASSUME NEW c \in Running, ~Declared[request[c].handler].no_auth
               PROVE  MayRun(request[c].carries, PermsOf(request[c].handler))
    BY DEF OnlyPermittedRun
  <2> DEFINE h == request[c].handler
             r == request[c].carries
  <2>1. h \in Handler /\ r \in Requests /\ AuthError(h, r) = NoError
    BY <1>1 DEF IInv, Judged, Running
  <2>2. Verdict(r, Declared[h].permissions) = NoError
    BY <2>1 DEF AuthError
  <2> HIDE DEF h, r
  <2>3. WellFormed(r) /\ DOMAIN Declared[h].permissions \subseteq Nat
    BY <2>1 DEF WellFormed
  <2>4. MayRun(r, PermsOf(h))
    BY <2>2, <2>3, VerdictSound DEF PermsOf
  <2> QED BY <2>4 DEF h, r
<1> QED BY <1>1, Invariance, PTL

(* What a refusal says does not depend on whether the user exists.         *)
THEOREM RefusalsAlike == Spec => []RefusalsTellNothing
<1>1. ASSUME IInv PROVE RefusalsTellNothing
  <2> SUFFICES ASSUME NEW c \in Client, NEW d \in Client, Refused(c), Refused(d),
                      request[c].handler = request[d].handler,
                      Plain(request[c].carries), Plain(request[d].carries),
                      Shape(request[c].carries) = Shape(request[d].carries),
                      ProvesNothing(request[c].carries), ProvesNothing(request[d].carries)
               PROVE  reply[c] = reply[d]
    BY DEF RefusalsTellNothing
  <2> DEFINE h == request[c].handler
             r == request[c].carries
             s == request[d].carries
  <2>1. /\ r \in Requests /\ s \in Requests
        /\ AuthError(h, r) # NoError /\ reply[c] = error_response(AuthError(h, r))
        /\ AuthError(h, s) # NoError /\ reply[d] = error_response(AuthError(h, s))
    BY <1>1 DEF IInv, Judged
  <2>2. /\ Plain(r) /\ Plain(s) /\ Shape(r) = Shape(s)
        /\ ProvesNothing(r) /\ ProvesNothing(s)
    OBVIOUS
  <2> HIDE DEF h, r, s
  <2>3. WellFormed(r) /\ WellFormed(s)
    BY <2>1 DEF WellFormed
  <2>4. /\ AuthError(h, r) = Verdict(r, Declared[h].permissions)
        /\ AuthError(h, s) = Verdict(s, Declared[h].permissions)
    BY <2>1 DEF AuthError
  <2>5. error_response(AuthError(h, r)) = error_response(AuthError(h, s))
    BY <2>1, <2>2, <2>3, <2>4, RefusedAlike
  <2> QED BY <2>1, <2>5
<1> QED BY <1>1, Invariance, PTL

(* No outgoing call goes on for a request that is not running any more.    *)
THEOREM CallsOwned == Spec => []NoOrphanCalls
<1>1. IInv => NoOrphanCalls
  BY DEF IInv, Owned, NoOrphanCalls
<1> QED BY <1>1, Invariance, PTL

(* The gauge of active requests is never less than the running handlers,   *)
(* and tells exactly those while no request was dropped.                   *)
THEOREM GaugeTold == Spec => []GaugeTellsRunning
<1>1. ASSUME IInv PROVE GaugeTellsRunning
  <2>1. /\ active = Cardinality(Running) + drops /\ Cardinality(Running) \in Nat
        /\ drops \in 0..MaxDrops
    BY <1>1, RunningFinite DEF IInv, GaugeLeaks, DataOK
  <2> QED BY <2>1 DEF GaugeTellsRunning
<1> QED BY <1>1, Invariance, PTL

(* What is taken from a rate limit is spent on a handler that starts.      *)
THEOREM TokensSpentOnRuns == Spec => TokensBuyRuns
<1> DEFINE Bought ==
      \A h \in Handler :
        tokens'[h] < tokens[h] =>
          \E c \in Client : /\ stage[c] # "running" /\ stage'[c] = "running"
                            /\ request'[c].handler = h
<1>1. ASSUME IInv, [Next]_vars PROVE [Bought]_vars
  <2> SUFFICES ASSUME Next, NEW h \in Handler, tokens'[h] < tokens[h]
               PROVE  \E c \in Client : /\ stage[c] # "running" /\ stage'[c] = "running"
                                        /\ request'[c].handler = h
    BY <1>1
  <2>0. DataOK /\ tokens \in [Handler -> Nat] /\ tokens' # tokens
    BY <1>1 DEF IInv, DataOK
  <2>1. PICK c \in Client, g \in Handler, r \in Requests, xt \in XTimeouts : Arrive(c, g, r, xt)
    <3>1. ASSUME NEW g \in Handler, Refill(g) PROVE FALSE
      BY <2>0, <3>1 DEF Refill
    <3>2. ASSUME NEW c \in Client, \/ SendCall(c) \/ CallReturns(c) \/ Ends(c)
                                  \/ ClientLeaves(c)
          PROVE  FALSE
      BY <2>0, <3>2, EndsCases DEF SendCall, CallReturns, ClientLeaves
    <3>3. ~Tick
      BY <2>0 DEF Tick
    <3> QED BY <3>1, <3>2, <3>3 DEF Next, Ends
  <2>2. stage[c] # "running" /\ Spend(g) /\ Runs(c, g, r, xt)
    BY <2>0, <2>1, ArriveCases
  <2>3. g = h
    BY <2>0, <2>2 DEF Spend
  <2>4. stage'[c] = "running" /\ request'[c].handler = g
    BY <1>1, <2>2 DEF Runs, IInv, DataOK
  <2> QED BY <2>2, <2>3, <2>4
<1> QED BY <1>1, Invariance, PTL DEF Spec, TokensBuyRuns
=============================================================================
