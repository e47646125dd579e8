-------------------------------- MODULE Pool --------------------------------
(***************************************************************************)
(* uxum-pools: the connection pool of some library, wrapped so that its    *)
(* use is metered.  A caller acquires a connection, the wait is recorded,  *)
(* once in a while the state of the pool is gathered into gauges on the    *)
(* way, and the wrapped connection records how long it was used when it is *)
(* dropped.  The pool itself belongs to the library (external): it opens   *)
(* connections on demand and keeps or closes those that come back.         *)
(***************************************************************************)
EXTENDS Integers, FiniteSets

CONSTANTS
  Caller,            \* threads or tasks that use the pool
  Instance,          \* values of InstrumentedPool: one and its clones
  Connection,        \* what the pool may open
  Libraries,         \* a subset of {"bb8", "deadpool", "r2d2", "other"}
  None,
  PROBE_INTERVAL,    \* 15 seconds
  MaxTime            \* bound on the clock

ASSUME PoolAssumption ==
  /\ IsFiniteSet(Caller) /\ IsFiniteSet(Connection)
  /\ PROBE_INTERVAL \in Nat /\ MaxTime \in Nat
  /\ None \notin Nat \cup Connection \cup Instance

VARIABLES
  now,
  lib,               \* the library that the pool comes from
  open, idle,        \* connections of the pool, and those not acquired
  last_gathered_at,  \* per instance; None before it exists
  caller,            \* what each caller is doing
  operation,         \* what each caller has begun on a connection
  gauge,             \* the connection gauges: what was recorded, and when
  unreturned,        \* records of wait_time less records of use_time
  unfinished,        \* operations begun less records of op_duration
  spoiled,           \* acquisitions that gathering made fail
  missed             \* no gathering was recorded since one failed

pool  == <<open, idle>>
sums  == <<unreturned, unfinished, spoiled>>
vars  == <<now, lib, pool, last_gathered_at, caller, operation, gauge, sums, missed>>
-----------------------------------------------------------------------------
(* What the libraries' methods answer when they have no connection to give,*)
(* by what went wrong.  Only r2d2 implements try_get.                      *)

bb8      == [expired |-> "AcquireTimeout", backend |-> "Pool"]
deadpool == [expired |-> "AcquireTimeout", backend |-> "Pool", closed |-> "PoolExhausted"]
r2d2(m)  == IF m = "try_get" THEN [empty |-> "WouldBlock"]
                             ELSE [expired |-> "Pool", backend |-> "Pool"]
(* An implementation that has get() only, the rest being the trait's.      *)
Default(m) == IF m = "get" THEN [backend |-> "Pool"]
                           ELSE [unsupported |-> "NotImplemented"]

Answers(m) ==
  CASE lib = "r2d2" -> r2d2(m)
    [] lib = "bb8" /\ m # "try_get" -> bb8
    [] lib = "deadpool" /\ m # "try_get" -> deadpool
    [] OTHER -> Default(m)

Implemented(m) == "unsupported" \notin DOMAIN Answers(m)
Blocking       == lib = "r2d2"   \* the one synchronous pool
StateMayFail   == lib = "other"  \* the three libraries always have a state

(* The gauges: all, idle and acquired connections.                         *)
PoolState == [size |-> Cardinality(open), idle |-> Cardinality(idle),
              in_use |-> Cardinality(open \ idle)]
-----------------------------------------------------------------------------
Away(why) == [pc |-> "away", on |-> None, method |-> "none", conn |-> None,
              since |-> None, seen |-> None, why |-> why]

Init ==
  /\ now = 0
  /\ lib \in Libraries
  /\ open = {} /\ idle = {}
  /\ last_gathered_at = [i \in Instance |-> None]
  /\ caller = [c \in Caller |-> Away("nothing")]
  /\ operation = [c \in Caller |-> "none"]
  /\ gauge = [state |-> None, at |-> None]
  /\ unreturned = 0 /\ unfinished = 0 /\ spoiled = 0
  /\ missed = FALSE

Exists(i) == last_gathered_at[i] # None

(* If the state cannot be read there is no instrumented pool.              *)
instrument(i) ==
  /\ \A j \in Instance : ~Exists(j)
  /\ gauge' = [state |-> PoolState, at |-> now]
  /\ last_gathered_at' = [last_gathered_at EXCEPT ![i] = now]
  /\ UNCHANGED <<now, lib, pool, caller, operation, sums, missed>>

Clone_Fresh(i, j) ==
  /\ Exists(i) /\ ~Exists(j)
  /\ last_gathered_at' = [last_gathered_at EXCEPT ![j] = now]
  /\ UNCHANGED <<now, lib, pool, caller, gauge, operation, sums, missed>>

(* A clone has a lock of its own, and the time of the last gathering.      *)
Clone(i, j) ==
  /\ Exists(i) /\ ~Exists(j)
  /\ last_gathered_at' = [last_gathered_at EXCEPT ![j] = last_gathered_at[i]]
  /\ UNCHANGED <<now, lib, pool, caller, gauge, operation, sums, missed>>

Call(c, i, m) ==
  /\ Exists(i) /\ caller[c].pc = "away"
  /\ caller' = [caller EXCEPT ![c] = [Away("nothing") EXCEPT
                  !.pc = "waiting", !.on = i, !.method = m]]
  /\ UNCHANGED <<now, lib, pool, last_gathered_at, gauge, operation, sums, missed>>

AsyncCall(c, i, m) == ~Blocking /\ Call(c, i, m)
SyncCall(c, i, m)  == Blocking /\ Call(c, i, m)

(* External: the library hands out an idle connection or opens a new one.  *)
Acquired(c) ==
  /\ caller[c].pc = "waiting" /\ Implemented(caller[c].method)
  /\ \E x \in Connection \ (open \ idle) :
       /\ open' = open \cup {x} /\ idle' = idle \ {x}
       /\ caller' = [caller EXCEPT ![c].pc = "measuring", ![c].conn = x]
  /\ UNCHANGED <<now, lib, last_gathered_at, gauge, operation, sums, missed>>

NotAcquired(c) ==
  /\ caller[c].pc = "waiting"
  /\ \E e \in DOMAIN Answers(caller[c].method) :
       caller' = [caller EXCEPT ![c] = Away(Answers(caller[c].method)[e])]
  /\ UNCHANGED <<now, lib, pool, last_gathered_at, gauge, operation, sums, missed>>

(* The future of an asynchronous call is dropped while it waits; after     *)
(* that it awaits nothing any more.                                        *)
Abandoned(c) ==
  /\ ~Blocking /\ caller[c].pc = "waiting" /\ caller[c].method # "try_get"
  /\ caller' = [caller EXCEPT ![c] = Away("nothing")]
  /\ UNCHANGED <<now, lib, pool, last_gathered_at, gauge, operation, sums, missed>>

Gathers_NotMarked(c, i, conn) ==
  /\ now - last_gathered_at[i] > PROBE_INTERVAL
  /\ caller' = [caller EXCEPT ![c].pc = "gathering", ![c].on = i, ![c].conn = conn,
                              ![c].since = now]
  /\ UNCHANGED last_gathered_at

(* Under the lock of the instance: whether to gather, and if so since when *)
(* the next one counts.  The lock is released before the state is read.    *)
Gathers(c, i, conn) ==
  /\ now - last_gathered_at[i] > PROBE_INTERVAL
  /\ last_gathered_at' = [last_gathered_at EXCEPT ![i] = now]
  /\ caller' = [caller EXCEPT ![c].pc = "gathering", ![c].on = i, ![c].conn = conn,
                              ![c].since = now]

measure_acquire(c) ==
  /\ caller[c].pc = "measuring"
  /\ unreturned' = unreturned + 1
  /\ \/ Gathers(c, caller[c].on, caller[c].conn)
     \/ /\ now - last_gathered_at[caller[c].on] <= PROBE_INTERVAL
        /\ caller' = [caller EXCEPT ![c].pc = "holding"]
        /\ UNCHANGED last_gathered_at
  /\ UNCHANGED <<now, lib, pool, gauge, operation, unfinished, spoiled, missed>>

(* The application gathers on its own account.                             *)
update_metrics(c, i) ==
  /\ Exists(i) /\ caller[c].pc = "away"
  /\ Gathers(c, i, None)
  /\ UNCHANGED <<now, lib, pool, gauge, operation, sums, missed>>

get_state(c) ==
  /\ caller[c].pc = "gathering"
  /\ caller' = [caller EXCEPT ![c].pc = "recording", ![c].seen = PoolState]
  /\ UNCHANGED <<now, lib, pool, last_gathered_at, gauge, operation, sums, missed>>

(* What comes back to the library is kept, or closed if it is broken.      *)
PutBack(conn) ==
  \/ conn = None /\ UNCHANGED pool
  \/ conn # None /\ idle' = idle \cup {conn} /\ UNCHANGED open
  \/ conn # None /\ open' = open \ {conn} /\ UNCHANGED idle

GatheringFails_Leaks(c) ==
  /\ caller[c].pc = "gathering" /\ StateMayFail
  /\ spoiled' = spoiled + (IF caller[c].conn = None THEN 0 ELSE 1)
  /\ missed' = TRUE
  /\ caller' = [caller EXCEPT ![c] = Away("Pool")]
  /\ UNCHANGED <<now, lib, pool, last_gathered_at, gauge, operation, unreturned, unfinished>>

GatheringFails_Wrapped(c) ==
  /\ caller[c].pc = "gathering" /\ StateMayFail
  /\ PutBack(caller[c].conn)
  /\ spoiled' = spoiled + (IF caller[c].conn = None THEN 0 ELSE 1)
  /\ unreturned' = unreturned - (IF caller[c].conn = None THEN 0 ELSE 1)
  /\ missed' = TRUE
  /\ caller' = [caller EXCEPT ![c] = Away("Pool")]
  /\ UNCHANGED <<now, lib, last_gathered_at, gauge, operation, unfinished>>

(* The error goes to the caller, and the connection that it had acquired,  *)
(* not yet wrapped, is dropped.                                            *)
GatheringFails(c) ==
  /\ caller[c].pc = "gathering" /\ StateMayFail
  /\ PutBack(caller[c].conn)
  /\ spoiled' = spoiled + (IF caller[c].conn = None THEN 0 ELSE 1)
  /\ missed' = TRUE
  /\ caller' = [caller EXCEPT ![c] = Away("Pool")]
  /\ UNCHANGED <<now, lib, last_gathered_at, gauge, operation, unreturned, unfinished>>

record_state(c) ==
  /\ caller[c].pc = "recording"
  /\ gauge' = [state |-> caller[c].seen, at |-> now]
  /\ missed' = FALSE
  /\ caller' = [caller EXCEPT ![c] =
                  IF @.conn = None THEN Away("nothing")
                  ELSE [@ EXCEPT !.pc = "holding", !.since = None, !.seen = None]]
  /\ UNCHANGED <<now, lib, pool, last_gathered_at, operation, sums>>
-----------------------------------------------------------------------------
(* The wrapped connection and the operations on it.                        *)

kept == <<now, lib, last_gathered_at, gauge, spoiled, missed>>

(* op() and wrap() make a guard, which may outlive the connection;         *)
(* wrap_async() and wrap_async_mut() make a future that borrows it.        *)
op(c, how) ==
  /\ caller[c].pc = "holding" /\ operation[c] = "none"
  /\ unfinished' = unfinished + 1
  /\ operation' = [operation EXCEPT ![c] = how]
  /\ UNCHANGED <<kept, pool, caller, unreturned>>

(* The operation is recorded when its future is ready, before it is        *)
(* dropped.                                                                *)
OpReady(c) ==
  /\ operation[c] = "future"
  /\ unfinished' = unfinished - 1
  /\ operation' = [operation EXCEPT ![c] = "ready"]
  /\ UNCHANGED <<kept, pool, caller, unreturned>>

OpDropped_Always(c) ==
  /\ operation[c] # "none"
  /\ unfinished' = unfinished - 1
  /\ operation' = [operation EXCEPT ![c] = "none"]
  /\ UNCHANGED <<kept, pool, caller, unreturned>>

(* A guard, or a future that is dropped half-way, has its operation        *)
(* recorded now.                                                           *)
OpDropped(c) ==
  /\ operation[c] # "none"
  /\ unfinished' = unfinished - (IF operation[c] = "ready" THEN 0 ELSE 1)
  /\ operation' = [operation EXCEPT ![c] = "none"]
  /\ UNCHANGED <<kept, pool, caller, unreturned>>

Released(c) ==
  /\ caller[c].pc = "holding" /\ operation[c] \in {"none", "guard"}
  /\ unreturned' = unreturned - 1
  /\ PutBack(caller[c].conn)
  /\ caller' = [caller EXCEPT ![c] = Away("nothing")]
  /\ UNCHANGED <<kept, operation, unfinished>>

Tick ==
  /\ now < MaxTime
  /\ now' = now + 1
  /\ UNCHANGED <<lib, pool, last_gathered_at, caller, operation, gauge, sums, missed>>

Methods == {"get", "try_get", "get_timeout"}

Next ==
  \/ Tick
  \/ \E i \in Instance : instrument(i)
  \/ \E i, j \in Instance : Clone(i, j)
  \/ \E c \in Caller, i \in Instance, m \in Methods : AsyncCall(c, i, m) \/ SyncCall(c, i, m)
  \/ \E c \in Caller, i \in Instance : update_metrics(c, i)
  \/ \E c \in Caller : \/ Acquired(c) \/ NotAcquired(c) \/ Abandoned(c)
                       \/ measure_acquire(c)
                       \/ get_state(c) \/ GatheringFails(c) \/ record_state(c)
                       \/ op(c, "guard") \/ op(c, "future") \/ OpReady(c) \/ OpDropped(c) \/ Released(c)

Spec == Init /\ [][Next]_vars
-----------------------------------------------------------------------------
State == [size : Nat, idle : Nat, in_use : Nat]
CallerState ==
  [pc     : {"away", "waiting", "measuring", "gathering", "recording", "holding"},
   on     : Instance \cup {None},
   method : Methods \cup {"none"},
   conn   : Connection \cup {None},
   since  : Nat \cup {None},
   seen   : State \cup {None},
   why    : {"nothing", "AcquireTimeout", "Pool", "PoolExhausted", "WouldBlock",
             "NotImplemented"}]

DataOK ==
  /\ now \in Nat
  /\ lib \in Libraries
  /\ idle \subseteq open /\ open \subseteq Connection
  /\ last_gathered_at \in [Instance -> Nat \cup {None}]
  /\ caller \in [Caller -> CallerState]
  /\ operation \in [Caller -> {"none", "guard", "future", "ready"}]
  /\ gauge \in [state : State \cup {None}, at : Nat \cup {None}]
  /\ unreturned \in Int /\ unfinished \in Int /\ spoiled \in Nat
  /\ missed \in BOOLEAN

(* The values of the state; no histogram of ends, of uses or of operations,*)
(* is ahead of its beginnings.                                             *)
TypeOK == DataOK /\ unreturned >= 0 /\ unfinished >= 0

(* However calls are abandoned, fail, or fail after they were served: a    *)
(* connection is acquired from the library exactly while one caller has it.*)
Has(c, x) == caller[c].conn = x
NoConnectionLost ==
  /\ \A x \in open \ idle : \E c \in Caller : Has(c, x)
  /\ \A c \in Caller : \A x \in Connection :
       Has(c, x) => x \in open \ idle /\ \A d \in Caller \ {c} : ~Has(d, x)

(* Every wait that is recorded is matched by one use, recorded when the    *)
(* connection goes, except where gathering failed after the wait; every    *)
(* operation is recorded once, whether its future ended or was dropped.    *)
Metered  == {c \in Caller : caller[c].conn # None /\ caller[c].pc # "measuring"}
Operates == {c \in Caller : operation[c] \in {"guard", "future"}}
MetersAgree ==
  /\ unreturned = spoiled + Cardinality(Metered)
  /\ unfinished = Cardinality(Operates)

(* However callers race for it, two gatherings through one instance begin  *)
(* more than PROBE_INTERVAL apart: the slow one is not joined by others.   *)
Gathering(c) == caller[c].pc \in {"gathering", "recording"}
GatheredApart ==
  \A c, d \in Caller :
    c # d /\ Gathering(c) /\ Gathering(d) /\ caller[c].on = caller[d].on
      => \/ caller[c].since - caller[d].since > PROBE_INTERVAL
         \/ caller[d].since - caller[c].since > PROBE_INTERVAL

(* A caller that is given a connection leaves gauges behind that are no    *)
(* older than PROBE_INTERVAL, whichever clone it used, unless a gathering  *)
(* is still on its way or the last one failed.                             *)
Served(c) == caller[c].pc # "holding" /\ caller'[c].pc = "holding"
GaugesFresh ==
  [][(\E c \in Caller : Served(c))
       => \/ now - gauge'.at <= PROBE_INTERVAL
          \/ \E c \in Caller : Gathering(c)'
          \/ missed']_vars
=============================================================================
