----------------------------- MODULE PoolProofs -----------------------------
(***************************************************************************)
(* Theorems about Pool, for any number of callers, clones and connections, *)
(* any of the libraries, and any interval between gatherings.              *)
(***************************************************************************)
EXTENDS Pool, FiniteSetTheorems, TLAPS

(* What a caller has and refers to, by how far its call has come.          *)
Places ==
  \A c \in Caller :
    /\ caller[c].pc \in {"away", "waiting"} => caller[c].conn = None
    /\ caller[c].pc \in {"measuring", "holding"} => caller[c].conn # None
    /\ caller[c].pc # "away" => caller[c].on \in Instance /\ Exists(caller[c].on)

(* No gathering began after its instance was marked, or is yet to begin.   *)
Clocks ==
  /\ \A i \in Instance : Exists(i) => last_gathered_at[i] <= now
  /\ \A c \in Caller : Gathering(c) =>
       caller[c].since \in Nat /\ caller[c].since <= last_gathered_at[caller[c].on]

(* An instance that was marked as gathered since the gauges were recorded  *)
(* is being gathered, or that failed.                                      *)
Fresh ==
  \A i \in Instance : Exists(i) =>
    /\ gauge.at \in Nat
    /\ \/ last_gathered_at[i] <= gauge.at
       \/ \E c \in Caller : Gathering(c)
       \/ missed

IInv == /\ DataOK /\ Places /\ NoConnectionLost /\ MetersAgree
        /\ Clocks /\ GatheredApart /\ Fresh

USE PoolAssumption

(* What a call comes back with is a caller's state.                        *)
Answered == {"nothing", "AcquireTimeout", "Pool", "PoolExhausted", "WouldBlock",
             "NotImplemented"}
LEMMA AwayType == ASSUME NEW why \in Answered PROVE Away(why) \in CallerState
BY DEF Away, CallerState, Answered

(* A change of one caller's state leaves the states of all callers typed.  *)
LEMMA CallersType ==
  ASSUME NEW c \in Caller, NEW s \in CallerState, caller \in [Caller -> CallerState],
         caller' = [caller EXCEPT ![c] = s]
  PROVE  caller' \in [Caller -> CallerState]
OBVIOUS

(* Initially there is neither an instance nor a connection.                *)
LEMMA InitInv == Init => IInv
<1> SUFFICES ASSUME Init PROVE IInv
  OBVIOUS
<1>1. DataOK
  <2>1. Away("nothing") \in CallerState
    BY AwayType DEF Answered
  <2>2. caller \in [Caller -> CallerState]
    BY <2>1 DEF Init
  <2>3. gauge \in [state : State \cup {None}, at : Nat \cup {None}]
    BY DEF Init
  <2>4. /\ last_gathered_at \in [Instance -> Nat \cup {None}]
        /\ operation \in [Caller -> {"none", "guard", "future", "ready"}]
    BY DEF Init
  <2>5. idle \subseteq open /\ open \subseteq Connection
    BY DEF Init
  <2>6. /\ now \in Nat /\ lib \in Libraries
        /\ unreturned \in Int /\ unfinished \in Int /\ spoiled \in Nat
    BY DEF Init
  <2>7. missed \in BOOLEAN
    BY Zenon DEF Init
  <2> QED BY <2>2, <2>3, <2>4, <2>5, <2>6, <2>7 DEF DataOK
<1>2. Places /\ NoConnectionLost /\ Clocks /\ GatheredApart /\ Fresh
  BY DEF Init, Places, NoConnectionLost, Has, Clocks, GatheredApart, Fresh,
         Gathering, Exists, Away
<1>3. MetersAgree
  <2>1. Metered = {} /\ Operates = {}
    BY DEF Init, Metered, Operates, Away
  <2> QED BY <2>1, FS_EmptySet DEF Init, MetersAgree
<1> QED BY <1>1, <1>2, <1>3 DEF IInv

(* The gauges are numbers, since the pool is finite.                       *)
LEMMA StateType == ASSUME DataOK PROVE PoolState \in State
<1>1. IsFiniteSet(open) /\ IsFiniteSet(idle) /\ IsFiniteSet(open \ idle)
  BY FS_Subset DEF DataOK
<1> QED BY <1>1, FS_CardinalityType DEF PoolState, State

(* What a method may answer when it has no connection.                     *)
LEMMA AnswerType ==
  ASSUME NEW m, NEW e \in DOMAIN Answers(m)
  PROVE  Answers(m)[e] \in Answered
BY DEF Answers, bb8, deadpool, r2d2, Default, Answered

(* No step leaves the values of the state: those of one caller first, then *)
(* the others.                                                             *)
LEMMA CallerTypeStep ==
  ASSUME DataOK, Places, Next PROVE caller' \in [Caller -> CallerState]
<1> DEFINE OK == caller' \in [Caller -> CallerState]
<1>0. caller \in [Caller -> CallerState]
  BY DEF DataOK
<1>2. ASSUME NEW c \in Caller, NEW i \in Instance, NEW m \in Methods, Call(c, i, m) PROVE OK
  <2> DEFINE s == [Away("nothing") EXCEPT !.pc = "waiting", !.on = i, !.method = m]
  <2>1. s \in CallerState
    BY DEF Away, CallerState
  <2>2. caller' = [caller EXCEPT ![c] = s]
    BY <1>2 DEF Call
  <2> HIDE DEF s
  <2> QED BY <1>0, <2>1, <2>2, CallersType
<1>3. ASSUME NEW c \in Caller, NEW why \in Answered,
             caller' = [caller EXCEPT ![c] = Away(why)]
      PROVE  OK
  BY <1>0, <1>3, AwayType, CallersType
<1>4. ASSUME NEW c \in Caller, NEW i \in Instance, NEW x \in Connection \cup {None},
             Gathers(c, i, x)
      PROVE  OK
  <2> DEFINE s == [caller[c] EXCEPT !.pc = "gathering", !.on = i, !.conn = x, !.since = now]
  <2>1. caller[c] \in CallerState /\ now \in Nat
    BY <1>0 DEF DataOK
  <2>2. s \in CallerState
    BY <2>1 DEF CallerState
  <2>3. caller' = [caller EXCEPT ![c] = s]
    BY <1>4 DEF Gathers
  <2> HIDE DEF s
  <2> QED BY <1>0, <2>2, <2>3, CallersType
<1>5. ASSUME NEW c \in Caller, Acquired(c) PROVE OK
  <2>1. PICK x \in Connection : caller' = [caller EXCEPT ![c].pc = "measuring", ![c].conn = x]
    BY <1>5 DEF Acquired
  <2> DEFINE s == [caller[c] EXCEPT !.pc = "measuring", !.conn = x]
  <2>2. caller[c] \in CallerState
    BY <1>0
  <2>3. s \in CallerState
    BY <2>2 DEF CallerState
  <2>4. caller' = [caller EXCEPT ![c] = s]
    BY <2>1
  <2> HIDE DEF s
  <2> QED BY <1>0, <2>3, <2>4, CallersType
<1>6. ASSUME NEW c \in Caller, measure_acquire(c) PROVE OK
  <2>1. CASE Gathers(c, caller[c].on, caller[c].conn)
    <3>1. caller[c].on \in Instance /\ caller[c].conn \in Connection \cup {None}
      BY <1>0, <1>6 DEF measure_acquire, Places, CallerState
    <3> QED BY <2>1, <3>1, <1>4
  <2>2. CASE caller' = [caller EXCEPT ![c].pc = "holding"]
    BY <1>0, <2>2 DEF CallerState
  <2> QED BY <1>6, <2>1, <2>2 DEF measure_acquire
<1>7. ASSUME NEW c \in Caller, get_state(c) PROVE OK
  <2> DEFINE s == [caller[c] EXCEPT !.pc = "recording", !.seen = PoolState]
  <2>1. caller[c] \in CallerState /\ PoolState \in State
    BY <1>0, StateType
  <2>2. s \in CallerState
    BY <2>1 DEF CallerState
  <2>3. caller' = [caller EXCEPT ![c] = s]
    BY <1>7 DEF get_state
  <2> HIDE DEF s
  <2> QED BY <1>0, <2>2, <2>3, CallersType
<1>8. ASSUME NEW c \in Caller, record_state(c) PROVE OK
  <2> DEFINE s == [caller[c] EXCEPT !.pc = "holding", !.since = None, !.seen = None]
  <2>1. caller[c] \in CallerState
    BY <1>0
  <2>2. s \in CallerState
    BY <2>1 DEF CallerState
  <2>3. Away("nothing") \in CallerState
    BY AwayType DEF Answered
  <2>4. \/ caller' = [caller EXCEPT ![c] = Away("nothing")]
        \/ caller' = [caller EXCEPT ![c] = s]
    BY <1>8 DEF record_state
  <2> HIDE DEF s
  <2> QED BY <1>0, <2>2, <2>3, <2>4, CallersType
<1>9. "nothing" \in Answered /\ "Pool" \in Answered
  BY DEF Answered
<1>10. ASSUME NEW c \in Caller, NotAcquired(c) \/ Abandoned(c) \/ GatheringFails(c) \/ Released(c)
       PROVE  OK
  <2>1. \E why \in Answered : caller' = [caller EXCEPT ![c] = Away(why)]
    BY <1>9, <1>10, AnswerType DEF NotAcquired, Abandoned, GatheringFails, Released
  <2> QED BY <1>3, <2>1
<1>11. ASSUME NEW c \in Caller, NEW i \in Instance, update_metrics(c, i) PROVE OK
  BY <1>4, <1>11 DEF update_metrics
<1>12. ASSUME NEW c \in Caller,
              op(c, "guard") \/ op(c, "future") \/ OpReady(c) \/ OpDropped(c)
       PROVE  OK
  BY <1>0, <1>12 DEF op, OpReady, OpDropped
<1>13. ASSUME Tick \/ (\E i \in Instance : instrument(i)) \/ \E i, j \in Instance : Clone(i, j)
       PROVE  OK
  BY <1>0, <1>13 DEF Tick, instrument, Clone
<1>14. OK
  <2> HIDE DEF OK
  <2> QED BY <1>2, <1>5, <1>6, <1>7, <1>8, <1>10, <1>11, <1>12, <1>13
          DEF Next, AsyncCall, SyncCall
<1> QED BY <1>14

(* What comes back was acquired.                                           *)
LEMMA PutBackType ==
  ASSUME DataOK, NoConnectionLost, NEW c \in Caller, PutBack(caller[c].conn)
  PROVE  idle' \subseteq open' /\ open' \subseteq Connection
<1>1. caller[c].conn \in Connection \cup {None}
  BY DEF DataOK, CallerState
<1>2. caller[c].conn # None => caller[c].conn \in open \ idle
  BY <1>1 DEF NoConnectionLost, Has
<1> QED BY <1>1, <1>2 DEF PutBack, pool, DataOK

LEMMA TypeStep ==
  ASSUME DataOK, Places, NoConnectionLost, Next PROVE DataOK'
<1> DEFINE Rest == /\ now' \in Nat
                   /\ lib' \in Libraries
                   /\ idle' \subseteq open' /\ open' \subseteq Connection
                   /\ last_gathered_at' \in [Instance -> Nat \cup {None}]
                   /\ operation' \in [Caller -> {"none", "guard", "future", "ready"}]
                   /\ gauge' \in [state : State \cup {None}, at : Nat \cup {None}]
                   /\ unreturned' \in Int /\ unfinished' \in Int /\ spoiled' \in Nat
                   /\ missed' \in BOOLEAN
<1>0. caller' \in [Caller -> CallerState]
  BY CallerTypeStep
<1> USE DEF DataOK, pool, sums, kept
<1>1. ASSUME Tick \/ (\E i \in Instance : instrument(i)) \/ \E i, j \in Instance : Clone(i, j)
      PROVE  Rest
  <2>1. PoolState \in State
    BY StateType
  <2> QED BY <1>1, <2>1 DEF Tick, instrument, Clone
<1>2. ASSUME NEW c \in Caller, NEW i \in Instance, NEW m \in Methods, Call(c, i, m) PROVE Rest
  BY <1>2 DEF Call
<1>3. ASSUME NEW c \in Caller, NEW i \in Instance, update_metrics(c, i) PROVE Rest
  BY <1>3 DEF update_metrics, Gathers
<1>4. ASSUME NEW c \in Caller, Acquired(c) \/ NotAcquired(c) \/ Abandoned(c) PROVE Rest
  BY <1>4 DEF Acquired, NotAcquired, Abandoned
<1>5. ASSUME NEW c \in Caller, measure_acquire(c) PROVE Rest
  BY <1>5 DEF measure_acquire, Gathers, Places
<1>6. ASSUME NEW c \in Caller, get_state(c) PROVE Rest
  BY <1>6 DEF get_state
<1>7. ASSUME NEW c \in Caller, record_state(c) PROVE Rest
  <2>1. caller[c].seen \in State \cup {None}
    BY DEF CallerState
  <2> QED BY <1>7, <2>1 DEF record_state
<1>8. ASSUME NEW c \in Caller, GatheringFails(c) PROVE Rest
  <2>1. idle' \subseteq open' /\ open' \subseteq Connection
    BY <1>8, PutBackType DEF GatheringFails
  <2> QED BY <1>8, <2>1 DEF GatheringFails
<1>9. ASSUME NEW c \in Caller,
             op(c, "guard") \/ op(c, "future") \/ OpReady(c) \/ OpDropped(c)
      PROVE  Rest
  BY <1>9 DEF op, OpReady, OpDropped
<1>10. ASSUME NEW c \in Caller, Released(c) PROVE Rest
  <2>1. idle' \subseteq open' /\ open' \subseteq Connection
    BY <1>10, PutBackType DEF Released
  <2> QED BY <1>10, <2>1 DEF Released
<1>11. Rest
  <2> HIDE DEF Rest
  <2> QED BY <1>1, <1>2, <1>3, <1>4, <1>5, <1>6, <1>7, <1>8, <1>9, <1>10
          DEF Next, AsyncCall, SyncCall
<1> QED BY <1>0, <1>11
-----------------------------------------------------------------------------
(* Instances remain, and what a call has and refers to fits its progress.  *)
LEMMA PlacesStep == ASSUME DataOK, Places, Next PROVE Places'
<1> DEFINE At(c) == /\ caller[c].pc \in {"away", "waiting"} => caller[c].conn = None
                    /\ caller[c].pc \in {"measuring", "holding"} => caller[c].conn # None
                    /\ caller[c].pc # "away" => caller[c].on \in Instance /\ Exists(caller[c].on)
<1> SUFFICES ASSUME NEW d \in Caller PROVE At(d)'
  BY DEF Places
<1>0. /\ caller \in [Caller -> CallerState] /\ now \in Nat
      /\ last_gathered_at \in [Instance -> Nat \cup {None}]
      /\ None \notin Nat
  BY DEF DataOK
<1>1. ASSUME NEW c \in Caller PROVE At(c) /\ caller[c] \in CallerState
  BY <1>0 DEF Places
<1>2. ASSUME UNCHANGED <<last_gathered_at, caller>> PROVE At(d)'
  BY <1>1, <1>2 DEF Exists
<1>3. ASSUME NEW i \in Instance, NEW t \in Nat \cup {None},
             Exists(i) => t # None,
             last_gathered_at' = [last_gathered_at EXCEPT ![i] = t],
             UNCHANGED caller
      PROVE  At(d)'
  BY <1>0, <1>1, <1>3 DEF Exists
<1>4. ASSUME NEW c \in Caller, NEW i \in Instance, NEW m, Call(c, i, m) PROVE At(d)'
  BY <1>0, <1>1, <1>4 DEF Call, Away, Exists
<1>5. ASSUME NEW c \in Caller, NEW i \in Instance, NEW x, Gathers(c, i, x) PROVE At(d)'
  BY <1>0, <1>1, <1>5 DEF Gathers, Exists, CallerState
<1>6. ASSUME NEW c \in Caller, Acquired(c) PROVE At(d)'
  BY <1>0, <1>1, <1>6 DEF Acquired, Exists, CallerState
<1>7. ASSUME NEW c \in Caller, measure_acquire(c) PROVE At(d)'
  <2>1. CASE Gathers(c, caller[c].on, caller[c].conn)
    BY <1>1, <1>5, <1>7, <2>1 DEF measure_acquire
  <2>2. CASE caller' = [caller EXCEPT ![c].pc = "holding"] /\ UNCHANGED last_gathered_at
    BY <1>0, <1>1, <1>7, <2>2 DEF measure_acquire, Exists, CallerState
  <2> QED BY <1>7, <2>1, <2>2 DEF measure_acquire
<1>8. ASSUME NEW c \in Caller, get_state(c) PROVE At(d)'
  BY <1>0, <1>1, <1>8 DEF get_state, Exists, CallerState
<1>9. ASSUME NEW c \in Caller, record_state(c) PROVE At(d)'
  BY <1>0, <1>1, <1>9 DEF record_state, Exists, CallerState, Away
<1>10. ASSUME NEW c \in Caller, NotAcquired(c) \/ Abandoned(c) \/ GatheringFails(c) \/ Released(c)
       PROVE  At(d)'
  <2>1. UNCHANGED last_gathered_at /\ \E why : caller' = [caller EXCEPT ![c] = Away(why)]
    BY <1>10 DEF NotAcquired, Abandoned, GatheringFails, Released, kept
  <2> QED BY <1>0, <1>1, <2>1 DEF Away, Exists
<1>11. ASSUME NEW c \in Caller, NEW i \in Instance, update_metrics(c, i) PROVE At(d)'
  BY <1>5, <1>11 DEF update_metrics
<1>12. ASSUME NEW c \in Caller,
              op(c, "guard") \/ op(c, "future") \/ OpReady(c) \/ OpDropped(c)
       PROVE  At(d)'
  BY <1>2, <1>12 DEF op, OpReady, OpDropped, kept
<1>13. ASSUME NEW i \in Instance, instrument(i) PROVE At(d)'
  BY <1>0, <1>3, <1>13 DEF instrument
<1>14. ASSUME NEW i \in Instance, NEW j \in Instance, Clone(i, j) PROVE At(d)'
  BY <1>0, <1>3, <1>14 DEF Clone, Exists
<1>15. ASSUME Tick PROVE At(d)'
  BY <1>2, <1>15 DEF Tick
<1> HIDE DEF At
<1> QED BY <1>4, <1>6, <1>7, <1>8, <1>9, <1>10, <1>11, <1>12, <1>13, <1>14, <1>15
        DEF Next, AsyncCall, SyncCall

(* A connection changes hands only between the library and one caller.     *)
LEMMA ConnectionsStep ==
  ASSUME DataOK, Places, NoConnectionLost, Next PROVE NoConnectionLost'
<1>0. caller \in [Caller -> CallerState] /\ None \notin Connection
  BY DEF DataOK
<1>1. ASSUME NEW c \in Caller PROVE caller[c].conn \in Connection \cup {None} /\ caller[c] \in CallerState
  BY <1>0 DEF CallerState
<1>2. ASSUME \A c \in Caller : caller'[c].conn = caller[c].conn, UNCHANGED pool
      PROVE  NoConnectionLost'
  BY <1>2 DEF NoConnectionLost, Has, pool
<1>4. ASSUME NEW c \in Caller, NEW why, PutBack(caller[c].conn),
             caller' = [caller EXCEPT ![c] = Away(why)]
      PROVE  NoConnectionLost'
  <2>1. /\ caller'[c].conn = None
        /\ \A d \in Caller \ {c} : caller'[d] = caller[d]
    BY <1>0, <1>4 DEF Away
  <2>2. CASE caller[c].conn = None
    BY <1>2, <1>4, <2>1, <2>2 DEF PutBack
  <2>3. CASE caller[c].conn # None
    <3>1. (open \ idle)' = (open \ idle) \ {caller[c].conn}
      BY <1>4, <2>3 DEF PutBack
    <3> QED BY <1>0, <1>1, <2>1, <2>3, <3>1 DEF NoConnectionLost, Has
  <2> QED BY <2>2, <2>3
<1>5. ASSUME NEW c \in Caller, Acquired(c) PROVE NoConnectionLost'
  <2>1. PICK x \in Connection \ (open \ idle) :
          /\ open' = open \cup {x} /\ idle' = idle \ {x}
          /\ caller' = [caller EXCEPT ![c].pc = "measuring", ![c].conn = x]
    BY <1>5 DEF Acquired
  <2>2. caller[c].conn = None
    BY <1>5 DEF Acquired, Places
  <2>3. caller'[c].conn = x /\ \A d \in Caller \ {c} : caller'[d] = caller[d]
    BY <1>0, <1>1, <2>1 DEF CallerState
  <2>4. (open \ idle)' = (open \ idle) \cup {x}
    BY <2>1
  <2>5. \A d \in Caller : ~Has(d, x)
    BY DEF NoConnectionLost
  <2>6. \A y \in (open \ idle)' : \E d \in Caller : Has(d, y)'
    <3> SUFFICES ASSUME NEW y \in open \ idle PROVE \E d \in Caller : Has(d, y)'
      BY <2>3, <2>4 DEF Has
    <3>1. PICK d \in Caller : caller[d].conn = y
      BY DEF NoConnectionLost, Has
    <3>2. d # c
      BY <1>0, <2>2, <3>1 DEF DataOK
    <3> QED BY <2>3, <3>1, <3>2 DEF Has
  <2>7. ASSUME NEW d \in Caller, NEW y \in Connection, Has(d, y)'
        PROVE  y \in (open \ idle)' /\ \A e \in Caller \ {d} : ~Has(e, y)'
    <3>1. CASE d = c
      BY <2>3, <2>4, <2>5, <2>7, <3>1 DEF Has
    <3>2. CASE d # c
      <4>1. Has(d, y) /\ y \in open \ idle /\ y # x /\ \A e \in Caller \ {d} : ~Has(e, y)
        BY <2>3, <2>5, <2>7, <3>2 DEF Has, NoConnectionLost
      <4> QED BY <2>3, <2>4, <4>1 DEF Has
    <3> QED BY <3>1, <3>2
  <2> QED BY <2>6, <2>7 DEF NoConnectionLost
<1>6. ASSUME NEW c \in Caller, NEW i, Gathers(c, i, caller[c].conn), UNCHANGED pool
      PROVE  NoConnectionLost'
  BY <1>0, <1>1, <1>2, <1>6 DEF Gathers, CallerState
<1>7. ASSUME NEW c \in Caller, measure_acquire(c) PROVE NoConnectionLost'
  <2>1. CASE caller' = [caller EXCEPT ![c].pc = "holding"]
    BY <1>0, <1>1, <1>2, <1>7, <2>1 DEF measure_acquire, CallerState
  <2> QED BY <1>6, <1>7, <2>1 DEF measure_acquire
<1>8. ASSUME NEW c \in Caller, get_state(c) PROVE NoConnectionLost'
  BY <1>0, <1>1, <1>2, <1>8 DEF get_state, CallerState
<1>9. ASSUME NEW c \in Caller, record_state(c) PROVE NoConnectionLost'
  BY <1>0, <1>1, <1>2, <1>9 DEF record_state, CallerState, Away
<1>10. ASSUME NEW c \in Caller, GatheringFails(c) \/ Released(c) PROVE NoConnectionLost'
  BY <1>4, <1>10 DEF GatheringFails, Released
<1>11. ASSUME NEW c \in Caller, NotAcquired(c) \/ Abandoned(c) PROVE NoConnectionLost'
  <2>1. caller[c].conn = None /\ UNCHANGED pool /\ \E why : caller' = [caller EXCEPT ![c] = Away(why)]
    BY <1>11 DEF NotAcquired, Abandoned, Places
  <2> QED BY <1>4, <2>1 DEF PutBack
<1>12. ASSUME NEW c \in Caller, NEW i \in Instance, update_metrics(c, i) PROVE NoConnectionLost'
  <2>1. caller[c].conn = None
    BY <1>12 DEF update_metrics, Places
  <2> QED BY <1>6, <1>12, <2>1 DEF update_metrics
<1>13. ASSUME NEW c \in Caller, NEW i \in Instance, NEW m, Call(c, i, m) PROVE NoConnectionLost'
  <2>1. caller[c].conn = None
    BY <1>13 DEF Call, Places
  <2> QED BY <1>0, <1>2, <1>13, <2>1 DEF Call, Away
<1>14. ASSUME NEW c \in Caller,
              op(c, "guard") \/ op(c, "future") \/ OpReady(c) \/ OpDropped(c)
       PROVE  NoConnectionLost'
  BY <1>2, <1>14 DEF op, OpReady, OpDropped
<1>15. ASSUME Tick \/ (\E i \in Instance : instrument(i)) \/ \E i, j \in Instance : Clone(i, j)
       PROVE  NoConnectionLost'
  BY <1>2, <1>15 DEF Tick, instrument, Clone
<1> QED BY <1>5, <1>7, <1>8, <1>9, <1>10, <1>11, <1>12, <1>13, <1>14, <1>15
        DEF Next, AsyncCall, SyncCall
-----------------------------------------------------------------------------
(* Gatherings: when a step begins none, those that go on stay apart.       *)
LEMMA NoneBegins ==
  ASSUME DataOK, Clocks, GatheredApart, now' \in Nat, now' >= now,
         \A d \in Caller : Gathering(d)' =>
           Gathering(d) /\ caller'[d].on = caller[d].on /\ caller'[d].since = caller[d].since,
         \A d \in Caller : Gathering(d) => caller[d].on \in Instance /\ Exists(caller[d].on),
         \A i \in Instance : Exists(i)' => last_gathered_at'[i] <= now',
         \A i \in Instance : Exists(i) => last_gathered_at'[i] = last_gathered_at[i]
  PROVE  Clocks' /\ GatheredApart'
<1>1. Clocks'
  BY DEF Clocks
<1>2. GatheredApart'
  BY DEF GatheredApart
<1> QED BY <1>1, <1>2

(* One that begins is later, by more than the interval, than the mark that *)
(* every other through the same instance left at the latest.               *)
LEMMA OneBegins ==
  ASSUME DataOK, Places, Clocks, GatheredApart, UNCHANGED now,
         NEW c \in Caller, NEW i \in Instance, NEW x, Exists(i), ~Gathering(c), Gathers(c, i, x)
  PROVE  Clocks' /\ GatheredApart'
<1>0. /\ caller \in [Caller -> CallerState] /\ now \in Nat
      /\ last_gathered_at \in [Instance -> Nat \cup {None}]
      /\ None \notin Nat /\ PROBE_INTERVAL \in Nat
  BY DEF DataOK
<1>1. /\ caller'[c].on = i /\ caller'[c].since = now
      /\ \A d \in Caller \ {c} : caller'[d] = caller[d]
  BY <1>0 DEF Gathers, CallerState
<1>2. /\ last_gathered_at'[i] = now /\ last_gathered_at[i] \in Nat
      /\ now - last_gathered_at[i] > PROBE_INTERVAL
      /\ \A j \in Instance \ {i} : last_gathered_at'[j] = last_gathered_at[j]
  BY <1>0 DEF Gathers, Exists
<1>3. ASSUME NEW d \in Caller \ {c}, Gathering(d)'
      PROVE  /\ Gathering(d) /\ caller[d].since \in Nat
             /\ caller[d].on \in Instance /\ last_gathered_at[caller[d].on] \in Nat
             /\ caller[d].since <= last_gathered_at[caller[d].on]
             /\ last_gathered_at[caller[d].on] <= now
  <2>1. Gathering(d)
    BY <1>1, <1>3 DEF Gathering
  <2>2. caller[d].on \in Instance /\ Exists(caller[d].on)
    BY <2>1 DEF Gathering, Places
  <2> QED BY <1>0, <2>1, <2>2 DEF Clocks, Exists
<1>4. Clocks'
  <2>1. ASSUME NEW j \in Instance, Exists(j)' PROVE last_gathered_at'[j] <= now
    BY <1>0, <1>2, <2>1 DEF Clocks, Exists
  <2>2. ASSUME NEW d \in Caller, Gathering(d)'
        PROVE  caller'[d].since \in Nat /\ caller'[d].since <= last_gathered_at'[caller'[d].on]
    <3>1. CASE d = c
      BY <1>0, <1>1, <1>2, <3>1
    <3>2. CASE d # c
      BY <1>0, <1>1, <1>2, <1>3, <2>2, <3>2
    <3> QED BY <3>1, <3>2
  <2> QED BY <2>1, <2>2 DEF Clocks
<1>5. GatheredApart'
  <2>1. ASSUME NEW d \in Caller \ {c}, Gathering(d)', caller'[d].on = i
        PROVE  now - caller'[d].since > PROBE_INTERVAL
    BY <1>0, <1>1, <1>2, <1>3, <2>1
  <2>2. ASSUME NEW d \in Caller \ {c}, NEW e \in Caller \ {c}, d # e,
               Gathering(d)', Gathering(e)', caller'[d].on = caller'[e].on
        PROVE  \/ caller'[d].since - caller'[e].since > PROBE_INTERVAL
               \/ caller'[e].since - caller'[d].since > PROBE_INTERVAL
    BY <1>1, <1>3, <2>2 DEF GatheredApart
  <2> QED BY <1>1, <2>1, <2>2 DEF GatheredApart
<1> QED BY <1>4, <1>5

(* Which steps begin a gathering.                                          *)
LEMMA GatheringStep ==
  ASSUME DataOK, Places, Clocks, GatheredApart, Next PROVE Clocks' /\ GatheredApart'
<1> DEFINE OK == Clocks' /\ GatheredApart'
           Quiet(c) == \/ caller'[c].pc \notin {"gathering", "recording"}
                       \/ /\ Gathering(c) /\ caller'[c].on = caller[c].on
                          /\ caller'[c].since = caller[c].since
<1>0. /\ caller \in [Caller -> CallerState] /\ now \in Nat
      /\ last_gathered_at \in [Instance -> Nat \cup {None}] /\ None \notin Nat
  BY DEF DataOK
<1>1. \A d \in Caller : Gathering(d) => caller[d].on \in Instance /\ Exists(caller[d].on)
  BY DEF Gathering, Places
<1>2. ASSUME NEW c \in Caller, UNCHANGED <<now, last_gathered_at>>, Quiet(c),
             \A d \in Caller \ {c} : caller'[d] = caller[d]
      PROVE  OK
  <2>1. \A d \in Caller : Gathering(d)' =>
          Gathering(d) /\ caller'[d].on = caller[d].on /\ caller'[d].since = caller[d].since
    BY <1>2 DEF Gathering
  <2>2. \A i \in Instance : Exists(i)' => last_gathered_at'[i] <= now'
    BY <1>2 DEF Exists, Clocks
  <2> QED BY <1>0, <1>1, <1>2, <2>1, <2>2, NoneBegins
<1>3. ASSUME NEW i \in Instance, NEW t \in Nat, t <= now, ~Exists(i),
             last_gathered_at' = [last_gathered_at EXCEPT ![i] = t], UNCHANGED <<now, caller>>
      PROVE  OK
  <2>1. \A j \in Instance : Exists(j)' => last_gathered_at'[j] <= now'
    BY <1>0, <1>3 DEF Exists, Clocks
  <2>2. \A j \in Instance : Exists(j) => last_gathered_at'[j] = last_gathered_at[j]
    BY <1>0, <1>3
  <2>3. \A d \in Caller : Gathering(d)' =>
          Gathering(d) /\ caller'[d].on = caller[d].on /\ caller'[d].since = caller[d].since
    BY <1>3 DEF Gathering
  <2> QED BY <1>0, <1>1, <1>3, <2>1, <2>2, <2>3, NoneBegins
<1>4. ASSUME Tick PROVE OK
  <2>1. \A d \in Caller : Gathering(d)' =>
          Gathering(d) /\ caller'[d].on = caller[d].on /\ caller'[d].since = caller[d].since
    BY <1>4 DEF Tick, Gathering
  <2>2. \A i \in Instance : Exists(i)' => last_gathered_at'[i] <= now'
    BY <1>0, <1>4 DEF Tick, Exists, Clocks
  <2>3. now' \in Nat /\ now' >= now /\ UNCHANGED last_gathered_at
    BY <1>0, <1>4 DEF Tick
  <2> QED BY <1>1, <2>1, <2>2, <2>3, NoneBegins
<1>5. ASSUME NEW i \in Instance, instrument(i) PROVE OK
  <2>1. /\ ~Exists(i) /\ now <= now /\ UNCHANGED <<now, caller>>
        /\ last_gathered_at' = [last_gathered_at EXCEPT ![i] = now]
    BY <1>0, <1>5 DEF instrument
  <2> QED BY <1>0, <1>3, <2>1
<1>6. ASSUME NEW i \in Instance, NEW j \in Instance, Clone(i, j) PROVE OK
  <2>1. last_gathered_at[i] \in Nat /\ last_gathered_at[i] <= now
    BY <1>0, <1>6 DEF Clone, Exists, Clocks
  <2> QED BY <1>3, <1>6, <2>1 DEF Clone
<1>7. ASSUME NEW c \in Caller, NEW i \in Instance, NEW m, Call(c, i, m) PROVE OK
  BY <1>0, <1>2, <1>7 DEF Call, Away
<1>8. ASSUME NEW c \in Caller, NotAcquired(c) \/ Abandoned(c) \/ GatheringFails(c) \/ Released(c)
      PROVE  OK
  <2>1. /\ UNCHANGED <<now, last_gathered_at>>
        /\ \E why : caller' = [caller EXCEPT ![c] = Away(why)]
    BY <1>8 DEF NotAcquired, Abandoned, GatheringFails, Released, kept
  <2> QED BY <1>0, <1>2, <2>1 DEF Away
<1>9. ASSUME NEW c \in Caller, Acquired(c) PROVE OK
  BY <1>0, <1>2, <1>9 DEF Acquired, CallerState
<1>10. ASSUME NEW c \in Caller, measure_acquire(c) PROVE OK
  <2>1. CASE Gathers(c, caller[c].on, caller[c].conn)
    <3>1. caller[c].on \in Instance /\ Exists(caller[c].on) /\ ~Gathering(c)
      BY <1>10 DEF measure_acquire, Places, Gathering
    <3> QED BY <1>10, <2>1, <3>1, OneBegins DEF measure_acquire
  <2>2. CASE caller' = [caller EXCEPT ![c].pc = "holding"] /\ UNCHANGED last_gathered_at
    BY <1>0, <1>2, <1>10, <2>2 DEF measure_acquire, CallerState
  <2> QED BY <1>10, <2>1, <2>2 DEF measure_acquire
<1>11. ASSUME NEW c \in Caller, NEW i \in Instance, update_metrics(c, i) PROVE OK
  BY <1>11, OneBegins DEF update_metrics, Gathering
<1>12. ASSUME NEW c \in Caller, get_state(c) PROVE OK
  BY <1>0, <1>2, <1>12 DEF get_state, CallerState, Gathering
<1>13. ASSUME NEW c \in Caller, record_state(c) PROVE OK
  BY <1>0, <1>2, <1>13 DEF record_state, CallerState, Away
<1>14. ASSUME NEW c \in Caller,
              op(c, "guard") \/ op(c, "future") \/ OpReady(c) \/ OpDropped(c)
       PROVE  OK
  <2>1. UNCHANGED <<now, last_gathered_at, caller>>
    BY <1>14 DEF op, OpReady, OpDropped, kept
  <2> QED BY <1>2, <2>1 DEF Gathering
<1>15. OK
  <2> HIDE DEF OK
  <2> QED BY <1>4, <1>5, <1>6, <1>7, <1>8, <1>9, <1>10, <1>11, <1>12, <1>13, <1>14
          DEF Next, AsyncCall, SyncCall
<1> QED BY <1>15
-----------------------------------------------------------------------------
(* The gauges are as new as the mark of every instance, but for gatherings *)
(* on their way and those that failed.                                     *)
LEMMA FreshStep == ASSUME DataOK, Places, Clocks, Fresh, Next PROVE Fresh'
<1>0. /\ caller \in [Caller -> CallerState] /\ now \in Nat
      /\ last_gathered_at \in [Instance -> Nat \cup {None}] /\ None \notin Nat
  BY DEF DataOK
<1>1. ASSUME UNCHANGED <<last_gathered_at, gauge, missed>>,
             \A d \in Caller : Gathering(d) => Gathering(d)'
      PROVE  Fresh'
  BY <1>1 DEF Fresh, Exists
<1>2. ASSUME NEW c \in Caller, UNCHANGED <<last_gathered_at, gauge, missed>>,
             Gathering(c) => Gathering(c)',
             \A d \in Caller \ {c} : caller'[d] = caller[d]
      PROVE  Fresh'
  BY <1>1, <1>2 DEF Gathering
<1>3. ASSUME NEW c \in Caller, NEW i \in Instance, NEW x, Exists(i), Gathers(c, i, x), UNCHANGED gauge
      PROVE  Fresh'
  <2>1. Gathering(c)'
    BY <1>0, <1>3 DEF Gathers, Gathering, CallerState
  <2>2. gauge'.at \in Nat
    BY <1>3 DEF Fresh
  <2> QED BY <2>1, <2>2 DEF Fresh
<1>4. ASSUME NEW c \in Caller, ~Gathering(c), UNCHANGED <<last_gathered_at, gauge, missed>>,
             \A d \in Caller \ {c} : caller'[d] = caller[d]
      PROVE  Fresh'
  BY <1>2, <1>4
<1>5. ASSUME NEW c \in Caller, GatheringFails(c) PROVE Fresh'
  <2>1. missed' /\ UNCHANGED <<last_gathered_at, gauge>>
    BY <1>5 DEF GatheringFails
  <2> QED BY <2>1 DEF Fresh, Exists
<1>6. ASSUME NEW c \in Caller, record_state(c) PROVE Fresh'
  <2>1. gauge'.at = now /\ UNCHANGED last_gathered_at
    BY <1>6 DEF record_state
  <2>2. \A i \in Instance : Exists(i)' => last_gathered_at'[i] <= gauge'.at
    BY <2>1 DEF Clocks, Exists
  <2> QED BY <1>0, <2>1, <2>2 DEF Fresh
<1>7. ASSUME NEW c \in Caller, measure_acquire(c) PROVE Fresh'
  <2>1. CASE Gathers(c, caller[c].on, caller[c].conn)
    <3>1. caller[c].on \in Instance /\ Exists(caller[c].on) /\ UNCHANGED gauge
      BY <1>7 DEF measure_acquire, Places
    <3> QED BY <1>3, <2>1, <3>1
  <2>2. CASE caller' = [caller EXCEPT ![c].pc = "holding"] /\ UNCHANGED last_gathered_at
    BY <1>0, <1>4, <1>7, <2>2 DEF measure_acquire, Gathering
  <2> QED BY <1>7, <2>1, <2>2 DEF measure_acquire
<1>8. ASSUME NEW c \in Caller, NEW i \in Instance, update_metrics(c, i) PROVE Fresh'
  BY <1>3, <1>8 DEF update_metrics
<1>9. ASSUME NEW c \in Caller, Acquired(c) \/ NotAcquired(c) \/ Abandoned(c) \/ Released(c)
      PROVE  Fresh'
  <2>1. ~Gathering(c) /\ UNCHANGED <<last_gathered_at, gauge, missed>>
    BY <1>9 DEF Acquired, NotAcquired, Abandoned, Released, Gathering, kept
  <2>2. \A d \in Caller \ {c} : caller'[d] = caller[d]
    BY <1>0, <1>9 DEF Acquired, NotAcquired, Abandoned, Released
  <2> QED BY <1>4, <2>1, <2>2
<1>10. ASSUME NEW c \in Caller, get_state(c) PROVE Fresh'
  BY <1>0, <1>2, <1>10 DEF get_state, Gathering, CallerState
<1>11. ASSUME NEW c \in Caller, NEW i \in Instance, NEW m, Call(c, i, m) PROVE Fresh'
  BY <1>0, <1>4, <1>11 DEF Call, Gathering
<1>12. ASSUME NEW c \in Caller,
              op(c, "guard") \/ op(c, "future") \/ OpReady(c) \/ OpDropped(c)
       PROVE  Fresh'
  BY <1>1, <1>12 DEF op, OpReady, OpDropped, kept, Gathering
<1>13. ASSUME NEW i \in Instance, instrument(i) PROVE Fresh'
  <2>1. /\ gauge'.at = now /\ last_gathered_at'[i] = now
        /\ \A j \in Instance : Exists(j)' => j = i
    BY <1>0, <1>13 DEF instrument, Exists
  <2> QED BY <1>0, <2>1 DEF Fresh
<1>14. ASSUME NEW i \in Instance, NEW j \in Instance, Clone(i, j) PROVE Fresh'
  <2>1. /\ last_gathered_at'[j] = last_gathered_at[i] /\ Exists(i)
        /\ \A k \in Instance \ {j} : last_gathered_at'[k] = last_gathered_at[k]
        /\ UNCHANGED <<gauge, missed, caller>>
    BY <1>0, <1>14 DEF Clone
  <2> QED BY <2>1 DEF Fresh, Exists, Gathering
<1>15. ASSUME Tick PROVE Fresh'
  BY <1>1, <1>15 DEF Tick, Gathering
<1> QED BY <1>5, <1>6, <1>7, <1>8, <1>9, <1>10, <1>11, <1>12, <1>13, <1>14, <1>15
        DEF Next, AsyncCall, SyncCall

(* Who was waited for and what goes on, counted.                           *)
LEMMA Finite == IsFiniteSet(Metered) /\ IsFiniteSet(Operates)
BY FS_Subset DEF Metered, Operates

LEMMA MetersSame ==
  ASSUME MetersAgree, UNCHANGED sums, Metered' = Metered, Operates' = Operates
  PROVE  MetersAgree'
BY DEF MetersAgree, sums

(* The sums change with the number of those that they stand for.           *)
LEMMA MetersStep ==
  ASSUME DataOK, Places, MetersAgree, Next PROVE MetersAgree'
<1> DEFINE Counts(x)  == caller[x].conn # None /\ caller[x].pc # "measuring"
           Others(c) == \A d \in Caller \ {c} : caller'[d] = caller[d]
<1>0. /\ caller \in [Caller -> CallerState]
      /\ operation \in [Caller -> {"none", "guard", "future", "ready"}]
      /\ unreturned \in Int /\ unfinished \in Int /\ spoiled \in Nat
      /\ Cardinality(Metered) \in Nat /\ Cardinality(Operates) \in Nat
  BY Finite, FS_CardinalityType DEF DataOK
<1>1. ASSUME UNCHANGED operation PROVE Operates' = Operates
  BY <1>1 DEF Operates
<1>2. ASSUME UNCHANGED caller PROVE Metered' = Metered
  BY <1>2 DEF Metered
<1>3. ASSUME NEW c \in Caller, Others(c), Counts(c)' <=> Counts(c) PROVE Metered' = Metered
  BY <1>3 DEF Metered
<1>4. ASSUME NEW c \in Caller, Others(c), Counts(c), ~Counts(c)'
      PROVE  Cardinality(Metered') = Cardinality(Metered) - 1
  <2>1. c \in Metered /\ Metered' = Metered \ {c}
    BY <1>4 DEF Metered
  <2> QED BY <2>1, Finite, FS_RemoveElement
<1>5. ASSUME NEW c \in Caller, Others(c), ~Counts(c), Counts(c)'
      PROVE  Cardinality(Metered') = Cardinality(Metered) + 1
  <2>1. c \notin Metered /\ Metered' = Metered \cup {c}
    BY <1>5 DEF Metered
  <2> QED BY <2>1, Finite, FS_AddElement
<1>6. ASSUME NEW c \in Caller, UNCHANGED <<operation, sums>>, Others(c), Counts(c)' <=> Counts(c)
      PROVE  MetersAgree'
  BY <1>1, <1>3, <1>6, MetersSame
<1>7. ASSUME NEW c \in Caller, NEW i \in Instance, NEW m, Call(c, i, m) PROVE MetersAgree'
  <2>1. caller[c].conn = None /\ caller'[c].conn = None
    BY <1>0, <1>7 DEF Call, Away, Places
  <2>2. Others(c) /\ UNCHANGED <<operation, sums>>
    BY <1>0, <1>7 DEF Call
  <2> QED BY <1>6, <2>1, <2>2
<1>8. ASSUME NEW c \in Caller, Acquired(c) PROVE MetersAgree'
  <2>1. caller[c].conn = None /\ caller'[c].pc = "measuring"
    BY <1>0, <1>8 DEF Acquired, CallerState, Places
  <2>2. Others(c) /\ UNCHANGED <<operation, sums>>
    BY <1>0, <1>8 DEF Acquired
  <2> QED BY <1>6, <2>1, <2>2
<1>9. ASSUME NEW c \in Caller, NotAcquired(c) \/ Abandoned(c) PROVE MetersAgree'
  <2>1. caller[c].conn = None /\ caller'[c].conn = None
    BY <1>0, <1>9 DEF NotAcquired, Abandoned, Away, Places
  <2>2. Others(c) /\ UNCHANGED <<operation, sums>>
    BY <1>0, <1>9 DEF NotAcquired, Abandoned
  <2> QED BY <1>6, <2>1, <2>2
<1>10. ASSUME NEW c \in Caller, measure_acquire(c) PROVE MetersAgree'
  <2>1. caller[c].conn # None /\ caller[c].pc = "measuring"
    BY <1>10 DEF measure_acquire, Places
  <2>2. /\ caller'[c].conn = caller[c].conn /\ caller'[c].pc # "measuring" /\ Others(c)
    BY <1>0, <1>10 DEF measure_acquire, Gathers, CallerState
  <2>3. /\ unreturned' = unreturned + 1
        /\ UNCHANGED <<operation, unfinished, spoiled>>
    BY <1>10 DEF measure_acquire
  <2>4. Cardinality(Metered') = Cardinality(Metered) + 1
    BY <1>5, <2>1, <2>2
  <2> QED BY <1>0, <1>1, <2>3, <2>4 DEF MetersAgree
<1>11. ASSUME NEW c \in Caller, NEW i \in Instance, update_metrics(c, i) PROVE MetersAgree'
  <2>1. caller[c].conn = None
    BY <1>11 DEF update_metrics, Places
  <2>2. caller'[c].conn = None /\ Others(c)
    BY <1>0, <1>11 DEF update_metrics, Gathers, CallerState
  <2>3. UNCHANGED <<operation, sums>>
    BY <1>11 DEF update_metrics
  <2> QED BY <1>6, <2>1, <2>2, <2>3
<1>12. ASSUME NEW c \in Caller, get_state(c) PROVE MetersAgree'
  <2>1. /\ caller'[c].conn = caller[c].conn /\ caller'[c].pc # "measuring"
        /\ caller[c].pc # "measuring" /\ Others(c)
    BY <1>0, <1>12 DEF get_state, CallerState
  <2>2. UNCHANGED <<operation, sums>>
    BY <1>12 DEF get_state
  <2> QED BY <1>6, <2>1, <2>2
<1>13. ASSUME NEW c \in Caller, record_state(c) PROVE MetersAgree'
  <2>1. /\ caller'[c].conn = caller[c].conn /\ caller'[c].pc # "measuring"
        /\ caller[c].pc # "measuring" /\ Others(c)
    BY <1>0, <1>13 DEF record_state, CallerState, Away
  <2>2. UNCHANGED <<operation, sums>>
    BY <1>13 DEF record_state
  <2> QED BY <1>6, <2>1, <2>2
<1>14. ASSUME NEW c \in Caller, GatheringFails(c) PROVE MetersAgree'
  <2>1. /\ caller'[c].conn = None /\ caller[c].pc # "measuring" /\ Others(c)
    BY <1>0, <1>14 DEF GatheringFails, Away
  <2>2. UNCHANGED <<operation, unreturned, unfinished>>
    BY <1>14 DEF GatheringFails
  <2>3. CASE caller[c].conn = None
    <3>1. spoiled' = spoiled
      BY <1>0, <1>14, <2>3 DEF GatheringFails
    <3> QED BY <1>6, <2>1, <2>2, <2>3, <3>1 DEF sums
  <2>4. CASE caller[c].conn # None
    <3>1. spoiled' = spoiled + 1
      BY <1>14, <2>4 DEF GatheringFails
    <3>2. Cardinality(Metered') = Cardinality(Metered) - 1
      BY <1>4, <2>1, <2>4
    <3> QED BY <1>0, <1>1, <2>2, <3>1, <3>2 DEF MetersAgree
  <2> QED BY <2>3, <2>4
<1>15. ASSUME NEW c \in Caller, Released(c) PROVE MetersAgree'
  <2>1. /\ caller[c].conn # None /\ caller[c].pc # "measuring"
        /\ caller'[c].conn = None /\ Others(c)
    BY <1>0, <1>15 DEF Released, Away, Places
  <2>2. unreturned' = unreturned - 1 /\ UNCHANGED <<operation, unfinished, spoiled>>
    BY <1>15 DEF Released, kept
  <2>3. Cardinality(Metered') = Cardinality(Metered) - 1
    BY <1>4, <2>1
  <2> QED BY <1>0, <1>1, <2>2, <2>3 DEF MetersAgree
<1>16. ASSUME NEW c \in Caller, UNCHANGED <<caller, unreturned, spoiled>>,
              \A d \in Caller \ {c} : operation'[d] = operation[d],
              operation[c] \in {"guard", "future"}, operation'[c] \notin {"guard", "future"},
              unfinished' = unfinished - 1
       PROVE  MetersAgree'
  <2>1. c \in Operates /\ Operates' = Operates \ {c}
    BY <1>16 DEF Operates
  <2>2. Cardinality(Operates') = Cardinality(Operates) - 1
    BY <2>1, Finite, FS_RemoveElement
  <2> QED BY <1>0, <1>2, <1>16, <2>2 DEF MetersAgree
<1>17. ASSUME NEW c \in Caller, NEW how \in {"guard", "future"}, op(c, how) PROVE MetersAgree'
  <2>1. c \notin Operates /\ Operates' = Operates \cup {c}
    BY <1>0, <1>17 DEF op, Operates
  <2>2. Cardinality(Operates') = Cardinality(Operates) + 1
    BY <2>1, Finite, FS_AddElement
  <2>3. UNCHANGED <<caller, unreturned, spoiled>> /\ unfinished' = unfinished + 1
    BY <1>17 DEF op, kept
  <2> QED BY <1>0, <1>2, <2>2, <2>3 DEF MetersAgree
<1>18. ASSUME NEW c \in Caller, OpReady(c) PROVE MetersAgree'
  <2>1. /\ operation[c] = "future" /\ operation'[c] = "ready"
        /\ \A d \in Caller \ {c} : operation'[d] = operation[d]
    BY <1>0, <1>18 DEF OpReady
  <2>2. UNCHANGED <<caller, unreturned, spoiled>> /\ unfinished' = unfinished - 1
    BY <1>18 DEF OpReady, kept
  <2> QED BY <1>16, <2>1, <2>2
<1>19. ASSUME NEW c \in Caller, OpDropped(c) PROVE MetersAgree'
  <2>1. /\ operation[c] # "none" /\ operation'[c] = "none"
        /\ \A d \in Caller \ {c} : operation'[d] = operation[d]
    BY <1>0, <1>19 DEF OpDropped
  <2>2. UNCHANGED <<caller, unreturned, spoiled>>
    BY <1>19 DEF OpDropped, kept
  <2>3. CASE operation[c] = "ready"
    <3>1. unfinished' = unfinished
      BY <1>0, <1>19, <2>3 DEF OpDropped
    <3>2. Operates' = Operates
      BY <2>1, <2>3 DEF Operates
    <3> QED BY <1>2, <2>2, <3>1, <3>2, MetersSame DEF sums
  <2>4. CASE operation[c] # "ready"
    <3>1. operation[c] \in {"guard", "future"}
      BY <1>0, <2>1, <2>4
    <3>2. unfinished' = unfinished - 1
      BY <1>19, <2>4 DEF OpDropped
    <3> QED BY <1>16, <2>1, <2>2, <3>1, <3>2
  <2> QED BY <2>3, <2>4
<1>20. ASSUME Tick \/ (\E i \in Instance : instrument(i)) \/ \E i, j \in Instance : Clone(i, j)
       PROVE  MetersAgree'
  <2>1. UNCHANGED <<caller, operation, sums>>
    BY <1>20 DEF Tick, instrument, Clone
  <2> QED BY <1>1, <1>2, <2>1, MetersSame
<1> QED BY <1>7, <1>8, <1>9, <1>10, <1>11, <1>12, <1>13, <1>14, <1>15, <1>17, <1>18, <1>19, <1>20
        DEF Next, AsyncCall, SyncCall
-----------------------------------------------------------------------------
(* Steps that change nothing.                                              *)
LEMMA Stutter == ASSUME IInv, UNCHANGED vars PROVE IInv'
<1> USE DEF vars, pool, sums
<1>1. DataOK'
  BY DEF IInv, DataOK
<1>2. Places' /\ Clocks' /\ GatheredApart' /\ Fresh'
  BY DEF IInv, Places, Exists, Clocks, GatheredApart, Gathering, Fresh
<1>3. NoConnectionLost' /\ MetersAgree'
  BY DEF IInv, NoConnectionLost, Has, MetersAgree, Metered, Operates
<1> QED BY <1>1, <1>2, <1>3 DEF IInv

(* The invariant holds in every state.                                     *)
LEMMA Invariance == Spec => []IInv
<1>1. IInv /\ [Next]_vars => IInv'
  <2> SUFFICES ASSUME IInv, Next PROVE IInv'
    BY Stutter
  <2> QED BY TypeStep, PlacesStep, ConnectionsStep, MetersStep, GatheringStep, FreshStep DEF IInv
<1> QED BY <1>1, InitInv, PTL DEF Spec

(* The values of the state; no sum of ends, of uses or of operations, ever *)
(* exceeds the sum of the beginnings.                                      *)
THEOREM PoolTypeOK == Spec => []TypeOK
<1>1. IInv => TypeOK
  <2> SUFFICES ASSUME IInv PROVE TypeOK
    OBVIOUS
  <2>1. Cardinality(Metered) \in Nat /\ Cardinality(Operates) \in Nat
    BY Finite, FS_CardinalityType
  <2> QED BY <2>1 DEF IInv, TypeOK, DataOK, MetersAgree
<1> QED BY <1>1, Invariance, PTL

(* Whatever becomes of calls, an acquired connection has one owner.        *)
THEOREM ConnectionsKept == Spec => []NoConnectionLost
<1>1. IInv => NoConnectionLost
  BY DEF IInv
<1> QED BY <1>1, Invariance, PTL

(* Waits match uses, and operations begun match those recorded, but where  *)
(* gathering failed in between.                                            *)
THEOREM MetersMatch == Spec => []MetersAgree
<1>1. IInv => MetersAgree
  BY DEF IInv
<1> QED BY <1>1, Invariance, PTL

(* Gatherings through one instance begin more than PROBE_INTERVAL apart.   *)
THEOREM GatheringsApart == Spec => []GatheredApart
<1>1. IInv => GatheredApart
  BY DEF IInv
<1> QED BY <1>1, Invariance, PTL

(* Who is given a connection leaves fresh gauges behind, unless a gathering*)
(* is on its way or the last one failed.                                   *)
THEOREM GaugesAreFresh == Spec => GaugesFresh
<1> DEFINE Left == \/ now - gauge'.at <= PROBE_INTERVAL
                   \/ \E c \in Caller : Gathering(c)'
                   \/ missed'
<1>1. ASSUME IInv, Next, NEW c \in Caller, Served(c) PROVE Left
  <2>0. /\ caller \in [Caller -> CallerState] /\ now \in Nat /\ PROBE_INTERVAL \in Nat
        /\ last_gathered_at \in [Instance -> Nat \cup {None}] /\ None \notin Nat
    BY <1>1 DEF IInv, DataOK
  <2>1. measure_acquire(c) \/ record_state(c)
    <3>1. ASSUME NEW d \in Caller,
                 \/ NotAcquired(d) \/ Abandoned(d) \/ GatheringFails(d) \/ Released(d)
                 \/ Acquired(d) \/ get_state(d)
          PROVE  FALSE
      <4>1. caller'[c].pc = caller[c].pc \/ caller'[c].pc # "holding"
        BY <2>0, <3>1 DEF NotAcquired, Abandoned, GatheringFails, Released, Acquired, get_state,
                          Away, CallerState
      <4> QED BY <1>1, <4>1 DEF Served
    <3>2. ASSUME NEW d \in Caller, NEW i \in Instance, NEW m,
                 Call(d, i, m) \/ update_metrics(d, i)
          PROVE  FALSE
      <4>1. caller'[c].pc = caller[c].pc \/ caller'[c].pc # "holding"
        <5>1. CASE Call(d, i, m)
          BY <2>0, <5>1 DEF Call, Away
        <5>2. CASE update_metrics(d, i)
          BY <2>0, <5>2 DEF update_metrics, Gathers, CallerState
        <5> QED BY <3>2, <5>1, <5>2
      <4> QED BY <1>1, <4>1 DEF Served
    <3>3. ASSUME NEW d \in Caller, d # c, measure_acquire(d) \/ record_state(d) PROVE FALSE
      <4>1. caller'[c] = caller[c]
        BY <2>0, <3>3 DEF measure_acquire, record_state, Gathers
      <4> QED BY <1>1, <4>1 DEF Served
    <3>4. ~UNCHANGED caller
      BY <1>1 DEF Served
    <3>5. ASSUME \/ Tick \/ \E i \in Instance : instrument(i)
                 \/ \E i, j \in Instance : Clone(i, j)
                 \/ \E d \in Caller : \/ op(d, "guard") \/ op(d, "future")
                                      \/ OpReady(d) \/ OpDropped(d)
          PROVE  FALSE
      BY <3>4, <3>5 DEF Tick, instrument, Clone, op, OpReady, OpDropped
    <3> QED BY <1>1, <3>1, <3>2, <3>3, <3>5 DEF Next, AsyncCall, SyncCall
  <2>2. CASE record_state(c)
    <3>1. gauge'.at = now
      BY <2>2 DEF record_state
    <3> QED BY <2>0, <3>1
  <2>3. CASE measure_acquire(c)
    <3>1. ~Gathers(c, caller[c].on, caller[c].conn)
      <4>1. Gathers(c, caller[c].on, caller[c].conn) => caller'[c].pc = "gathering"
        BY <2>0 DEF Gathers, CallerState
      <4> QED BY <1>1, <4>1 DEF Served
    <3>2. /\ now - last_gathered_at[caller[c].on] <= PROBE_INTERVAL
          /\ caller[c].on \in Instance /\ Exists(caller[c].on)
          /\ ~Gathering(c) /\ UNCHANGED <<gauge, missed>>
          /\ \A d \in Caller \ {c} : caller'[d] = caller[d]
      BY <1>1, <2>0, <2>3, <3>1 DEF measure_acquire, IInv, Places, Gathering
    <3>3. /\ gauge.at \in Nat
          /\ \/ last_gathered_at[caller[c].on] <= gauge.at
             \/ \E d \in Caller : Gathering(d)
             \/ missed
      BY <1>1, <3>2 DEF IInv, Fresh
    <3>4. CASE last_gathered_at[caller[c].on] <= gauge.at
      BY <2>0, <3>2, <3>3, <3>4 DEF Exists
    <3>5. CASE \E d \in Caller : Gathering(d)
      BY <3>2, <3>5 DEF Gathering
    <3>6. CASE missed
      BY <3>2, <3>6
    <3> QED BY <3>3, <3>4, <3>5, <3>6
  <2> QED BY <2>1, <2>2, <2>3
<1>2. IInv /\ [Next]_vars => [(\E c \in Caller : Served(c)) => Left]_vars
  BY <1>1
<1> QED BY <1>2, Invariance, PTL DEF Spec, GaugesFresh
=============================================================================
