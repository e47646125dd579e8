------------------------------ MODULE LogStream ------------------------------
(***************************************************************************)
(* What a log appender promises of the records it has accepted, known by   *)
(* their numbers: each is delivered once, and no more than MaxBatch        *)
(* together; an appender that is ordered delivers them in order; it ends   *)
(* when none is left, unless it never worked; and once it is pressed, by   *)
(* its end or by a timer, deliveries go on until none is left.             *)
(***************************************************************************)
EXTENDS Naturals, Sequences

CONSTANT MaxBatch

VARIABLES accepted, sent, open, pressed, ordered

streamVars == <<accepted, sent, open, pressed, ordered>>

Init ==
  /\ accepted = 0 /\ sent = <<>> /\ open = TRUE
  /\ pressed \in BOOLEAN /\ ordered \in BOOLEAN

Accept == /\ open
          /\ accepted' = accepted + 1
          /\ UNCHANGED <<sent, open, pressed, ordered>>

DeliverNext ==
  /\ open /\ ordered
  /\ \E n \in 1..MaxBatch :
       /\ Len(sent) + n <= accepted
       /\ sent' = sent \o [i \in 1..n |-> Len(sent) + i]
  /\ UNCHANGED <<accepted, open, pressed, ordered>>

(* Any record that is left.                                                *)
DeliverAny ==
  /\ open /\ ~ordered
  /\ \E r \in 1..accepted :
       /\ \A i \in 1..Len(sent) : sent[i] # r
       /\ sent' = Append(sent, r)
  /\ UNCHANGED <<accepted, open, pressed, ordered>>

Deliver == DeliverNext \/ DeliverAny

Press == /\ ~pressed
         /\ pressed' = TRUE
         /\ UNCHANGED <<accepted, sent, open, ordered>>

Close == /\ open /\ Len(sent) = accepted
         /\ open' = FALSE
         /\ UNCHANGED <<accepted, sent, pressed, ordered>>

(* The appender never came up: whatever it accepted is lost.               *)
Break == /\ open /\ sent = <<>>
         /\ open' = FALSE
         /\ UNCHANGED <<accepted, sent, pressed, ordered>>

Next == Accept \/ Deliver \/ Press \/ Close \/ Break

Spec     == Init /\ [][Next]_streamVars
FairSpec == Spec /\ WF_streamVars(pressed /\ Deliver)
=============================================================================
