--------------------------- MODULE LatestRequest ---------------------------
(***************************************************************************)
(* What the player promises every time one thread hands work to another    *)
(* through a plain variable and a flag: channel keys to the stream thread  *)
(* (programNumber, changeChannel), volume keys to the stream thread        *)
(* (volumeLevel, changeVolume), draw requests to the graphics thread.      *)
(*                                                                         *)
(* A request may be overtaken by a newer one and may be served twice, but  *)
(* once nothing is pending the value last served is the value last posted. *)
(***************************************************************************)

EXTENDS TLAPS

CONSTANT Value   \* what can be requested

VARIABLES
  posted,        \* the newest request
  pending,       \* TRUE when some request has not been looked at
  served         \* the request the serving thread last acted on

vars == <<posted, pending, served>>

Settled == ~pending => served = posted

TypeOK ==
  /\ posted \in Value
  /\ served \in Value
  /\ pending \in BOOLEAN

Init == TypeOK /\ Settled

Post ==
  /\ posted' \in Value
  /\ pending' = TRUE
  /\ UNCHANGED served

\* Serving may leave the request pending: the flag was raised again while
\* the newest value was being picked up, so it will be served once more.
Serve ==
  /\ pending
  /\ served' = posted
  /\ pending' \in BOOLEAN
  /\ UNCHANGED posted

Next == Post \/ Serve

Spec == Init /\ [][Next]_vars

\* What the promise is worth: a served value is never an overtaken one once
\* nothing is pending, for any set of values.
THEOREM AlwaysSettled == Spec => [](TypeOK /\ Settled)
<1>1. Init => TypeOK /\ Settled
  BY DEF Init
<1>2. TypeOK /\ Settled /\ [Next]_vars => TypeOK' /\ Settled'
  BY DEF TypeOK, Settled, Next, Post, Serve, vars
<1> QED BY <1>1, <1>2, PTL DEF Spec
=============================================================================
