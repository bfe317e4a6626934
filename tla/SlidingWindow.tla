----------------------------- MODULE SlidingWindow -----------------------------
(***************************************************************************)
(* What a rate limiter promises (worker/services/rate-limit): a request is *)
(* accepted only while every window has room, and refused only while some  *)
(* window is full, where the limiter may look back Slack ticks too far.    *)
(***************************************************************************)
EXTENDS Integers, Functions

CONSTANTS
  Windows,    \* records [limit, length]: so much weight in so many ticks
  Slack,      \* how much too long a window may be taken
  Weights,    \* the weights of requests
  MaxTime     \* bound: ticks of the clock

VARIABLES
  now,
  accepted,   \* the weight accepted at every tick
  answer      \* to the last request: was it accepted?

TypeOK ==
  /\ now \in 0..MaxTime
  /\ accepted \in [0..MaxTime -> Nat]
  /\ answer \in BOOLEAN

Init ==
  /\ now = 0
  /\ accepted = [t \in 0..MaxTime |-> 0]
  /\ answer = TRUE

(* The weight accepted in the last ticks up to now.                        *)
Used(length) == SumFunctionOnSet(accepted, {t \in 0..now : t >= now - length})

(* By the time of the answer the clock may have moved on.                  *)
Accept(weight) ==
  /\ accepted' = [accepted EXCEPT ![now] = @ + weight]
  /\ answer' = TRUE
  /\ now' \in now..MaxTime
  /\ \A w \in Windows : Used(w.length) < w.limit

Refuse ==
  /\ answer' = FALSE
  /\ now' \in now..MaxTime
  /\ UNCHANGED accepted
  /\ \E w \in Windows : Used(w.length + Slack) >= w.limit

Reset ==
  /\ accepted' = [t \in 0..MaxTime |-> 0]
  /\ UNCHANGED <<now, answer>>

Tick ==
  /\ now' \in now + 1..MaxTime
  /\ UNCHANGED <<accepted, answer>>

Next == Reset \/ Tick \/ Refuse \/ (\E weight \in Weights : Accept(weight))

Spec == Init /\ [][Next]_<<now, accepted, answer>>

(* No window ever holds more than its limit, but for the excess of the one *)
(* request that filled it.                                                 *)
WindowsHold ==
  \A w \in Windows, weight \in Weights :
    (\A other \in Weights : other <= weight) => Used(w.length) < w.limit + weight
================================================================================
