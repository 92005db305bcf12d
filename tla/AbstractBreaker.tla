---------------------------- MODULE AbstractBreaker ----------------------------
(***************************************************************************)
(* What a caller may rely on of crates/core/src/breaker.rs, whose comment  *)
(* promises: "Open after N consecutive failures; half-open after recovery  *)
(* window".  No clock, no atomics, no calls in flight: a gate per breaker, *)
(* and what moves it.                                                      *)
(*                                                                         *)
(*   closed     calls pass; N consecutive failures arm a caller, and only  *)
(*              an armed caller trips the gate                             *)
(*   open       calls are refused                                          *)
(*   half_open  calls pass; a failure changes nothing, a success closes    *)
(*                                                                         *)
(* Reports overlap, so a success is two events, Forgive and Heal, and a    *)
(* failure may be two, Strike and Trip.                                    *)
(***************************************************************************)
EXTENDS Naturals

CONSTANTS Breakers, Callers, Threshold

VARIABLES
    gate,      \* gate[b]: what a caller is told
    strikes,   \* strikes[b]: consecutive failures, counted up to Threshold
    armed      \* armed[b]: callers that saw the run complete

absVars == <<gate, strikes, armed>>

AbsInit ==
    /\ gate = [b \in Breakers |-> "closed"]
    /\ strikes = [b \in Breakers |-> 0]
    /\ armed = [b \in Breakers |-> {}]

\* A failure is counted; the one that completes a run arms its caller.
Strike(b, c) ==
    /\ strikes' = [strikes EXCEPT
                       ![b] = IF @ < Threshold THEN @ + 1 ELSE @]
    /\ armed' = [armed EXCEPT
                       ![b] = IF strikes[b] + 1 >= Threshold
                              THEN @ \cup {c} ELSE @]
    /\ UNCHANGED gate

\* An armed caller trips a closed gate, and finds any other one as it is.
\* With an empty or exceeded recovery window the gate is half open at once.
Trip(b, c) ==
    /\ c \in armed[b]
    /\ armed' = [armed EXCEPT ![b] = @ \ {c}]
    /\ \/ gate[b] # "closed" /\ UNCHANGED gate
       \/ /\ gate[b] = "closed"
          /\ \E g \in {"open", "half_open"} : gate' = [gate EXCEPT ![b] = g]
    /\ UNCHANGED strikes

\* The recovery window of some open gates ends.
Lapse(B) ==
    /\ B # {}
    /\ \A b \in B : gate[b] = "open"
    /\ gate' = [b \in Breakers |-> IF b \in B THEN "half_open" ELSE gate[b]]
    /\ UNCHANGED <<strikes, armed>>

Forgive(b) ==
    /\ strikes' = [strikes EXCEPT ![b] = 0]
    /\ UNCHANGED <<gate, armed>>

Heal(b) ==
    /\ gate' = [gate EXCEPT ![b] = "closed"]
    /\ UNCHANGED <<strikes, armed>>

AbsNext ==
    \/ \E b \in Breakers : \E c \in Callers : Strike(b, c) \/ Trip(b, c)
    \/ \E b \in Breakers : Forgive(b) \/ Heal(b)
    \/ \E B \in SUBSET Breakers : Lapse(B)

AbsSpec == AbsInit /\ [][AbsNext]_absVars

\* A gate does not refuse for ever: every window ends.
AbsFairSpec ==
    /\ AbsSpec
    /\ \A b \in Breakers :
          WF_absVars(\E B \in SUBSET Breakers : b \in B /\ Lapse(B))
=============================================================================
