---------------------------- MODULE CircuitBreaker ----------------------------
(***************************************************************************)
(* The circuit breaker, crates/core/src/breaker.rs, atomic by atomic, with *)
(* any number of callers reporting at the same time.                       *)
(*                                                                         *)
(*   record_success   ok1 (failures.store 0) -> ok2 (opened_at_ms.store 0) *)
(*   record_failure   err1 (fetch_add) -> now (now_ms) -> cas              *)
(*                                                                         *)
(* opened_at_ms is only ever compared with the clock, so the model keeps   *)
(* the age of the opening instead, up to the recovery window, after which  *)
(* the code no longer tells ages apart; the age of a time that was read    *)
(* and not yet stored runs on too.  failures is counted up to the          *)
(* threshold for the same reason (it wraps at 2^32).  The clock is         *)
(* SystemTime; that it does not step back is assumed.  Relaxed accesses    *)
(* are interleaved: each breaker's two atomics are seen in program order.  *)
(*                                                                         *)
(* The wrappers (router/src/breaker.rs, ranker/src/breaker.rs) decide who  *)
(* calls when: ShardGroup and Router extend this module.                   *)
(***************************************************************************)
EXTENDS Integers

CONSTANTS
    Breakers,      \* one CircuitBreaker each
    Callers,       \* requests that may be in flight at the same time
    Threshold,     \* failure_threshold
    Recovery       \* recovery_ms, in ticks of the clock

ASSUME BreakerAssumption == Threshold \in Nat /\ Recovery \in Nat

VARIABLES
    failures,   \* failures[b]: CircuitBreaker::failures
    openAge,    \* openAge[b]: ticks since opened_at_ms, Unset when that is 0
    rep         \* rep[c]: what caller c has to report, and to whom

breakerVars == <<failures, openAge, rep>>

Unset == -1

ReportPcs == {"none", "ok1", "ok2", "err1", "now", "cas"}

NoReport == [pc |-> "none", b |-> CHOOSE b \in Breakers : TRUE, age |-> 0]

BreakerTypeOK ==
    /\ failures \in [Breakers -> 0..Threshold]
    /\ openAge \in [Breakers -> Unset..Recovery]
    /\ rep \in [Callers -> [pc : ReportPcs, b : Breakers, age : 0..Recovery]]

BreakerInit ==
    /\ failures = [b \in Breakers |-> 0]
    /\ openAge = [b \in Breakers |-> Unset]
    /\ rep = [c \in Callers |-> NoReport]

-----------------------------------------------------------------------------
IsOpen(b) == openAge[b] # Unset /\ openAge[b] < Recovery

At(c, b, label) == rep[c].pc = label /\ rep[c].b = b

Goto(c, label) == rep' = [rep EXCEPT ![c].pc = label]

Done(c) == rep' = [rep EXCEPT ![c] = NoReport]

\* The wrapper has the outcome of a call to b and starts to record it.
Report(c, b, ok) ==
    /\ rep[c].pc = "none"
    /\ rep' = [rep EXCEPT ![c] = [pc  |-> IF ok THEN "ok1" ELSE "err1",
                                  b   |-> b,
                                  age |-> 0]]
    /\ UNCHANGED <<failures, openAge>>

\* record_success
StoreFailures(c, b) ==
    /\ At(c, b, "ok1")
    /\ failures' = [failures EXCEPT ![b] = 0]
    /\ Goto(c, "ok2")
    /\ UNCHANGED openAge

\* Mutant: opened_at_ms is cleared by a success only inside the window.
StoreOpenedAtInWindow(c, b) ==
    /\ At(c, b, "ok2")
    /\ openAge' = [openAge EXCEPT ![b] = IF IsOpen(b) THEN Unset ELSE @]
    /\ Done(c)
    /\ UNCHANGED failures

StoreOpenedAt(c, b) ==
    /\ At(c, b, "ok2")
    /\ openAge' = [openAge EXCEPT ![b] = Unset]
    /\ Done(c)
    /\ UNCHANGED failures

\* Mutant: the count is compared with = instead of >=.
CountFailureExact(c, b) ==
    /\ At(c, b, "err1")
    /\ failures' = [failures EXCEPT ![b] = IF @ < Threshold THEN @ + 1 ELSE @]
    /\ IF failures[b] + 1 = Threshold THEN Goto(c, "now") ELSE Done(c)
    /\ UNCHANGED openAge

\* record_failure
CountFailure(c, b) ==
    /\ At(c, b, "err1")
    /\ failures' = [failures EXCEPT ![b] = IF @ < Threshold THEN @ + 1 ELSE @]
    /\ IF failures[b] + 1 >= Threshold THEN Goto(c, "now") ELSE Done(c)
    /\ UNCHANGED openAge

ReadClock(c, b) ==
    /\ At(c, b, "now")
    /\ Goto(c, "cas")
    /\ UNCHANGED <<failures, openAge>>

\* Mutant: a plain store, which opens a half-open breaker again.
StoreNow(c, b) ==
    /\ At(c, b, "cas")
    /\ openAge' = [openAge EXCEPT ![b] = rep[c].age]
    /\ Done(c)
    /\ UNCHANGED failures

CompareExchange(c, b) ==
    /\ At(c, b, "cas")
    /\ openAge' = [openAge EXCEPT ![b] = IF @ = Unset THEN rep[c].age ELSE @]
    /\ Done(c)
    /\ UNCHANGED failures

Record(c) ==
    \E b \in Breakers :
        \/ StoreFailures(c, b)
        \/ StoreOpenedAt(c, b)
        \/ CountFailure(c, b)
        \/ ReadClock(c, b)
        \/ CompareExchange(c, b)

-----------------------------------------------------------------------------
\* The wall clock advances.
Older(age) == IF age < Recovery THEN age + 1 ELSE age

\* Mutant: the time a breaker is open counts only while nobody reports.
QuietTick ==
    /\ openAge' = [b \in Breakers |->
                      IF \/ openAge[b] = Unset
                         \/ \E c \in Callers : rep[c].pc # "none" /\ rep[c].b = b
                      THEN openAge[b] ELSE Older(openAge[b])]
    /\ rep' = [c \in Callers |->
                  IF rep[c].pc = "cas"
                  THEN [rep[c] EXCEPT !.age = Older(@)] ELSE rep[c]]
    /\ UNCHANGED failures

BreakerTick ==
    /\ openAge' = [b \in Breakers |->
                      IF openAge[b] = Unset THEN Unset ELSE Older(openAge[b])]
    /\ rep' = [c \in Callers |->
                  IF rep[c].pc = "cas"
                  THEN [rep[c] EXCEPT !.age = Older(@)] ELSE rep[c]]
    /\ UNCHANGED failures
=============================================================================
