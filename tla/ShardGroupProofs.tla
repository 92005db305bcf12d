--------------------------- MODULE ShardGroupProofs ---------------------------
(***************************************************************************)
(* The circuit breakers of a shard group implement the gate of             *)
(* AbstractBreaker, for any number of endpoints and of calls in flight,    *)
(* any threshold and any recovery window.                                  *)
(***************************************************************************)
EXTENDS ShardGroup, TLAPS

\* A group has an endpoint, so "no report" is a report.
LEMMA NoReportType ==
    /\ Total \in Nat \ {0}
    /\ \A i \in 0..Total-1 : Endpoint(i) \in Breakers
    /\ NoReport \in [pc : ReportPcs, b : Breakers, age : 0..Recovery]
<1>1. Total \in Nat \ {0}
  BY GroupAssumption DEF Total
<1>2. \A i \in 0..Total-1 : Endpoint(i) \in Breakers
  BY GroupAssumption DEF Total, Endpoint
<1>3. Group[1] \in Breakers
  BY GroupAssumption
<1>4. (CHOOSE b \in Breakers : TRUE) \in Breakers
  BY <1>3
<1>5. 0 \in 0..Recovery
  BY BreakerAssumption
<1>6. NoReport \in [pc : ReportPcs, b : Breakers, age : 0..Recovery]
  BY <1>4, <1>5 DEF NoReport, ReportPcs
<1> QED
  BY <1>1, <1>2, <1>6

-----------------------------------------------------------------------------
\* Recording an outcome keeps the types of the atomics and of the callers.
LEMMA RecordType ==
    ASSUME BreakerTypeOK, NEW c \in Callers, Record(c)
    PROVE  BreakerTypeOK'
<1> DEFINE R == [pc : ReportPcs, b : Breakers, age : 0..Recovery]
<1>1. PICK b \in Breakers : \/ StoreFailures(c, b)
                            \/ StoreOpenedAt(c, b)
                            \/ CountFailure(c, b)
                            \/ ReadClock(c, b)
                            \/ CompareExchange(c, b)
  BY DEF Record
<1>2. NoReport \in R
  BY NoReportType
<1>3. ASSUME NEW label \in ReportPcs, Goto(c, label)
      PROVE  rep' \in [Callers -> R]
  BY <1>3 DEF Goto, BreakerTypeOK
<1>4. ASSUME Done(c)
      PROVE  rep' \in [Callers -> R]
  BY <1>2, <1>4 DEF Done, BreakerTypeOK
<1>5. CASE StoreFailures(c, b)
  <2>1. rep' \in [Callers -> R]
    BY <1>3, <1>5 DEF StoreFailures, ReportPcs
  <2> QED
    BY <1>5, <2>1, BreakerAssumption DEF StoreFailures, BreakerTypeOK
<1>6. CASE StoreOpenedAt(c, b)
  <2>1. rep' \in [Callers -> R]
    BY <1>4, <1>6 DEF StoreOpenedAt
  <2> QED
    BY <1>6, <2>1, BreakerAssumption DEF StoreOpenedAt, BreakerTypeOK, Unset
<1>7. CASE CountFailure(c, b)
  <2>1. rep' \in [Callers -> R]
    BY <1>3, <1>4, <1>7 DEF CountFailure, ReportPcs
  <2> QED
    BY <1>7, <2>1, BreakerAssumption DEF CountFailure, BreakerTypeOK
<1>8. CASE ReadClock(c, b)
  <2>1. rep' \in [Callers -> R]
    BY <1>3, <1>8 DEF ReadClock, ReportPcs
  <2> QED
    BY <1>8, <2>1 DEF ReadClock, BreakerTypeOK
<1>9. CASE CompareExchange(c, b)
  <2>1. rep' \in [Callers -> R]
    BY <1>4, <1>9 DEF CompareExchange
  <2>2. rep[c].age \in 0..Recovery
    BY DEF BreakerTypeOK
  <2> QED
    BY <1>9, <2>1, <2>2, BreakerAssumption DEF CompareExchange, BreakerTypeOK, Unset
<1> QED
  BY <1>1, <1>5, <1>6, <1>7, <1>8, <1>9

LEMMA TickType ==
    ASSUME BreakerTypeOK, BreakerTick
    PROVE  BreakerTypeOK'
<1>1. \A age \in 0..Recovery : Older(age) \in 0..Recovery
  BY BreakerAssumption DEF Older
<1>2. openAge' \in [Breakers -> Unset..Recovery]
  BY <1>1, BreakerAssumption DEF BreakerTick, BreakerTypeOK, Unset
<1>3. rep' \in [Callers -> [pc : ReportPcs, b : Breakers, age : 0..Recovery]]
  BY <1>1 DEF BreakerTick, BreakerTypeOK
<1> QED
  BY <1>2, <1>3 DEF BreakerTick, BreakerTypeOK

\* The types are preserved by every step of a read, the clock and the endpoints.
LEMMA TypeStep ==
    ASSUME TypeOK, [Next]_groupVars
    PROVE  TypeOK'
<1> USE DEF TypeOK
<1>1. ASSUME NEW c \in Callers, Begin(c)
      PROVE  TypeOK'
  <2>1. (next + 1) % Total \in 0..Total-1 /\ next \in 0..Total-1
    BY NoReportType
  <2>2. req' \in [Callers -> Request]
    BY <1>1, <2>1, NoReportType DEF Begin, Request
  <2> QED
    BY <1>1, <2>1, <2>2 DEF Begin, breakerVars, BreakerTypeOK
<1>2. ASSUME NEW c \in Callers, Look(c)
      PROVE  TypeOK'
  <2>1. req[c] \in Request
    OBVIOUS
  <2>2. (req[c].idx + 1) % Total \in 0..Total-1 /\ 0 \in 0..Total-1 /\ 0 \in 0..Total
    BY <2>1, NoReportType DEF Request
  <2>3. req[c].left # 0 => req[c].left - 1 \in 0..Total
    BY <2>1, NoReportType DEF Request
  <2>4. req' \in [Callers -> Request]
    BY <1>2, <2>1, <2>2, <2>3 DEF Look, Request
  <2> QED
    BY <1>2, <2>4 DEF Look, breakerVars, BreakerTypeOK
<1>3. IdleReq \in Request
  BY NoReportType DEF IdleReq, Request
<1>4. ASSUME NEW c \in Callers, Answer(c)
      PROVE  TypeOK'
  <2> DEFINE b == Endpoint(req[c].idx)
  <2>1. b \in Breakers
    BY NoReportType DEF Request
  <2>2. Report(c, b, healthy[b])
    BY <1>4 DEF Answer
  <2>3. BreakerTypeOK'
    BY <2>1, <2>2, BreakerAssumption DEF Report, BreakerTypeOK, ReportPcs
  <2> QED
    BY <1>3, <1>4, <2>3 DEF Answer
<1>5. ASSUME NEW c \in Callers, TimeOut(c)
      PROVE  TypeOK'
  BY <1>3, <1>5 DEF TimeOut, breakerVars, BreakerTypeOK
<1>6. ASSUME NEW c \in Callers, Finish(c)
      PROVE  TypeOK'
  BY <1>6, RecordType DEF Finish
<1>7. CASE Tick
  BY <1>7, TickType DEF Tick
<1>8. ASSUME NEW b \in Breakers, ChangeHealth(b)
      PROVE  TypeOK'
  BY <1>8 DEF ChangeHealth, breakerVars, BreakerTypeOK
<1>9. CASE UNCHANGED groupVars
  BY <1>9 DEF groupVars, breakerVars, BreakerTypeOK
<1> QED
  BY <1>1, <1>2, <1>4, <1>5, <1>6, <1>7, <1>8, <1>9 DEF Next, Step

\* Every reachable state is well typed; the ages of the openings and of the
\* times that were read stay within the recovery window.
THEOREM Typing == Spec => []TypeOK
<1>1. Init => TypeOK
  <2>1. 0 \in 0..Total-1 /\ IdleReq \in Request
    BY NoReportType DEF IdleReq, Request
  <2> QED
    BY <2>1, NoReportType, BreakerAssumption
    DEF Init, TypeOK, BreakerInit, BreakerTypeOK, Unset
<1>2. TypeOK /\ [Next]_groupVars => TypeOK'
  BY TypeStep
<1> QED
  BY <1>1, <1>2, PTL DEF Spec

-----------------------------------------------------------------------------
\* Steps that touch none of the atomics, and no caller that is about to trip a
\* gate, are invisible through the refinement mapping.
LEMMA Stutter ==
    ASSUME UNCHANGED <<failures, openAge>>,
           \A c \in Callers : \A b \in Breakers :
              (rep'[c].b = b /\ rep'[c].pc \in {"now", "cas"})
                 <=> (rep[c].b = b /\ rep[c].pc \in {"now", "cas"})
    PROVE  UNCHANGED Gate!absVars
<1>1. GateOf' = GateOf
  BY DEF GateOf, IsOpen
<1>2. ArmedOf' = ArmedOf
  BY DEF ArmedOf
<1> QED
  BY <1>1, <1>2 DEF Gate!absVars

\* What a caller's own move does to the callers about to trip a gate: it joins
\* or leaves them, and nobody else does.
LEMMA ArmedAfter ==
    ASSUME BreakerTypeOK, NEW c \in Callers, NEW b \in Breakers,
           rep[c].b = b, NEW r, rep' = [rep EXCEPT ![c] = r],
           r.pc \in {"now", "cas"} => r.b = b
    PROVE  ArmedOf' = [ArmedOf EXCEPT ![b] = IF r.pc \in {"now", "cas"}
                                             THEN @ \cup {c} ELSE @ \ {c}]
<1>1. \A d \in Callers : rep'[d] = IF d = c THEN r ELSE rep[d]
  BY DEF BreakerTypeOK
<1>2. ASSUME NEW x \in Breakers
      PROVE  ArmedOf'[x] = IF x # b THEN ArmedOf[x]
                           ELSE IF r.pc \in {"now", "cas"}
                           THEN ArmedOf[b] \cup {c} ELSE ArmedOf[b] \ {c}
  BY <1>1 DEF ArmedOf
<1> QED
  BY <1>2 DEF ArmedOf

\* A caller that is not about to trip a gate does not leave those that are.
LEMMA ArmedSame ==
    ASSUME NEW b \in Breakers, NEW c
    PROVE  /\ c \notin ArmedOf[b] =>
                 ArmedOf = [ArmedOf EXCEPT ![b] = @ \ {c}]
           /\ c \in ArmedOf[b] =>
                 ArmedOf = [ArmedOf EXCEPT ![b] = @ \cup {c}]
           /\ ArmedOf = [ArmedOf EXCEPT ![b] = @]
<1>1. ArmedOf = [x \in Breakers |-> ArmedOf[x]]
  BY DEF ArmedOf
<1>2. ArmedOf = [ArmedOf EXCEPT ![b] = ArmedOf[b]]
  BY <1>1
<1>3. c \notin ArmedOf[b] => ArmedOf[b] \ {c} = ArmedOf[b]
  OBVIOUS
<1>4. c \in ArmedOf[b] => ArmedOf[b] \cup {c} = ArmedOf[b]
  OBVIOUS
<1> QED
  BY <1>2, <1>3, <1>4

\* Recording an outcome is a step of the gate.
LEMMA RecordRefines ==
    ASSUME BreakerTypeOK, NEW c \in Callers, Record(c)
    PROVE  [Gate!AbsNext]_(Gate!absVars)
<1>1. PICK b \in Breakers : \/ StoreFailures(c, b)
                            \/ StoreOpenedAt(c, b)
                            \/ CountFailure(c, b)
                            \/ ReadClock(c, b)
                            \/ CompareExchange(c, b)
  BY DEF Record
<1>2. rep[c].b = b
  BY <1>1 DEF StoreFailures, StoreOpenedAt, CountFailure, ReadClock,
              CompareExchange, At
<1>3. NoReport.pc = "none"
  BY DEF NoReport
<1>4. rep[c] \in [pc : ReportPcs, b : Breakers, age : 0..Recovery]
  BY DEF BreakerTypeOK
<1>5. ASSUME NEW label, Goto(c, label)
      PROVE  /\ rep' = [rep EXCEPT ![c] = [rep[c] EXCEPT !.pc = label]]
             /\ [rep[c] EXCEPT !.pc = label].pc = label
             /\ [rep[c] EXCEPT !.pc = label].b = b
  BY <1>2, <1>4, <1>5 DEF Goto
<1>6. CASE StoreFailures(c, b)
  <2> DEFINE r == [rep[c] EXCEPT !.pc = "ok2"]
  <2>0. rep' = [rep EXCEPT ![c] = r] /\ r.pc \notin {"now", "cas"}
    BY <1>5, <1>6 DEF StoreFailures
  <2> HIDE DEF r
  <2>1. ArmedOf' = [ArmedOf EXCEPT ![b] = @ \ {c}]
    BY <1>2, <2>0, ArmedAfter
  <2>2. c \notin ArmedOf[b]
    BY <1>6 DEF StoreFailures, At, ArmedOf
  <2>3. ArmedOf' = ArmedOf
    BY <2>1, <2>2, ArmedSame
  <2>4. GateOf' = GateOf
    BY <1>6 DEF StoreFailures, GateOf
  <2>5. Gate!Forgive(b)
    BY <1>6, <2>3, <2>4 DEF StoreFailures, Gate!Forgive
  <2> QED
    BY <2>5 DEF Gate!AbsNext
<1>7. CASE StoreOpenedAt(c, b)
  <2>1. ArmedOf' = [ArmedOf EXCEPT ![b] = @ \ {c}]
    BY <1>2, <1>3, <1>7, ArmedAfter DEF StoreOpenedAt, Done
  <2>2. c \notin ArmedOf[b]
    BY <1>7 DEF StoreOpenedAt, At, ArmedOf
  <2>3. ArmedOf' = ArmedOf
    BY <2>1, <2>2, ArmedSame
  <2>4. GateOf' = [GateOf EXCEPT ![b] = "closed"]
    BY <1>7 DEF StoreOpenedAt, GateOf, BreakerTypeOK
  <2>5. Gate!Heal(b)
    BY <1>7, <2>3, <2>4 DEF StoreOpenedAt, Gate!Heal
  <2> QED
    BY <2>5 DEF Gate!AbsNext
<1>8. CASE CountFailure(c, b)
  <2>1. GateOf' = GateOf
    BY <1>8 DEF CountFailure, GateOf
  <2>2. c \notin ArmedOf[b]
    BY <1>8 DEF CountFailure, At, ArmedOf
  <2>3. CASE failures[b] + 1 >= Threshold
    <3>1. ArmedOf' = [ArmedOf EXCEPT ![b] = @ \cup {c}]
      BY <1>2, <1>5, <1>8, <2>3, ArmedAfter DEF CountFailure
    <3>2. Gate!Strike(b, c)
      BY <1>8, <2>1, <2>3, <3>1 DEF CountFailure, Gate!Strike
    <3> QED
      BY <3>2 DEF Gate!AbsNext
  <2>4. CASE ~(failures[b] + 1 >= Threshold)
    <3>1. ArmedOf' = [ArmedOf EXCEPT ![b] = @ \ {c}]
      BY <1>2, <1>3, <1>8, <2>4, ArmedAfter DEF CountFailure, Done
    <3>2. ArmedOf' = [ArmedOf EXCEPT ![b] = @]
      BY <2>2, <3>1, ArmedSame
    <3>3. Gate!Strike(b, c)
      BY <1>8, <2>1, <2>4, <3>2 DEF CountFailure, Gate!Strike
    <3> QED
      BY <3>3 DEF Gate!AbsNext
  <2> QED
    BY <2>3, <2>4
<1>9. CASE ReadClock(c, b)
  <2>1. ArmedOf' = [ArmedOf EXCEPT ![b] = @ \cup {c}]
    BY <1>2, <1>5, <1>9, ArmedAfter DEF ReadClock
  <2>2. c \in ArmedOf[b]
    BY <1>9 DEF ReadClock, At, ArmedOf
  <2>3. ArmedOf' = ArmedOf
    BY <2>1, <2>2, ArmedSame
  <2>4. GateOf' = GateOf
    BY <1>9 DEF ReadClock, GateOf
  <2> QED
    BY <1>9, <2>3, <2>4 DEF ReadClock, Gate!absVars
<1>10. CASE CompareExchange(c, b)
  <2>1. ArmedOf' = [ArmedOf EXCEPT ![b] = @ \ {c}]
    BY <1>2, <1>3, <1>10, ArmedAfter DEF CompareExchange, Done
  <2>2. c \in ArmedOf[b]
    BY <1>10 DEF CompareExchange, At, ArmedOf
  <2>3. CASE openAge[b] = Unset
    <3>1. rep[c].age # Unset
      BY <1>4, BreakerAssumption DEF Unset
    <3>2. GateOf[b] = "closed"
      BY <2>3 DEF GateOf
    <3> DEFINE g == IF rep[c].age < Recovery THEN "open" ELSE "half_open"
    <3>3. GateOf' = [GateOf EXCEPT ![b] = g]
      BY <1>10, <2>3, <3>1 DEF CompareExchange, GateOf, BreakerTypeOK
    <3>4. Gate!Trip(b, c)
      BY <1>10, <2>1, <2>2, <3>2, <3>3 DEF CompareExchange, Gate!Trip
    <3> QED
      BY <3>4 DEF Gate!AbsNext
  <2>4. CASE openAge[b] # Unset
    <3>1. openAge' = openAge
      BY <1>10, <2>4 DEF CompareExchange, BreakerTypeOK
    <3>2. GateOf' = GateOf /\ GateOf[b] # "closed"
      BY <2>4, <3>1 DEF GateOf
    <3>3. Gate!Trip(b, c)
      BY <1>10, <2>1, <2>2, <3>2 DEF CompareExchange, Gate!Trip
    <3> QED
      BY <3>3 DEF Gate!AbsNext
  <2> QED
    BY <2>3, <2>4
<1> QED
  BY <1>1, <1>6, <1>7, <1>8, <1>9, <1>10

\* A tick of the clock ends the windows of some open gates, or of none.
LEMMA TickRefines ==
    ASSUME BreakerTypeOK, BreakerTick
    PROVE  [Gate!AbsNext]_(Gate!absVars)
<1> DEFINE B == {b \in Breakers : GateOf[b] = "open" /\ GateOf'[b] = "half_open"}
<1>1. ASSUME NEW c \in Callers
      PROVE  rep'[c].pc = rep[c].pc /\ rep'[c].b = rep[c].b
  BY DEF BreakerTick, BreakerTypeOK
<1>2. ArmedOf' = ArmedOf
  BY <1>1 DEF ArmedOf
<1>3. GateOf' = [b \in Breakers |-> IF b \in B THEN "half_open" ELSE GateOf[b]]
  <2>1. ASSUME NEW b \in Breakers
        PROVE  \/ GateOf'[b] = GateOf[b]
               \/ GateOf[b] = "open" /\ GateOf'[b] = "half_open"
    <3>1. openAge[b] \in Unset..Recovery
      BY DEF BreakerTypeOK
    <3>2. openAge'[b] = IF openAge[b] = Unset THEN Unset
                        ELSE IF openAge[b] < Recovery THEN openAge[b] + 1
                        ELSE openAge[b]
      BY DEF BreakerTick, Older
    <3> QED
      BY <3>1, <3>2, BreakerAssumption DEF GateOf, Unset
  <2> QED
    BY <2>1 DEF GateOf
<1>4. CASE B = {}
  <2>1. GateOf' = GateOf
    BY <1>3, <1>4 DEF GateOf
  <2> QED
    BY <1>2, <2>1 DEF BreakerTick, Gate!absVars
<1>5. CASE B # {}
  <2>1. Gate!Lapse(B)
    BY <1>2, <1>3, <1>5 DEF BreakerTick, Gate!Lapse
  <2> QED
    BY <2>1 DEF Gate!AbsNext
<1> QED
  BY <1>4, <1>5

\* Every step of the group is a step of the gate, or invisible to it.
LEMMA StepRefines ==
    ASSUME TypeOK, [Next]_groupVars
    PROVE  [Gate!AbsNext]_(Gate!absVars)
<1>1. ASSUME UNCHANGED breakerVars
      PROVE  UNCHANGED Gate!absVars
  BY <1>1, Stutter DEF breakerVars
<1>2. ASSUME NEW c \in Callers, Begin(c) \/ Look(c) \/ TimeOut(c)
      PROVE  UNCHANGED Gate!absVars
  BY <1>1, <1>2 DEF Begin, Look, TimeOut
<1>3. ASSUME NEW c \in Callers, Answer(c)
      PROVE  UNCHANGED Gate!absVars
  <2> DEFINE b == Endpoint(req[c].idx)
  <2>1. Report(c, b, healthy[b])
    BY <1>3 DEF Answer
  <2>2. \A d \in Callers : d # c => rep'[d] = rep[d]
    BY <2>1 DEF Report, TypeOK, BreakerTypeOK
  <2>3. rep[c].pc = "none" /\ rep'[c].pc \in {"ok1", "err1"}
    BY <2>1 DEF Report, TypeOK, BreakerTypeOK
  <2>4. UNCHANGED <<failures, openAge>>
    BY <2>1 DEF Report
  <2> QED
    BY <2>2, <2>3, <2>4, Stutter
<1>4. ASSUME NEW c \in Callers, Finish(c)
      PROVE  [Gate!AbsNext]_(Gate!absVars)
  BY <1>4, RecordRefines DEF Finish, TypeOK
<1>5. CASE Tick
  BY <1>5, TickRefines DEF Tick, TypeOK
<1>6. ASSUME NEW b \in Breakers, ChangeHealth(b)
      PROVE  UNCHANGED Gate!absVars
  BY <1>1, <1>6 DEF ChangeHealth
<1>7. CASE UNCHANGED groupVars
  BY <1>1, <1>7 DEF groupVars
<1> QED
  BY <1>2, <1>3, <1>4, <1>5, <1>6, <1>7 DEF Next, Step

\* The breakers of a shard group, two relaxed atomics each that overlapping
\* calls update in several steps (record_success, record_failure, is_open),
\* implement the gate of AbstractBreaker.
THEOREM BreakersGated == Spec => Gated
<1>1. Init => Gate!AbsInit
  <2>1. NoReport.pc = "none"
    BY DEF NoReport
  <2> QED
    BY <2>1 DEF Init, BreakerInit, Gate!AbsInit, GateOf, ArmedOf
<1>2. TypeOK /\ [Next]_groupVars => [Gate!AbsNext]_(Gate!absVars)
  BY StepRefines
<1> QED
  BY <1>1, <1>2, Typing, PTL DEF Spec, Gated, Gate!AbsSpec

=============================================================================
