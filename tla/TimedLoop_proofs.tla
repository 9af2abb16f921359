--------------------------- MODULE TimedLoop_proofs ---------------------------
(***************************************************************************)
(* Theorems about the timed loop for every poll interval, every number of  *)
(* attempts and cycles of any length.                                      *)
(***************************************************************************)
EXTENDS TimedLoop, NatRecursion

(* The ticker and the clock it is read against: what is still missing of a *)
(* poll interval is on the ticker.                                         *)
TickerInv ==
    /\ ticker \in 0..Poll
    /\ sinceTick \in Nat
    /\ pc # "down" => sinceTick + ticker >= Poll

LEMMA TickerInit == Init => TickerInv
BY TimedAssumption DEF Init, TickerInv

LEMMA TickerStep == TickerInv /\ [Next]_vars => TickerInv'
<1> SUFFICES ASSUME TickerInv, [Next]_vars PROVE TickerInv'
    OBVIOUS
<1> USE TimedAssumption DEF TickerInv
<1>1. CASE Start
    BY <1>1 DEF Start
<1>2. CASE Tick
    BY <1>2 DEF Tick
<1>3. CASE Second
    <2>1. pc # "down" /\ pc' = pc
        BY <1>3 DEF Second, Waits
    <2>2. ticker' = (IF ticker > 0 THEN ticker - 1 ELSE 0) /\ sinceTick' = sinceTick + 1
        BY <1>3 DEF Second
    <2> QED
        BY <2>1, <2>2
<1>4. CASE Deliver \/ Shutdown \/ Ok \/ Err \/ Retry
    <2>1. pc # "down" /\ UNCHANGED <<ticker, sinceTick>>
        BY <1>4 DEF Deliver, Shutdown, Ok, Err, Retry
    <2> QED
        BY <2>1
<1>5. CASE UNCHANGED vars
    BY <1>5 DEF vars
<1> QED
    BY <1>1, <1>2, <1>3, <1>4, <1>5 DEF Next

LEMMA TickerInvariant == Spec => []TickerInv
BY TickerInit, TickerStep, PTL DEF Spec

(* However long cycles and their backoffs last, two of them begin at least *)
(* a poll interval apart: there is no burst after a missed tick.           *)
THEOREM BurstFree == Spec => NoBurst
<1>1. TickerInv /\ [Next]_vars => [pc = "select" /\ pc' = "cycle" => sinceTick >= Poll]_vars
    <2> SUFFICES ASSUME TickerInv, Next, pc = "select", pc' = "cycle"
                 PROVE  sinceTick >= Poll
        OBVIOUS
    <2>1. Tick
        BY DEF Next, Start, Deliver, Shutdown, Ok, Err, Retry, Second
    <2> QED
        BY <2>1, TimedAssumption DEF Tick, TickerInv
<1> QED
    BY <1>1, TickerInvariant, PTL DEF Spec, NoBurst

(* The safety half of ImplementsRunLoop: the steps of the loop, without    *)
(* its clock, are those of RunLoop.                                        *)
THEOREM TimedLoopRefinesRunLoop == Spec => Loop!Spec
<1>1. Init => Loop!Init
    BY DEF Init, Loop!Init
<1>2. [Next]_vars => [Loop!Next]_(Loop!vars)
    <2> SUFFICES ASSUME [Next]_vars PROVE [Loop!Next]_(Loop!vars)
        OBVIOUS
    <2>1. CASE Second \/ UNCHANGED vars
        BY <2>1 DEF Second, vars, Loop!vars
    <2>2. CASE Start
        BY <2>2 DEF Start, Loop!Next, Loop!Start
    <2>3. CASE Deliver
        BY <2>3 DEF Deliver, Loop!Next, Loop!Deliver
    <2>4. CASE Shutdown
        BY <2>4 DEF Shutdown, Loop!Next, Loop!Shutdown
    <2>5. CASE Tick
        BY <2>5 DEF Tick, Loop!Next, Loop!Tick
    <2>6. CASE Ok
        BY <2>6 DEF Ok, Loop!Next, Loop!CycleStep, Loop!Ok
    <2>7. CASE Err
        BY <2>7 DEF Err, Loop!Next, Loop!CycleStep, Loop!Err
    <2>8. CASE Retry
        BY <2>8 DEF Retry, Loop!Next, Loop!CycleStep, Loop!Retry
    <2> QED
        BY <2>1, <2>2, <2>3, <2>4, <2>5, <2>6, <2>7, <2>8 DEF Next
<1> QED
    BY <1>1, <1>2, PTL DEF Spec, Loop!Spec
-----------------------------------------------------------------------------
(* Backoffs are powers of two, so the length of a cycle is about a         *)
(* recursive function.                                                     *)

LEMMA ShiftedDefined ==
    Shifted = [n \in Nat |-> IF n = 0 THEN 1 ELSE 2 * Shifted[n - 1]]
<1> DEFINE Double == [pair \in Nat \X Nat |-> 2 * pair[2]]
<1>1. Double \in [Nat \X Nat -> Nat]
    OBVIOUS
<1>2. \A n, m \in Nat : Double[<<n, m>>] = 2 * m
    OBVIOUS
<1> HIDE DEF Double
<1>3. PICK f : Solves(Nat, 1, Double, f)
    BY <1>1, RecursionOnNat
<1>4. f = [n \in Nat |-> IF n = 0 THEN 1 ELSE 2 * f[n - 1]]
    <2>1. ASSUME NEW n \in Nat, n # 0 PROVE f[n] = 2 * f[n - 1]
        <3>1. n - 1 \in Nat /\ f[n - 1] \in Nat
            BY <1>3, <2>1 DEF Solves
        <3> QED
            BY <1>2, <1>3, <2>1, <3>1 DEF Solves
    <2> QED
        BY <1>3, <2>1 DEF Solves
<1> QED
    BY <1>4, Zenon DEF Shifted

LEMMA ShiftedSteps ==
    /\ Shifted[0] = 1
    /\ \A n \in Nat : Shifted[n + 1] = 2 * Shifted[n]
BY ShiftedDefined

LEMMA ShiftedType == \A n \in Nat : Shifted[n] \in Nat \ {0}
<1> DEFINE S == {n \in Nat : Shifted[n] \in Nat \ {0}}
<1>1. 0 \in S /\ \A n \in S : n + 1 \in S
    BY ShiftedSteps
<1> HIDE DEF S
<1>2. S = Nat
    BY <1>1, Inductive DEF S
<1> QED
    BY <1>2 DEF S

LEMMA ShiftedGrows ==
    ASSUME NEW n \in Nat, NEW m \in Nat, n <= m
    PROVE  Shifted[n] <= Shifted[m]
<1> DEFINE S == {d \in Nat : Shifted[n] <= Shifted[n + d]}
<1>1. 0 \in S
    BY ShiftedType
<1>2. ASSUME NEW d \in S PROVE d + 1 \in S
    <2>1. Shifted[(n + d) + 1] = 2 * Shifted[n + d]
        BY ShiftedSteps
    <2>2. n + (d + 1) = (n + d) + 1
        OBVIOUS
    <2> QED
        BY <2>1, <2>2, ShiftedType
<1> HIDE DEF S
<1>3. S = Nat
    BY <1>1, <1>2, Inductive DEF S
<1> QED
    BY <1>3, m - n \in Nat, n + (m - n) = m DEF S

-----------------------------------------------------------------------------
(* How long a cycle has lasted at most when so many attempts have failed   *)
(* and the backoff after the last of them is over.                         *)
Spent(failures) == failures * CycleTime + RETRY_BASE_DELAY * (Shifted[failures] - 1)

LEMMA SpentType == \A n \in Nat : Spent(n) \in Nat
BY TimedAssumption, ShiftedType DEF Spent

LEMMA BackoffType == \A n \in Nat : Backoff(n + 1) \in Nat
BY TimedAssumption, ShiftedType DEF Backoff

LEMMA SpentSteps ==
    /\ Spent(0) = 0
    /\ \A n \in Nat : Spent(n + 1) = Spent(n) + CycleTime + Backoff(n + 1)
<1>1. Spent(0) = 0
    BY TimedAssumption, ShiftedSteps DEF Spent
<1>2. ASSUME NEW n \in Nat
      PROVE  Spent(n + 1) = Spent(n) + CycleTime + Backoff(n + 1)
    <2>1. Shifted[n] \in Nat /\ Shifted[n + 1] = 2 * Shifted[n]
        BY ShiftedType, ShiftedSteps
    <2>2. (n + 1) * CycleTime = n * CycleTime + CycleTime
        BY TimedAssumption
    <2>3. RETRY_BASE_DELAY * (2 * Shifted[n] - 1)
            = RETRY_BASE_DELAY * (Shifted[n] - 1) + RETRY_BASE_DELAY * Shifted[n]
        BY <2>1, TimedAssumption
    <2>4. Backoff(n + 1) = RETRY_BASE_DELAY * Shifted[n]
        BY DEF Backoff
    <2> QED
        BY <2>1, <2>2, <2>3, <2>4, TimedAssumption DEF Spent
<1> QED
    BY <1>1, <1>2

(* The attempt after it is not longer than what is left of WorstCycle.     *)
LEMMA SpentBounded ==
    ASSUME NEW n \in Nat, n < RETRY_ATTEMPTS
    PROVE  Spent(n) + CycleTime <= WorstCycle
<1> DEFINE last == RETRY_ATTEMPTS - 1
<1>1. last \in Nat /\ n <= last
    BY TimedAssumption
<1>2. Shifted[n] \in Nat \ {0} /\ Shifted[last] \in Nat \ {0} /\ Shifted[n] <= Shifted[last]
    BY <1>1, ShiftedType, ShiftedGrows
<1>3. n * CycleTime + CycleTime <= RETRY_ATTEMPTS * CycleTime
    <2>1. n + 1 <= RETRY_ATTEMPTS
        BY TimedAssumption
    <2>2. (n + 1) * CycleTime <= RETRY_ATTEMPTS * CycleTime
        BY <2>1, TimedAssumption
    <2> QED
        BY <2>2, TimedAssumption
<1>4. RETRY_BASE_DELAY * (Shifted[n] - 1) <= RETRY_BASE_DELAY * (Shifted[last] - 1)
    <2>1. Shifted[n] - 1 \in Nat /\ Shifted[last] - 1 \in Nat /\ Shifted[n] - 1 <= Shifted[last] - 1
        BY <1>2
    <2> HIDE DEF last
    <2> QED
        BY <2>1, TimedAssumption
<1>5. n * CycleTime \in Nat /\ RETRY_BASE_DELAY * (Shifted[n] - 1) \in Nat
      /\ RETRY_ATTEMPTS * CycleTime \in Nat /\ RETRY_BASE_DELAY * (Shifted[last] - 1) \in Nat
    BY <1>2, TimedAssumption
<1> QED
    BY <1>3, <1>4, <1>5, TimedAssumption DEF Spent, WorstCycle

-----------------------------------------------------------------------------
(* The count of attempts stays below its limit while a cycle runs, because *)
(* the attempt that reaches it ends the cycle.                             *)
TypeInv ==
    /\ TypeOK
    /\ pc \in {"cycle", "backoff"} => attempt < RETRY_ATTEMPTS

LEMMA TypeInit == Init => TypeInv
BY TimedAssumption DEF Init, TypeInv, TypeOK

LEMMA TypeStep == TypeInv /\ [Next]_vars => TypeInv'
<1> SUFFICES ASSUME TypeInv, [Next]_vars PROVE TypeInv'
    OBVIOUS
<1> USE TimedAssumption DEF TypeInv, TypeOK
<1>1. CASE Start
    BY <1>1 DEF Start
<1>2. CASE Deliver
    BY <1>2 DEF Deliver
<1>3. CASE Shutdown
    BY <1>3 DEF Shutdown
<1>4. CASE Tick
    BY <1>4 DEF Tick
<1>5. CASE Ok
    BY <1>5 DEF Ok
<1>6. CASE Err
    BY <1>6, BackoffType DEF Err
<1>7. CASE Retry
    BY <1>7 DEF Retry
<1>8. CASE Second
    BY <1>8 DEF Second, Waits
<1>9. CASE UNCHANGED vars
    BY <1>9 DEF vars
<1> QED
    BY <1>1, <1>2, <1>3, <1>4, <1>5, <1>6, <1>7, <1>8, <1>9 DEF Next

LEMMA TypeInvariant == Spec => []TypeInv
BY TypeInit, TypeStep, PTL DEF Spec

(* Attempts stay within RETRY_ATTEMPTS, the ticker within a poll interval, *)
(* and a backoff is a whole number of seconds.                             *)
THEOREM TimesTyped == Spec => []TypeOK
<1>1. TypeInv => TypeOK
    BY DEF TypeInv
<1> QED
    BY <1>1, TypeInvariant, PTL

-----------------------------------------------------------------------------
(* Where the seconds since the last tick have gone: into the attempts and  *)
(* backoffs of the running cycle, or into waiting for a ticker that was    *)
(* set to the poll interval when the cycle began.                          *)
CadenceInv ==
    /\ sinceTick <= Cadence
    /\ pc # "down" /\ ticker > 0 => sinceTick + ticker = Poll
    /\ pc = "cycle" => timer <= CycleTime /\ sinceTick <= Spent(attempt) + timer
    /\ pc = "backoff" => sinceTick + timer <= Spent(attempt)

LEMMA CadenceType == WorstCycle \in Nat /\ Cadence \in Nat /\ Poll <= Cadence /\ WorstCycle <= Cadence
<1>1. WorstCycle \in Nat
    <2>1. RETRY_ATTEMPTS - 1 \in Nat
        BY TimedAssumption
    <2>2. Shifted[RETRY_ATTEMPTS - 1] - 1 \in Nat
        BY <2>1, ShiftedType
    <2>3. RETRY_BASE_DELAY * (Shifted[RETRY_ATTEMPTS - 1] - 1) \in Nat
        BY <2>2, TimedAssumption
    <2> QED
        BY <2>3, TimedAssumption DEF WorstCycle
<1> QED
    BY <1>1, TimedAssumption DEF Cadence

LEMMA CadenceInit == Init => CadenceInv
BY CadenceType DEF Init, CadenceInv

LEMMA CadenceStep == TypeInv /\ CadenceInv /\ [Next]_vars => CadenceInv'
<1> SUFFICES ASSUME TypeInv, CadenceInv, [Next]_vars PROVE CadenceInv'
    OBVIOUS
<1> USE TimedAssumption, CadenceType DEF CadenceInv, TypeInv, TypeOK
<1>1. CASE Start
    BY <1>1 DEF Start
<1>2. CASE Deliver
    BY <1>2 DEF Deliver
<1>3. CASE Shutdown
    BY <1>3 DEF Shutdown
<1>4. CASE Tick
    BY <1>4, SpentSteps DEF Tick
<1>5. CASE Ok
    BY <1>5 DEF Ok
<1>6. CASE Err
    <2>1. /\ attempt' = attempt + 1
          /\ UNCHANGED <<ticker, sinceTick>>
          /\ \/ pc' = "select"
             \/ pc' = "backoff" /\ timer' = Backoff(attempt + 1)
        BY <1>6 DEF Err
    <2>2. /\ sinceTick <= Spent(attempt) + CycleTime
          /\ pc # "down"
        BY <1>6, SpentType DEF Err
    <2>3. /\ Spent(attempt + 1) = Spent(attempt) + CycleTime + Backoff(attempt + 1)
          /\ Spent(attempt) \in Nat
          /\ Backoff(attempt + 1) \in Nat
        BY SpentSteps, SpentType, BackoffType
    <2> QED
        BY <2>1, <2>2, <2>3
<1>7. CASE Retry
    BY <1>7, SpentType DEF Retry
<1>8. CASE Second
    <2>1. /\ sinceTick' = sinceTick + 1
          /\ ticker' = (IF ticker > 0 THEN ticker - 1 ELSE 0)
          /\ UNCHANGED <<pc, attempt>>
        BY <1>8 DEF Second
    <2>2. CASE pc = "select" /\ ticker > 0
        BY <2>1, <2>2
    <2>3. CASE pc = "cycle" /\ timer < CycleTime
        <3>1. timer' = timer + 1
            BY <1>8, <2>3 DEF Second
        <3>2. Spent(attempt) + CycleTime <= WorstCycle /\ Spent(attempt) \in Nat
            BY <2>3, SpentBounded, SpentType
        <3> QED
            BY <2>1, <2>3, <3>1, <3>2
    <2>4. CASE pc = "backoff" /\ timer > 0
        <3>1. timer' = timer - 1
            BY <1>8, <2>4 DEF Second
        <3>2. Spent(attempt) + CycleTime <= WorstCycle /\ Spent(attempt) \in Nat
            BY <2>4, SpentBounded, SpentType
        <3> QED
            BY <2>1, <2>4, <3>1, <3>2
    <2> QED
        BY <1>8, <2>2, <2>3, <2>4 DEF Second, Waits
<1>9. CASE UNCHANGED vars
    BY <1>9 DEF vars
<1> QED
    BY <1>1, <1>2, <1>3, <1>4, <1>5, <1>6, <1>7, <1>8, <1>9 DEF Next

LEMMA CadenceInvariant == Spec => [](TypeInv /\ CadenceInv)
BY TypeInvariant, CadenceInit, CadenceStep, PTL DEF Spec

(* However its attempts fail and however long they take, a cycle with all  *)
(* its backoffs is over within WorstCycle, so two ticks are never further  *)
(* apart than that or the poll interval.                                   *)
THEOREM CadenceHolds == Spec => []CadenceKept
<1>1. CadenceInv => CadenceKept
    BY DEF CadenceInv, CadenceKept
<1> QED
    BY <1>1, CadenceInvariant, PTL
=============================================================================
