--------------------------- MODULE KeepAlive_proofs ---------------------------
(***************************************************************************)
(* The watched entry does not expire, for every poll interval, horizon,    *)
(* length of cycles and ledgers, and number of failures in a row that the  *)
(* assumption on the times admits.                                         *)
(***************************************************************************)
EXTENDS KeepAlive, TimedLoop_proofs

(* What KeepAlive does is what the timed loop may do, so what is proved of *)
(* the loop holds here.  It does not do all of it: MaxFailed bounds the    *)
(* cycles that fail in a row.                                              *)
LEMMA KeepAliveIsTimedLoop == AliveSpec => Spec
<1>1. AliveInit => Init
    BY DEF AliveInit
<1>2. [AliveNext]_aliveVars => [Next]_vars
    BY DEF AliveNext, Begins, Around, Observe, Submit, Succeeds, Fails, SecondPasses,
           LedgerPasses, Next, aliveVars, vars, entryVars
<1> QED
    BY <1>1, <1>2, PTL DEF AliveSpec, Spec

-----------------------------------------------------------------------------
(* The seconds until a submission that succeeds, n failing cycles from the *)
(* tick of the one that does not.                                          *)
Wait(n) == n * Cadence + WorstCycle

LEMMA WaitFacts ==
    /\ \A n \in Nat : Wait(n) \in Nat
    /\ \A n \in Nat : Wait(n) >= WorstCycle
    /\ \A n \in Nat : Wait(n + 1) = Wait(n) + Cadence
    /\ \A n \in 0..(MaxFailed + 1) : Wait(n) <= Exposure
<1>1. ASSUME NEW n \in Nat
      PROVE  Wait(n) \in Nat /\ Wait(n) >= WorstCycle /\ Wait(n + 1) = Wait(n) + Cadence
    BY CadenceType DEF Wait
<1>2. ASSUME NEW n \in 0..(MaxFailed + 1)
      PROVE  Wait(n) <= Exposure
    <2>1. n * Cadence <= (MaxFailed + 1) * Cadence
        BY CadenceType, KeepAliveAssumption
    <2> QED
        BY <2>1, CadenceType, KeepAliveAssumption DEF Wait, Exposure
<1> QED
    BY <1>1, <1>2

(* What is left of that: a cycle under way counts among the failing ones,  *)
(* unless it has done what it could about the entry and may yet succeed.   *)
Remaining ==
    IF pc = "select" THEN Wait((MaxFailed - failed) + 1) - sinceTick
    ELSE IF pc = "cycle" /\ seen \in {"left alone", "submitted"} THEN Exposure - sinceTick
    ELSE Wait(MaxFailed - failed) - sinceTick

(* The seconds the entry lives for if its ledgers close as fast as they    *)
(* can.                                                                    *)
Life == ttl * Close - sinceClose

(* A queued extension is in time; without one the entry outlives what is   *)
(* left until the next one is applied.                                     *)
LifeInv ==
    /\ ttl \in Nat \ {0}
    /\ sinceClose \in 0..Close
    /\ pending \in 0..ApplyLedgers
    /\ failed \in 0..MaxFailed
    /\ pending > 0 => ttl > pending
    /\ pending = 0 /\ pc \in {"select", "cycle", "backoff"} => Life > Remaining + ApplyLedgers * Close
    /\ pc = "down" => ttl > Target /\ pending = 0 /\ failed = 0

LoopInv == TypeInv /\ CadenceInv

LEMMA ExposureType == Exposure \in Nat /\ Exposure = Wait(MaxFailed + 1)
BY CadenceType, KeepAliveAssumption DEF Wait, Exposure

LEMMA RemainingBounds ==
    LoopInv /\ failed \in 0..MaxFailed /\ pc \in {"select", "cycle", "backoff"}
        => Remaining \in 0..Exposure
<1> SUFFICES ASSUME LoopInv, failed \in 0..MaxFailed, pc \in {"select", "cycle", "backoff"}
             PROVE  Remaining \in 0..Exposure
    OBVIOUS
<1> DEFINE n == MaxFailed - failed
<1>1. n \in Nat /\ n \in 0..(MaxFailed + 1) /\ n + 1 \in 0..(MaxFailed + 1)
    BY KeepAliveAssumption
<1>2. sinceTick \in Nat
    BY DEF LoopInv, TypeInv, TypeOK
<1>3. CASE pc = "select"
    <2>1. sinceTick <= Cadence
        BY DEF LoopInv, CadenceInv
    <2>2. Wait(n + 1) = Wait(n) + Cadence /\ Wait(n) \in Nat /\ Wait(n + 1) <= Exposure
        BY <1>1, WaitFacts
    <2>3. Remaining = Wait(n + 1) - sinceTick
        BY <1>3 DEF Remaining
    <2> HIDE DEF n
    <2> QED
        BY <1>2, <2>1, <2>2, <2>3, CadenceType, ExposureType
<1>4. CASE pc \in {"cycle", "backoff"}
    <2>1. attempt \in Nat /\ attempt < RETRY_ATTEMPTS
        BY <1>4 DEF LoopInv, TypeInv, TypeOK
    <2>2. Spent(attempt) \in Nat /\ Spent(attempt) + CycleTime <= WorstCycle
        BY <2>1, SpentType, SpentBounded
    <2>3. sinceTick <= WorstCycle
        BY <1>2, <1>4, <2>2, CadenceType, TimedAssumption DEF LoopInv, CadenceInv, TypeInv, TypeOK
    <2>4. Wait(n) \in Nat /\ WorstCycle <= Wait(n) /\ Wait(n) <= Exposure
        BY <1>1, WaitFacts
    <2>5. Remaining \in {Wait(n) - sinceTick, Exposure - sinceTick}
        BY <1>4 DEF Remaining
    <2> HIDE DEF n
    <2> QED
        BY <1>2, <2>3, <2>4, <2>5, CadenceType, ExposureType
<1> QED
    BY <1>3, <1>4

LEMMA RemainingBoundsAfter ==
    LoopInv' /\ failed' \in 0..MaxFailed /\ pc' \in {"select", "cycle", "backoff"}
        => Remaining' \in 0..Exposure
<1>1. (LoopInv /\ failed \in 0..MaxFailed /\ pc \in {"select", "cycle", "backoff"}
            => Remaining \in 0..Exposure)'
    BY RemainingBounds, PTL
<1> QED
    BY <1>1

-----------------------------------------------------------------------------
LEMMA TargetFacts ==
    /\ Target \in Nat
    /\ Target <= Horizon
    /\ Target * Close \in Nat
    /\ ApplyLedgers * Close \in Nat
    /\ Target * Close > Exposure + ApplyLedgers * Close
BY KeepAliveAssumption, WordAssumption DEF Target, ExtendToLedgers, MinOf

(* More ledgers take at least as many seconds.                             *)
LEMMA LedgersTake ==
    ASSUME NEW m \in Nat, NEW n \in Nat, m <= n
    PROVE  m * Close <= n * Close
BY KeepAliveAssumption

LEMMA LedgersNeeded ==
    ASSUME NEW m \in Nat, NEW n \in Nat, m * Close < n * Close
    PROVE  m < n
BY KeepAliveAssumption, LedgersTake

LEMMA LedgerTakes == \A n \in Nat : (n + 1) * Close = n * Close + Close /\ n * Close \in Nat
BY KeepAliveAssumption

(* An entry that is not at risk has more than the horizon left.            *)
LEMMA NotAtRisk ==
    ASSUME NEW n \in Nat, ~IsAtRisk(n, 0, Horizon)
    PROVE  n > Horizon
<1>1. n % U64 <= n
    BY WordAssumption
<1> QED
    BY <1>1, WordAssumption, KeepAliveAssumption DEF IsAtRisk, TtlLedgers

(* A TTL of the target is worth the whole exposure.                        *)
LEMMA TargetSuffices ==
    ASSUME NEW n \in Nat, Target <= n
    PROVE  n * Close > Exposure + ApplyLedgers * Close
BY LedgersTake, LedgerTakes, TargetFacts, ExposureType
-----------------------------------------------------------------------------
LEMMA LifeInit == AliveInit => LifeInv
<1> SUFFICES ASSUME AliveInit PROVE LifeInv
    OBVIOUS
<1>1. ttl \in Nat /\ ttl > Target
    BY KeepAliveAssumption DEF AliveInit
<1> QED
    BY <1>1, KeepAliveAssumption, TargetFacts DEF AliveInit, Init, LifeInv

(* While the loop turns, steps of it that take no time and leave the entry *)
(* alone keep LifeInv if they do not add to what remains.                  *)
LEMMA Turns ==
    ASSUME LifeInv, LoopInv, LoopInv',
           pc \in {"select", "cycle", "backoff"},
           pc' \in {"select", "cycle", "backoff", "stopped"},
           UNCHANGED entryVars,
           failed' \in 0..MaxFailed,
           pc' # "stopped" => Remaining' <= Remaining
    PROVE  LifeInv'
<1>1. pc' # "stopped" => Remaining \in Int /\ Remaining' \in Int
    <2>1. Remaining \in Int
        BY RemainingBounds, ExposureType DEF LifeInv
    <2>2. pc' # "stopped" => pc' \in {"select", "cycle", "backoff"}
        OBVIOUS
    <2>3. pc' # "stopped" => Remaining' \in 0..Exposure
        BY <2>2, RemainingBoundsAfter
    <2> QED
        BY <2>1, <2>3, ExposureType
<1>2. Life' = Life /\ Life \in Int
    BY KeepAliveAssumption DEF Life, entryVars, LifeInv
<1> QED
    BY <1>1, <1>2, TargetFacts DEF LifeInv, entryVars

LEMMA BeginsLife == LifeInv /\ LoopInv /\ LoopInv' /\ Begins => LifeInv'
<1> SUFFICES ASSUME LifeInv, LoopInv, LoopInv', Begins PROVE LifeInv'
    OBVIOUS
<1> DEFINE n == MaxFailed - failed
<1>1. n \in Nat
    BY KeepAliveAssumption DEF LifeInv
<1>2. /\ pc' = "cycle" /\ seen' = "nothing" /\ UNCHANGED <<entryVars, failed>>
      /\ pc \in {"select", "backoff"}
    BY DEF Begins, Tick, Retry
<1>3. Remaining' = Wait(n) - sinceTick'
    BY <1>2 DEF Remaining
<1>4. CASE Tick
    <2>1. sinceTick' = 0 /\ pc = "select"
        BY <1>4 DEF Tick
    <2>2. Remaining = Wait(n + 1) - sinceTick
        BY <2>1 DEF Remaining
    <2>3. sinceTick \in Nat /\ sinceTick <= Cadence
        BY DEF LoopInv, TypeInv, TypeOK, CadenceInv
    <2>4. Wait(n + 1) = Wait(n) + Cadence /\ Wait(n) \in Nat
        BY <1>1, WaitFacts
    <2> HIDE DEF n
    <2>5. Remaining' <= Remaining
        BY <1>3, <2>1, <2>2, <2>3, <2>4, CadenceType
    <2> QED
        BY <1>2, <2>5, Turns DEF LifeInv
<1>5. CASE Retry
    <2>1. sinceTick' = sinceTick /\ pc = "backoff"
        BY <1>5 DEF Retry
    <2>2. Remaining = Wait(n) - sinceTick
        BY <2>1 DEF Remaining
    <2>3. Wait(n) \in Nat /\ sinceTick \in Nat
        BY <1>1, WaitFacts DEF LoopInv, TypeInv, TypeOK
    <2> HIDE DEF n
    <2>4. Remaining' <= Remaining
        BY <1>3, <2>1, <2>2, <2>3
    <2> QED
        BY <1>2, <2>4, Turns DEF LifeInv
<1> QED
    BY <1>4, <1>5 DEF Begins

LEMMA AroundLife == LifeInv /\ LoopInv /\ LoopInv' /\ Around => LifeInv'
<1> SUFFICES ASSUME LifeInv, LoopInv, LoopInv', Around PROVE LifeInv'
    OBVIOUS
<1>1. UNCHANGED <<entryVars, seen, failed>>
    BY DEF Around
<1>2. CASE Start
    <2>1. pc = "down" /\ pc' = "select" /\ failed' \in 0..MaxFailed /\ pc' \in {"select", "cycle", "backoff"}
        BY <1>1, <1>2 DEF Start, LifeInv
    <2>2. Remaining' <= Exposure /\ Remaining' \in Nat
        <3>1. Remaining' \in 0..Exposure
            BY <2>1, RemainingBoundsAfter
        <3> QED
            BY <3>1, ExposureType
    <2>3. ttl \in Nat /\ Target <= ttl - 1 /\ ttl - 1 \in Nat
        BY <2>1, TargetFacts DEF LifeInv
    <2>4. (ttl - 1) * Close > Exposure + ApplyLedgers * Close
        BY <2>3, TargetSuffices
    <2>5. ttl * Close = (ttl - 1) * Close + Close /\ (ttl - 1) * Close \in Nat
        BY <2>3, LedgerTakes
    <2>6. Life' > Exposure + ApplyLedgers * Close
        BY <1>1, <2>4, <2>5, ExposureType, TargetFacts, KeepAliveAssumption
        DEF Life, entryVars, LifeInv
    <2>7. Life' \in Int
        BY <1>1, KeepAliveAssumption DEF Life, entryVars, LifeInv
    <2> QED
        BY <1>1, <2>1, <2>2, <2>6, <2>7, ExposureType, TargetFacts DEF LifeInv, entryVars
<1>3. CASE Deliver
    <2>1. pc' = pc /\ pc # "down" /\ pc # "stopped" /\ sinceTick' = sinceTick
        BY <1>3 DEF Deliver
    <2>2. pc \in {"select", "cycle", "backoff"}
        BY <2>1 DEF LoopInv, TypeInv, TypeOK
    <2>3. Remaining' = Remaining
        BY <1>1, <2>1 DEF Remaining
    <2>4. Remaining \in Int
        BY <2>2, RemainingBounds, ExposureType DEF LifeInv
    <2> QED
        BY <1>1, <2>1, <2>2, <2>3, <2>4, Turns DEF LifeInv
<1>4. CASE Shutdown
    BY <1>1, <1>4, Turns DEF Shutdown, LifeInv
<1> QED
    BY <1>2, <1>3, <1>4 DEF Around

LEMMA ObserveLife == LifeInv /\ LoopInv /\ LoopInv' /\ Observe => LifeInv'
<1> SUFFICES ASSUME LifeInv, LoopInv, LoopInv', Observe PROVE LifeInv'
    OBVIOUS
<1>1. /\ pc = "cycle" /\ pc' = "cycle" /\ seen = "nothing"
      /\ UNCHANGED <<vars, entryVars, failed>>
    BY DEF Observe, vars
<1>2. CASE seen' = "at risk"
    <2>1. Remaining' = Remaining
        BY <1>1, <1>2 DEF Remaining, vars
    <2>2. Remaining \in Int
        BY <1>1, RemainingBounds, ExposureType DEF LifeInv
    <2> QED
        BY <1>1, <2>1, <2>2, Turns DEF LifeInv
<1>3. CASE seen' = "left alone"
    <2>1. ttl \in Nat /\ ttl > 0
        BY DEF LifeInv
    <2>a. ~IsAtRisk(ttl, 0, Horizon)
        BY <1>3, <2>1 DEF Observe
    <2>b. ttl > Horizon
        BY <2>1, <2>a, NotAtRisk
    <2>2. ttl - 1 \in Nat /\ Target <= ttl - 1
        BY <2>1, <2>b, TargetFacts, KeepAliveAssumption
    <2>3. (ttl - 1) * Close > Exposure + ApplyLedgers * Close
        BY <2>2, TargetSuffices
    <2>4. ttl * Close = (ttl - 1) * Close + Close /\ (ttl - 1) * Close \in Nat
        BY <2>1, <2>2, LedgerTakes
    <2>5. Life' > Exposure + ApplyLedgers * Close /\ Life' \in Int
        BY <1>1, <2>3, <2>4, ExposureType, TargetFacts, KeepAliveAssumption
        DEF Life, entryVars, LifeInv
    <2>6. Remaining' <= Exposure /\ Remaining' \in Nat
        <3>1. failed' \in 0..MaxFailed
            BY <1>1 DEF LifeInv
        <3>2. Remaining' \in 0..Exposure
            BY <1>1, <3>1, RemainingBoundsAfter
        <3> QED
            BY <3>2, ExposureType
    <2> QED
        BY <1>1, <2>5, <2>6, ExposureType, TargetFacts DEF LifeInv, entryVars
<1> QED
    BY <1>2, <1>3 DEF Observe

LEMMA SubmitLife == LifeInv /\ LoopInv /\ LoopInv' /\ Submit => LifeInv'
<1> SUFFICES ASSUME LifeInv, LoopInv, LoopInv', Submit PROVE LifeInv'
    OBVIOUS
<1>1. /\ pc = "cycle" /\ pc' = "cycle"
      /\ UNCHANGED <<ttl, sinceClose, failed>>
      /\ pending' = IF pending = 0 THEN ApplyLedgers ELSE pending
    BY DEF Submit, vars
<1>2. CASE pending = 0
    <2>1. Remaining \in Nat
        BY <1>1, RemainingBounds, ExposureType DEF LifeInv
    <2>2. Life > Remaining + ApplyLedgers * Close
        BY <1>1, <1>2 DEF LifeInv
    <2>3. ttl * Close \in Nat /\ ttl * Close >= Life
        BY KeepAliveAssumption DEF Life, LifeInv
    <2>4. ApplyLedgers * Close < ttl * Close
        BY <2>1, <2>2, <2>3, TargetFacts, KeepAliveAssumption DEF Life, LifeInv
    <2>5. ApplyLedgers < ttl
        BY <2>4, LedgersNeeded, KeepAliveAssumption DEF LifeInv
    <2> QED
        BY <1>1, <1>2, <2>5, KeepAliveAssumption DEF LifeInv
<1>3. CASE pending # 0
    BY <1>1, <1>3, KeepAliveAssumption DEF LifeInv
<1> QED
    BY <1>2, <1>3

LEMMA SucceedsLife == LifeInv /\ LoopInv /\ LoopInv' /\ Succeeds => LifeInv'
<1> SUFFICES ASSUME LifeInv, LoopInv, LoopInv', Succeeds PROVE LifeInv'
    OBVIOUS
<1>1. /\ pc = "cycle" /\ pc' = "select" /\ sinceTick' = sinceTick
      /\ seen \in {"left alone", "submitted"} /\ failed' = 0 /\ UNCHANGED entryVars
    BY DEF Succeeds, Ok
<1>a. MaxFailed \in Nat /\ failed' = 0
    BY <1>1, KeepAliveAssumption
<1>2. Remaining = Exposure - sinceTick
    BY <1>1 DEF Remaining
<1>3. Remaining' = Wait(MaxFailed + 1) - sinceTick
    <2>1. (MaxFailed - failed') + 1 = MaxFailed + 1
        BY <1>a
    <2>2. Remaining' = Wait((MaxFailed - failed') + 1) - sinceTick'
        BY <1>1 DEF Remaining
    <2> QED
        BY <1>1, <2>1, <2>2
<1>4. Remaining' <= Remaining
    <2>1. Remaining' = Remaining
        BY <1>2, <1>3, ExposureType
    <2>2. Remaining \in Int
        BY <1>2, ExposureType DEF LoopInv, TypeInv, TypeOK
    <2> QED
        BY <2>1, <2>2
<1>5. failed' \in 0..MaxFailed
    BY <1>a
<1> QED
    BY <1>1, <1>4, <1>5, Turns

LEMMA FailsLife == LifeInv /\ LoopInv /\ LoopInv' /\ Fails => LifeInv'
<1> SUFFICES ASSUME LifeInv, LoopInv, LoopInv', Fails PROVE LifeInv'
    OBVIOUS
<1> DEFINE n == MaxFailed - failed
<1>1. /\ pc = "cycle" /\ pc' \in {"select", "backoff"} /\ sinceTick' = sinceTick
      /\ UNCHANGED <<entryVars, seen>>
      /\ pc' = "backoff" => failed' = failed
      /\ pc' = "select" => failed < MaxFailed /\ failed' = failed + 1
    BY DEF Fails, Err
<1>2. n \in Nat /\ n \in 0..(MaxFailed + 1)
    BY KeepAliveAssumption DEF LifeInv
<1>3. failed' \in 0..MaxFailed
    BY <1>1, KeepAliveAssumption DEF LifeInv
<1>4. Remaining' = Wait(n) - sinceTick
    <2>1. CASE pc' = "backoff"
        BY <1>1, <2>1 DEF Remaining
    <2>2. CASE pc' = "select"
        <3>1. (MaxFailed - failed') + 1 = n
            BY <1>1, <2>2, KeepAliveAssumption DEF LifeInv
        <3>2. Remaining' = Wait((MaxFailed - failed') + 1) - sinceTick'
            BY <2>2 DEF Remaining
        <3> HIDE DEF n
        <3> QED
            BY <1>1, <3>1, <3>2
    <2> QED
        BY <1>1, <2>1, <2>2
<1>5. Remaining \in {Wait(n) - sinceTick, Exposure - sinceTick}
    BY <1>1 DEF Remaining
<1>6. Wait(n) \in Nat /\ Wait(n) <= Exposure
    BY <1>2, WaitFacts
<1> HIDE DEF n
<1>7. Remaining' <= Remaining
    BY <1>4, <1>5, <1>6, ExposureType DEF LoopInv, TypeInv, TypeOK
<1> QED
    BY <1>1, <1>3, <1>7, Turns

(* A second is a second for the entry and for the loop.                    *)
LEMMA SecondPassesLife == LifeInv /\ LoopInv /\ LoopInv' /\ SecondPasses => LifeInv'
<1> SUFFICES ASSUME LifeInv, LoopInv, LoopInv', SecondPasses PROVE LifeInv'
    OBVIOUS
<1>1. /\ pc \in {"select", "cycle", "backoff"} /\ pc' = pc
      /\ sinceTick' = sinceTick + 1
      /\ sinceClose' = MinOf(sinceClose + 1, Close)
      /\ UNCHANGED <<ttl, pending, seen, failed>>
    BY DEF SecondPasses, Second, Waits
<1>2. Remaining' = Remaining - 1
    <2>1. sinceTick \in Nat
        BY DEF LoopInv, TypeInv, TypeOK
    <2>2. Wait(MaxFailed - failed) \in Nat /\ Wait((MaxFailed - failed) + 1) \in Nat
        BY WaitFacts, KeepAliveAssumption DEF LifeInv
    <2>3. \E total \in Nat : Remaining = total - sinceTick /\ Remaining' = total - sinceTick'
        BY <1>1, <2>2, ExposureType DEF Remaining
    <2> QED
        BY <1>1, <2>1, <2>3
<1>3. Remaining \in Nat
    BY <1>1, RemainingBounds, ExposureType DEF LifeInv
<1>4. sinceClose' \in 0..Close /\ sinceClose' <= sinceClose + 1
    BY <1>1, KeepAliveAssumption DEF MinOf, LifeInv
<1>5. Life' \in Int /\ Life \in Int /\ Life' >= Life - 1
    BY <1>1, <1>4, LedgerTakes, KeepAliveAssumption DEF Life, LifeInv
<1> QED
    BY <1>1, <1>2, <1>3, <1>4, <1>5, TargetFacts DEF LifeInv

(* A ledger takes what its seconds have taken already, and may apply the   *)
(* extension.                                                              *)
LEMMA LedgerPassesLife == LifeInv /\ LoopInv /\ LoopInv' /\ LedgerPasses => LifeInv'
<1> SUFFICES ASSUME LifeInv, LoopInv, LoopInv', LedgerPasses PROVE LifeInv'
    OBVIOUS
<1>1. /\ pc \in {"select", "cycle", "backoff"} /\ pc' = pc
      /\ sinceClose = Close /\ sinceClose' = 0
      /\ UNCHANGED <<vars, seen, failed>>
    BY DEF LedgerPasses, vars, LoopInv, TypeInv, TypeOK
<1>2. Remaining' = Remaining
    BY <1>1 DEF Remaining, vars
<1>3. Remaining \in Nat /\ Remaining <= Exposure
    BY <1>1, RemainingBounds, ExposureType DEF LifeInv
<1>4. Aged = ttl - 1 /\ Aged \in Nat
    BY DEF Aged, LifeInv
<1>5. ttl * Close = Aged * Close + Close /\ Aged * Close \in Nat
    BY <1>4, LedgerTakes DEF LifeInv
<1>6. CASE pending = 0 /\ ttl' = Aged /\ pending' = 0
    <2>1. Life' = Life /\ Life = Aged * Close
        BY <1>1, <1>5, <1>6, KeepAliveAssumption DEF Life
    <2>2. Life > Remaining + ApplyLedgers * Close
        BY <1>1, <1>6 DEF LifeInv
    <2>3. Aged # 0
        BY <1>3, <2>1, <2>2, TargetFacts, KeepAliveAssumption
    <2> QED
        BY <1>1, <1>2, <1>4, <1>6, <2>1, <2>2, <2>3, KeepAliveAssumption DEF LifeInv
<1>7. CASE pending > 1 /\ ttl' = Aged /\ pending' = pending - 1
    BY <1>1, <1>4, <1>7, KeepAliveAssumption DEF LifeInv
<1>8. CASE pending > 0 /\ ttl' = Renewed /\ pending' = 0
    <2>1. Aged > 0
        BY <1>4, <1>8, KeepAliveAssumption DEF LifeInv
    <2>2. ttl' \in Nat \ {0} /\ Target <= ttl'
        BY <1>4, <1>8, <2>1, TargetFacts DEF Renewed
    <2>3. ttl' * Close > Exposure + ApplyLedgers * Close /\ ttl' * Close \in Nat
        BY <2>2, TargetSuffices, LedgerTakes
    <2>4. Life' = ttl' * Close
        BY <1>1, <2>3 DEF Life
    <2> QED
        BY <1>1, <1>2, <1>3, <1>8, <2>2, <2>3, <2>4, ExposureType, TargetFacts, KeepAliveAssumption
        DEF LifeInv
<1> QED
    BY <1>6, <1>7, <1>8 DEF LedgerPasses

LEMMA LifeStep == LifeInv /\ LoopInv /\ LoopInv' /\ [AliveNext]_aliveVars => LifeInv'
<1> SUFFICES ASSUME LifeInv, LoopInv, LoopInv', [AliveNext]_aliveVars PROVE LifeInv'
    OBVIOUS
<1>1. CASE UNCHANGED aliveVars
    BY <1>1 DEF aliveVars, vars, entryVars, LifeInv, Life, Remaining
<1> QED
    BY <1>1, BeginsLife, AroundLife, ObserveLife, SubmitLife, SucceedsLife, FailsLife,
       SecondPassesLife, LedgerPassesLife
    DEF AliveNext

LEMMA LifeInvariant == AliveSpec => []LifeInv
<1>1. AliveSpec => []LoopInv
    BY KeepAliveIsTimedLoop, CadenceInvariant, PTL DEF LoopInv
<1> QED
    BY <1>1, LifeInit, LifeStep, PTL DEF AliveSpec

(* What the daemon is for: with a horizon that is worth Exposure and the   *)
(* ledgers of one application, the watched entry never expires, whichever  *)
(* cycles fail, however long they take and whenever ledgers close.         *)
THEOREM EntryNeverExpires == AliveSpec => []NeverExpires
<1>1. LifeInv => NeverExpires
    BY DEF LifeInv, NeverExpires
<1> QED
    BY <1>1, LifeInvariant, PTL
=============================================================================
