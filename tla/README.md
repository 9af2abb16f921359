# Verification of Soroban-Rent-Keeper

TLA+ models of the rent-keeper daemon, of the restore-planner command and of the
library under both, checked with TLC on small instances, and theorems about them
proved with TLAPS for every value of the constants. Paths are relative to `src/`.

Contents: 1 the system, 2 the modules and the code, 3 the assumptions of the
models, 4 the runs, 5 the bounds, 6 fairness, 7 what is proved, 8 where code and
documents differ, 9 what is not modelled, 10 the plan.

## 1. The system

Contract data on Soroban lives on rent: each ledger entry has a last live
ledger, after which it is unusable until it is restored (persistent entries) or
gone (temporary ones). `rent-keeper` is a daemon that polls a node, finds the
watched entries close to their last ledger and submits transactions that extend
them. `restore-planner` is a command for an operator, which inspects entries and
writes unsigned plans. Both use the library `rentkeeper-core`.

| component | state it keeps | operations | correct when |
|---|---|---|---|
| run loop (`rent-keeper/src/main.rs`, `run_loop`) | ticker, signal streams, attempt count | start-up; take a tick, run a cycle, back off and retry it, count it, stop on a signal | every cycle ends; attempts are bounded; the cadence is kept without bursts; a signal stops it |
| cycle and submission (`rent-keeper/src/watcher.rs`) | locals of `run_cycle` and `submit_plan` | check the network, observe, plan, and per plan: take a number, build, simulate, sign, send, retry once on a bad sequence | a lost call does no lasting harm; success means submitted; persistent before temporary; resubmission costs a bounded number of transactions |
| sequence tracker (`rent-keeper/src/sequence.rs`) | one `Mutex<Option<i64>>` | `next_sequence`, `report_failure` | a gap or a taken number never outlives one refusal |
| metrics (`rent-keeper/src/metrics.rs`) | counters and gauges | updated by `run_loop` from the result of a cycle; rendered by the metrics server | they say what their descriptions say |
| start-up and configuration (`rent-keeper/src/config.rs`, `main`, `resolve_watch_keys`) | the validated configuration | `load_config`, `--check`, parse the payer, connect, enter the loop, resolve the rules in each cycle | what the validation lets pass never fails, panics or goes astray later; `--check` predicts a start |
| TTL arithmetic (`rentkeeper-core/src/ttl.rs`) | none | `from_days`, `ttl_ledgers`, `is_at_risk`, `extend_to_ledgers` | u64 subtraction does not wrap; the target is what the network accepts; the horizon is enough to keep an entry alive |
| planner (`rentkeeper-core/src/planner.rs`) | none | `plan_extend_split`, `plan_restore` | each live entry at risk is in exactly one plan; a restore plan holds what is dead |
| provider (`rentkeeper-core/src/provider.rs`) | an RPC client | `observe_entries`, `ttl_constants`, `get_account`, `network_passphrase`, `simulate`, `send_transaction` | one observation is of one ledger, or harmless when it is not |
| plan documents (`rentkeeper-core/src/plan.rs`) | none | serialize, deserialize, `remaining_ttl`, `footprint` | a plan read back is the plan written; an edited one stays consistent |
| transaction builder (`rentkeeper-core/src/tx.rs`) | none | `build_unsigned`, `apply_simulation`, `sign` | what is signed is what was simulated; no footprint above the limit; the fee does not wrap |
| restore planner (`restore-planner/src/`) | plan files | `inspect`, `plan-restore`, `plan-extend`, `show-plan` | a plan lists what it says, and what is sent later is that plan, whole; its promised target is reached |
| secrets, metrics server, keys, errors | none that changes | wrapping, rendering, construction | - |

**How they interact.** The daemon is one tokio task. `main` reads the TTL
constants once and enters `run_loop`, whose `select!` waits for a tick or a
signal. A tick runs `run_cycle` to its end inside the same branch: signals are
not looked at before it, its retries and its backoffs are over. `run_cycle`
calls the provider, hands what it saw to the planner and submits the plans one
after the other; the sequence tracker is shared between cycles and plans, and
each submission asks it for a number. The counters are touched when
`run_cycle` has returned. Everything else in the world goes on between any two
awaits: ledgers close, queued transactions are applied or forgotten, entries
are evicted, another client of the fee payer submits, requests that were given
up on arrive.

`restore-planner` is one command per process, and the operator's next one may be
run days later. What joins them is a plan file: `plan-restore` and `plan-extend`
write it, an editor may change it, `show-plan` and a signing step read it. Between
any two of these, ledgers close and the daemon or anybody else extends.

**What is hard here.** The sequence cache is taken from before the call that
may fail, and refreshed from a number that lags behind the queue. A call that
timed out may have been carried out, so a retry is a repetition. The ledger moves
between the chunks of one observation, and between observation and submission.
Two plans of a cycle may fare differently, and the loop reports one result. Retry
decisions hang on the kind of an error that several causes share. Ticks are
missed while a cycle runs, and signals wait. The horizon has to cover failed
cycles, slow ones and the ledgers until a transaction is applied, and nothing in
the configuration relates it to the poll interval. The watch rules are parsed
twice, by a validation and by a resolution that trusts it. A plan is made of one
state of the ledger and applied to another; its file can be half written, or
edited by hand. `PROJECT.json` lists each hazard at
its line with the properties that watch it.

## 2. The modules and the code

```
                         Ledger (external)
                        /                 \
Ttl  SequenceTracker  SorobanNode (ext.)   \     PlanDocument (uses Ttl)
  \        |         /                      \        |
   \       |        /                        \    TxBuilder
      RentKeeper ---- refines ---> RunLoop     \    /
       /   |                          ^     RestorePlanner
      /  MCRentKeeper              refines        |
     /                                |     MCRestorePlanner
KeeperMetrics                     TimedLoop
                                      |
                       Ttl ------- KeepAlive       StartUp (uses Ttl)

theorems:  RentKeeper_proofs --> Submission_proofs --> KeeperMetrics_proofs
           NatRecursion --> TimedLoop_proofs --> KeepAlive_proofs
                      \---> RestorePlanner_proofs              StartUp_proofs
```

`Ttl` holds pure operators: `FromSeconds` (`from_days`: rounded up to ledgers of
five seconds and clamped at both ends), `TtlLedgers` (wrapping u64 subtraction of widened
u32 values), `IsAtRisk`, `ExtendToLedgers`, `Observation` (what
`observe_chunk` makes of one row, or of none) and `Group` (the durability class
a key is planned in; contract code goes with the persistent entries).

`SequenceTracker` is the cache, `cached`, with `NextSequence` and
`ReportFailure`. The mutex guards one caller, so the two are fragments of that
caller's steps and not actions.

`Ledger` is what both programs look at, marked external: ledgers close, entries
expire and are evicted, `Bumped` is what an extension does to them.
`SorobanNode` adds the daemon's node, external as well: `ApplyNext` applies
the queued transaction with the next number (or fails it, which uses its number
only), `DropQueued`, `ForeignSubmit`, and `ArriveLate` for a request
whose caller has gone. `sendTransaction` is the predicates `Accepts`,
`IsDuplicate` and `BadSeq`.

`RentKeeper` composes the three with the daemon. A step of the keeper is what
happens from one await to the next:

| action | code |
|---|---|
| `Start` | `main`: the TTL constants of the node, or the built-in ones |
| `Tick`, `Shutdown`, `Deliver` | the branches of `select!` in `run_loop`; a signal arriving |
| `CheckNetwork` | the passphrase check at the head of `run_cycle` |
| `ObserveChunk` | one request of `observe_entries`; the first fixes `observed_ledger` |
| `MakePlans` | filtering, `plan_extend_split`, the empty-plan return |
| `TakeSequence` | `next_sequence` and `build_unsigned` (which may refuse the footprint) |
| `Simulate` | `simulate`, `apply_simulation` |
| `Send` | `send_transaction`: queued, known already, refused, or without an answer |
| `Retry` | the end of a backoff |
| `Crash` | the process dies at any await, and all its memory with it |

`SubmitFails` is the retry on a bad sequence in `submit_plan`, with its detail
that a second failure returns the *first* error; `CycleFails` is the error
branch of the loop, `CycleOk` the other one. Only the `history` variables are
not state of the program: properties and bounds read them and no guard of the
daemon does, apart from those that bound the run.

`RunLoop` is what the loop promises with the cycle left abstract: a cycle ends
well or fails, at most `RETRY_ATTEMPTS` times. `RentKeeper` implements it
with the cycle filled in (`LoopPc` maps every place inside `run_cycle` to
`"cycle"`) and `TimedLoop` with the clock filled in: `MissedTickBehavior::Delay`,
the exponential backoff and cycles that take time. The two concerns meet in
`RunLoop` and need not be multiplied.

`KeeperMetrics` extends `RentKeeper` with the counters, and beside them
`accepted`, the submissions that the node has accepted from this process.

`KeepAlive` puts the timed loop beside one watched entry. Ledger numbers grow
without end, so the entry's remaining TTL is kept instead and the run needs no
bound on time: a ledger closes at most every `Close` seconds and takes one from
the TTL.

| action | code |
|---|---|
| `Begins` | a tick or a retry: `run_cycle` starts, knowing nothing of the attempt before |
| `Observe` | `observe_entries` and `plan_extend_split`: at risk, or left alone |
| `Submit` | `submit_plan`: the extension is queued |
| `Succeeds`, `Fails` | the two branches of the loop; a failure may come after the submission too |
| `Around`, `SecondPasses`, `LedgerPasses` | start, signals; time; a ledger, which may apply the extension |

`StartUp` goes from the command line to the first observation. Texts are
represented by what the parsers make of them (a secret with a trailing newline,
a hash of 65 digits), so that two parsers of one text can disagree.

| action | code |
|---|---|
| `Launch` | `main` with or without `--check` |
| `Load` | `load_config`: file, `ValidConfig`, the three sources of the secret |
| `CheckPasses` | the early return of `--check` |
| `ParsePayer`, `Connect` | the secret becomes a key, the URL a client |
| `EnterLoop` | the interval and the signal handlers of `run_loop` |
| `ResolveWatchKeys` | the head of `run_cycle`: the rules read again |

`PlanDocument` has the plans and what serialization keeps of them; `TxBuilder` what
the builder refuses, the envelope it makes, the arithmetic of the fee, and what
a signature covers. `RestorePlanner` composes them with `Ledger`:

| action | code |
|---|---|
| `Run` | a command is started and its arguments parsed |
| `ObserveChunk` | one request of `observe_entries` |
| `Plan` | the arm of the subcommand: `RestorePlan`, `ExtendPlan`, or an error |
| `Emit`, `Write` | `emit_plan`: `fs::write` empties the file, then fills it |
| `Read`, `Show` | `read_plan` and `from_str`; `show-plan` |
| `Build`, `Simulate`, `Send` | the signing step the plan is fed to, made of the library's `build_unsigned`, `simulate`, `apply_simulation` and `sign` |
| `Kill` | an interrupt at any await, or between the emptying and the filling of the file |
| `Edit` | the operator changes one field of the first entry (a `current_ledger` past its last ledger included), or removes the entries |
| `NetworkStep` | a ledger closes, an entry is evicted, somebody extends |

The modules `MC...` give TLC its keys and durabilities; the `..._proofs`
modules hold theorems. Operators marked *A mistake* are wrong versions of the
definition that follows them, each a bug one could have written there; no
specification uses them, and each property of a passing run is seen to fail
when one of them takes its neighbour's place (`mutants` in `PROJECT.json`).

## 3. Assumptions of the models

- In `RentKeeper`, `resolve_watch_keys` does not fail: that a validated
  configuration guarantees this is `LoopPreconditions` of `StartUp`. The watched
  keys are distinct (two rules may name one key; the code does not compare them,
  and the node answers for both).
- The node queues a transaction if it carries the next free number of the
  account, knows it if the same envelope is queued, and refuses it as a bad
  sequence otherwise. The numbers `netSeq+1 .. queued` are taken, one each.
- Ledger numbers seen by one client do not go back.
- Ed25519 signatures are deterministic, so an envelope with the same number,
  footprint and target is the same transaction. `Tx` therefore names a
  transaction by these.
- `is_bad_seq_error` matches the words the node uses: `BadSeqRecognised` is
  TRUE in the runs and a parameter of the proofs. They hold for either value,
  except for `OneFaultIsRecovered`, which is false without it.
- The build is a release build: u64 subtraction wraps. (`PlanTtlSound` shows
  that it does not have to.)
- A late request acts on the account as a foreign submission does. It is
  counted in `trouble` like one, and so is what earlier cycles left in the queue
  (`"pending"`).

- `KeepAlive`: a ledger takes at least `Close` seconds, a queued transaction is
  applied within `ApplyLedgers` ledgers, no more than `MaxFailed` cycles in a row
  fail, the daemon runs, the entry starts above the target, and the network's
  maximum fits in a u32, as the code has it. The named
  assumption on the times is
  `Target * Close > Exposure + ApplyLedgers * Close`, where
  `Exposure = (MaxFailed + 1) * Cadence + WorstCycle`: from the observation that
  just left the entry alone to the submission of the next cycle that does not
  fail. Nothing in the repository checks it; an operator has to.
- `StartUp`: one rule is one key; the TOML syntax is one flag (`readable`);
  `Metrics::new` does not fail. The TTL constants, read between `Connect` and
  `EnterLoop`, are `Start` of `RentKeeper`.
- `RestorePlanner`: half a JSON document does not parse. The network passphrase
  is left out of plans; it is copied and never compared. A simulation's
  resources are adopted as sent, so only the fee and the order of simulation
  and signature are kept. The repository has no signing command; the one
  modelled composes the library's functions in the order `apply_simulation`
  asks for. The network clamps an extension of persistent entries, fails one
  of a temporary entry above the maximum, and a restoration gives back the
  persistent entries that are dead with the least TTL of their kind. Ledger
  numbers are u32 (`LedgersFit`): the ledgers of the run and the maximum TTL past
  the last of them stay within `U32Max`.

`Troubles` selects the mishaps a run has (`"mismatch"`: a node of another
network; `"rejected"`: a refusal for another reason than the number;
`"dropped"`: queued transactions forgotten; `"late"`: lost requests that
arrive after all). A refused connection, a timeout and a lost answer are always
there, up to `MaxFaults` per cycle.

## 4. The runs

| run | states | what it asks |
|---|---|---|
| `Cycles` | 7 224 000 | Two cycles with a crash, refusals, a lost call in each, a foreign submitter and a signal. `TypeOK`. `SingleFaultRecovered`: whatever state the cache is in when a cycle begins (a gap, a taken number, or nothing), that cycle succeeds if it meets at most one lost call and nothing else; a cycle that begins with own transactions still queued, as after a restart, is excused. `SubmissionsBacked`: no submission is counted, as submitted or as accepted, that the node did not accept. `ImplementsRunLoop` for the daemon. |
| `Retries` | 1 471 000 | A cycle of two attempts with as many lost calls, lost answers and late requests, queued transactions dropped, refusals, a wrong network, a crash and a signal; three keys of all durabilities, read in two requests with ledgers closing between them, a fallback maximum above the network's, a class larger than a footprint. `FeeExposure`: at most `RETRY_ATTEMPTS` transactions out for an entry. `PlanTtlSound`: no restated TTL wraps. `PersistentFirst`, `SuccessMeansSubmitted`: the order of the classes and the honesty of `Ok`, across retries that start again from a new observation. `CycleTerminates`: under fairness the cycle ends, whatever keeps failing. `FeeInv` is the inductive invariant of the proof. |
| `TimedLoop` | 380 | `CadenceKept`, `NoBurst`, `ShutdownHonoured`, `ImplementsRunLoop` with fairness, for a poll interval *shorter* than the worst cycle: ticks are missed, and a tick competes with every signal. |
| `KeepAlive` | 22 000 | `NeverExpires`: with two failed cycles in a row, whatever time the attempts and ledgers take, the entry is extended before it expires. This is the run of the whole purpose of the daemon, with the least horizon that the assumption on the times admits. |
| `StartUp` | 5 000 | `LoopPreconditions`: what the validation lets pass never fails a cycle, panics, or names other entries than the rules do. `CheckPredicts`: after a good `--check`, only the secret or the URL can refuse a start. |
| `Planner` | 3 964 000 | `ReadBack`: an interrupted or failed write never leaves a plan that can be read and is not the one meant. `DurabilityOfKey`: the durability of an entry is that of its key, in edited plans too. `ShownRowsSound`: the rows of an unedited plan, read at different ledgers, fit its reference and the network, so that no TTL of theirs wraps. `FeeSound`: fees beyond a u32, and signatures that cover what is sent. `SentAsMade`: what is sent of an unedited file is the whole plan last made, under the operation of all its entries. |

The six other runs each find one statement of a document or comment violated;
see section 8.

The loop stops for good on a signal, commands and start-ups come to an end and
the bounds stop the rest, so deadlock is not an error in these runs; `CycleTerminates` and `ShutdownHonoured` say what
must not get stuck.

## 5. The bounds, and why they are enough

- **Keys**: one persistent and one temporary entry, and contract code in
  `Retries` and `Oversize`. Keys of a class meet the same guards; the classes
  and the chunks are what tells them apart, and there is one of each.
- **`MaxCycles`** 1 or 2: what one cycle hands to the next is the cache, the
  queue and the entries. Two cycles make every such legacy and use it;
  `SingleFaultRecovered`, a property of what is inherited, has two.
- **`RETRY_ATTEMPTS`** is the code's 3 in `Cycles`, where `SingleFaultRecovered`
  needs all of them, and 2 in `Retries`: its properties relate an attempt to the
  one before it and to the last one, which two attempts have, and each of its
  safety properties is proved for every number. In exchange the run has all the
  mishaps at once. `CycleTerminates` alone is checked for this number only.
- **`MaxFaults`** per cycle: 2 in `Retries`, one for each attempt, so that a
  cycle can fail for good; 1 in `Cycles`, where the property is about one.
- **`MaxForeign`** 1, **`MaxCrashes`** 1: the second of either meets the same
  cache contents as the first.
- **`MaxHeight`** 1 or 2, with last ledgers around the horizon: an entry passes
  from safe to at risk to expired to evicted.
- **`U32Max`, `U64`** are small stand-ins far above all ledgers of a run; a
  negative difference still wraps to a huge value, which is what `PlanTtlSound`
  looks for. `MaxFootprint` is 1 where the limit is to be met, instead of 100.
- **`TimedLoop`**: `RETRY_ATTEMPTS` and the base delay are those of the code;
  the poll interval of 4 s and the cycle of at most 2 s make the worst cycle
  9 s, over two intervals long.
- **`KeepAlive`** has no bound on time or cycles. Two attempts a cycle, a poll
  interval of 5 s, cycles of up to 1 s, ledgers of at least 3 s, two ledgers to
  apply, two failed cycles in a row: the assumption then asks for a horizon of 9.
  The bound is exact there: with 8 the assumption is false, and without it TLC
  finds the entry expired. For `Close` 2, `Poll` 4, `ApplyLedgers` 1, `MaxFailed`
  1 the two horizons are 7 and 6.
- **`StartUp`**: every secret in each of its three places, every rule alone and
  beside a good one, every other field on its own. The checks look at one rule
  and one field at a time, apart from the sources of the secret, which are
  combined. Hashes have 0, 63, 64, 65 and 66 digits: either side of the
  lengths that are right, odd, and out of bounds.
- **`Planner`**: two persistent entries, a temporary one and a persistent key no
  entry exists for. A request has keys of one durability, as `--durability` is
  one option for all of them: two entries, the temporary one alone, and one key
  twice with the missing one. Requests of one key per chunk; a footprint of two,
  so that three keys are too many; a built-in
  maximum (5) above the network's (3); resource fees of 0, just below, and beyond
  the largest u32. Two commands, since a file is what one leaves for the next;
  two ledgers, enough to expire and to be evicted.

The theorems of section 7 have none of these bounds but those in the guards
(`MaxHeight`, `MaxCycles`, ...), and hold for every value of them that the named
assumptions admit.

## 6. Fairness

- `WF(KeeperStep)` in `RentKeeper`: a call returns or times out and the task goes on. The RPC
  client has a timeout, and a backoff is a sleep.
- `SF(Shutdown)` in `TimedLoop`: `select!` without `biased` polls its branches in random
  order, so a signal branch that is ready over and over is taken. Weak fairness
  would not do: the branch is not ready while a cycle runs.
- `TimedLoop` also has `WF(Second)`: time passes.
- No fairness is assumed of the node, of signals being sent, or of the process
  being started. `Tick` needs none: the properties are about cycles that
  have begun.

## 7. What is proved

All proofs are checked to the last leaf, for every value of the constants that
the named `ASSUME`s admit.

**`RentKeeper_proofs`**

- `TypeCorrect`: `Spec => []TypeOK`. `TypeOK` bounds the attempts and is not
  inductive: a failure adds one, so `AttemptsLeft` (attempts are left while a
  cycle is running) goes with it.
- `FeeInvariant`, `FeesBounded`: `Spec => []FeeExposure`. "At most three" says
  nothing about the step that makes the third; `FeeInv` ties the count to the
  place the daemon is at. An attempt puts a transaction out for an entry only
  by sending the plan of its class, and either that plan leaves `todo` or the
  attempt ends; hence at most `attempt` before it is sent and `attempt + 1`
  after (`Allowance`).
- `PlanTtlsSound`: `Spec => []PlanTtlSound`. Plans are restated against the
  first chunk's ledger, and the argument is that later chunks are read at later
  ledgers, where an entry found live has a last ledger beyond all earlier
  ones. `ObservationInv` adds that nothing observed outlives its cycle.
- `KeeperImplementsRunLoop`: `Spec => Loop!Spec`, by a case for each way a step
  of the cycle can end.

**`Submission_proofs`**

- `PersistentComesFirst` and `SuccessIsHonest` (an action property), from
  `SubmissionInv`: numbers in the queue lie between the committed one and the
  last taken; what is queued of this cycle is in `served`; a plan leaves `todo`
  only when its entries are in `served`. The second is what makes "known
  already" as good as "queued": a duplicate is in the queue, and the queue held
  nothing when the cycle began unless `"pending"` says so.
- `OneFaultIsRecovered`: `Spec => []SingleFaultRecovered`, for
  `RETRY_ATTEMPTS >= 3` and `BadSeqRecognised`. Both are needed: with two attempts,
  and with a rejection in words that the daemon does not know, TLC finds a cycle
  that fails after one lost call. The code makes three attempts, no more than
  are necessary. `RecoveryInv` says how the number in hand, or the next one to be
  taken, stands to the node's queue in a cycle that has met at most one lost
  call: *unused* (nothing is queued; the cache, whatever it holds, has not been
  tried), *aligned* (it is the number the node expects), *ahead* by one (its
  transaction never arrived), or *refreshed* (a bad sequence has dropped the
  cache, and the committed number plus one may be one behind the queue). An unused
  cache costs a bad sequence and no attempt; being ahead costs the attempt that
  made it so and, when the refreshed number is taken, one more; the third is
  aligned. That a refreshed number is at most one behind is where the two plans
  of a cycle come in (`PlansCounted`): what this cycle can have queued, beside the
  transaction in hand, is the persistent plan.

**`KeeperMetrics_proofs`**

- `CountedWasAccepted`: `MetricsSpec => []SubmissionsBacked`, from `CountersInv`.
  The counters move when `run_cycle` has returned and what they claim has happened
  long before, so the invariant holds the difference: counted submissions and
  those of the run of `run_cycle` under way are together at most the accepted
  ones, and a cycle under way is begun and not yet counted. `KeeperStepFate` sorts the
  steps of a cycle into the four things they can be to a counter. The theorem says
  nothing of `extends_rejected` as a count of rejections: it is none
  (`MetricsRejected`, section 8).

**`NatRecursion`** holds lemmas only: `RecursionOnNat`, a recursion on the
naturals has a solution. The library's
induction theorem has an operator for a parameter, which none of the provers
instantiates; a *set* of naturals can be given to one instead (`Inductive`), and
induction on sets is enough to build the solution out of its finite starts.
`Shifted` (`1 << n`) and `DeadAmong` (the rows a restore plan keeps) are functions
and not operators so that this lemma unfolds them.

**`TimedLoop_proofs`**

- `BurstFree`: `Spec => NoBurst`, from `sinceTick + ticker >= Poll`.
- `TimedLoopRefinesRunLoop`: `Spec => Loop!Spec`.
- `TimesTyped`: `Spec => []TypeOK`; a backoff is a number because `Shifted` is.
- `CadenceHolds`: `Spec => []CadenceKept`, for every poll interval, length of
  cycles, base delay and number of attempts. `CadenceInv` bounds the time since the
  tick at each place of the loop: `Spent(n)`, the n cycles failed so far and the
  backoffs after them, grows by one cycle and one backoff with each failure
  because `Shifted` doubles, and is at most `WorstCycle` when the attempts are used
  up.

**`KeepAlive_proofs`**

- `EntryNeverExpires`: `AliveSpec => []NeverExpires`, from the assumption on the
  times of section 3. `Life` is the seconds the entry lives for if its ledgers
  close as fast as they can, `Remaining` the seconds until the submission that
  must succeed, as a function of where the loop is and how many cycles have failed
  in a row. `LifeInv` says that a queued extension will be applied in time and that,
  while none is queued, `Life` exceeds `Remaining` and the ledgers to apply. A
  second takes one from both; an observation may leave the entry alone only when
  `Life` exceeds the whole `Exposure`; a failed cycle passes its turn to the next.

**`RestorePlanner_proofs`**, from `PlannerInv`, for every set of keys, requests and
fees, any number of commands, interrupts and edits

- `PlanReadBack`: `Spec => []ReadBack`. The file is torn, or edited, or holds
  `Serialize(made)` (`FileInv`), and deserializing what was serialized gives back
  every field (`ReadsAsWritten`).
- `DurabilityKept`: `Spec => []DurabilityOfKey`, after any edit: deserialization
  derives the durability from the key (`DeserializeType`).
- `ShownRowsAreSound`: `Spec => []ShownRowsSound`. Rows come from different ledgers
  and each keeps its own: they were observed in order (`InOrder`), live ones before
  their last ledger (`Seen`), and a restore plan has no last ledgers (`DeadRows`);
  none is of a ledger to come (`ClosedInv`). It is about files nobody has edited:
  `from_str` takes any `current_ledger`, and the TTL of a row put past its last
  ledger wraps.
- `FeeIsSound`: `Spec => []FeeSound`: `EnvelopeInv` says that what is sent is the
  signature of the simulated build of the plan, in that order, and the total of a
  simulation is clamped and not wrapped.
- `SentIsMade`: `Spec => []SentAsMade`, from `EnvelopeInv`, `FileInv` and `Sound`: the
  commands make plans of one kind, so the kind of the first entry, which becomes the
  operation, is that of all, and what is read of an unedited file is what was made.

**`StartUp_proofs`**, for every set of configurations, hash lengths and rules

- `LoopIsSafe`: `Spec => []LoopPreconditions`. The parsers agree on the rules
  that the validation accepts (`ValidResolves`), and rounding up leaves a positive
  window positive (`PositiveWindow`).
- `CheckIsHonest`: `Spec => []CheckPredicts`. Both follow from `StartInv`: beyond
  `Load` the configuration is valid.

**Only model-checked.** Every safety invariant and action property of the passing
runs is a theorem. What is under fairness is not: `CycleTerminates`,
`ShutdownHonoured` and the fairness part of `TimedLoop`'s refinement stay with TLC,
since the prover handles neither liveness under fairness nor ENABLED.

## 8. Where code and documents differ

Each is a run that finds the quoted statement violated; `findings` in
`PROJECT.json` has the quotations.

| run | the document | the code |
|---|---|---|
| `ForeignStall` | a foreign submission does not stall protection for a poll interval (`sequence.rs:4`) | when it is queued between the two plans of a cycle, the second plan's number is refused; the refresh reads the committed number and hands out the one of the daemon's own queued plan, refused too; each retry then begins with the foreign transaction's number and refreshes to a taken one. (Queued before the first plan it is survived: the refused number stays in the cache, and the second attempt takes the next.) |
| `Oversize` | every entry at risk gets extended (`README.md:77`) | a class of more than 100 entries is one plan, which is refused in every cycle |
| `MetricsAccepted` | submissions accepted (`metrics.rs:17`) | successful cycles that submitted something |
| `MetricsRejected` | submissions rejected (`metrics.rs:19`) | cycles that ended with an `Rpc` error of any origin (`main.rs:197`): a node of the wrong network counts, to which nothing was submitted |
| `RestoreTarget` | "target TTL in days after restore" (`cli.rs:90`), "restored entries are immediately extended" (`planner.rs:134`) | the restore operation carries no target (`tx.rs:96`), the follow-up extend plan that `planner.rs:137` speaks of is written by no command, and the entries come back with the network's minimum |
| `MixedRequest` | `plan-restore` validates that the entries are archived (`README.md:97`), and refuses otherwise (`restore-planner/src/main.rs:114`) | live entries of the request are passed over without a word, and the plan is written; only a request without a dead entry is refused (`main.rs:118`) |

More were seen while modelling. They are direct consequences of one definition,
so that no run is spent on them.

- *Retries*: "only transport failures" are retried (`main.rs:217`), but a wrong
  network is an `Rpc` error like them (`watcher.rs:168`) and is retried.
- *Chunks* of one observation at different ledgers are to be rejected
  (`provider.rs:115`); they are not compared (`provider.rs:126`). `PlanTtlSound`
  and `ShownRowsSound` show that this does no harm.
- *Counters*: `extends_submitted`, "transactions that
  were signed and submitted" (`metrics.rs:15`), leaves out those of failed
  cycles (`main.rs:179`); `entries_at_risk`, "in the last cycle" (`metrics.rs:13`),
  keeps its value through failed ones (`main.rs:176`).
- *The target* of an extension is the alert line (`ttl.rs:172`), with none of the
  headroom above it that `ttl.rs:129` speaks of: an entry is at risk again in the
  ledger in which it was extended.
- *The maximum* that plans are clamped to is the built-in one of the public network
  (`cli.rs:209-218`), not the network's (`README.md:152-153`). `Planner` runs
  with the built-in one larger: persistent entries are clamped again when the
  transaction is applied, temporary ones make it fail.
- *An edited plan* stays "self-consistent" (`plan.rs:174`) in its durabilities, and
  only there: a `current_ledger` past `live_until_ledger_seq` makes `show-plan` print
  a TTL that has wrapped (`ttl.rs:64`; a debug build panics).
- *A plan edited to mix kinds* becomes one transaction of its first entry's kind
  (`tx.rs:89`), for all entries.
- *Duplicates* in a request or among the watch rules are kept throughout.
- *`--check`* accepts a secret that merely begins with an `S`, and a malformed URL:
  it returns before either is used (`main.rs:62`). Secrets of the environment and of
  a file are trimmed, one in the configuration is not (`config.rs:111-119`), so the
  same text may pass in one place and refuse the start in another.
- *The network* a plan names is never compared with the node's.

## 9. What is not modelled

- The metrics server: an accept loop that renders the registry and changes no state
  of the daemon. Secrets (a wrapper that keeps a string out of logs), ledger keys
  and error types: pure construction and rendering.
- XDR, JSON and TOML syntax, cryptography, log lines and printed tables: what they
  contribute is which transactions are equal, which steps can fail, and which
  fields a document keeps.
- A network setting that changes while the daemon runs: its effect is that of the
  fallback constants, which `Retries` has.
- `min_ttl`, `seconds_of_headroom`, `plan_extend` and `classify_ttl_entry` have no
  caller outside tests.
- A node whose error texts are not the ones `is_bad_seq_error` knows: outside the
  repository. `BadSeqRecognised` is the parameter for it.

## 10. The plan

Done, in this order: `Ttl`, `SequenceTracker`, `SorobanNode`, `RentKeeper`;
`RunLoop`, `TimedLoop`; `KeeperMetrics`; the proofs about them; `StartUp` and its
proofs; `Ledger`, split off `SorobanNode`; `PlanDocument`, `TxBuilder`,
`RestorePlanner`; `KeepAlive`.

Then the proofs of the rest: `NatRecursion`, `TimedLoop`, `KeepAlive`,
`RestorePlanner`, `KeeperMetrics`, and the recovery of `RentKeeper` from a lost call.

Next:

1. How much recovery costs, beyond one fault: a bound on the failures of the cycles
   after a gap in the cache, as a lemma over `RecoveryInv`'s four relations.
2. An abstract specification of the plan file alone (torn, or the plan last made, or
   edited) that `RestorePlanner` implements, of which `ReadBack` is a consequence.
3. The exactness of `KeepAlive`'s assumption as a run of its own: with one ledger
   less the entry expires.
