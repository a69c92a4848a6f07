# Specifications of QubitOS

QubitOS runs pulses on quantum backends. It has two programs: the HAL (`hal/`, Rust), a server
that owns the backends and answers gRPC and REST requests, and the core (`core/`, Python), a
library that schedules pulses, calibrates devices, records how experiments were made and
talks to the HAL. `proto/` defines the messages between them. The HAL's solvers (optimal
control, integrators, feedback) are also a Python extension module that the core imports.

This directory holds TLA+ modules of the parts that keep state, run concurrently or whose
algorithms are easy to get wrong, the TLC configurations that check them, and proofs that TLAPS
checks. `PROJECT.json` relates every definition to the lines it models, every property to a
hazard and to a mutant that breaks it.

Paths below are relative to the repository; `registry.rs` is `hal/src/backend/registry.rs`,
`grpc.rs` and `rest.rs` are in `hal/src/server/`.

    tlc -workers 2 -config MCPulseService.cfg MCPulseService     # a run
    tlapm RegistryProofs.tla                                     # proofs

## The system

| Part | State | Operations | Talks to | Hard about it |
|---|---|---|---|---|
| Backend registry (`registry.rs`) | map of backends, name of the default, one RwLock each | register, unregister, set_default, get, get_default, lists | called by every handler thread | two locks, taken in two orders |
| Request handlers (`grpc.rs`, `rest.rs`, `hal/src/validation/mod.rs`) | a call's locals across awaits | execute_pulse, execute_pulse_batch, get_hardware_info, health; REST counterparts | registry, backends | what was looked up before an await is used after it; one member of a batch fails |
| Start-up and configuration (`main.rs`, `config.rs`) | Config, the registry it fills | load, override, validate, initialize_backends, five commands | registry, server | order of the sources; what the exit status tells |
| Server life cycle (`server/mod.rs`) | two serve futures, watch channel, signal task | bind, serve, drain, select!, drop | handlers, tokio runtime | ends at different times, requests still running |
| QuTiP backend (`backend/qutip`) | blocking Python thread, cached availability | execute_pulse with timeout | Python | a thread nobody can stop |
| Cloud backends (`backend/iqm`, `ibm`, `braket`, `error.rs`) | a job at a service | compile, submit, retry, poll, answer | HTTP service | lost replies, retries of what was done, late service, what an error tells the client |
| HAL temporal rules (`hal/src/temporal`) | sequence, budget | append, add_constraint, validate | called by execute_pulse | rounding, and two rules for each constraint |
| HAL solvers (`grape`, `lindblad`, `sme`, `feedback`) | the state of one call | optimise, integrate, correct | Python bindings | retries of steps, NaN, indices and signs that still converge |
| Scheduler (`core/.../temporal`) | sequence, decoherence budget over all calls | schedule_asap, append, add_constraint | called by users | partial failure, rounding to the clock, search order |
| Calibration loop (`calibrator/active.py` ...) | baseline, history, cooldown | run_once, run | device, runner | device changes meanwhile, failure, cancellation |
| Calibration data (`calibrator/loader.py` ...) | cache of files | load, save, clear_cache | files | cache beside file |
| Provenance (`provenance/`) | dictionary of trees, one JSON file | build, diff, store, get | file shared by processes | crash in a write, two processes |
| Clients (`client/`) | channel, stub, flag | connect, calls, close | HAL | close during a call |
| Feedback (`feedback/`) | delay buffer, budget, step size | solve_with_feedback | sme, budget | delay, abort in the middle |
| Pulse generation, error budget, sme, lindblad, compilation, benchmarking (core) | a ledger at most | numerics | - | floating point |
| Command line, validation helpers, generated code | none | - | all | - |

What makes each correct, in a sentence:

* registry: callers see each method take effect at once, and never a default that is not registered;
* handlers: a pulse runs once, on the backend it was validated for, and its answer says so;
* start-up: every setting comes from the source that should win, and success means what was asked;
* life cycle: the process stops only for a cause, and a request ends whatever happens to its server;
* cloud backends: an answer is about the call's own job, nothing is submitted after a settling
  reply, and the client can tell whether its pulse may have run;
* HAL sequences: what was accepted stays true, and the server's rules do not contradict the builder's;
* solvers: a result is the best that was seen, and no step loses probability, time or a trajectory;
* scheduler: a schedule that is returned keeps constraints, clock and coherence time;
* calibration: no drift is passed over;
* provenance: what was stored last is there after a restart, and a difference names what differs.

## The modules

**`BackendRegistry`, `RegistryLocks`, `RegistryProofs`.** `BackendRegistry` is what the
registry promises: a map and a default that change in one step per method. `RegistryLocks` is
the code: each thread has the call it is in, and every acquisition of a lock and every access
under it is a step. A writer that waits blocks new readers out (parking_lot's writer bit,
modelled as an external library). `VisibleBackends` maps it to `BackendRegistry`: a change is
visible when the thread that made it gives back the lock of the map.

**`PulseService`, `PulseServiceProofs`.** One action per stretch of a handler between two awaits. `Tasks` run
handlers; the registry under them is the abstract one, and any of its methods can run during
every await. A pulse is reduced to what validation and routing look at: the backend it
names, whether it is well formed, its target and measurement qubits. A backend object is
reduced to the number of its qubits; its answers are any. `Survey` and `ProbeReturns` are the
health of all backends (gRPC) and `/health` (REST), which list the names and then await each.

**`ServerLifecycle`.** The two serve futures (binding, serving,
draining, ended, failed, dropped), `run_servers` with its `select!`, the signal task and the watch
channel, and the requests with the Python thread each may have. `RuntimeDropped` is the end of
main: what still runs is cancelled at its next await, and the process exits when the blocking
threads have returned.

**`HalConfig`, `HalProcess`, `HalProcessProofs`.** The process around those servers. `HalConfig` has the
four sources of a setting as functions on the settings they name, and what is laid `Over` what.
`HalProcess` is `main`: an invocation (command, files, environment, options) is loaded,
dispatched, validated; the backends are constructed and registered, or not; then the servers of
`ServerLifecycle` run until the process ends, or health is asked backend by backend, or the
command prints and ends. It EXTENDS `ServerLifecycle`, whose `Next` is a step of stage "serving".

**`RemoteJobs`, `HalErrors`, `PulseCircuits`, `CloudBackends`, `CloudBackendsProofs`.** `RemoteJobs` is the life of
a job: one `execute_pulse` on one of the three cloud backends, with the service on the other
side. It may accept a POST after the client has given it up, its reply may be lost, wrong or a
gateway's, its job may be ready, fail or never end. Calls share nothing, so one is enough; time
is the number of polls that fit into the timeout. `PulseCircuits` is what a pulse is compiled
to: the angle of `compiler.rs`, the gates of each provider, and how gates turn a qubit, in
quarter turns. `HalErrors` is `error.rs`: which error becomes which status. `CloudBackends`
composes them into the whole call, from the handler (gRPC or REST) to the status its client reads,
with the counts the device returned and a caller who may go away.

**`HalSequence`, `HalSequenceProofs`.** A sequence being built (`append`, `add_constraint`) on either clock,
with and without a decoherence budget, validated by `validate_pulse_sequence`, and checked a
second time as a request by `validate_temporal_constraints`. Requests no builder made are
served too.

**`PulseSequence`, `PulseScheduler`.** `PulseSequence` has the rules of the core's types.py,
constraints.py, budget.py and `append` as operators: rounding to the clock, the AWG's limits,
the constraints with jitter, the budget. `PulseScheduler` runs `schedule_asap`, one action per
iteration of each loop, for sessions of several calls on one scheduler. A unit of time is
1/`Ns` of a nanosecond, so that clock periods and tolerances of a fraction of a nanosecond
are integers.

**`ComplexMatrices`, `MatrixExp`, `Grape`, `OpenGrape`, `Lindblad`, `MeasuredStep`, `StochasticMaster`,
`LyapunovFeedback`, `Solvers`, `FoldLemmas`, `SolversProofs`.** The solvers, each with its control (iterations, early ends, length
checks, retries) and its algebra. Floating-point numbers are replaced by two things. What
follows from algebra is computed exactly, in the field of complex numbers over the integers modulo
a prime that is 3 modulo 4 (`ComplexMatrices`): an identity between matrices that holds over
the reals holds there, and a wrong index, sign or factor breaks it there too. What depends on the
size of a number (a norm, a step's error, an eigenvalue's sign, a NaN) is a level, a table or an
outcome of the step. `MatrixExp` is the Pade approximant with its elimination and squarings;
`Grape` and `OpenGrape` the ascents with their chains and difference quotients; `Lindblad` the Runge-Kutta
integrator with its collapse operators; `MeasuredStep` one measured step and
`StochasticMaster` the step control and the ensemble around it; `LyapunovFeedback` the
correction from the state. `Solvers` puts them together as the extension module does, one call
at a time. `FoldLemmas` has no part of the code in it: it says what the proofs need of recursive functions and folds.

**`DriftRules`, `CalibrationLoop`.** `DriftRules` compares two fingerprints as
fingerprint.py and drift.py do, entry by entry in the order of the lists, in integers (a tenth of a MHz,
microseconds, 1/10000). `CalibrationLoop` is `run_once`: cooldown, measurement,
decision, and the recalibration qubit by qubit, during which the device may drift, the runner
fail or the task be cancelled.

**`ProvenanceTree`, `ProvenanceStore`, `ProvenanceDiff`, `CoreProofs`.** The tree of an experiment and its hash (a
hash is what it is computed from; sorting the children's hashes makes them a bag) are operators, and
so is the difference of two trees: `ChangedWith` is the comparison at one node, and a tree that was built
has four levels of them. `ProvenanceStore` has several processes, each with its ordered dictionary, one
file that opening for writing empties, ends of a process at any moment, and a tree that
is not JSON. `CoreProofs` has the proofs about the scheduler, the loop and the store.

The `MC` modules give the constants their values. They and the `.cfg` files replace no definition.

## The runs

The runs' properties are those a bug could break. The type invariants (`TypeOK`) are not among
them: they are proved (the theorems `TypeCorrect`, `CalibrationTypeCorrect`, `StoreTypeCorrect`) for `RegistryLocks`, `PulseService`,
`ServerLifecycle`, `RemoteJobs`, `HalSequence`, `CalibrationLoop` and `ProvenanceStore`. That of `PulseScheduler` is proved in parts (`CallInv`,
`SortInv`), without its start times, which folds compute, and passes when added to the INVARIANTS of its `.cfg`.

| Run | What it asks | Bounds, and why they are enough |
|---|---|---|
| registry_locks | `ImplementsRegistry`, `DefaultRegistered`, `DefaultLookupFinds`, `OnlyGetDefaultInverts` | 3 threads, 2 names, 2 objects: two conflicting writers beside a reader, a name other than the default, an object that replaces another. Symmetric in all three. The theorems hold for any number |
| registry_deadlock | violates `NeverStuck` | 2 threads |
| pulse_service | `BatchAccounted`, `RanAsAnswered`, `ValidatedForExecutor`, `HealthReportSound`, `CallsAnswered` | 1 task: handlers share only the registry, whose methods run at every await as the environment; batches of up to 3: a member before, at and after the first failure; backends of 1 and 2 qubits: a pulse that fits one only. The theorems hold for any number |
| server_lifecycle | `CutOffOnlyByPeer`, `StopsOnlyForCause`, `ConfigurationResolved`, `ServesUsable`, `ExitStatusHonest`, `ShutdownCompletes`, `RequestsEnd` | 80 invocations: each setting given by one source, by two that disagree, by none; files missing, broken and shadowed by another; ports equal, zero and no numbers; clouds without credentials; every command. 2 requests: one on each server, or two on one |
| remote_jobs | `SettledOnce`, `AnswersForItsJob`, `LeftBehindKnowingly`, `StatusTellsWhetherRan`, `ShortfallShown`, `CircuitsTurn`, `CallsEnd` | 2 retries, 2 polls: a first, a middle and a last of the attempts; a first and a last poll. Five pulses of 2 shots, on one, two, three qubits and one that does not exist, along each axis, without area, with an angle that is no number; each provider, each server |
| pulse_scheduler | `ScheduleHolds`, `BudgetKept` | 3 operations under one constraint of every kind or two (chains, cycles and contradictions), both clocks, with and without a coupled pair; two calls that share a budget, with pulses under and over the AWG's limits |
| scheduler_overlap | violates `NoQubitConflict` | 4 operations |
| hal_sequence | `ConstraintsKept`, `BudgetKept`, `RulesAgree` | 3 calls (`MaxSteps`) building up to 3 pulses and 1 constraint, each clock moving some of the times; no budget, three that are accepted or not, one qubit of unknown T1; requests with an identifier unknown or twice |
| solvers | `PropagatorUnitary`, `OptimaAreBest`, `GradientIsDerivative`, `StatesKept`, `FeedbackDescends`, `EnsembleComplete`, `SmeAnswered` | qubits (d = 2); pulses of 1 to 3 steps, up to 3 iterations: a first, a middle and a last link of a chain, an ascent that improves, gets worse and meets NaN; coefficients all different; ensembles of 2 trajectories over 2 slices with steps of a nominal slice, a half and the smallest; prime 1019, larger than every integer whose order matters |
| open_gradient | violates `DifferencesAreCentral` | the same |
| calibration_loop | `PartialForcesFull`, `NoDriftMissed` | 2 qubits, 3 cycles, 2 drifts, 2 units of time with a cooldown of 1; readings on both sides of every threshold, each strategy, and a policy that names some of the qubits only |
| provenance_store | `RecentKept`, `DiffExact`, `StoreBounded` | 2 processes with different limits (1 and 2), 4 stores of 4 trees, two of them with one hash and one of those not JSON: more stores than fit, a tree stored again, loading more than the limit |

Deadlock is checked in pulse_service. Elsewhere the system really may stop: the registry's
threads block each other for ever (see the findings), a process exits, a call returns,
and the numbers of steps, sessions, cycles and stores are bounded (`MaxSteps`, `MaxPulses`, `MaxConstraints`, `Sessions`,
`MaxCycles`, `MaxDrifts`, `MaxTime`, `MaxStores`).

### Fairness

Safety needs none. The liveness properties rest on weak fairness only:

* `PulseService`: `Proceed(t)` of each task, since tokio polls a ready task again and each await on a
  backend returns (the backends' calls are bounded by timeouts, see `RemoteJobs` and
  `ServerLifecycle`). Nothing is assumed of the environment that changes the registry.
* `HalProcess` (`HalSpec`): main's steps before and after the servers are one thread that runs on; each
  server's future is polled when ready, the runtime's drop and the exit are steps
  of a running thread, a handler on a running runtime proceeds. `SimulationsEnd` is an
  assumption about the Python code, stated by itself: without it `ShutdownCompletes` fails,
  because the drop of the runtime waits for blocking threads (qutip/mod.rs 459). Nothing is
  assumed of the signal or of clients.
* `CloudBackends` (`CloudSpec`): `CloudCall`, the steps of the call itself, since each POST and GET is bounded by the HTTP client's
  timeout. Nothing is assumed of the service.
* `Solvers`: `SmeStep`, since rayon runs every trajectory it was given and the step loop goes on. That
  it ends is for the model to show: every retry halves the step down to `DtMin`.

## Findings

* **registry_deadlock** (registry.rs:110). `get_default` takes the lock of the default and then
  that of the map; `register`, `set_default` and `unregister` the other way round. A call of
  each can wait for the other for ever. The shipped program registers before it serves.
* **scheduler_overlap** (scheduler.py:425). One pass over a qubit's intervals in the order of placement
  can leave a pulse in an interval it had passed.
* **open_gradient** (open_grape.rs:176). The difference quotient for the second channel evaluates the
  fidelity with the second envelope in both channels, so it is not a derivative of what is optimised.

Behaviour the models keep that a reader may not expect:

* a request with measurement qubits is validated for those, and its target qubits are left to the backend;
* the server that has drained first ends the other one with its running requests; `shutdown_timeout_sec` is only logged;
* the environment wins over the file, where the comment at the top of config.rs has it the
  other way; a file that is named and does not exist is skipped;
* QuTiP becomes the default whenever it is registered, also with `default: false`: it is constructed first;
* an IBM circuit turns every qubit by another half turn, also for a pulse without area;
* the only client of Braket is a mock: its service is modelled like the others;
* T1 is not looked at by `can_add`, and a pulse that lists a qubit twice is charged twice but
  checked once at a time, in the HAL and in the core (the premise of both `BudgetKept`);
* the server has no rule for alignments, and reads a sequential gap and a minimum gap in its own way (`RulesAgree` says where);
* a singular system in the matrix exponential is answered with the identity;
* a recalibration gives the new baseline default values for frequency and fidelities (a qubit
  that is not at 5 GHz counts as drifted after it); a recalibration of some qubits leaves the others without a
  baseline, so the next one is of all (`PartialForcesFull`);
* two fingerprints are compared entry by entry in the order of their lists, whatever qubits
  the entries are of: a policy whose complete `all_qubits` is not in ascending order makes the loop compare
  qubits with the baseline of others (the hypothesis `AllInOrder` of `NoneOverlooked`);
* `max_recals_per_hour`, `min_interval_s` and `max_cycles` limit nothing;
* children of one type and label collapse in the difference of two trees, so trees with different
  hashes can have an empty one (the premise of `DiffExact`);
* the provenance store keeps what was stored only while no save is interrupted or fails and
  one process at a time has it open (the premise of `RecentKept`).

## Proofs

TLAPS checks the following for every value of the constants that satisfies the named
assumptions. Every passing run's safety invariant and action property is among it. Each starts from an inductive
invariant: `IInv` with its theorem `Invariance`, or the one named below.

**`RegistryProofs`** (assumes `NoThread`, `NoName`, `NoObject` outside their sets). None of the
properties is inductive: that the default is registered depends on who holds which lock.
`IInv` adds, to the types, what each point of a call holds (`LocksHeld`), what the call knows
there (`CallsKnow`), that only the call that has just removed the default may leave it dangling
(`DefaultHeld`) and that a name being entered is not the default yet (`NewNameNotDefault`).
Each is preserved action by action in a lemma of its own (`TypeStep`, `LocksStep`,
`KnowStep`, `HeldStep`, `NewNameStep`). From it follow `TypeCorrect`, `LookupFinds`,
`NoReaderDisturbed`, `InversionOnly` and `Refinement`: every step of a call is either the whole
abstract method (`StepRefines`) or leaves the visible registry alone (`VisibleStays`).
`DefaultAlwaysRegistered` is then inherited from `BackendRegistry`.

**`PulseServiceProofs`** (any handlers, backends, requests and batches). Handlers write only their own
locals, so the invariant is one of each call (`CallInv`): `Underway` (which member is being worked
on, and what the call holds), `RanInOrder` (each execution belongs to an answered member or to the
one that executes now), `Validated` and `Accounted`. A handler's step touches one call and
keeps its invariant; the registry's methods touch none. The counts are cardinalities, so each
answer appended is a lemma about the sets it adds to. It gives `NeverMisvalidated`,
`RunsAtMostOnce` and `BatchesAddUp`. `SurveysSound` has an invariant of its own, `SurveyInv`:
what has been seen, what is still to ask and what was registered throughout cover each other.

**`HalProcessProofs`** (any set of requests; any build, any invocations whose files and options are
typed: `FeaturesAssumption`, `InvocationsAssumption`). Its first part is about the servers alone. That a
request is cut off only by its peer needs to know which states of the servers are possible together while
main runs and after it, and that requests run only on servers that have served; `IInv` says so. It gives
`TypeCorrect`, `OnlyPeersCutOff` and `StopsForCause`. The second part uses its `InvStep` for the steps of
the servers and adds what surrounds them: at which stage the configuration is what was loaded and when
it is the whole (`ConfigInv`), what a registry can hold and what its default is (`RegistryInv`),
that servers exist only while they are run (`ServersInv`). `LoadAt`, `FileAt` and
`EffectiveAt` say what laying one source over another leaves of each; `FirstIsRegistered`
that a default is chosen. It gives `SettingsResolved`, `OnlyUsableServed`, `SuccessHonest`, and
the two theorems on the servers for the whole process.

**`CloudBackendsProofs`** (`MaxRetries` natural, `MaxPolls` positive; any pulses, backends and counts). Its
first part is about the job alone. `IInv` orders the attempts (those not yet
made have neither request nor job), ties each reply to what the service did (`Served`), and a
poll to the job the call was told of (`PollsItsJob`). It gives `TypeCorrect`, `Settled`,
`AnswerForJob`, `LeftBehind` and `OneJob`. The second part is about the whole call. `CallsAreJobs`
shows that a cloud call implements `RemoteJobs`: it starts as a job does, and each of its steps is a step
of the job or leaves it alone, so the four theorems hold of the three backends (`CloudSettled` and
the following). For the status its client reads, `CloudInv` adds what stands at each point of a call:
that caller and pulse are those who `Asked`, where a POST has been made and where none can have been
(`PostMade`), that only a job that was polled runs out of time (`TimedOut`), which outcomes a
status can stand for (`StatusOf`), and that a result is made of what the service returned for as many shots
as were asked for (`ResultOf`). It gives `StatusHonest` and `ShortfallsShow`. The third part is about circuits, of any pulse
(`CloudAssumption`). Where a qubit ends is a fold over the gates that act on it, so it is followed gate by gate:
`AfterRuns` says what one more gate does, `AfterConcat` that a part of a circuit starts where the one before it ended,
`FlattenRuns` that a circuit written qubit by qubit is its parts in turn. Rotations about an axis add
(`RotationsAdd`) and are undone (`RotationUndone`); `OneQubitTurns` is the sequence of gates that each of
IBM and Braket use for one qubit, `AllTurn` all of them, and `DrivenTurn` counts for IQM how often a qubit is
driven. It gives `CircuitsCorrect`.

**`HalSequenceProofs`** (any clock, jitter, budgets, pulses and constraints). A constraint goes on holding
because `append` adds a pulse under a new identifier and changes no time of another, and every
constraint `Resolves` to pulses that are there; the budget because a list without repetitions
has a qubit once or not at all (`OnceOrNever`). It gives `TypeCorrect`, `ConstraintsStay` and
`BudgetNeverExceeded`. How the server's rules relate to the builder's is about any request: `ServedInv` keeps that the
server's last answer is what its rules say of it, `SentIs` that the message of a sequence carries its
pulses and constraints, `OnGridStays` that rounding leaves times on the grid alone, `LastExists` which of two
pulses under one identifier is meant, and `RulesByKind` compares the two rules kind by kind. It gives
`RulesCompared`.

**`CoreProofs`: the scheduler** (any clock, qubits, limits and sessions). `SchedulerInv` says that each pulse is of an
operation of its own (`PulsesInv`), that constraints are added one by one to a complete
sequence (`LoopInv`), and that nothing is built of durations that were not checked
(`CheckedInv`). That as many pulses as operations were appended is a bijection (`CompleteIsAll`).
It gives `SchedulesHold`, and `BudgetNeverExceeded` over all calls of a session. `SortInv` says what
Kahn's algorithm has found so far. `SortsOrRefuses` follows: an order that is placed is complete and
keeps the dependencies, and a call is refused as cyclic exactly if operations wait for each other. One
direction takes what is left when nothing is ready as the circle; the other the first operation of
a supposed circle in the order (`LeastExists`).

**`CoreProofs`: the store** (`StoreAssumption`: `MaxEntries` positive for each process, experiments of their type). That a
dictionary has a hash once survives a restart only because the file that was written has it too:
`StoreInv` adds that to the types. `EvictedFacts`, `RemoveAtFacts` and `EnteredFacts` say what the
operations on the ordered dictionary return. It gives `StoreTypeCorrect` and `Bounded`. What a restart finds
needs an invariant on orders, `FileInv`: as long as nothing has gone wrong, the file and the open store
have their trees in the order they were last stored (`InOrder`, `Latest`), and as many of the last
hashes as the smallest limit allows are all there (`Covers`). Evicting the first and entering or moving a tree keep
it (`EvictedKeeps`, `EnteredKeeps`): a tree is evicted only when more different hashes than the limit
have been stored from it on (`HashesAtLeast`). It gives `FileUpToDate` and `LastStoredKept`.

`DifferencesExact` is about any two trees in a dictionary, so it rests on the types and on what `Build` makes of an
experiment. Parts with different labels have different hashes, and a bag of different elements is their set
(`BagsAreSets`): two lists of such parts have one hash exactly if they have the same parts (`ListsHash`),
and so, level by level, have sections (`SectionFacts`), branches (`PlansChange`, `CalibrationFacts`) and
roots (`RootsHash`). A child is found by its key (`OnlyChild`, `PartChild`), so on each level the comparison meets the
two parts of one label (`PartsDiffer`), and what it lists in the end are the places of the parts that differ
(`RootsChange`), whose last keys name them (`DifferenceNames`).

**`CoreProofs`: the calibration loop** (any device, readings, policies, cooldown and bounds: `LoopAssumption`). The lemmas
on operators come first: `RankExists` (every rank up to the size of a set of numbers is taken), from which
`MaxIs` and `AscendingIs` say what `Max` and the sorted list are; `DriftedAre`, `AffectedAre` and
`NoneMissed` say what a comparison lists and what it means that it asks for nothing. `CalibrationInv` types
the loop; that it only calibrates qubits of the device takes that its baseline lists no others
(`InTurn`, `OfTheDevice`). For `PartialThenFull`, `PartialInv` adds that the baseline has as many entries as the
last recalibration had qubits (`BaselineIsLast`) and that with fewer than the device has the choice is
`policy.all` (`Forced`). `NoneOverlooked` has a hypothesis, `AllInOrder`, which the code neither states nor checks:
if `all_qubits` lists as many qubits as the device has, it lists them in ascending order. Under it a
baseline that is as long as the device's print is in order (`OrderInv`). Without it the property fails: with
`all_qubits = (1, 0)`, two qubits that exchange their coherence times after a recalibration are not noticed.

**`SolversProofs`** (any calls, tables, ensembles and modulus that satisfy the assumptions of the solvers' modules;
matrices of any size unless said otherwise). `ModulusAssumption` says that `Modulus` has inverses, and that -1 is no square, as for
every prime that is 3 modulo 4. Induction goes through sets of naturals: what holds of 0 and of the next number holds up
to n (`UpTo`), so that a function by recursion exists, is typed and is known step by step (`FoldLemmas`).

* Ensembles. `SmeInv`: what a trajectory has covered and what is left of its slice make whole slices, its next
  step has a size, its seed is the one counted on from the call's; and no seed comes back within a round (`SeedsDiffer`). It gives `EnsemblesComplete`.
* Optimisers. `GrapeInv` and `OpenInv`: between two iterations the best pulse is the best of what was seen, with
  its own fidelity, and nothing seen has reached the target (`BestGrows`, `ReachedLast`). The fidelity of a
  pulse depends on nothing a call changes after it has begun (`FidelityKept`). It gives `OptimaBest`.
* Matrices. Residues, complex numbers, finite sums and matrices are taken as far as the rest needs: products
  associate and distribute (`DotAssociates`, `DotOfSums`), the conjugate transpose turns them round (`DaggerOfDot`), the trace is
  linear and cyclic.
* Integrators. Commutators and dissipators have no trace and keep Hermiticity (`CommutatorTurns`, `DissipatorKeeps`), so
  each of the four slopes does, and their mean (`StepKeeps`). `LindbladInv` carries it from slice to slice; the
  measured step needs besides that the innovation has no trace (`InnovationKeeps`) and that the repairs of a state leave such
  a one alone (`RepairsLeave`). It gives `StatesStayKept`.
* Gradient. The chain of propagators splits at every slice into what comes after, the slice and what comes before
  (`ChainSplits`), in which the overlap with the target is linear (`OverlapLinear`). A change of one slice is therefore
  worth what the backward and the forward chain say of it (`GradientFollows`). It gives `GradientCorrect`.
* Propagators, of a qubit. The coefficients taken in two rows make the polynomials of all of them
  (`PartsArePolynomials`). Of an anti-Hermitian matrix the even part is Hermitian and the odd part anti-Hermitian, and
  they commute (`PartsAdjoint`, `TermsCommute`): the denominator is the conjugate transpose of the numerator. Elimination with
  its pivots solves the two equations, or finds the singular case (`SystemSolved`, `SingularFound`), and the quotient is
  unitary (`QuotientUnitary`), also squared any number of times (`SquaredKeeps`). It gives `PropagatorsUnitary`, for
  Hamiltonians that are Hermitian (`SolversAssumption`).
* Feedback. The change of the fidelity under a drive is linear in the drive (`PullLinear`, `DrivePulls`) and each
  axis adds its correction times its projection to it (`ProjectionFacts`), which is not negative: clamping keeps the sign
  (`ClampFacts`). The sum is compared with zero as an integer, so the residues must not wrap: `SmallAssumption` bounds the numbers of
  a call by `Modulus`, which stands for the reals here. It gives `FeedbackCorrect`.

Only model-checked: the liveness properties `CallsAnswered`, `ShutdownCompletes`, `RequestsEnd`, `CallsEnd` and `SmeAnswered`,
since the prover handles neither liveness under fairness nor ENABLED; and the start times that the scheduler computes with
folds, as types. That propagators are unitary is proved of qubits only, as the runs check it. What
rounding does to these algebraic facts is outside the model.

## Not modelled

* **Rounding errors** of the solvers: their algebra is exact here, their sizes are outcomes. `lindblad/ffi.rs`
  calls a C library that is not in the repository.
* **Numerics of the core** (pulse generation, sme, lindblad, compilation, benchmarking, fits and protocols,
  feedback analysis, validation helpers): floating-point computations without state between calls. Where they
  have a Rust twin, the twin is modelled.
* **Decompositions** of unitaries in the pulse compiler: no backend calls them.
* **Error budget (core)**: its ledger decides by sums of real-valued contributions.
* **Clients (core)**: the connection's life. A call made while `close()` awaits is a hazard without a
  property; the other side, the servers, is modelled.
* **Calibration data (core)**: the loader's cache beside its files, the history of fingerprints.
* **QuTiP's simulation** is Python code; the backend's cached availability flags are a hazard that start-up, which
  asks once and before it serves, does not meet.
* **Generated code**: encoding, client stubs and messages nobody reads. The service's dispatch and the
  messages the handlers decide on are part of `PulseService` and `HalSequence`.
* **Settings that nothing reads or only logs** (timeouts, rate limit, strict, calibration, logging, resource limits).
* **Command line of the core, plots and reports**: output.

## Plan

The order followed what the system's users depend on: first the server that owns the devices
(registry, handlers, life cycle, cloud jobs), then the scheduler that decides what runs on them,
then the loops that run for a long time (calibration, provenance); then the start-up around the servers, the
whole cloud call, the HAL's temporal rules and the solvers; with the proofs above.

What would come next:

1. **Clients.** connect, calls and close as steps of one event loop, over the calls of
   `PulseService`. Property: no call uses a closed channel; a connect after a close connects.
2. **Calibration data.** The loader's cache and files under `CalibrationLoop`. Property: what is loaded
   after a save is what was saved.
3. **Feedback loop (core).** Delay buffer, halving of steps, charge and abort, over
   `LyapunovFeedback` and `PulseSequence`'s budget.
4. **Abstract specifications.** The store's promise to one process (a bounded, persistent map)
   implemented by `ProvenanceStore`; the job's (at most once, or known to be in doubt) by `CloudBackends`.
5. **Proofs** for more levels: `SystemSolved` for elimination of any number of columns, from which `PropagatorsUnitary` follows
   for any dimension.
