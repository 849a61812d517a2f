# Verification of the `nothing` service framework

TLA+ models of the Go code in `src/`, their TLC runs, and proofs about them
checked by TLAPS. `PROJECT.json` maps every definition to the lines it models and
lists the runs, the hazards and the findings.

## The system

A program builds a *host* from module providers. The host reads its
configuration, creates an etcd client and serves its *modules*, each in a
goroutine. The module that comes with the framework runs a grpc server and
registers its address in etcd. Clients dial a service by its etcd path: a
*watcher* follows the addresses there, a selector or matcher filters them by
metadata, and a balancer of the grpc library uses what is left. The *event
manager* is a library of its own: an event loop with named callbacks, calls
that wait for an answer, and timers.

| Component | State | Operations | Hard parts | What makes it correct |
|---|---|---|---|---|
| Event loop `event/manager.go` | two event buffers, dispatcher map, started flag, workers | `Serve`, `RegisterEvent`, `UnregisterEvent`, `SendEvent`, `Exec`, `CallEvent` | a refresh replaces the worker in mid-batch; a batch runs without a lock; calls from callbacks | one worker per batch, nothing lost or doubled, no outdated dispatch, every call returns |
| Responses `event/event.go` | data, error and flag of an event | `Response`, `handleEvent`, polling | unlocked fields around one atomic flag; double, late and panicking responses | both halves of an answer belong together |
| Timers `event/timer.go` | heap, one runtime timer, callbacks | `SetTimeout`, `SetInterval`, `Cancel`, `handleTimer` | lost wake-ups, cancel races, late loops, zero intervals | the top of the heap is armed, runs on schedule, cancel holds |
| Connection manager `conn_manager.go` | map of conn objects, one connection in each | `DialService`, `DialContext`, `Dial` | two-level locking, failed dials, keys put together from a map without escaping | one connection per key, and no key for two requests |
| Naming `grpc/naming` | watch position, sticky error; the balancer's addresses | `Update`, `Resolve`, `Next`, `Close`, `Select`, `MatchMetaData` | read-then-watch, stale reads, changed metadata, errors | the balancer has what etcd has and the filter lets through |
| Host `service/host.go` | context, `errorc`, `signalc`, WaitGroup, logger | `Serve`, `prepare`, `RegisterModule`, `cleanup` | Add against Wait, panics, lost signals, logger taken away | a shutdown waits, and everything ends |
| Grpc module `work.go` | server, handler, `errorc`, WaitGroup | `Serve`, `shutdown`, `closeServer` | four goroutines, graceful stop against a timer, partial failure | `Serve` leaves nothing behind but what a timed-out stop does, `Close` comes last |
| Host construction `host.go`, `module.go`, `roles.go`, `builder.go` | module list, options | `Build`, `newHost`, `addModule`, `newHostedModule`, `initModuleConfig` | roles filter before or after a fork is named, forks in the order of a map, options that fail half-way | all or nothing is built, and what is built has the configuration of its name |
| Registration `host.go`, `work.go`, `resolver.go` | the session's lease, addresses in etcd | `prepare`, `RegisterModule`, `Update` | late registrations, a process that restarts before its old lease ends, a lost lease | an address is there while its module serves, and leaves afterwards |
| Configuration reader, logging, flags, random id | none that matters | | | not modelled, see below |

How they interact: the host calls a module's `Serve` with a context and lends it
its logger; the module calls `RegisterModule`, which is an `Update` of naming;
the connection manager calls the dialer, which makes a resolver with a
matcher; grpc's balancer calls `Next` of the watcher. The event manager is
used by modules, not by the framework itself. A program that ends and starts
again meets in etcd the addresses and the lease of its predecessor.

## Modules

| Module | Models | State and actions |
|---|---|---|
| `EventMailbox` | what the event loop promises: a set of pending events, each served once by a version of the dispatcher not older than the post | abstract specification |
| `EventLoop` | `manager.go` without timers | `workBufferPut` and `workBufferGet` are the two slices; a worker is one goroutine per *generation*, with the steps swap, run, callback, refresh, deferred unlock; `posted`, `servedBy`, `since` and `requeued` are history |
| `EventLoopProofs` | theorems about `EventLoop` | |
| `EventTimers` | `handleTimer`, `fireTimer`, `SetTimeout`, `SetInterval`, `Cancel` | the heap is a set ordered by deadline and id; time is a bounded number; the runtime timer is armed, expired, or pushed |
| `MCEventTimers` | the liveness run of `EventTimers` | a bound on what clients do; it stops no fair step |
| `EventTimersProofs` | theorems about `EventTimers` | |
| `EventResponse` | one event at the granularity of memory accesses | a step per field read or written |
| `ConnManager` | `conn_manager.go` | one process per call, steps between the lock operations; texts are sequences of characters, and a key is the text that `serviceKey` and `mkKey` put together |
| `MCConnManager` | the calls and characters of the run of `ConnManager` | |
| `ConnManagerProofs`, `EventResponseProofs` | theorems about these two | |
| `NamingSelect` | selectors, matchers, `selectUpdates` | pure functions |
| `NamingWatcher` | the watcher between an external etcd and an external balancer | etcd is a log with one event per revision; the watcher is a position in it, its filter any selector or matcher, errors included |
| `NamingProofs` | theorems about `NamingWatcher`, and what `And`, `Or` and matchers compute | |
| `HostServe` | `host.Serve` and the modules' goroutines | one program counter for the host and one per module |
| `GrpcModule` | `module.Serve` of `work.go` | program counters for the routine, the handler's goroutine, the server's goroutine and the goroutine of `GracefulStop`; `conns` says whether connections are not there yet, open, or gone, and an RPC starts on one that is open, also while a graceful stop has begun and not yet drained it (external, as grpc v1.29.1 does) |
| `GrpcModuleProofs` | theorems about `GrpcModule` | |
| `HostGrpc` | `HostServe` with a `GrpcModule` inside | both states, joined at the context, the logger and the WaitGroup; `Seen` is the refinement mapping |
| `HostProofs` | theorems about `HostServe` and `HostGrpc`, the refinement among them | |
| `HostBuild` | `Builder.Build`, `newHost`, `addModule` | one step per module and per fork; the input is a builder and its configuration; forks are taken in any order; a module is appended before its forks are decoded, which may fail |
| `HostRegister` | processes one after the other: `HostBuild`, the session, `Listen`, `RegisterModule`, the end of a process | `process`, `life`, `session`, `mstate`; etcd is `leases` and `store`, external |
| `MCHostRegister` | the inputs of the run of `HostRegister` | 85 builders with their configurations |
| `HostRegisterProofs` | theorems about `HostRegister` and `HostBuild` | |

`EventLoop`, `EventTimers` and `EventResponse` are three views of one file. The
first has every event and buffer, and treats an answer as one step; the second
keeps of the buffers only what timers put there; the third has one event and no
buffer. `HostServe` sees a module as something that asks for a logger, ends and
reports; `GrpcModule` is the module from inside, and its host cancels and drops
the logger as `HostServe` does. `HostGrpc` puts the two together and checks that this
is no coincidence: it maps the grpc module's program counter to what `HostServe`
sees of a module, and every step inside is a step of that module or a stutter.
`HostRegister` looks at a module from a third side, its configuration and its
address; what order the host's goroutines end in is left to `HostServe`, and
here a module, a process and a lease may end at any time. Definitions named in a comment as "Mutated"
are wrong on purpose: each is put in the place of the definition it precedes
to see that a property notices.

## Runs

| Run | Asks | Bounds, and why they are enough |
|---|---|---|
| `event_loop_safety` | one worker, conservation, fresh dispatch, order, draining | one send, one `Exec`, two registrations: two refreshes are needed for an event to be put back twice and for three workers to exist; the two events stand before, between and behind the refreshes |
| `event_loop_calls` | refinement of the mailbox, service, calls return, workers end | a call without a deadline, a call from a callback with one, one registration |
| `event_timers_safety` | wake-up, event count, schedule, cancel, equal deadlines | two timers with durations 0 and 1, time up to 2, one refresh: the second timer may come before, with or after the first, and be rescheduled late. A second refresh at this time bound, or a third timer, has too many states for a run; the theorems are about any number of both |
| `event_timers_liveness` | deadlines, end of `handleTimer` | two timers, durations 0 and 1, three ticks, one refresh, one cancel: an interval has three deadlines, the later ones put back by `handleTimer`, on time or late, and any of them behind a refresh. Two timers, one of them a zero interval, are only looked at without the refresh and the cancel (`ClientBound`): together they have too many states |
| `event_response` | answers whole, and given | three responses: two of the loop and one of another goroutine |
| `conn_manager` | one connection per key, no sharing, return | three calls: one dials, one waits, one comes later; names, both entry points, up to two metadata entries in both orders; and texts that hold separators, so that requests for different services do meet in one key |
| `naming_watcher` | missing and stale addresses, and what a filter lets through | two addresses, four changes: register, overwrite, delete, register again; matchers, single selectors, and `And` and `Or` of two, with an error or a constant among them |
| `host_serve` | what a shutdown waits for, crashes, termination | three modules: one that fails, one that is late, one that is running; an `errorc` of one place instead of 128, so that it fills up |
| `host_waits` | waiting for every module | counterexample |
| `grpc_module` | what outlives `Serve`, order of `Close`, termination | two RPCs that may never end, all four kinds of handler |
| `host_grpc` | the grpc module implements the host's idea of a module; a signal stops its server | a grpc module and another one, a handler with both a server and a closer (the longest path), one RPC that may never end, an `errorc` of one place |
| `host_register` | what is built, registered, found and left behind | two processes, so that the second registers while the first one's lease may live or end; 85 inputs: one module with up to two forks whose addresses are its own, inherited, another's or null; two modules with roles, or with one name; a provider or a section at fault; and a section of forks that does not decode, behind a module that was added |

Deadlock checking is off where the code may come to rest: all clients done, a
host whose modules have returned nil, a bound reached.

### Where the code and its words disagree

One run ends in a counterexample; `PROJECT.json` quotes the line it disagrees with.

- *Waiting for modules* (`host.go:251`): `Serve` does not wait at all after a failed
  module; after a signal, it does not wait for a module whose goroutine has not called
  `Add` yet.

The models have nine more, which the passing properties allow for:

- *Equal deadlines* (`timer.go:50`): a refresh may put the `Exec` that inserts the first
  timeout behind that of the second. If a timer event comes between the two, which takes
  another timer or another refresh, the second is handled before the first is in the
  heap, and equal deadlines run in the wrong order. `SameDeadlineOrder` exempts the
  pairs that a refresh has put round (`overtaken`) and shows that nothing else loses
  the order.
- *Disposed response* (`event.go:93`): `Response` after the end of `CallEvent`
  overwrites the answer and returns nil. `AnswerWhole` holds up to the flag.
- *One connection* (`conn_manager.go:140`): the key of a service is made by
  ranging over a map, so that two metadata entries have two keys. `OneConnPerKey` is
  about keys.
- *Shared key* (`conn_manager.go:109`): the key escapes nothing, so that `{"a": "b;c,d"}` and
  `{"a": "b", "c": "d"}` may share a connection, and so may a Name `v2-/svc{}` and an unnamed
  call for `/svc`. `NoSharing` is about requests whose texts hold none of the separators
  (`Plain`).
- *Orphaned server* (`work.go:149`): after the host has set its logger to nil,
  `shutdown` panics before it stops the server (`PanicsWithoutLogger`).
  `NothingOutlivesServe` is about a `Serve` that returns.
- *Left behind* (`work.go:183`): after the timeout of the graceful stop, `Stop` ends the
  connections but waits neither for RPC handlers nor for the goroutine of
  `GracefulStop`, which may both outlive `Serve`; and a handler that was created before an
  early return (`work.go:78`, `work.go:89`) is never closed. `NothingOutlivesServe` says just this.
- *Stale address* (`dialer.go:15`): an address that is registered again with other
  metadata leaves its earlier entry in the balancer. `BalancerView` names these
  entries (`Overwritten`).
- *Missing section* (`module.go:166`): without a "modules" section, or with a fork that is
  null, building panics instead of returning the error meant for it.
  `BuildsAllOrNothing` takes either for a failure.
- *Lost lease* (`host.go:265`): nothing looks at the session after `prepare`, so that a
  module whose lease was lost serves on without an address. `FoundWhileServing` is
  about a lease that lives.

## Fairness

Fairness is weak and given to goroutines that the Go scheduler runs, to mutexes
(each critical section is short and Go's mutexes do not starve a waiter), to
the runtime timer and to the passing of time. Never assumed: that a program
registers, sends, cancels, or stops `Serve`; that a deadline ends a `CallEvent`
of a client; that a module ends by itself, a signal is sent, an RPC ends, or a
watch fails, a process ends, or a module registers. Assumed of code outside: a callback returns or panics unless it
waits in a call of its own; a dial, `RegisterModule`, the creation of a handler
and `Close` return; a module and a handler's `Serve` end when their context does
(for the module this is `ServeEnds` of `GrpcModule`); grpc's balancer
calls `Next` again; and etcd ends a lease that nobody keeps alive, which is the lease of
a process that is gone (`AddressesLeave` needs no more).

`EventuallyServed` is about finitely many registrations. If registrations never
end, the rest of a batch may be put back for ever.

## Proofs

Every theorem holds for all values of the constants that satisfy the named
assumptions of its module. TLC checked the inductive invariants before they were
proved. A step lemma mostly has one case per action, and below it one step per
conjunct that the action can disturb.

`EventLoopProofs`, for all sets of clients and every bound `MaxChanges`. Each
invariant below builds on those before it.

- `TypeCorrect`: `Spec => []TypeOK`.
- `OneWorker`: `Spec => []OneWorkerInBatch`. Mutual exclusion is not by a lock: the
  batch has none. `WorkersInv` says why it holds: only the last
  generation works (`OnlyLastWorks`), an older one that has not left its refresh
  case holds `workMutex` (`MutexHeld`), a worker that met the exit event is the
  last (`ExitIsLast`), and indices stay inside the batch (`BatchBounds`).
- `Fresh`: `Spec => []FreshDispatch`. `FreshInv` relates the buffers to versions: for
  each event posted after a registration (`PostedInv`), a refresh for every newer
  version stands before it in what is left to do, or the worker that will reach
  it has that version already (`FreshBuffers`).
- `Conserved`: `Spec => []Conservation`. `QueueInv`: nothing stands twice in what is left
  of the two buffers (`NoneTwice`), what stands there is exactly what was posted and
  not served (`Accounted`), and the history is well formed (`HistoryInv`).
- `Drained`: `Spec => []DrainedOnExit`, from `ExitInv`: what was posted before the exit event
  stands before it wherever the two still are (`BeforeExit`).
- `Ordered`: `Spec => []OvertakenOnlyByRefresh`, from `OrderInv`: of two events that no
  refresh has put back, the earlier post stands ahead.
- `Implements`: `Spec => ImplementsMailbox`. `LoopInv` joins the invariants with `ServedInv`
  (an event has a response, and a call its answer, only once it was served); `MailboxStep` maps each
  action to a step of `EventMailbox` or a stutter.

`EventTimersProofs`, for any number of timers and refreshes, any durations and any bound on the clock:

- `TypeCorrect`: `Spec => []TypeOK`.
- `TopArmed`: `Spec => []TopIsArmed`. It is nearly inductive: `fireTimer` leaves the runtime
  timer only if it comes before the new top, one that has expired is on its way
  (`FireUnderWay`), and no refresh takes an entry out of the buffers.
- `CancelFinal`: `Spec => []CancelHolds`, from `CancelInv`: a cancelled timer has no callback,
  and the one run it may have left is that of the timer in `current`.
- `OnSchedule`: `Spec => []RunsOnSchedule`, from `RunInv`. A run begins when its timer is
  popped (`Begun`), and the deadline of a timer that may still run lies one interval
  behind the last run that has begun (`Due`). `Known` says that only timers that were set
  can be met on the way.
- `InOrderOfSetting`: `Spec => []SameDeadlineOrder`, from `OrderInv`, which follows the insertion of
  a timer from `SetTimeout` through both buffers into the heap. `TimeoutOK`: a timeout that
  was set waits in a buffer, is in the heap, or is over. `PairOK`: of two that no refresh
  put round, the earlier insertion stands ahead (`QueueOrder`), and while it waits the
  later one is neither in the heap nor has begun; of equal deadlines the earlier has
  run, or was cancelled, when the later begins.
- `FewFireEvents`: `Spec => []FireEventsBounded`, a count (`CountInv`): every entry of the buffers
  that is no registration, a timer not yet inserted as much as a timer event,
  stands for one of the timers set.

`HostProofs`, for every finite set of modules, every capacity of `errorc` and every
number of signals:

- `TypeCorrect`: `Spec => []TypeOK`, which says that the WaitGroup's counter is the number
  of goroutines between `Add` and `Done`. It needs `NoneYet`: no goroutine is there
  before `serveModule`.
- `SignalWaits`: `Spec => []SignalWaitsForPresent`. `Wait` may be woken by a counter that
  late modules have raised again. What holds nevertheless is in `PresentDone`: a
  module that was present has left `Late` for good, so that once the counter was zero
  none of them is inside again. `LoggerLife` gives the part about the logger.
- `CrashNeedsLate`: `Spec => []CrashNeedsLateModule`, from the same invariant `WaitInv`.

`GrpcModuleProofs`, for any number of RPCs: `Nothing`, `CloseLast` and `TypeCorrect`, from one invariant: once
the goroutine of `GracefulStop` has left, the server has quit and has no RPC that
was not dropped (`StopInv`); behind `shutdown` it has left, or the timer came first
(`DownInv`); `EarlyInv`, `CloseInv` and `JoinInv` say what is there before the start, at
`Close` and after the final wait. `TypeCorrect` needs `CloseInv`, since `closed` counts.

`HostProofs` again, about `HostGrpc`:

- `Implements`: `SystemSpec => ImplementsHost`, with the invariant `Coupled`: while the
  module's goroutine is in `Serve`, what the host sees of it is `Seen` of its program
  counter.
- `SystemSignalWaits` takes a theorem of `HostServe` over to the composition.
- `SignalStops`: `SystemSpec => []SignalStopsServer`, where two promises meet. The invariant of
  `GrpcModuleProofs` holds inside the system (`InsideKept`), `WaitInv` says that the host
  waits for the module, and `EndInv` that the host sees the end of `Serve` as it was.

`EventResponseProofs`: `TypeCorrect` and `Whole`. As long as there was one `Response`, its two fields are written
before the flag (`Written`), and what `CallEvent` has read of them is what was
written (`ReadInv`).

`ConnManagerProofs`, for any finite set of calls: `OnePerKey`, from `MapInv` (the map has one conn object
for each key), `DialInv` (a connection belongs to one conn object) and `CallInv` (a call
that dials has locked its conn object and found it empty); that a fresh id is left when a call needs one is a count of the calls
still searching (`Searching`). `Unshared` needs that a key, in whatever order it was
made of a map, tells the service and the metadata: if they hold no separators, the key is
read back from left to right, and the first separator ends each part (`FirstSeparator`,
`EntriesTellMap`, `KeyTellsRequest`). `TypeCorrect` and `NobodyWaitsInACircle`
are from `CountInv`: connections and calls that are not done are together no more than calls, and a lock is kept by
a call that dials with just this lock (`LockedToDial`).

`HostRegisterProofs`, for all inputs and any number of processes:

- `AllOrNothing`, from `BuildInv`: no module before `next`, and no fork that the range has come to, is
  at fault, and the forks it ranges over did decode.
- `Served`: `Spec => []ServedAsConfigured`, from `ModulesInv`: the modules are exactly those that newHost has
  come to and the host wants (`Done`), each made from its own info and fork (`Made`), in
  the order of the builder and no two alike (`InOrder`). Only a build that failed at forks
  that do not decode has a module more. `OptionsMeant` says what any list of
  options gives (the last name, every role), and `ConfigMeant` what a fork inherits.
- `Found`, from `RegisterInv`: while the lease lives, the address of a serving module is
  in etcd under that lease, whoever had put it there before.
- `TypeCorrect` and `OwnLease`, from `HostInv`, which joins all of these with the types: an
  address is in etcd only under the lease of the process that put it there, and only as long as
  this lease lives. What `AddressesLeave` adds is that the lease ends.

`NamingProofs`, for all addresses, metadata, fields and numbers of changes:

- `AndIsAll`, `OrIsAnyBeforeError` and `MatcherIsAnd` say what selectors compute, for
  sequences of any length, by the least index at which a part decides.
- `WatcherTypeCorrect`: `Spec => []TypeOK`.
- `BalancerIsRight`: `Spec => []BalancerView`. Every filter a resolver is made with selects what its
  author wants (`ChosenMeant`: `Selected` and `wants` agree on all metadata). `LogInv` says how each
  event changes the target. `Right` is `BalancerView` at any revision of the history, not only at the
  watched one: one event keeps it (`OneEvent`), so does a batch of any length and with any
  events left out by the filter (`Batch`), and the first read begins with it.

`moduleOptions` and `selectUpdates` are loops over lists of any length. They are recursive
functions here, not folds, and what they compute is shown by `NatSet`, which is
induction on the natural numbers as a statement about a set: the library has it with
an operator as a parameter, which the provers cannot instantiate.

Only model-checked: all liveness (`EventuallyServed`, `CallsReturn`, `WorkersStop`, `DeadlinesMet`,
`HandlerReturns`, `CallEventReturns`, `ServeEnds`, `ModulesEnd`, `CatchesUp`, `AddressesLeave`), since the prover has
no rule for fairness. Every invariant and action property that a passing run checks is a
theorem too.

## Not modelled

- The configuration reader, which has no state. The substitution of variables, its
  only logic of its own, is dead: `host.go:352` leaves the variables empty.
- How loggers are built, flags other than the two about etcd and the roles, the random
  instance id, TLS options, interceptors, error texts: data without control. The
  dialer is therefore modelled in part: its outcome, and the filter it makes.
- A second `Serve` on one event manager.
- Signals before `Notify`, which end the process, and the cron job.
- The compaction of etcd beyond an event in flight, with it the read of a missing
  `PrevKv` at `resolver.go:105`.
- The end of a cached connection: nothing takes it out of the cache.
- An etcd client that a failed build leaves open (`host.go:107`).

## Plan

1. Done: the event manager (`EventMailbox`, `EventLoop`, `EventTimers`, `EventResponse`), the
   client side (`ConnManager`, `NamingSelect`, `NamingWatcher`), the host and its modules
   (`HostServe`, `GrpcModule`), their composition (`HostGrpc`), construction and registration
   (`HostBuild`, `HostRegister`).
2. Done: theorems for every module, and for every safety property that a run checks.
3. Left: the safety halves of more liveness properties, as `NobodyWaitsInACircle` and
   `OwnLease` are of two; the key of a service with several metadata entries against the
   comment of `conn_manager.go:140`, as a counterexample of its own.
