# httpware in TLA+

httpware is a Python HTTP client library: an async and a sync client over httpx2
whose requests pass through a chain of middlewares before they reach the
transport. This directory holds a model of the parts of it that keep state
across requests, threads or tasks, the checks made of that model with TLC, and
proofs about it that the TLA+ proof system (TLAPS) verifies.

Paths below are relative to the repository; `resilience/` is
`src/httpware/middleware/resilience/`.

## The system

| Component | State | Operations | What is hard about it |
|---|---|---|---|
| Circuit breaker (`resilience/circuit_breaker.py`, `_CircuitBreakerState`) | circuit state, epoch, closed ticket, probe slot, streaks, time of opening, rejection counters | `admit`, `record`, `classify` | outcomes that arrive after the circuit has moved on; one probe at a time; a slot that only its holder can free |
| Rolling window (same file, `_RollingWindow`) | a ring of success/failure buckets, running totals | `record`, `totals`, `clear` | bucket boundaries, pauses longer than the window, the wrap of the ring |
| `CircuitBreaker` | a lock around the above | `__call__` by threads | an unlocked read decides whether the lock is taken; events are emitted after it is released |
| `AsyncCircuitBreaker` | the loop it is bound to | `__call__` by tasks | no lock at all: correctness rests on there being one `await`; cancellation arrives there |
| Keyed breakers | a map from key to circuit | lookup without a lock, creation under one | two threads meet a new key together |
| Event-loop guard (`_event_loop_guard.py`) | the bound loop | check and bind | two loops in two threads bind at once |
| Bulkhead, async and sync (`bulkhead.py`) | permits of a semaphore | acquire with a timeout, release | a grant or a notification racing the timeout or a cancellation; a newcomer that overtakes a waiter |
| Retry budget (`budget.py`) | per-second buckets of deposits and withdrawals | `deposit`, `try_withdraw` | the clock is read before the lock is taken; expiry of buckets |
| Retry (`retry.py`, `_backoff.py`) | attempts made, last outcome | the attempt loop, `decide` | attempts and the shared budget under concurrency; `Retry-After`; a token spent on a retry that is then cancelled |
| Async timeout (`timeout.py`) | a deadline | `__call__` | its own expiry against an inner timeout and a cancellation from outside, all three one exception |
| Middleware chain (`middleware/`) | none | `compose`, phase decorators | order: which middleware sees which outcome, and what a handler makes of it |
| Clients (`client.py`) | open or closed, the transport they own | `send`, `stream`, the verbs, close | redirects and auth under a body cap: every response closed on every path; requests against a closed client |
| Body cap (`_internal/body_cap.py`) | bytes read | capped reads | the boundary; declared against actual length |
| Errors and their mapping | none | transport exception or status to httpware error | totality |
| Decoders (`decoders/`) | bounded caches | resolve, build, store | unlocked stores by several threads |
| Observability (`_internal/observability.py`, `redaction.py`) | none | emit one event to the log and the trace | it runs user code (handlers) inside the callers above |

Components meet in three ways. A middleware calls `next`, so an exception or a
response travels back through everything that forwarded the request: the
breaker classifies what retry, timeout and the terminal let through. Instances
are shared: one breaker, bulkhead or budget may serve several clients, threads
or tasks. And events are callbacks: a logging handler is user code that runs in
the middle of an operation and may itself send requests.

What makes each part correct, in a line: a breaker counts exactly the outcomes
of the period they belong to, never loses its probe slot and always recovers; a
window forgets exactly what is old; a bulkhead never exceeds or loses its
permits; a budget is never overdrawn; retry makes at most `max_attempts`
attempts, paid for; a client closes every response it does not hand out.

## Modules

    RollingWindow ──────── RollingWindowUse ────── RollingWindowProofs ─── WindowLemmas
         │                                               │
    CircuitState ─┬─────── AsyncCircuitBreaker ─── AsyncCircuitBreakerProofs
                  │              │
                  │        CircuitContract ─────── AsyncStack ──┐
                  │              │                              │
                  └─────── CircuitBreaker ──────── CircuitBreakerProofs
                                                                │
    SlotPool ───────────── AsyncBulkhead ────────── AsyncBulkheadProofs

    ClientThreads ──┬───── DecoderCache ──┐
                    ├───── KeyedStates ───┼─────── SyncClient ──────────── SyncClientProofs
                    └───── Bulkhead ──────┘

    RetryBudget ────────── Retry ──────────────── RetryProofs ──────────── WindowLemmas

    CappedSend ─────────── CappedSendProofs

**RollingWindow** translates `_RollingWindow` as operators on a record, one per
method, returning the window the method leaves. Time is in ticks and a bucket is
`BucketWidth` ticks wide; the code divides floats and the model integers. The
slot `-inf` of a fresh window is `-BucketCount`, which has the same effect: the
first reading clears. **RollingWindowUse** calls the operators in every order,
with every pause, and keeps the plain history (how many outcomes at which clock
reading) that the window summarises.

**CircuitState** translates `_CircuitBreakerState`. The attributes are variables
of the same names (without the underscore) and each method a few named action
fragments: `Refuses`/`Reject`, `TurnsHalfOpen`/`HalfOpen` and `Admit` are the
three ways out of `admit` (the two exceptions and the return), `Record` is
`record` with `RecordClosed`, `RecordProbe`, `EnterOpen` and `Close` under it.
`_events` is always empty between steps, so what a method hands to its caller is
an operator (`RecordEvents` and so on). `classify` maps an exception to
success, failure or foreign; the model takes the three results as inputs. The
threshold of rate mode is a fraction `RateNum / RateDen`, compared by
multiplying out. `ResetTimeout` may be 0, as in the code.

**CircuitBreaker** is `_call_sync`, run by threads. A critical section is one
action, since everything it writes is read only under the lock, `closed_ticket`
excepted, which it writes at most once. The unlocked read
(`EnterClosed`/`EnterTripped`) is a step of its own, and so is the emission of
the events a thread has taken (`Announce`, `Report`): between these, other
threads do as they like. The reading of `closed_ticket` inside `admit`, under
the lock, may therefore find the circuit closed again (`AdmitLocked`).
`AnnounceRaises` is a handler that raises out of `_half_opened`; it is
enabled by `EmitMayRaise`. A handler that raises in `Report` changes only what
the caller gets and needs no action.

**AsyncCircuitBreaker** is `_call_async`, run by tasks. Everything up to the
`await`, events included, is one action, and so is everything after it.
Cancellation is the foreign outcome. Events do not raise here: what a handler
that raises out of `circuit.half_open` does to the slot is the same in both
breakers, and CircuitBreaker has it. The variable `log` is a history of what an
operator and the callers can see, and the properties of this module are about
the log, not about the counters the code keeps.

**CircuitContract** is the abstract specification: a circuit that knows *which*
callers' outcomes count. It has no tickets, epochs, locks or events. Both
breakers implement it: `members` are the callers holding the ticket `epoch`,
`probes` those holding `epoch + 1`.

**AsyncBulkhead** is `AsyncBulkhead.__call__` and the event-loop guard it begins
with. The guard is the one place where threads meet, each with its loop: the read
of `_loop` without the lock (`FindUnbound` if it finds none; then the task is
`binding`) and the second one under the lock (`CheckLoop`, which binds, or
`TurnAway`) are steps of their own, with the tasks of other loops in between. A
task that is `binding` holds up its own loop. A task that reads another loop is
refused at once, which changes nothing and is no action. The semaphore is asyncio's, which is not part of the
repository: it is modelled as CPython implements it, a counter and a queue of
waiters with a future each. A task in the queue is `waiting`, `granted` or
`dropped` as its future is pending, set or cancelled; the grant, the expiry of
the acquire timeout and a cancellation reach the future (or the task) at one
time and the task runs again at another, and everything may happen in between.
`why` is what has told the task to stop: it decides between
`BulkheadFullError` (`Refuse`) and a cancellation that passes through (`Abort`).
CPython 3.11 and later versions differ in how many waiters a resumed task wakes;
the model allows both. `ahead` is the one thing kept of the order in which the
loop runs what is ready: a timeout of 0 cannot expire before the tasks that were
already woken have run. Without it the model would refuse callers that no
program refuses. Expiry is otherwise at any time, which covers every
`acquire_timeout`; `HasTimeout` is whether there is one.

**SlotPool** is the abstract specification of a bulkhead: the callers inside,
those that wait, and which of these came before which. A task that is granted a
permit and has not run yet is already inside: its permit is spoken for. Nothing
in it speaks of futures, timers or what the counter says.

**AsyncStack** is the documented composition of the async middlewares
(`docs/resilience.md`): breaker, deadline, bulkhead, retry, phase decorators,
terminal. It extends AsyncBulkhead, whose actions are the steps of a call, and
adds around them what the other middlewares do with the results that pass. What
stands for each:

- The breaker is an instance of CircuitContract, which both breakers are proved
  to implement, without the clock: an OPEN circuit admits a probe at any time
  or refuses, and a refusal changes nothing and is no action. `Report` is the
  `finally` of `_call_async`, `Classify` its `classify`.
- `told` is what has told a task to stop, besides the acquire timeout: its
  deadline, or a cancellation, which has the last word. asyncio sends
  `CancelledError` for each of the three, and each context manager takes for its
  own only what it asked for, if nobody else asked (`Deadline`, and `Refuse`
  against `Abort` in AsyncBulkhead). A further request to stop is remembered
  only in `told`, which collapses repeated ones. A cancellation is taken to reach
  the await the task is suspended in; httpx2 lets it through.
- Retry is inside the bulkhead: all the attempts of a call and the sleeps between
  them are the place `calling`. They change nothing the outer middlewares see
  but the result, and what they do to the budget is the module Retry.
- The decorators are next to the terminal. `OnError`, `AfterResponse` and
  `BeforeRequest` are what they make of a result: a handler may let an exception
  go on, answer for it or raise another, and never sees a cancellation.
- Both guards against other loops are one: nothing gets to the bulkhead but past
  the breaker's guard. A call begins once it is past it (`Call`), since until then
  there is no await at which anything could reach the task.
- The upstream may stop answering (`Hang`), for good. Then deadlines, and
  cancellations, are all that ends a call. The decorators no more answer for it
  either: a handler that went on making up responses would rightly keep the
  circuit closed, and `HangOpens` is about the upstream alone.

**SyncClient** is what the threads that send through one `Client` share on the
way of a call: **DecoderCache**, **KeyedStates** and **Bulkhead**, each with its
own part of the state, over the program counters of **ClientThreads**. A call
with a `response_model` asks the decoder before the request is sent and again
when the response is there.

- DecoderCache is `decoders/_caching.py`: a dict without a lock, where each dict
  operation is a step of its own (`LookUp`, `Build`, `Clear`, `Store`). Models that
  cannot be hashed are keyed by their `repr`, which several may share; one that
  has not even that, or whose comparison with an entry raises (`CompareRaises`),
  is built and not cached. `CacheAssumption` is what `_key` promises:
  hashable models have keys of their own. Which models have no adapter is a
  constant; building one is the external libraries' work.
- KeyedStates is the map of a `KeyedCircuitBreaker`: `Get` reads without the lock,
  `Create` looks again with it held. A circuit is only its number here; what it
  does is CircuitBreaker's business, and `CircuitOpen` is any refusal of it.
- Bulkhead is the sync one. The semaphore is `threading.Semaphore`, as CPython
  has it: `release` takes the first waiter off the condition's list whether or
  not its time is up, and a newcomer may take the permit before that waiter has
  the lock again. A waiter that finds none then waits anew for the rest of its
  time. `late` says that its time is up.

**RetryBudget** translates `RetryBudget` as actions on its attributes. `Deposit`,
`Withdraw` and `RefuseRetry` are what the methods do under the lock, given the
slot that was read before it. A bucket is one tick; the model keeps slots where
the code keeps readings, and leaves out `_index`, which is the slot modulo
`BUCKET_COUNT` whenever it is used. `percent_can_retry` is `PctNum / PctDen`, and
`Ceiling` is exact: the code rounds up a product of floats, which may be a hair
above a whole number (`100 * 0.07`) and then allows one retry more.

**Retry** is the attempt loop of `Retry` and `AsyncRetry` and `decide`. The
reading of the clock and the critical section are two steps, with the other
callers in between. What the upstream answers is free: an attempt may end the
call (`Finish`) or fail in a way that `decide` takes to the budget (`Fail`),
if the request may be repeated at all and attempts are left. Delays have no
length: a sleeping caller wakes, or is interrupted, at any time, so the delay
that `_backoff` computes and a `Retry-After` below `max_delay` are covered, and
one above it is a `Finish`. `deposited`, `granted`, `newest`, `resent` and
`wasted` are histories that the properties compare the budget with.

**CappedSend** is one request of a client with `max_response_body_bytes`: `send`
with its terminal and decoding, or `stream`. With a cap the client drives the
redirects and the auth flow itself (`_send_redirect_hops`, `_send_capped`), each
response opened as a stream; without one httpx2 does all of that, and there is
nothing to model. The sync and the async code are mirrors of each other; the
model is both, cancellation being one of the errors that may arrive wherever the
code sends, reads a chunk or asks the auth. A response is described by what the
code looks at: the size of its decoded body, the `Content-Length` (which for an
encoded body says nothing about that size, and for a HEAD says something about a
body that is not there), whether it is a redirect and whether its status is an
error. `open` are the responses that hold a connection. httpx2 itself, the
server and the auth are external: any response may arrive, the auth may ask
again for ever, and somebody may close the client at any time. The middleware
chain is not part of this module: what a retry does is another such request.

`MC*` modules add to a module what TLC needs: symmetry sets, the assignment of
tasks to loops, the keys of the models. MCAsyncBulkhead also observes which
queued tasks found a slot free.

## Runs

| Run | Question | Bounds |
|---|---|---|
| `rolling_window` | Does the ring agree with the history it summarises? | 3 buckets of 2 ticks, 14 readings, 3 outcomes between clears |
| `sync_breaker` | Three threads: slot, events, recovery, contract | thresholds 2 and 2, timeout 2, at most 4 bad outcomes |
| `raising_handler` | What survives a handler that raises? | 3 threads, thresholds 2 and 1 |
| `async_classic` | Does the log determine the streak? Are refusals accounted for? | 2 tasks, 6 calls, thresholds 2 and 1 |
| `async_rate` | Does the log determine the rate? | 2 tasks, 5 calls, 1/2 of at least 2 calls, 2 buckets |
| `probe_leak` | Is the probe slot safe from a raising handler? No. | 2 threads |
| `opened_event` | Is `circuit.opened` only for CLOSED to OPEN, as the docs say? No. | 2 tasks, 4 calls |
| `async_stack` | Breaker, deadline and bulkhead together: is anything lost or taken for something else when deadlines, acquire timeouts, cancellations and grants meet, and does a hanging upstream open the circuit? | 3 tasks of one loop, 1 of another, 2 permits, thresholds 2 and 2 |
| `shared_client` | What do threads do to each other through the cache, the circuits and the sync bulkhead of one client? | 3 threads, 2 of them typed; 4 models, two with one `repr` and one without a key; 1 cache entry, 2 host keys, 1 permit, a timeout |
| `free_slot` | Is a call that finds a slot free always admitted? No. | the bulkhead alone, tasks and permits as in `async_stack` |
| `retry` | Is the budget exact and never overdrawn, across threads? | 2 callers, 4 calls of at most 3 attempts, 2 buckets, 5 slots, a ratio of 1/2 |
| `capped_send` | Under a cap, what is closed, read, refused and sent, on every path? | 2 redirects, a cap of 2, bodies of up to 4 bytes in chunks of 1 or 2 |

Why the bounds are enough. Two buckets are the least that can wrap and expire
separately; three with two ticks each also tell a bucket from a reading. A clock
that runs for 13 ticks passes two whole windows, so pauses shorter than, equal to
and longer than the window all occur at every phase. Three threads are the
least at which one holds the probe slot, one is refused and one is left over
from before the outage; two successes to close make two threads probe in one
half-open period. Six calls fit an outage, a re-opening, a recovery and a
second outage's beginning. The clock runs only where the code reads it: not while a
classic circuit is closed, and at most `Horizon` ticks past an opening, beyond
the reset timeout and the event interval. `MaxBad` bounds what the upstream
does, `MaxRejections` the refusals of one outage, `MaxCalls` the calls of the
async runs. The bulkhead, the stack
around it and the sync client have no bound on time or on calls: their state is
finite. With two permits and three tasks of a loop one
can be granted a permit while another gives one up and a third arrives; four
tasks of one loop with one, two and three permits showed nothing else. In the
sync client a cache of one entry is cleared by every second model, and two typed
threads over four models, two of which share a key, are enough for each pair of
look-up, clear and store to interleave with another; with one permit and three
threads one calls, one waits and one overtakes. Keys and circuits are created at
most once each. For the
budget, five slots are two windows and one more, so a reading can be older than
the window of the operation that it ends up in; four calls pay for two retries,
and the ceiling is rounded up at odd totals. Two redirects let redirects and auth
requests alternate before and after each other; a cap of 2 with bodies of up to
4 has bodies below, at and above it, and one that a chunk overruns without
ending it. A call has at most six requests then, so nothing else is bounded.

What the properties say:

- `TotalsMatchHistory`, `ForgetsByAge`: a reading of the window is exactly the
  outcomes of the live slots; in clock time, nothing a whole window old is
  counted, everything younger than the window less a bucket is.
- `ProbeSlotOwned`: the slot is taken exactly while one call that can free it
  is on its way.
- `TicketInv`: a ticket number alone tells `record` whose outcome this is.
- `EveryTransitionReported`: each transition is in exactly one thread's hands
  or emitted, though emission happens without the lock. Since a thread keeps what
  it has to emit to itself, what this shows is that no path of `admit` or `record`
  makes a transition without its event.
- `Recovery`: with an upstream that has no more than a bounded number of bad
  answers left, the circuit ends up closed for good.
- `LifecycleInOrder`: the lifecycle events, read in order, always tell the
  state, however calls overlap. That a transition and its event are one step of the
  loop is not shown but read off the code, which has no `await` between them.
- `TripsOnStreak`, `TripsOnRate`: the circuit opens after exactly those
  outcomes that complete a streak, or a rate, of outcomes whose calls began and
  ended in the same closed period. Late answers, cancellations and refusals
  count for nothing.
- `RejectionsAccounted`, `RejectedEventsSpaced`: every refusal of an outage is
  in the log as an event, in the `suppressed` of a later one or waiting for one,
  across re-openings; `circuit.closed` has the total; events are an interval
  apart and the first refusal is always one.
- `ImplementsContract`: the refinement described above.
- `PermitsConserved`: a permit is in the counter, in a call or under way to a
  waiter; no timeout and no cancellation at the moment of the grant loses or
  doubles one.
- `NoStrandedWaiter`: nobody sleeps beside a free permit with no one about to
  wake him.
- `OneLoop`: tasks of one loop only ever touch the semaphore, though several
  loops may have seen, without the lock, that there is none yet.
- `ImplementsPool`: at most `max_concurrent` inside, first come first served.
- `BreakerKnowsCalls`: the breaker counts on no result that will not come: each
  caller it knows, member or probe, is in its call (not the other way round: one
  left over from an earlier period is in a call and counts no more). A call
  it has admitted, the probe above all, reports to it even if the bulkhead
  refuses it, or it expires or is cancelled in the queue.
- `CausesToldApart`: when a call ends, the circuit has counted a failure if its
  deadline expired, and nothing if it was cancelled from outside or refused by
  the bulkhead, whatever else told it to stop at the same time.
- `HangOpens`: an upstream that hangs opens the circuit, if calls go on running
  into their deadlines, however many are cancelled or refused in between.
- `EveryCallEnds` (of both clients): every call ends; in the sync one by the
  timeout if nothing else, though newcomers overtake a waiter again and again.
- `RightAdapter`: a response is decoded with the adapter of its own model, also if
  another thread has just stored or thrown out one under the same key.
- `CacheBounded`: the cache exceeds its bound by at most one entry for each
  other thread that decodes, the entries about to be stored included. With a bound
  of one and two such threads there are two entries if both miss and then store.
- `OneCircuitPerKey`: threads that meet a new key together get one circuit, and no
  circuit serves two keys.
- `PermitsInUse`: a permit of the sync bulkhead is in the counter or with a call,
  and while anybody is on the list each one in the counter has a thread under way
  to it, so that a notification is not lost on a waiter whose time is up.
- `NoRetryStorm`: in any window, all callers together are granted no more retries
  than the deposits of that window and the one before pay for. Two windows,
  because the first retry of a window may rest on deposits as old as a window.
- `RetriesPaid`: each attempt but the first of a call has had a token of its own.
- `RefusedOnlyWhenSpent`: a refusal is right about the live window.
- `TypeOK` of Retry also says that a request that must not be repeated is on its
  first attempt.
- `HoldsOneConnection`: a response is closed before the next request is sent and
  before the call ends, whatever fails on the way. Otherwise a pool of one
  connection would be waited for for ever, or run dry.
- `BodiesWhole`, `RefusedOnlyWhenLarge`: whoever is handed a body has all of it,
  within the cap; what is refused is larger than the cap.
- `SendsBounded`: redirects and auth requests count together, so that at most
  `(n + 1)(n + 2) / 2` requests leave for `max_redirects = n`, even if the auth
  never has enough.

Three runs end in a violation. `opened_event`: `docs/resilience.md:203` says that
`circuit.opened` means CLOSED to OPEN, but a failed probe emits it too.
`probe_leak`: `circuit.half_open` is emitted after the slot is taken and before
the `try` that would free it. `_emit_event` suppresses what the trace API
raises, with the comment that observability must never break the request path,
but not what a logging handler raises. The module's docstring allows a
handler to send requests through the same breaker; such a request is refused
with `CircuitOpenError`, and if the handler lets that out, the slot is never
freed and the circuit refuses everything from then on. `free_slot`: with an
`acquire_timeout` of 0 the comment at `resilience/bulkhead.py:159-161` takes a
call to be refused only if no slot is free, and says that this is the contract
of `AsyncBulkhead`. But `asyncio.timeout` around `acquire()` cancels a call that
has to queue, and a call has to queue while anybody else is in the queue, be it
only a waiter that has been granted its permit and has not run yet: another
permit may be free, and the call is refused all the same. In all violation runs
the rest of the model is the one of the passing runs. `raising_handler` does
not check for deadlock: after a leak the circuit refuses for good and the run
ends when the bound on refusals is reached.

## Fairness

`FairSpec` of CircuitBreaker assumes weak fairness of every thread's step and of
the clock. A thread that has been admitted goes on: the interpreter schedules
it, the lock is only ever held for a few statements, and an upstream call ends
because the transport has timeouts. Threads that are idle start a new call:
that is traffic, not scheduling, and recovery needs it, because nothing but a
request moves an open circuit. The clock runs. Which outcome a call has is not
subject to fairness; that there are at most `MaxBad` bad ones is what "the
upstream has recovered" means.

`StackFairness` of AsyncStack assumes that the loop runs a task that can run:
granted, told to stop, or answered by an upstream that has not hung (the
transport has timeouts of its own, and the attempts of a call are bounded). When
the upstream hangs it assumes that deadlines expire. It assumes nothing of
acquire timeouts and cancellations, and nothing about new calls: a waiter is
served because others leave. `HangOpens` has a premise instead, that calls go on
and run into their deadlines, since a circuit nobody asks does not open.

`Fairness` of SyncClient assumes that a thread in a call runs, that upstream
calls end, and that timeouts expire, the last for each waiting thread on its own.
A waiter that is woken again and again for nothing is therefore refused in the
end. Without a timeout it may starve, because `threading.Semaphore` is not fair:
the run has `HasTimeout = TRUE`.

Retry and CappedSend state no liveness. Retry's loop is bounded by its `TypeOK`,
which keeps `attempt` below `MaxAttempts`, CappedSend's by `SendsBounded`.

## Proofs

Each theorem holds for every value of the constants that the module's `ASSUME`s
allow: any number of threads or tasks, any thresholds, timeouts, permits, caps,
any number and width of buckets. These assumptions are what the constructors
check (positive thresholds and permits, a window of at least one bucket) and
that the threads, and the tasks of the bulkhead, are finitely many; the tasks of
the breaker and the callers of a budget need not even be. Each proof has the same
shape: an invariant that is inductive, one lemma per action, and a last step that
combines them. TLC checks the properties on the instances above.

Every invariant that a passing run checks is the subject of a theorem, and so
are the action properties and the refinements.

**WindowLemmas** has what the two rings of buckets need and nothing of this
system: sums of a function over a finite set (`SumOfMore`, `SumOfUnion`,
`SumsEqual`), and rings. A ring of `n` buckets *mirrors* a count for every slot
up to `last` if the bucket `s % n` holds the count of slot `s`, for the `n` slots
that end at `last`. Sweeping out the slots between `last` and `current` makes it
mirror the same count up to `current`; writing into the last slot's bucket adds
to that slot's count; the sum of the ring is the sum of the counts of those slots.
The sums are `SumFunctionOnSet` of the community modules, a fold, for which
no induction theorem could be cited; they are proved by induction on the
cardinality of the set, once, in `SetsByElements`: a property of sets given as a
*set* of sets needs no operator parameter.

**RollingWindow** (module RollingWindowProofs):

- `WindowTotalsExact`, `WindowForgetsByAge`: `TotalsMatchHistory`, `ForgetsByAge`.
  `Counts` says that the two rings mirror tallies by slot and that the running
  totals are the rings' sums; each operator preserves it (`AdvanceMoves`,
  `RecordCounts`, `ClearCounts`), whatever uses the window. The invariant adds
  for RollingWindowUse that the tallies are those of its history, and that nothing
  was recorded later than now.

**CircuitBreaker**, in both modes (module CircuitBreakerProofs):

- `TypeCorrect`: `Spec => []TypeOK`. Besides the types, the two streaks stay
  below their thresholds.
- `TicketsIdentifyCallers`: `Spec => []TicketInv`. `ProbeSlotOwned` is not
  inductive: it says nothing about tickets of other periods, nor about which
  thread may still call `record`. `TicketInv` adds that `closed_ticket` is the
  epoch while CLOSED, that a thread has a ticket exactly between admission and
  record, that no ticket is above `epoch + 1`, and that one equal to the epoch or
  its successor implies the state it was issued in. The argument is then that
  a transition moves the epoch by two, past every ticket handed out
  (`MoveLeavesTicketsBehind`).
- `ProbeSlotNeverLeaks`: if `EmitMayRaise` is false, `Spec => []ProbeSlotOwned`.
  The extra conjunct is `NoLeak`: a taken slot has a holder. The assumption is
  necessary, as `probe_leak` shows.
- `TransitionsReported`: `Spec => []EveryTransitionReported`. The epoch, half of
  which counts the transitions, is compared with a sum over the threads of the
  events each has still to emit. Inductive together with `NothingPending`: a
  thread has no events in hand unless it is about to emit them, so that a critical
  section never overwrites any.
- `BreakerKeepsContract`: `Spec => ImplementsContract`. Every action maps to
  an action of the contract or to a stuttering step; it uses `TypeOK` and
  `TicketInv` but not `NoLeak`, so it holds even if handlers raise: a leaked
  slot is for the contract a probe that was inconclusive and no probe after it.

**AsyncCircuitBreaker**:

- `AsyncBreakerKeepsContract`: the same refinement without a lock. The invariant
  (`Inv`) is simpler, since a task has no step between its admission and the
  await: the slot is taken exactly while a task holds the probe's ticket. The log
  plays no part in it.
- `AsyncTypes`, `AsyncLifecycleInOrder`, `AsyncRejectedEventsSpaced`,
  `AsyncRejectionsAccounted`, `AsyncTripsOnStreak`, `AsyncTripsOnRate`: the
  invariants of `async_classic` and `async_rate`. They are about a log that grows
  for as long as the program runs, so each needs to be told what the fields of the
  circuit know of the log. That is `LogInv`, whose parts are:
  - `OrderedAs`: the last lifecycle event is the state.
  - `SpacedAs`, `AccountedAs`: what the three rejection counters say of the
    outage that the log ends in, and what has been settled for earlier ones.
  - `BeganInv`: a call came after the last transition in the log exactly if its
    ticket is of the current epoch. This is where tickets, which the code
    compares, meet evidence, which the log shows (`SaidEvidence`).
  - `StreakInv`: `consecutive_failures` is the length of the streak the log ends
    in. `RateInv`: the window counts the log's evidence by slot, by
    RollingWindowProofs, instantiated for it. Each implies that `record` trips
    exactly when the log says so (`TripsWhenDue`), from which `TripsInv` is
    preserved: the circuit opened after each entry it should have, and no other.

  Every part is an operator of a log, with a lemma for each kind of entry that may
  be appended, because a step may append two: an outcome and then the event it
  caused, a rejected event and then the refusal.

**AsyncBulkhead** (module AsyncBulkheadProofs):

- `BulkheadTypeCorrect`, `PermitsNeverLost`, `NobodyStranded`, `OneLoopOnly`:
  `TypeOK`, `PermitsConserved`, `NoStrandedWaiter`, `OneLoop`. The second and third
  need each other, and that the queue holds each waiter exactly once, and exactly the
  tasks whose place says that they wait.
- `BulkheadIsPool`: `Spec => ImplementsPool`. The pairs of `before` are the
  positions in the queue; a departure from the queue leaves the order of the rest
  as it was, and the first pending futures are woken first (`WokenInOrder`).

**AsyncStack** (in the same module, since it is built on the bulkhead's theorems):

- `StackRunsBulkhead`: every step of the stack is a step of the bulkhead or
  leaves it alone. Whatever is proved of the bulkhead holds inside the stack, so
  `StackKeepsPermits`.
- `StackTypeCorrect`, `NoResultIsLost` (`BreakerKnowsCalls`), `CausesAreToldApart`
  (`CausesToldApart`, which is about what the circuit counts and not about what the
  caller gets).
  The invariant adds to the types who counts in which phase (`Owners`), and that
  what a waiting task has been told is what its place in the queue shows
  (`ToldInv`).

**Retry** (module RetryProofs):

- `RetryTypeCorrect`, `TotalsAreTheWindow`, `RefusalsJustified`, `EveryRetryPaid`,
  `StormsExcluded`: `TypeOK`, `TotalsMatchHistory`, `RefusedOnlyWhenSpent`,
  `RetriesPaid`, `NoRetryStorm`. One invariant has all of them. `BudgetInv` says
  that the rings mirror the histories, so that the running totals the code decides
  on are those of the window; `CallerInv` that whoever is at the budget has an
  attempt left. `NoRetryStorm` is preserved by a grant because the totals are
  exact at that moment and a grant is charged to the newest slot, even if its
  caller read the clock earlier: a window that holds the new grant holds no other
  grants than those of the window that ends with it, and may be paid for by all
  of that window's deposits (`OneMoreToken`).

**SyncClient**:

- `ClientTypeCorrect`, `CircuitsAreShared`, `AdaptersAreRight`, `CacheStaysSmall`,
  `PermitsAreUsed`: the five invariants of the run. The cache needs that each
  entry is the adapter of a model with its key; its bound, that a thread about to
  store has left room for one entry or been overtaken by others that decode. The
  bulkhead's notifications are an inequality between the counter and the threads
  that have been taken off the list and not run yet.

**CappedSend**:

- `SendTypeCorrect`, `ResponsesAreClosed`, `BodiesAreWhole`, `OnlyLargeIsRefused`:
  `TypeOK`, `HoldsOneConnection`, `BodiesWhole`, `RefusedOnlyWhenLarge`. Inductive
  together with what each place of the call implies for the response in hand
  (`PlaceInv`).
- `RequestsAreBounded`: `SendsBounded`. The invariant is a potential: after
  `rounds` of the auth and `hops` in all, at most `Allowance` / 2 requests have
  left, `rounds (2n + 3 - rounds) / 2 + (hops - rounds)`. It is quadratic because
  each round of the auth starts a fresh chain of redirects, one shorter than the
  last.

Only model-checked: the liveness properties (`Recovery`, `HangOpens`, both
`EveryCallEnds`), which need ENABLED and are out of this prover's reach. That a
violation is possible is shown by the three runs that end in one, and not proved.

## Not modelled, and what is left

Of the parts that keep state, nothing is without a module. What could still be
proved: that the sync breaker's evidence, which its threads do not log in the
order in which they record it, is what it opens on; and that CircuitContract by
itself never has two probes or an outcome of an earlier period.

Left out, and why:

- The verb methods, the configuration and the construction of a client: they
  only forward. Without a cap, redirects and auth are httpx2's.
- A request against a closed client: CappedSend closes the client at every point
  of a call and maps the `RuntimeError`, but that the mapping asks `is_closed` is
  its own guard, so there is no property of it (`client.py:489`).
- The order in which two threads emit the events of successive transitions
  (`circuit_breaker.py:479`): emission is outside the lock and the docs promise no
  order. For tasks `LifecycleInOrder` shows that it is kept.
- A `KeyboardInterrupt` between `admit` and the `try` (`circuit_breaker.py:466`):
  the window is that of `AnnounceRaises`, between two bytecodes.
- A sync bulkhead without a timeout, as far as liveness goes: see above.
- The sync middlewares composed as in AsyncStack: the same order without
  cancellation and without a deadline. SyncClient composes what they share.
- The exception classes, URL redaction, the wording of messages, the parsing of
  `Retry-After` dates, and decoding itself, which is the external libraries'.
