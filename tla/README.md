# Verification of namespace-lister

TLA+ models of namespace-lister, checked with TLC on small instances and, where
the prover reaches, proved with TLAPS for every instance. `PROJECT.json` maps each
definition to the lines it models.

## The system

namespace-lister answers `GET /api/v1/namespaces` with the namespaces a user may
`get`. Informers keep namespaces and RBAC objects in memory; a *synch* computes
from them which subject may access which namespace and replaces the published
data; requests only read the published data.

| Part | State | Operations | Module |
|---|---|---|---|
| synchronized access cache | request channel of capacity 1, `synchronizing` flag, data pointer | event handlers, timer, worker, `Synch` (by the worker, and once by main) | `SynchronizedAccessCache` |
| resource cache, transforms | five informer stores | watch events, selectors, trimming | `ResourceCache` |
| RBAC retriever, access calculation | the locals of `synch` and `AllowedSubjects` | lookups, one store at a time | `AccessCalculation`, with a history in `CalculationWindow` |
| list/restock cache | atomic pointer to a map | `List`, `Restock` | `AtomicListRestockCache`, implementing `AccessListing`; data in `AccessVersions` |
| namespace calculation | label maps, shared with the informer | duplicate removal, visibility and access labels | `NamespaceCalculation` |
| access cache metrics | gauges and counters | `CollectSynchMetrics`, `CollectRequestMetrics` | `AccessCacheMetrics`, on top of `SynchronizedAccessCache` |
| process | startup step, context, servers | startup, signal, shutdown, exit | `ProcessLifecycle` |
| request pipeline | per-request context | authentication, subjects of a user, listing, response | `RequestPipeline` |
| HTTP metrics middleware | in-flight gauge, counter by status | the layers around the handler | `APIMetrics`, on top of `RequestPipeline` |
| logging, environment, test helpers | | | not modelled |

What makes it hard: a synch reads five stores that change under it, in no common
order; events coalesce in a channel of one; two goroutines call `Synch` at
startup; a synch can time out half-way; published namespaces share maps with the
informer; main and the shutdown goroutine race at the end. `PROJECT.json` lists
these hazards by line.

## The modules

**SynchronizedAccessCache.** `pc` is the control state of the two callers of
`Synch`. `nsStore` and `allowed` stand for the informer stores: the namespaces,
and the subjects `AllowedSubjects` would yield now. A store changes first and its
handler runs later (`pending`). Each iteration of the loop reads `allowed` anew.
`dropped` and `swallowed` are histories. The code registers the kinds in a fixed
order; the model allows any. A `List` of the informer cache fails only with its
context.

**ResourceCache** holds the cluster, a queue of watch events per kind, and the
stores. Events of one kind arrive in order, those of different kinds in any. Roles
are trimmed to literal `get` rules on namespaces; a role without one becomes nil.
A comment in `synch` (lines 128-129) takes such a role to be evicted, which is up
to the informer: `DeliverNil` allows both, the eviction with its notification
included, and `kept` records an old role that stayed. `PublishedIsGranted` says
nothing against such a role; that part of the hazard no property covers. A role
in a store always has rules, and only trimmed ones (`TypeOK` of
`AccessCalculation`). Wildcards are dropped on purpose
(`transformfuncs_test.go:259,263`).

**AccessCalculation** replaces the single read of `allowed` by what the code
does: per namespace, `AllowedSubjects` (external) lists the cluster role bindings,
fetches the role of each, lists the role bindings of the namespace, and fetches
theirs. Every read is a step, and informers move between any two. A role that is
not found is an error that `synch` drops. This is the worker of a process that
serves; startup is in `SynchronizedAccessCache`.

**CalculationWindow** adds the history of what the stores held since the synch
began. A synch may publish a pair that was never granted at one instant: a binding
read before it was deleted and a role read after it was created. What holds
instead is `RestockIsRegular`.

**AtomicListRestockCache** steps through `List` key by key. `AccessListing`
promises that a `List` answers in one instant from one version; it may fail only
over several keys and before the first `Restock`. The refinement mapping decides
an answer when the pointer is loaded. Slices are sets: Go's map order leaves the
order of a multi-key result open.

**NamespaceCalculation** keeps label maps in a heap, so that sharing shows.
Answers of `AllowedSubjects` are arbitrary sequences, duplicates included.
`SortFunc` is some rearrangement in the order of the comparison, `CompactFunc`
keeps the positions that differ from the one before. `CalculateNamespace` is an
iteration of the loop up to its inner loop; each iteration of that is an
`AddToSubject` and `rest` holds those left, so informer events fall between any
two. The context is looked at only between namespaces. Whether a namespace has
labels is fixed at the start; maps no one can reach are reset, so that two per
namespace are enough. Of the annotations only the subject's name is kept.

**AccessCacheMetrics** sets the gauges in the step in which `Synch` returns, and
counts synchs by status and requests by whether they were queued. A request is
counted after its send, in a step of its own, when the worker may already have
served it. The counters of the two triggers are summed.

**ProcessLifecycle** is `run`, `APIServer.Start` and the start of the resource
cache. Errors of the startup steps are nondeterministic. The start of the shutdown
goroutine, the listening, the return of `run` and its deferred cancel are steps of
their own, and so are the return of the metrics server and the cancel deferred
there, so that signals and the other goroutines fall between any two. A cancel
also ends the relaying of signals (`notify`): the next one kills the process. As
in `net/http`, a server that was shut down before it listens does not listen, and
open connections take requests until `Shutdown` has found them idle. The goroutine
of the resource cache may panic whenever it runs, except between a startup error
and the exit that follows it. `told` and `exit` are histories.

**RequestPipeline** takes requests from arrival to response. Names are sequences
of their parts between colons, so that `parseUsername` is what the code does. A
listing is one step over the version published at that instant, which
`ListIsAtomic` justifies. The handler's error branches cannot be reached with
this lister and are left out.

**APIMetrics** puts the metrics layers around it. As in `promhttp`, the decrement
of the gauge is deferred and the increment of the counter is not.

External, modelled from their use: the API server and informers, `AllowedSubjects`,
the token review, `net/http`, `os/signal`, `promhttp`.
Operators introduced by a comment beginning with "Mutant" are faulty variants
that the named properties detect; no specification uses them.

## Runs

Passing:

| Config | Shows |
|---|---|
| SynchSafety | one synch at a time; nothing served unstocked; no refusal while serving; no event lost unless a synch was refused or gave up |
| SynchLiveness | the timer makes the cache converge |
| AccessCalculation | an idle cache holds exactly what the cluster grants, except through a role the store kept; what a synch publishes lies between what was there all along and ever while it ran; the timer makes the cache converge after a synch that gave up |
| ListRestock | `List` implements the abstract listing |
| Calculation | published labels are those of the publishing synch |
| Metrics | between synchs the gauges describe the published data; requests, synchs and refusals balance |
| Pipeline | each request gets its own caller's access from one version, labelled as its own where it has any; 401 exactly without a caller; gauge and counter account for every request, however it ends |
| Lifecycle | a cancelled context, or the end of the metrics server, ends the process from every step of startup and service; the server is closed only after a signal or a failure of the metrics server, and until then a signal finds the context |

Disagreements with what the repository says (details under `findings`):

| Config | Shows |
|---|---|
| SynchEveryEvent | an event during main's first synch may update nothing until the next event or resync |
| SynchErrors | a worker's synch errors other than "already running" reach no handler |
| MetricsPairs | the pairs gauge of a kind that left the cache is stale |
| LifecycleShutdown | main exits while `Shutdown` waits for requests |

Four behaviours of the models that no run is mainly about. `Refuse("main")`: handlers
are registered and the worker started before main calls `Synch`, so the worker
may synchronize first; main's call is then refused and the process exits.
`Panic`: `listAll`, unlike `list`, does not test the pointer for nil, so a `List`
over several keys on a cache never stocked panics; `ServedCacheIsStocked` shows
that the program never lists that early. Namespaces with nil labels (`bare`):
`setVisibilityVirtualLabel` writes to a map it then drops, so they are published
without the visibility label; clusters that label every namespace do not show it.
`Abort`: `parseUsername` panics on a service account name without its last part,
and `net/http` recovers the request; `MetricsAccountForRequests` shows that the
layers around it stay in order.

### Bounds

Two kinds stand for five: only "Namespace or RBAC" matters to a synch.
`MaxReplay` is 1 wherever the core is checked: a non-empty namespace store always
replays, so with 0 only empty stores would get past registration. Two changes let
a store change before and during a synch; two namespaces let a change fall
between two iterations. SynchLiveness has one namespace. AccessCalculation has an
object of each kind (two namespaces, one outside the selector), rules that match,
that match by resource name only, that hold a wildcard and that do not match, a
starting cluster one change away from access, two changes, so that a binding and
its role both change under one synch, and any number of timeouts. Metrics has one
namespace, three subjects of two group-kinds, two requests, so that one is skipped
or waits while another is served, one store change and no timeout
(`MaxFailures = 0`): cancellation interrupts its synchs. SynchSafety and
SynchLiveness have one timeout. ListRestock has one reader, since readers share
nothing they write, and three keys with repetitions. Pipeline has two concurrent
requests, one namespace, access data for a service account and a group, and a user
name of each shape. Calculation has two namespaces, two subjects of different
kinds and answers of up to three, so that duplicates occur next to each other and
apart, and any number of synchs and informer events. Lifecycle has up to three requests in
flight. Namespaces and, where they are alike, subjects are symmetric
in safety runs; liveness runs use no symmetry.

### Fairness

SynchLiveness: goroutines that can run do, and the timer fires. Store changes,
timeouts, failures and cancellation are never forced. AccessCalculation: watches
deliver, informers call the handlers, the timer fires, the worker runs;
convergence is claimed for behaviours in which synchs at last stop timing out.
Lifecycle: the steps of `run`, the shutdown goroutine and the deferred cancel of
the metrics goroutine are fair; `Synch` is bounded by its timeout;
`WaitForCacheSync` is sure to return only when the context is done; no request is
assumed to finish.

## Proofs

Assumptions: those named in the modules (bounds are naturals, `Namespace` is a
kind and `timer` is not, the nil pointer is not a version, objects are of the kind
of their key, a user may have no groups, subjects are users, groups or service
accounts and the comparison tells any two apart, a nil map is none of the maps).
No size of any set is assumed; where a
proof counts, the finiteness of what is counted is part of the invariant.

- `SynchronizedAccessCacheProofs`: type correctness, then `IInv`, the conjunction
  of `TypeOK`, `RegisterInv`, `StockedInv`, `SynchMutualExclusion` and
  `NoLostEvent`. `FreshUnlessDropped` is not inductive: it speaks of quiet moments
  only. `NoLostEvent` says at each instant where a change is: queued, in a synch
  that still matches the stores, or published. From `IInv` follow mutual
  exclusion, stocked service, no refusal while serving, and freshness.
- `AccessCalculationProofs`: `IInv` is `TypeOK`, `Tracking` and `CalculationInv`.
  `Tracking`: what a store will hold once its queue is empty is the trimmed object
  of the cluster, or an old one in `kept`. `CalculationInv`: unless a synch is
  still to come, what is published, filled in or half answered is what the stores
  give for the part already visited; `PublishedIsGranted` alone says nothing of a
  running synch. `TrimKeepsLiteralGrants` links trimmed rules to the cluster's.
  For `CalculationWindow`: the window brackets the stores; bindings in hand, the
  answer and the data being filled hold nothing more than its upper bound and
  nothing less than its lower one for what was visited; hence `RestockIsRegular`.
- `NamespaceCalculationProofs`: `removeDuplicateSubjects` returns the same
  subjects, each once and in order, for every list (`RemovesDuplicates`). A sorted
  rearrangement exists because sending each position to the number of positions
  that come at or before it in a stable order is a bijection; the k-th kept
  position exists and is unique by counting the kept ones below it. No induction
  over lists is needed. `NamespaceCalculationSteps`, given that result, has the
  inductive invariant: `DataInv`, the published data is complete, each entry has a
  copy of its own, and those copies carry the bit that the running synch does not
  write; `LoopInv`, every answer so far is in `c` or in `rest` and never in both;
  `RestInv`, the iterations left are for one namespace, whose map already has the
  visibility label of its answer, and for different subjects. The four properties
  of the run follow for any number of namespaces and subjects and answers of any
  length.
- `ProcessLifecycleProofs`: type correctness and `StopsOnlyWhenTold`, which speaks
  of the two ends of a chain of goroutines only. `CauseInv` has its links: a done
  context has been cancelled by someone who was told or by a `run` that returned,
  the metrics server ends only so, and signals are relayed until then.
  `ServerInv`: `Shutdown` is called with a done context only, `run` has an error
  once it returns and not before, and one that failed at startup has no server.
- `AccessCacheMetricsProofs`: on top of the core's `IInv`, the balance is itself
  inductive given the types and the finite set of requests in hand. For the gauges
  `GaugeInv` adds that between `Restock` and the metrics the caller's `tmp` is the
  published data.
- `APIMetricsProofs`: `ServedInv` says at each state of a request whose context
  it carries; `LayersInv` and `AccountInv` tie the layers to the control state and
  the counts to the layers. That a response keeps the first entry per namespace
  rests on a least position, from well-foundedness of the naturals.
- `AtomicListRestockCacheProofs`: type correctness, a loop invariant (the map
  holds the answer for the keys visited), and the refinement, step by step.

Every invariant and action property of the passing runs is proved, and the
refinement of `AccessListing`. Model-checked only: liveness (`Converges`,
`AccessConverges`, `TerminatesOnceDone`, `MetricsServerTakesProcessDown`), which is
out of the prover's reach.

## Not modelled

- The logging middleware and `log.go`: they pass requests through and keep no
  state; nothing reads what they write.
- Durations: the histograms, the resync period and the timeout as numbers. The
  timer may tick and a synch may time out at any instant, which covers every
  positive value; `GetValidResyncPeriodFromEnvOrZero` and `Apply` admit no other.
- `env.go`, constants, TLS and scheme setup: read once before anything runs.
  Their failures are the startup failures of `ProcessLifecycle`.
- `metricsutil` and the acceptance tests: test code.
- The whole process as one state space. The modules meet at interfaces checked on
  both sides: one synch at a time, and a stocked cache
  (`SynchronizedAccessCache`), are what `AccessCalculation` and `RequestPipeline`
  start from; `ListIsAtomic` is why a listing is one step there.
