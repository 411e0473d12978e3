# Verification of lsp-trace

lsp-trace asks language servers for call hierarchies and publishes the answers
as verifiable documents. Most of the repository computes one immutable document
from others. The parts in which things happen concurrently, fail half-way and
have to be recovered are few: the managed session (a language-server child that
several callers share), the streams to such a child, the connection of the
one-shot command, the acquisition that spends a budget on a server's answers, the
publication of the result on a disk, and the server through which clients ask for
all this. This directory models those parts, checks them with TLC and proves what
matters most with TLAPS.

Contents: [Inventory](#inventory) · [Modules](#modules) · [Runs](#runs) ·
[Bounds](#bounds) · [Fairness](#fairness) · [Proofs](#proofs) ·
[Departures from the documents](#departures-from-the-documents) ·
[Not modelled](#not-modelled) · [Possible extensions](#possible-extensions)

## Inventory

| Component | State it keeps | Operations | What is hard |
|---|---|---|---|
| Session algebra: lifecycle intents (`internal/session/manager.go`, `lifecycle.go`) | per session: generation, public state, reaped, the intent in progress, history of finished intents; per intent: callers and their answers | `RegisterLifecycle`, `Lifecycle`, `CompleteLifecycleObserved`, `DetachLifecycleCaller`, `ObserveInitialization`, `ObservePoison` | callers join and leave an intent while it completes; late handshakes and poison reports; replay out of a bounded history |
| Session algebra: admission (`internal/session/manager.go`) | live set, reservations, quarantine, waiters in order | `Admit`, `CompleteEviction`, `ReleaseStopped` | evictions complete out of order, fail or are superseded; a waiter without a reservation is stuck |
| Session runtime (`sessionruntime/sessionruntime.go`) | session map, stream lease, readiness and operation tables, worker count, child processes | `Start`, `BeginReadiness`, `RoundTrip`, `PrepareDocument`, `Stop`, `Restart`, `Shutdown` | the mutex is given up around every spawn, exchange and teardown; two layers change at different moments; one-slot wake-up channel |
| Streams of a child and the managed process (`sessionruntime/owned_transport.go`, `internal/managedprocess`, reader and writer of `internal/lspwire`) | pipes, the outstanding Write and Read, read-ahead, process group, reap result | `run`, `retire`, `gracefulShutdown`, `Close`, `Teardown`, `reap` | a deadline against blocked I/O; signals against a reap that waits for stderr |
| Pending-request table (`internal/lspwire/wire.go`) | active requests, tombstones, generation reference counts | `Begin`, `Accept`, `Cancel` | `Cancel` writes with the mutex released; two bounded memories evict independently |
| Connection of the one-shot command (`internal/jsonrpc`, `internal/server`) | pending map, write lock, pipes | `Call`, `Notify`, `readLoop`, `Stop` | late and double answers against deadlines; the reader answers under the callers' lock |
| Acquisition coordinator (`internal/acquisition`) | targets, graph, frontier, usage, evidence records | `Acquire`, its validation and its replay | budgets at exactly their limit, a context that ends anywhere, a result that must pass its own validator |
| Publication (`internal/publication`, `internal/sourceobject`, `internal/captureset`) | files of a generation, temporary files, in-process locks | publish, verify, select, store an object | a failure, a kill or a power loss between two links; several processes |
| MCP server (`internal/mcp/transport.go`) | registered cancel function, request numbers, published outputs | `ServeContext`, `Shutdown`, `callContext`, the execute gateway | overlapping calls replace each other's registration; a publication that fails after its link |
| List snapshots, lifecycle and incoming-call services, traversal, census, everything else | none, or copies | | see [Not modelled](#not-modelled) |

`PROJECT.json` lists every component, the ones left out with the reason.

How the modelled parts interact. A client's line reaches the MCP server, whose
tools call the session runtime (directly, or through the acquisition coordinator)
and hand artifacts to the publication root. A caller of `Stop` or `Restart` enters
`sessionruntime.Manager.terminate` under the runtime's mutex; it looks for an
operation to join, takes runtime capacity, and asks the algebra for an intent.
If the algebra inserts one, the runtime records an operation, takes the lease on
the streams and starts `runLifecycle`. That goroutine tears the child down with
no mutex held, reports the evidence to the algebra (`CompleteLifecycleObserved`)
and, for a restart, spawns and installs the successor and starts its handshake.
Handshakes (`runReadiness`) and exchanges (`RoundTrip`, `PrepareDocument`) take
the same lease; what happens on the pipes meanwhile is the streams' module.
`Shutdown` waits until the count of these goroutines is zero. The algebra has its
own mutex and never calls back. The one-shot command uses its own connection.

What makes each part correct:

* *intents*: one intent per session and generation, every caller of it gets its
  one answer, an answer never changes, public state follows the closed table;
* *admission*: slots, victims, waiters and EVICT intents are one-to-one, a
  slot is lost only by an idle victim of its own eviction or by what is stopped and
  reaped, the earliest waiter is served, every waiter is answered;
* *runtime*: streams have one user, generations do not overlap, both layers say
  the same about a session that may be used, an accepted intent has a goroutine,
  COMPLETE means what it says, every operation ends and Shutdown returns unless a
  shutdown exchange never does;
* *streams*: the lease is given back with nothing outstanding, a retired child is
  reaped with its group, every exchange ends;
* *request tables*: a request is accepted once, cancelled on the wire once, and
  forgotten neither too early nor never; a response never blocks the reader;
* *acquisition*: no request beyond the budget, no target starved by another,
  depth is distance, "complete" means closed, the replay agrees;
* *publication*: a selector leads to a whole generation through any crash, a
  receipt claims only what is durable, answers tell what is on the disk;
* *MCP server*: every call can be cancelled, every line gets its reply, a reply
  tells what became of the artifact.

## Modules

A definition is named after the function it translates; `map` in `PROJECT.json`
gives its lines. A definition that repeats another one's name with a suffix
(`Joined_Write` of `Joined`, `InstallReplaces` of `Install`) and stands just before
it is a mutant: a plausible mistake in that code, used to see that a property
notices it.

* **`SessionStates`**: the eight public states and `lifecycleIntentState`.
* **`SessionLifecycle`** (extends `SessionStates`): `managedLifecycle` and
  `lifecycleIntent`, a field each per variable, indexed by session or intent.
  Every operation runs under the algebra's mutex and is one action. Requests that
  are answered without a change (STATUS, STALE_GENERATION, a conflict, a no-op, a
  replay) are not actions; `Replayable`, `StopIsNoop` and `Insertable` say when
  they are given. The teardown evidence is the first stage that is missing, which
  is all `firstTeardownFailure` reads.
* **`SessionAdmission`** (extends `SessionStates`): one variable `m`, the manager,
  because `CompleteEviction` folds over the waiters and changes everything several
  times in one critical section. `releaseVictimSlot`, `reserveVictim`,
  `supersedeWaiterReservation` and `reprocessWaiters` are functions from a manager
  to a manager, as the code's methods are. A session's lifecycle is reduced to the
  fields that admission reads or writes.
* **`SessionRuntime`** (extends `SessionLifecycle`): composes the runtime with the
  algebra, whose actions are conjuncts of the runtime's. What a goroutine does
  between taking and giving up `Manager.mu` is one action: `StartCheck`,
  `StartSpawn`, `StartAdmit`; `BeginReadiness`, `AbortReadiness`,
  `FinishReadiness`; `BeginExchange`, `AnswerExchange`, `RetireExchange`,
  `FinishExchange`; `Terminate`, `TeardownTask`, `CompleteTask`, `SpawnTask`,
  `InstallTask`, `BeginTask`, `FinishTask`; `Shutdown`, `ShutdownToken`,
  `ShutdownRecheck`. A child is running, reaped or dead and unreaped, and its pipes
  are open, closed or closed with an error; `Crash` may come at any time. The
  record's copy of generation and state (`rgen`, `rstate`) is separate from the
  algebra's, as in the code: that they can differ is the point.
* **`OwnedTransport`**: what happens on the pipes of one child while the lease of
  `SessionRuntime` is held: `RoundTrip`, `PrepareDocument` and the teardown of
  `Stop` with their I/O goroutines (`WriteEnds`, `ReadAhead`, `ReadBuffered`,
  `ReadFails`), retirement (`Retire`: close, then tear down), the phases of
  `Teardown` and the reap goroutine, over pipes that fill up. A frame is what one
  Write sends. The buffered reader may take several frames and a part of one more
  from the pipe; `NewReader` loses them, as the code does. Server and descendants do
  as they like.
* **`Pending`**: the request table. `Cancel` is `CancelMark`, then `CancelWrote` or
  `CancelFailed`. `Spec` has the discipline of the stream's owner, which joins its
  cancel write before it reads another response; `SharedSpec` does not.
* **`Connection`**: `Conn` of the one-shot command with its callers, its reader, the
  lock for writing and the process behind the pipes. Context and `Stop` kill the
  process only (`process.go:26`, `:60`): a descendant may be left with any of its pipes,
  and keeps a Write, the reader or, through the copied standard error, `Wait` waiting
  until it leaves.
* **`Acquisition`**: the coordinator as one sequential process, one action per
  request it sends and per decision between two; then the replay of the records by
  the same actions, whose requests the records answer. Nodes are numbers, the server
  names any neighbours and fails in each way the code tells apart, and the context
  may end between any two steps. Any limit may be zero. A sibling may start outside its
  range (no probe) or have an invalid declaration (a node, no candidate).
* **`Publication`**: every caller is a sequence of stages (one file or one directory
  sync each) and phases (check, link, read again). A file appears whole, by a hard
  link; a name is durable once its directory was synced. `Kill` stops a process,
  `PowerLoss` keeps any set of names that contains the durable ones. Every output goes on
  into a verified generation; the code skips that for artifacts it cannot verify
  (`transport.go:810`), which `McpServer` has as `tool.verified` and which here is the
  output alone, a prefix of what is modelled.
* **`GenerationStore`**: what the publisher promises, with no files: generations
  appear whole, settle, and only a power loss takes one that has not settled.
  `ImplementsGenerationStore` in `Publication` instantiates it with the visible
  selectors, the durable ones and the count of power losses modulo two.
* **`McpServer`**: calls of `ServeContext` and `Shutdown` that overlap on one Server,
  a line from its reading to its reply. The `Install` and `InstallGeneration` steps
  are the publication as that server sees it: done, failed, or failed after the link,
  with PUBLICATION_ERROR or, where one of the generation's own targets is unsafe, with
  OUTPUT_SELECTOR_UNSAFE. The grouped slice publishes its graph within its executor
  (`PublishGraph`), and may fail after that or answer inline.
* **`MC...`**: symmetry sets, requests, registrations and lines for the runs.
* **`PendingProofs`, `SessionAdmissionProofs`, `SessionProofs` (lifecycle and runtime),
  `OwnedTransportProofs`, `ConnectionProofs`, `AcquisitionProofs`, `PublicationProofs`,
  `McpServerProofs`**: proofs.

Abstractions worth knowing. Session ids, callers and clients are model values.
Message contents, digests, deadlines and diagnostics are left out: in
`SessionRuntime` a timeout, a cancellation and a broken stream are one
nondeterministic failure, since the code treats them alike there;
`OwnedTransport` tells them apart. A document whose digest is unchanged needs no
exchange and is no action. Sizes in `Acquisition` are small numbers: a response
takes one unit of evidence, or `MaxResponse`.

## Runs

Passing runs:

| Run | Shows | Distinct states |
|---|---|---|
| `pending_owned` | `TableConsistent` (reference counts, history bound), `ResponsesOnce` (tombstones are the newest, acceptance at most once), `CancelWrittenOnce` | 11 thousand up to symmetry |
| `session_lifecycle` | intents, callers, history and public state agree through every order of completion, detachment, readiness and poison, for a session registered by Start and for one registered in DRAINING, which takes the invariant-failure branch | 728 thousand up to symmetry |
| `session_admission` | `OneToOne`; `LostInTurn` (slots and records are lost to an eviction of an idle victim or to `ReleaseStopped`, through all that may come in between); `EvictionInOrder` (earliest waiter served, READY the last resort); `EvictionsEndWaits` | 441 thousand up to symmetry |
| `session_runtime` | `WorkAccounted` (worker count, operations, intents), `GenerationExclusive` (lease, overlap, both layers), `NotStranded`, `LiveAreSessions`, `CompleteDelivers` | 896 thousand up to symmetry |
| `session_runtime_live` | `WorkEnds`: every accepted STOP or RESTART ends unless its own shutdown exchange never does; a waiting Shutdown returns unless some shutdown exchange never does | 113 thousand |
| `owned_transport` | `LeaseReturnedClean`; `ExchangesEnd`, whatever the server and its descendant do | 949 thousand |
| `connection` | `TableExact`, `AnswersFit` (no response lost, misplaced or able to block the reader), `CommandEnds` (with the command's context or the server's death, unless a descendant is left with the pipes) | 154 thousand |
| `acquisition` | `AskedWithinBudget`, `NoTargetStarved`, `LayersAreDistances`, `CompleteIsClosed`, `ValidatorAccepts`, `ReplayAgrees` | 2.2 million |
| `publication` | `SelectedIsWhole`, `CheckedIsDurable`, `AnswersMatchDisk` through failures, kills and power losses; `ImplementsGenerationStore`, the refinement | 313 thousand up to symmetry |
| `publication_live` | `ObjectsIdempotent` and `CallsEnd` for writers of one content-addressed object | 23 thousand |
| `mcp_server` | `NewestReachable`, `RepliesMatch`, `RepliesTellPublication`, `ShutdownEndsCalls` | 821 thousand |

One run has a counterexample, `runtime_start_again`: a session is stopped and
started again under its id. The algebra keeps the old record (STOPPED, maybe in a
later generation), so the new child cannot be stopped. No failure is needed. It is
listed as a finding with the sentences it contradicts.

The invariants of `session_runtime` hold in the presence of this and of the
[departures](#departures-from-the-documents): they are about what the runtime
guarantees in spite of them.

## Bounds

* `pending_owned`: capacity 1 with three generations makes both memories overflow
  while requests are active, and two cancellers race for one request. A fourth
  request repeats the third one's situation.
* `session_lifecycle`: `MaxHistory = 2` with three intents trims the history once;
  two callers give joining, leaving and staying. With `HasWork` TRUE a READY
  session drains and an INITIALIZING one stops, so both states are met; the
  runtime's runs have it FALSE. One session is enough because no
  operation of the algebra relates two; the proofs do not use this.
* `session_admission`: two slots and four sessions are the least with two waiters
  and two victims, so that completions can come in either order; four manager
  events fill the slots and make both wait; three reservations let one be
  superseded and made again; generation 2 lets a RESTART of one session complete,
  by which a stopped session becomes READY and a victim of last resort. `HasWork` is
  FALSE, as the runtime always passes it.
* `session_runtime`: two clients and one lifecycle caller on one session id with
  three intents, three children and an exchange: a restart, a stop and a start
  again fit, and a STOP fits between the steps of a RESTART. `MaxOperations = 2`
  makes the operation table overflow and `MaxChildren = 2` makes the worker limit
  bind. Every spawn, reap, close, handshake, exchange and shutdown may fail. That two
  ids race for the last slot is not in this run: the theorem `SessionsBounded` covers it.
* `session_runtime_live`: one client, two callers (the second joins an operation of
  the first), two intents and two children, so that liveness is checked
  without symmetry. `WorkEnds` also holds with two sessions, one caller and three
  children, which takes longer and shows nothing else.
* `owned_transport`: two requests, the second of which may be the shutdown's, any
  number of documents, pipes of two frames (the least in which the reader can take
  one frame and a part of the next), two messages per exchange so that the limit is
  met, one descendant that outlives the server.
* `connection`: pipes of one frame make a Write block behind another; two calls and
  one frame out of turn give a late answer, a double one, a request of the server
  and garbage. One caller also notifies. Descendants hold nothing, the standard error
  or all pipes, and may leave in any order.
* `acquisition`: the requests of `MCAcquisition` name their point: two walks that
  meet, a graph in which identity and depth order disagree, aliases with one slot,
  every fault, sibling expansion, and no slot, no request or no evidence at all. Each budget is met exactly and exceeded by one.
* `publication`: two processes, two artifacts and one selector let both race for the
  same name with the same and with different bytes; `publication_live` has two
  callers in one process, which queue for a lock.
* `mcp_server`: two calls of `ServeContext` give the one replacement, and two lines of
  six kinds (a notification, a malformed line, a refused call, and calls that publish an
  unverified artifact, a verified one and a grouped slice) one competition for the
  selector.
* Deadlock is checked where a system that has ended says so (`Returned`, `Ended` and
  their like) or a response or report is always possible, and not in
  `session_admission`, `session_runtime`, `session_runtime_live` and
  `owned_transport`: with all bounded events used up, nothing is left to do.

## Fairness

* `session_runtime_live`: weak fairness of the goroutines that exist: clients within
  a call, readiness and lifecycle goroutines, and Shutdown. Each of them waits only
  for the mutex, which is held for bounded time, or for I/O that ends: `owned_transport`
  shows that it does for exchanges whose context ends, and a retired child is torn down
  under deadlines. Nothing is assumed of the teardown of a child that is not retired
  (`ShuttingDown`), because `gracefulShutdown` writes without a deadline
  (`sessionruntime.go:2096`, `:2117`; `StopsEnd` below); `WorkEnds` has that condition in
  its statement. A descendant that leaves its process group and keeps stderr is not
  modelled. Nothing is assumed of requests, crashes
  or servers. That Shutdown returns also needs that new work stops, which the bound on
  exchanges stands for, because `RoundTrip` does not look at `closed`. Shutdown's own
  context is taken not to end.
* `owned_transport`: goroutines that can go on do, timers fire and a dead child is
  reaped. Nothing is assumed of server and descendants, and not that the context of an
  operation ends: `ExchangesEnd` is about one whose context has, by the request's
  deadline or its caller.
* `connection`: goroutines are scheduled, and strong fairness of the lock for writing,
  since a `sync.Mutex` hands itself to a waiter that has starved; the operating system
  kills and reaps, and the grace period of `Stop` passes. Nothing of the server or of
  its descendants, and no deadline of a call has to pass.
* `publication_live`: system calls return; strong fairness of entering the in-process
  lock, for the same reason.
* `mcp_server`: goroutines are scheduled, publication and writing end, and an executor
  whose context is cancelled returns; one whose context is not may run for ever.

## Proofs

TLAPS checks every leaf; the constants are arbitrary but for the named
assumptions (capacities are positive, nil is no value, a request is one that
`ValidateRequest` admits and its server knows finitely many nodes), which TLC evaluates
in the runs.

* `PendingProofs`: `CancelOnceShared` and `CancelOnceOwned`, at most one cancel
  notification per request, even where responses are classified at any time.
  `CancelWrittenOnce` is not inductive: `CancelInv` adds that a write that is out has
  not reached the wire, that no two are out for one request, and that ids not handed
  out are untouched. The owned specification's steps are steps of the shared one.
  `ResponsesAcceptedOnce` needs the owner's discipline: `ResponseInv` adds that what
  was accepted is not active, that a request whose cancellation is being written is,
  and that the tombstones in order are exactly the tail of what was accepted.
  `TableStaysConsistent`: `TableInv` adds to that the reference counts and that an entry
  whose cancellation is being written has the generation its request is active for, so
  that a failed write puts back what the count already stands for. The loop of
  `trimGenerations` is the recursive function `Passes`; that it exists and what holds
  after its last pass (`TrimSettles`) are shown with a least counterexample.
* `SessionProofs`, of `SessionLifecycle`: `LifecycleInvariant` proves the inductive invariant,
  the conjunction of the types, `IncumbentIsCurrent`, `CallersAgree`, `Untouched` (the
  slots of intents not yet created are empty, so that an insertion cannot meet an
  old answer), `AnswersOwned` (only callers of an intent have an answer) and
  `IntentState` (no intent is in progress in STARTING, INITIALIZING or READY).
  `IncumbentCurrent` and `CallersAgreeAlways` follow; `AnswersFinal`, `Tabled` and
  `DrainingExplained` are action properties proved from it, action by action.
  `HistoryTrue`: the finished intents a session remembers are a true and ordered
  account. `HistoryInv` adds that each entry is older than the intent in progress and
  for a generation the session has reached, and that only STOP and RESTART are in
  progress; where an induction is needed it is a least counterexample (`WFMin`), the
  library's induction principles being out of reach.
* `SessionAdmissionProofs`: `SlotsAndVictimsOneToOne` (`OneToOne`), `SlotsLostInTurn`,
  `EvictionsAreInOrder` and `EvictionsEndSomeWait`, for any number of sessions, slots and
  waiters. One operation looks at every waiter again, so the manager between two of
  them has to be described as well: `Partway(x, R)` says that the queue together with the
  waiters `R` still to be looked at is consistent with slots, reservations and records,
  in admission order, with at most one waiter without a reservation; `AdmissionInv` is
  its case `R = {}`. `Prospects` is why that waiter finds a free slot or a terminal
  victim: whoever took its slot has a fresh terminal record. The loop of
  `reprocessWaiters` is the recursive function `Looked`; that it exists and what holds
  at its end (`Served`) are least counterexamples. Every step is then `Lawful`, from
  which the invariant and the properties follow. On the way, `InOrderSorted`: the queue
  is always sorted already, so the code's sort never moves a waiter.
* `SessionProofs`, of `SessionRuntime`: `NeverStranded`, Shutdown cannot miss the last worker.
  `NotStranded` is inductive once "no worker is left" reads `workers <= 0`.
  `SessionsBounded`, the algebra's live sessions are the runtime's and within
  `MaxSessions`, however many Starts race; it uses only the check that is made with
  the mutex the admission still holds, which shows that the first one is not needed
  for safety.
  `GenerationsAreExclusive` rests on `RuntimeInv`, which says of each session, separately
  (`At(s)`), who holds its stream lease, whether lifecycle goroutine, readiness or
  operation, and what the holder may still rely on after it gave the mutex up. Every
  action touches one session, so the invariant of all others is carried by one frame
  lemma (`UndisturbedKeeps`), and what is left is one step per action about the session it
  is for. `WorkIsAccounted`: `workers` is the number of goroutines there are; the proof
  counts three finite sets of them (`Account`) and shows that each action changes one of
  them by one element when it changes the counter (`OperationsKept`). `CompletionsDeliver`
  is the action property `CompleteDelivers`, from the parts of `RuntimeInv` that say
  which child the holder of a lease has reaped and which intent it serves.
* `OwnedTransportProofs`: `LeaseIsReturnedClean`. Added: which steps belong to which
  operation, how far the teardown is at each of them, at which steps a Write or a Read
  can be outstanding, and that a torn frame has left its rest in the pipe.
* `ConnectionProofs`: `TableIsExact` and `AnswersAlwaysFit`. Added: identifiers are
  handed out once (`Handed`), belong to one caller (`Owned`), and a response is in
  exactly one of three places from the moment its request is in the table, since a
  server may answer a request that was not sent yet (`Promised`).
* `AcquisitionProofs`: `AcquisitionWithinBudget`, `AcquisitionRotates`,
  `AcquisitionLayers`, `AcquisitionCloses` and `AcquisitionValidates`, for every valid
  request, every server and every moment at which the context ends, all from the one
  `AcquisitionInv` (`AcquisitionInvariant`). Its parts: the types and where a run can be
  (`Control`, `Resolved`); what was charged (`Budget`); each query in the cache is one
  record and its neighbours are the edges observed with it (`Ledger`), without which
  neither "asked once" nor the join of the memberships is inductive; an expansion says
  what the cache holds (`Trail`); the walk of each target, separately, is a breadth-first
  one whose queue spans two layers (`Layered`), the fact that makes the first depth of a
  node its shortest; an ended traversal left nothing unexpanded behind an expansion
  (`Closed`); `complete` is what the validator computes (`Verdict`); every target that
  still walks has had as many turns as its lap says (`Lap`); and members are the ends of
  the edges followed (`Joined`).
  `AcquisitionReplayAccounts`: the replay has been charged at each point what the live
  run had been, and can refuse the next record only for another request than its own
  or for an answer after the cancellation (`ReplayInv`: every record says by itself why
  it is as it is).
  `AcquisitionReplays` is `ReplayAgrees`. The state keeps only the end of the live run,
  so the proof gives that run a trace: every step is the function `After` of the state
  before it, of the record it kept and of whether a cache hit met the cancellation
  (`StepFunction`; the state functions of `Acquisition` are read in an arbitrary state
  through the parametrized instance `In(q, c)`). `LiveTraced` says that a trace leads
  from the origin to where the live run is, and that records and expansions still show
  every record and every hit of it; they are only ever added to, so the saved result
  shows them as well. `ReplayTraced` says that the replay is on that trace: the record it
  reads, or the expansion it looks at before a cache hit, is the leg's own, hence so is
  its next state.
* `PublicationProofs`: `PublicationTyped`, `SelectorsLeadToWholeGenerations` and
  `ReceiptsClaimDurability`, from `DurableInv`, which says of every call what its
  position implies about the disk (`Progress`). `PublicationRefines`: the initial
  states of the publisher map to those of `GenerationStore` and every step to a step
  or a stutter. `AnswersMatchTheDisk`: what a call answered is what a reader finds, also
  where the call failed half-way. `Explained` is `TornExplained` for selectors that are
  not durable rather than not visible, since a power loss may take one that is only
  visible. `ObjectsAreIdempotent`: publishing an object fails only by a system call of
  that very publication.
* `McpServerProofs`: `NewestIsReachable`, from `Registration`: numbers are given out
  once and the registered call has the latest. `RepliesAreMatched` and
  `RepliesTellTheDisk` share `ReplyInv`: the numbers in hand, on the disk and in replies
  were given out and none twice (`Numbering`), what is known of the line in hand at each
  stage (`Hand`), also that a grouped slice past its publication has its graph under its
  selector and that a verification in progress has its artifact there, and which line it
  is (`InOrder`).

Only model-checked: liveness, which is out of the prover's reach, as are ENABLED and
induction over data. Every safety property of a passing run, invariant or action
property, is also a theorem.

## Departures from the documents

Besides the finding above, modelling met these sentences that the code does not
keep. Where a formula is named it is in the module; putting it into the named
configuration in place of its properties (as an INVARIANT if it is about a state, else
as a PROPERTY) makes TLC show the behaviour.

In the session runtime and the streams:

* `StopsEnd` (`OwnedTransport.cfg`): `gracefulShutdown` writes its request in the
  lifecycle goroutine with no deadline (`sessionruntime.go:2096`). When documents have
  filled the pipe of a server that no longer reads, the STOP keeps its lease for ever.
  ADR 0003 (persistent sessions) line 428: "Runtime teardown still has explicit
  graceful, terminate, kill, death-observation, survivor, stderr-drain, and reap
  deadlines".
* `WholeFramesStayWhole` (`OwnedTransport.cfg` with `Unasked = {"other"}`): every
  exchange reads through a buffered reader of its own (`sessionruntime.go:715`). A
  notification that arrives with a response is lost, or the next exchange starts in the
  middle of it and the session is poisoned although the server sent only whole frames.
* `SpawnFailureRecovers` (`SessionRuntime.cfg`): a RESTART whose successor cannot be
  spawned (`sessionruntime.go:2049`) leaves the runtime one generation behind the
  algebra and the lease taken; every later request is refused (ADR 0003 line 236).
* `NoopMeansReaped` (`SessionRuntime.cfg`): `reaped` of generation 1 survives the
  RESTART; generation 2, poisoned with a failed reap, is reported already stopped
  (`manager.go:394`; lines 306 and 317). For the same reason it can be an eviction's
  victim, whose child may run: `LostInTurn` asks for a reap on record, of some generation,
  and for no more.
* `StopCanFinish` (`SessionRuntime.cfg`): a child that died before its STOP cannot
  answer `shutdown`; the STOP fails although the reap is confirmed, and so does every
  retry (`sessionruntime.go:1999`; lines 317 and 609).
* `FailuresNamed` (`SessionRuntime.cfg`): a STOP accepted between the installation of a
  RESTART's successor and its handshake makes the RESTART fail without a failure code
  (`sessionruntime.go:2072`; line 319).
* Two callers of `Shutdown` share one token (`sessionruntime.go:2144`): one may take
  the last worker's and leave the other waiting for its context. Every command has one
  caller, and so has the model.
* The handshake uses a request table of its own (`sessionruntime.go:1393`), so that
  `initialize` and the first request have the same id, 1; a late second answer to the
  handshake would be taken for the answer to that request.

In the algebra and the request table:

* `DiagnosisRetained` (`SessionLifecycle.cfg`): a STOP of a POISONED session ends
  in STOPPED (`manager.go:425`), where ADR 0003 line 234 and `allowedTransitions`
  keep "same state". `TabledTransitions` allows this departure by name, and poison
  reported of a STOPPED or CRASHED session, which `ObservePoison` honours
  (`manager.go:560`) and ADR 0003 line 232 does not list.
* `PoisonKept` (`SessionAdmission.cfg`): a victim poisoned during its eviction is READY
  again when the eviction is superseded (`manager.go:705`; ADR 0003 line 215).
* `GenerationsGrow`, `EarliestFirst`, `QuarantineCleared` (`SessionAdmission.cfg`):
  `reprocessWaiters` makes a new record of generation 1 for a contender that has one
  (`manager.go:734`); a slot that `ReleaseStopped` frees is not offered to the waiters
  (`manager.go:798`); the quarantine of a failed eviction outlives a successful explicit
  cleanup (`manager.go:771`). The runtime admits only into free slots
  (`LiveAreSessions`), so it never meets the eviction code.
* `EvictedLateIsUnknown` (`Pending.cfg`): a late response whose tombstone and
  generation are both gone is answered WRONG_GENERATION (`wire.go:381`), where
  `TRANSPORT-CORE-REPAIR.md` line 13 says `ResponseUnknown`.
* `AcceptedOnce` under `SharedSpec` (`Pending.cfg`): a failing `Cancel` puts back an
  entry that `Accept` removed during the write (`wire.go:447`). `RoundTrip` joins
  its cancel write, so that only a use beside it could meet this.

Elsewhere:

* `ProviderFailuresAreData` (`Acquisition.cfg`): with sibling expansion the coordinator
  clears its completeness when a sibling declaration has no single prepared item
  (`coordinator.go:656-657`) and does not clear it when the nodes exactly fill `MaxNodes`
  or a probe misses the identifier; `ValidateResult` computes completeness from the node
  count and the request outcomes alone (`validate.go:256-265`). Where the two differ
  `Acquire` returns an error for what the server answered, where
  `coordinator.go:105-106` says "Provider failures are result data".
* ADR 0003 line 290: "Successful rename atomically installs exactly one prebuilt success
  terminal record". Where a verified generation is due, its failure after the artifact is
  under its selector is answered with a publication error (`transport.go:810-819`) and the
  file stays. `RepliesTellPublication` says which answers are possible then.
* `RefusalsLeaveNothing` (`McpServer.cfg`): one of those answers is
  OUTPUT_SELECTOR_UNSAFE, when a target of the generation itself is found unsafe
  (`verifiable.go:39`, `:60`, `:72`; `selector.go:446-448`; `transport.go:814-816`), where
  ADR 0003 line 286 has it "with no rename". A grouped slice can likewise answer
  OUTPUT_REQUIRES_SELECTOR or OUTPUT_VALIDATION_FAILED for its presentation when its graph
  is already under its selector (`acquisitionengine/executor.go:505-517`).
* The one-shot command records a sent message after its write (`conn.go:132`), so that the
  reader may record the response first; `README.md` line 416 calls the transcript's
  sequence numbers deterministic.
* A call of the one-shot command watches its context only once its request is written,
  so that the "per-request deadline" of `README.md` line 413 does not end a Write to a
  full pipe; what does is the end of the command's context, if no descendant is left with
  the pipe (`CommandEnds`). The closing `shutdown` request has no deadline of its own (`cmd/lsp-trace/main.go:1229`).
* `TimeoutEndsCommand` (`Connection.cfg`): `README.md` line 412 calls `--timeout` the
  "global command deadline". Only the server is killed then (`process.go:26`); a
  descendant that keeps its pipes keeps a call in its Write or its wait, and one that
  keeps the standard error keeps `Wait` and with it `Stop` (`process.go:39`, `:50`, `:61`).
* `cmd/lsp-trace-mcp/main.go:206` returns without stopping the sessions its bootstrap
  has started.

## Not modelled

The map covers about five per cent of the implementation's lines. Nearly all of the
rest is encoders, validators, digests, projections, analyses, schemas and flag parsing:
pure functions over large documents, for which a model would be a second
implementation. In the parts that are modelled:

* In the runtime: the failure of the entropy source in `Start`; the table of open
  documents and seed admission; `DeriveWorkspace`, which is `Start` and
  `BeginReadiness` under another key plus a read of the parent; `BeginRequest`,
  `CancelRequest`, `CompleteResponse`, `Expire`, `ObserveCrash`, `Poison` and the
  exported `ObserveInitialization`, which only tests call; diagnostics and observations;
  a second caller of `Shutdown`.
* In the algebra: the decision ledger, `List` with its cursors, and the counts
  `queued`, `active` and `unsafe`, which the program never sets.
* In the managed process: the group census and the bounded stderr buffer, which only
  report; a `Wait` that fails; a descendant that leaves its group.
* In the framing: headers, limits and JSON, which end in a frame that is bad; the
  drain of the observed writer.
* In acquisition: the search of connecting paths over the finished graph, the adaptor
  that turns wire messages into outcomes, the merging of call sites.
* In the MCP server: schemas, tool metadata and the tools themselves; the bootstrap.
* The services above the runtime (`lifecycleops`, `incomingops`, `sliceops` and their
  like) keep no state: they call it in sequences that `SessionRuntime` offers in any
  order. `lifecycleops` reads a status and then names no generation when it stops or
  restarts, so the request acts on whichever is current and the answer says which.
* The remaining components with status `not_modelled`, for the reasons given there.

## Possible extensions

`SessionRuntime`'s exchange steps as the abstract specification of `OwnedTransport`,
with the refinement as a property; `List` and its cursors; the table of open documents.
