# wasm-plugin-host in TLA+

A verification development of the plugin host and of the shell it comes with:
what their concurrent and re-entrant parts do, checked with TLC on small
instances and, where it matters most, proved with TLAPS for every value of the
constants. The code is `src/host/src` (the host, Rust), `src/dsh-wasm-host/src`
(its embedding in the dsh agent framework) and
`src/plugins/openhanako-shell` (the OpenHanako UI: the adapter that makes a
Studio plugin of it under `js/`, and under `ui/` the page, the desktop shell
and the server of the project it is forked from). Paths without a directory
below are unique in one of these.

## The system

A host loads WebAssembly plugins into named *slots*. A plugin declares the
tools it offers, the flow events it hooks, the services it injects and the
services it provides. A slot is *active* when its injects are met and otherwise
*quiescent*: loaded, with no effects. Plugins are replaced while the host runs.
The OpenHanako shell is one of the plugins that come with it: a page in an iframe
that talks to the host's agents through an adapter, and, as a desktop application,
a server and a renderer that are updated over the air.

| Part | State | Operations | Talks to | Hard behaviour | What makes it right |
|---|---|---|---|---|---|
| Registry (`registry.rs`) | slots, active flags, owned tools, tool table, subscriptions | load, unload, reload, converge, sync_tool_graph, force_activate/deactivate, external services, calls and dispatch | shared store, hooks | cascades of activation, tools that depend on tools of other slots, a reload that swaps an instance under its effects | effects are those of the active slots and nothing else; active = supported by the service graph, as far as services are not contested; operations return |
| Shared store (`service.rs`) | instances, provider and external tables | take, put, with_plugin, call_service | guests of other slots, threads of a batch | re-entrancy, parallel batches, failing guests | no instance is entered twice or lost, nobody waits for anybody |
| Hooks (`hooks.rs`) | ordered subscriptions | add_slot, remove_slot, dispatch | registry, flow | order as slots come and go; replies that fail or mean nothing | the order of priority and registration; fail-open |
| Agent flow (`flow.rs`) | one turn | run_turn | dispatch, call_tool, a model | vetoes and failures in the middle of a turn | gates gate, turns close |
| Supervisor (`supervisor.rs`) | config, its mtime, mtimes of the artifacts | reconcile, poll_changes, reload_slot, reload_config, set_enabled, set_config | config file, wasm files, registry | builds and edits that land between two file accesses; loads, hooks and reloads that fail | builds and edits go live, a working slot is not lost |
| Host binary (`main.rs`) | the REPL or the daemon | commands, the poll loop | supervisor, registry | commands behind the supervisor's back, restarts | as above |
| Config (`config.rs`) | - | load, save, validate | supervisor | - | - |
| Instance and guest ABI (`plugin.rs`, `component_backend.rs`) | lifecycle, linear memory, fuel | init, invoke, hook, set_config, shutdown | runtime, host imports | buffers that grow, budgets, traps | a call ends within its budget |
| Runtime (`runtime.rs`) | module caches, disk cache | compile | file system | a cache shared with other hosts | never a stale module |
| Host state (`state.rs`, `pipe.rs`, `audit.rs`) | log ring, pipe buffers, audit ring | push, feed, record | every guest, threads of a batch | delivery order, bounds | bounded, nothing numbered twice |
| Capabilities (`capability.rs`) | - | grant from manifest and policy | load, hooks, imports | intersections of rules | never more than the policy |
| dsh-wasm-host | fibers, outer tool registry, flow bridge | apply, dispose, install, resync | registry under a mutex, cordis | two frameworks that each decide what is active | they agree |
| Artifacts (`ui/shared/artifact-core`, `artifact-boot.cjs`, `artifact-gc.cjs`, `main.cjs`) | pointers `current`, `previous`, `next` for each of server and renderer, version directories, sentinels, quarantine | boot, promote, fallback, seed, activate an update, apply it now, collect | the disk, the monitor of the server, the page's crash handler | killed between any two writes; a collector and sentinels outside of the pointer mutex; trains that repeat versions | what runs stays on the disk; an update lands whole; versions do not go back; a start ends |
| Studio bridge (`hana-adapter.js`, `api.js`, `host-bridge.js`, `studio-backend-bridge.ts`) | requests, event queue, `activeTurns`, the agent's runs | prompt, interject, Stop, events | page, host, agent | handlers that await each other's effects; events that name no turn; time limits, reloads | no turn outlives its end on the page, no token outlives its turn |
| Streaming state of the page (`streaming-slice.ts`, `ws-message-handler.ts`, `InputArea.tsx`) | the flag and the stream of each session | status events, switching | the bridge | ends that name no stream, late events | a flag goes when its stream is over, and then |
| Media generation (`core/media`) | task store, poller's set and its fence, submissions | generate, retry, poll, cancel, recover | providers, deferred results, its file | overlapping polls, submissions that outlive their attempt, restarts | a task ends, once |
| Deferred results (`lib/deferred-result-*.ts`) | entries with their delivery flags, deliveries under way | register, settle, deliver, flush, suppress, retry | media, sessions, its file | delivery spans a turn of the agent; sessions are stopped, hibernated, archived meanwhile | each outcome is told, one for each attempt, none of what was discarded |
| Sessions of the server (`session-coordinator.ts`, `session-turn-actions.ts`, `routes/sessions.ts`) | runtimes, branches, files | prompt, stop, retry, fork, load, hibernate, archive | all of the server | order of fences and cancellations | of them only what bears on deferred results |
| Engine, chat bridges, MCP, migrations of the server | configuration, connections, schema versions | - | outside services | not looked at | - |
| Layout, panels, themes, editors of the shell | presentation | - | - | - | - |

`PROJECT.json` lists every part with its status, and every hazard of the code at
the line where it bites, with the properties that cover it or the reason why
none does yet. The last section of this file has more of them.

## The modules

| Module | Models | Checked by | Proofs |
|---|---|---|---|
| `ToolGraph` | the closed form of `sync_tool_graph`: greatest closed subset, least saturated superset | through `Registry` | `ToolSync_proofs` |
| `ToolSync` | the two loops of `sync_tool_graph`, a round at a time | `tool_sync` | `ToolSync_proofs` |
| `Registry` | `registry.rs`: the operations, `converge` step by step | `registry_*` (`MCRegistry`) | `Registry_proofs` |
| `ServiceGraph` | what the registry promises of the service graph, abstractly | refined by `Registry` in `registry_host` | `Registry_proofs` |
| `Supervisor` | `supervisor.rs`, the commands of `main.rs`, the files | `supervisor_*` (`MCSupervisor`) | `Supervisor_proofs` |
| `Calls` | `service.rs`, `call_tool`, `call_many_parallel` | `calls` (`MCCalls`) | `Calls_proofs` |
| `Turn` | `hooks.rs`, `Registry::dispatch`, `flow.rs` | `turn` (`MCTurn`) | `Turn_proofs` |
| `Artifacts` | the artifacts of the desktop shell, write by write, with kills | `artifacts` (`MCArtifacts`) | `Artifacts_proofs` |
| `Bridge` | one chat session across the Studio bridge: page, adapter, agent | `bridge` (`MCBridge`) | `Bridge_proofs` |
| `Media` | media tasks and deferred results of one session, with restarts | `media*` (`MCMedia`) | `Media_proofs` |

Definitions named "Mutant of X" are plausible bugs, each beside the definition
it would replace. They are part of no specification; a property is worth its
run because one of them breaks it.

### Registry, ToolGraph, ToolSync, ServiceGraph

Variables are the registry's fields: `build` stands for `meta` (the declaration
of a slot's instance, `None` when it is not loaded), `active`, `owned`, `tools`,
`hooks` (here a set: their order is the business of `Turn`), `providers` and
`external` from `service.rs`. `pc`, `work` and `changed` are the locals of
`converge`. Operations take `&mut self`, so one never interleaves with another;
but they end in `converge`, a loop over snapshots of `HashMap`s, and the model
takes it a slot at a time, in any order. `sync_tool_graph` is one step of it, by its closed form;
`ToolSync` checks, and proves, that the two loops compute that closed form.

A build is what a wasm declares. Artifacts that fail to load or are malformed
are rejected before anything changes and are not in `Artifacts`; the conflicts
between slots are (`Admissible`). Services a slot provides itself satisfy its
own injects, as in the code.

`ServiceGraph` says the same with no table, loop or order: after each change
the slots that are up are those supported from below, exactly, where no service
is provided by builds of two slots. Nothing in the code rules such services out: a
clash is looked for among the active slots only. The abstract `Settle` therefore
chooses among the sets that lie between what is supported without the contested
services and what would be if they were given, and in which nobody is without a
provider. The first bound says that a contested service does not take down who has
nothing to do with it, the second that nobody comes up by it for want of anything
else. `Registry` refines this for all builds (`up` is `active` between operations),
and `ProvisionKept` says when an active provider may lose a service it is routed
for: when another that provides it comes up, and never when another goes down.

### Supervisor

Every access to a file is a step, since builds and edits come in between:
`reconcile` and `reload_slot` read a wasm and look at its mtime afterwards,
`poll_changes` looks first; `new` and `reload_config` read the config and look
at its mtime afterwards, the poll looks first. `pc`, `todo`, `cur` and `now` are
the locals that survive from one access to the next. Each write gets an mtime of
its own (a clock up to `MaxWrites`), so equal mtimes of distinct writes are
outside of the model. `live` is what the supervisor sees of the registry: file version,
config on record, config the instance was given, policy. A bad file stands for
anything that makes the load or reload fail.

`Spec` is the interactive host with all commands and restarts, `DaemonSpec` the
daemon from `Supervisor::new`, `PollSpec` the daemon after a first reconcile
that found nothing to load.

### Calls

`store` is `Shared.slots`; `stack[t]` the guests that thread `t` is inside of;
`work[t]` the indices of the calls it has to make. A batch takes all slots
involved first and runs a thread for each; a single call is on the thread
`Main`. Any guest may call any provider at any time; a refused call changes
nothing and is no step. A guest's failure and its success are the same step,
because the code makes them the same: the instance is put back either way.

### Turn

One action for each event, gate, model call and tool call of `run_turn`, and one
(`Ask`) for each subscriber that a dispatch asks. Replies are continue, rewrite,
veto and error (a trap, a busy slot, a reply that does not parse counts as
continue). Payloads are reduced to who rewrote them last. Slots subscribe and unsubscribe
between turns only, since `run_turn` borrows the registry. `registered`,
`replies` and `refused` are history, read by properties only. `Arranged` is what the
sort by priority and the `retain` and `filter` of `hooks.rs` have in common: elements
at some positions, in some order.

### Artifacts

`ptr` and `dir` are the pointer files and the receipts in the version
directories, for both kinds; each write of a pointer, each extraction and each
rename is a step, and `Kill` comes between any two. `mishaps` is history: an update
was killed half activated (*torn*), or what a boot made current is newer than an update
that was past its gates (*overtaken*). `cs` is the holder of the
pointer mutex (`withPointerMutex`) and its place: a boot (`launch`), the page's
crash handler (`window`) or an update (`ota`). The collector (`sweep`), the
sentinels, the monitor and the timers that clear a sentinel (`HealthyClear`) do
without it, as in the code. A release is a train with a version and the digest
of its bytes; two trains may carry one version.

A server may outlive the app that is killed, with the version that it runs. The
next start reuses one of the app's own version (`Reuse`): it boots nothing, does not
monitor it, and shows the package's pages (window *plain*) until an update has been
applied. Any other is shut down, and the start goes on (`Start`).

Left out: a second channel, the command line, signatures and checksums, stale
locks and their stealing, retries of a spawn, several windows, the repair flow, a
start that gives up because the server that was there does not go away (nothing
changes then), a surviving server that dies later.

### Bridge

The three parties: the page (`flag`, `shown`, `pending`, request numbers `seq`),
the adapter, one asynchronous handler for each request (`pc`, `req`) with its
entry of `activeTurns` (`turn`), and the agent (`queue`). `down` is the channel
to the page, in order. A step of a handler is what it does between two awaits.
A message names its request and, or not, its stream; `Matches` is
`identitiesMatch`, with its rule that an absent identity matches everything
or nothing depending on who asks. Upsets are refusals, failing calls, the two-minute
limit of a request, a switch of sessions and a reload of the iframe, after which
request numbers start again.

Left out: HTTP requests (so retry and fork), the hello handshake, events that
do not touch the flag, disposal, other clients of the agent.

### Media

`media` is the `TaskStore`, `deferred` the `DeferredResultStore`, an entry with the
attempt that it is about. `active` and `cancelled` are the poller's, `submits` and
`checks` the calls of a provider under way: as sets, so that any number of polls
overlap. `inFlight` is the coordinator's map of deliveries: *loading* while the
session is brought into memory, *sending* while the agent answers, *apart* once the
runtime that answers has been taken from the session. `session`,
`loaded` and `scan` are the session's life, its presence in memory and the
half-second timer of the extension that looks for undelivered results when it
starts. Hibernation is two steps, `Hibernate` (a session at rest is asked, and
begins to shut its extensions down) and `Hibernated` (the runtime goes, `leaving`
being what is between): a delivery that begins in between is made to the runtime that
is going, and counts as told when it was sent. Files: `MediaLags` and `DeferredLags` choose the moment from which one of
the stores is not written before the next crash. `told`, `torn` and `crossed` are
history. A result is for the page only (an entry in the session's file, one
step), but the failure of an image is told to the agent (a turn).

Left out: several sessions and forks, delivery to a chat bridge and in a
response, the count of errors before a poll gives up (`NoAnswer` or `Failed`, by
choice), the microtasks between two stores' changes inside one call, the
session's return from the archive, clean-up of old entries, failed writes,
a second hibernation while one is under way, and the extension's timer when its
session goes away before it fires (what it would send through a runtime that was
disposed of throws in the SDK, which is not in the repository).

## The runs

Bounds are chosen so that each hazard happens, and each run's properties are
each broken by a mutant under the same bounds. `TypeOK` of `Turn`, `Artifacts` and
`Media` and the termination properties `ConvergeTerminates` (under
`RegistryEmbedded.cfg`), `Returns` and `ConfigPickedUp` hold under these bounds too
and are not among the runs' properties: nothing that a type or a return would show
is not shown by the others.

| Run | Bounds | Shows |
|---|---|---|
| `registry_host` | 4 slots, 3 services, 3 tools, 2 or 3 builds each: a diamond of services and its variants, one service contested | a slot is active exactly if its injects are available between operations; `Registry` implements `ServiceGraph` |
| `registry_embedded` | 3 slots, clashing services and tool names, a ring of tools, external services, forced slots | effects unwound at every step; provisions taken over by who comes up only; the tool table a fixpoint between operations |
| `registry_ring` | 3 slots, a reload closes a ring of injects | **violation**: `converge` loops for ever |
| `tool_sync` | every table and dependency graph of 3 tools | the loops compute the closed form |
| `supervisor_poll` | 2 slots, 4 writes (the files that exist at the start have used one), 4 kinds of entries | no build passed over; builds, edits and policies end up in force |
| `supervisor_commands` | 1 slot, 3 writes, 6 kinds of entries, all commands and restarts | a working slot goes down only on purpose |
| `calls` | 3 slots, 2 of them providers, batches up to 3 | re-entrancy, accounting, order of answers, absence of deadlock |
| `turn` | 3 slots with 3 hooks each, 2 tool calls a turn | order of subscribers, dispatch, gates, closing of turns |
| `artifacts` | two trains that carry one version with other bytes, two installers, fallback after 2 failures, 2 kills or crashes (1.07 million states) | what runs is intact; updates whole; quarantine and versions respected; starts end |
| `bridge` | 3 requests of any kind, 1 upset (431,000 states) | tokens, late events, lost flags, ends |
| `media` | 1 task, image or video, 1 retry, 1 crash, any number of overlapping polls (1.92 million states) | stores in step, one outcome for an attempt, fence, what is marked was told |
| `media_ends` | the same without retries | tasks end, results do not stay due |

A passing run may hold only what the code keeps. Properties that it does not keep
are stated in the modules all the same, each with the reason, and are listed below.

Three or four slots are enough for the interactions the code has: a chain, a
diamond, a clash and a ring of services or tools are all there; two slots for
the supervisor, whose loops treat slots one by one and share only the config
file; three writes for a file are "before, between and after" any two accesses.
Three requests of the bridge are a prompt, its Stop and the next prompt, or an
interjection between; four without an upset were tried as well (2.3 million
states). Tasks of `Media` meet only in the sets that a Stop, a discarded branch
and a session's start go through element by element, so one is enough; its retry
makes two attempts, of which either may have calls, polls or a delivery left
over.

The bounds of `artifacts` are the one place where the proofs showed a run to be too
small. Two of its properties held there and nowhere else: with a fallback after one
failure and a third fault, a page's crash handler promotes a newer version while an
update is on its way, and a seed whose directory the collector took is put in place
a second time and pushes the update out of `previous`. The properties now say so
(`mishaps`, and the last disjunct of `BothOrNeither`); their proofs need no bound. The
code's own threshold is 3 (`artifact-boot.cjs:75`).

Some runs are without the deadlock check: `tool_sync`, because `sync_tool_graph`
returns and the module models one call of it; `artifacts`, because a desktop
application that was closed may stay closed; `bridge`, because it is quiet once
its bound of requests is used up; the `media` runs, because all tasks may have ended and
the bounds on retries and crashes be reached.

### Fairness

- `Registry`: weak fairness of `Converge`, a loop inside of one call.
- `ToolSync`: weak fairness of its rounds, for the same reason.
- `Supervisor`: weak fairness of polling and reconciling: the daemon's loop
  waits with a time limit, so the next poll always comes. Builds and edits have
  none: they may stop, and the liveness properties are about what is in force
  once they do.
- `Calls`: threads run; every guest call ends (fuel and epoch deadline for a
  sandboxed guest, trust for a trusted one), stated as strong fairness of the
  return at each depth, since a guest may call service after service meanwhile.
- `Turn`: hooks, tools and the model answer, well or not.
- `Artifacts`: weak fairness of the mutex's holder and of the start that is under
  way, whose steps are file accesses and awaits; strong fairness of a boot that
  enters the mutex, which is a chain of promises (`pointer-store.cjs:236`) and so
  first come, first served. None of the user, the collector's timing, the
  server's readiness or the updates.
- `Bridge`: messages are delivered, each handler's call returns or throws, a run
  of the agent ends. None of the user, the time limit or reloads.
- `Media`: weak fairness of what has been called (submissions, reading files, the
  end of a fenced delivery); strong fairness of what is tried again on a timer and does
  not fail each time: polls and their answers (`_tick`, and five errors are
  a failure), the flush of every retry interval, the loading of an active session and
  the turn. None of the user, of memory pressure or of crashes.

### What the violation means, and what else is not as it says

`registry_ring` is a sentence of the repository that the code does not keep;
`PROJECT.json` quotes it under `findings`. A reload that makes a -> c -> b -> a is
accepted; `converge` then takes down what lost its provider and brings up what
the taken-down slot's own declaration satisfies, in turns, and does not return.

Others were met while modelling and have no run of their own. Where a module
states the property, TLC refutes it under the configuration of the module's
passing run (with the bounds given):

- `ActiveIffProvided` (`Registry`, `RegistryHost.cfg`): the clash check looks at
  active slots only; two quiescent slots get through, both become active, one
  overwrites the other in the provider table, and when it goes so does the
  service, although the README says that a plugin is active iff what it injects is
  provided by an active one. What does hold is in `ServiceGraph` and `ProvisionKept`.
- `RebuildsGoLive` from the daemon's start (`DaemonSpec`): `reconcile` looks at the
  mtime after loading, and a build in between is never loaded. `supervisor_poll`
  checks it from a start with nothing to load, so for the poll only.
- `ConfigReachesInstance` (`Supervisor`, `PollSpec`, one slot, four writes): a
  config whose hook fails is in the instance and not on record; taking the edit
  back is "unchanged".
- `VetoStopsRequest` (`Turn`): `agent/request` accepts a veto that `run_turn` never
  looks at.
- `QuarantinesCounted` (`Artifacts`): the boot promotes `next` and then compares the
  crash counter, which is of the train before; `writeSentinel` says that another
  train starts anew.
- `ReferencedKept` (`Artifacts`): the collector lists and then reads the pointers,
  both outside of the mutex; a directory that an update has put in place but not
  announced yet is removed after the announcement, although `artifact-gc.cjs:82` keeps
  what is referenced "unconditionally". The next boot falls back.
- `NeverBackward` (`Artifacts`, a train of version 3 and a later one of version 2, one
  kill): `ota-core.cjs:1238` says that the content version "is never allowed to go
  backward", and compares versions ahead of the download only. If the page crashes
  or a restart promotes version 3 in the meantime, version 2 is staged over it and the
  next boot runs it. Under the mutex only the quarantine is looked at again
  (`activation.cjs:286`).
- `StagedForNextStart` (`Artifacts`): `ota-core.cjs:1398` says that an update "writes
  `next` and leaves the promote for the next launch". The page's crash handler boots
  its kind again in the middle of a session (`main.cjs:1542`), which promotes a staged
  renderer under the server that is still the old one. `BothOrNeither` is about what
  lands on the disk and does not see this.
- `StreamingEnds` (`Bridge`): a prompt posted while the stopped run winds down is
  refused as `session_busy` with an error and no status; the session stays marked
  as streaming, although `InputArea.tsx:2106` rolls back the lock "on send
  failure".
- `MarkedIsTold` (`Media`): a delivery ends with the agent's turn and marks its task by
  the id. If the user retries the image in that turn, the mark falls on the result
  to come: it is not sent and, being "delivered", never will be. `DeliveredIsTold`
  excuses this task and no other.

More that is in the models as the code has it, or next to them:
`add_external_service` does not converge although it says slots then activate;
`Supervisor::new` and `reload_config` have the race of `reconcile` with the config
file; `enable`, `disable` and `set-config` save over an edit that was not read; a
reload for a changed policy is retried on every poll while the build is broken; a
model error ends a turn without `turn/end`; a hook that panics is not disabled for
the rest of the turn; the poll does not unload a slot that an edit disabled. A kill
between two writes of `promote` may leave `previous` equal to `current`, so that the
fallback finds nothing new; one between the two activations of an update leaves it
half staged; the healthy timer of a server that crashed still forgives the crash; two
windows that fail are two failures of one train. A Stop that arrives before
`send_message` cancels an idle agent and the prompt is sent all the same; retry and
fork look at `activeTurns` and act after another await; a turn that runs longer than
the two minutes of its request never clears its flag. A retry clears the poller's fence,
so that an answer to the cancelled attempt is taken for the new one's; a crash between
the writes of the two stores may leave a result waiting for a task that has ended; the
extension may send what the coordinator is sending.

## What is proved

Everything under `theorems` holds for all values of the constants, from the
modules' own assumptions (`ArtifactsAssumption`, `NoneAssumption`,
`EntriesAssumption`, `CallsAssumption`, `HooksAssumption`, `TurnAssumption`,
`RequestsAssumption`, `ReleasesAssumption`, `BoundsAssumption`): that artifacts, entries,
hooks and releases are well-formed, that installers are train 0 and the trains on the shelf
above it, that `None` and `Main` are none of the other values, that bounds are naturals.
The assumptions are evaluated by the runs, and no theorem has another hypothesis.

- **Registry.** `EffectsMatchActive` and `ToolsMatchOwners` are needed of each
  other: deactivation removes the tools a slot *owns*, and is only right because
  those are the tools that *name* it. With `TypeOK` and `ToolNamesReserved`
  (which makes the declarer of a tool unique) they are inductive over all
  operations, `converge`'s steps included. `ToolsConverged` follows from what
  the last `SyncTools` computed (`ToolSync_proofs`: `Prune` is closed, `Grow`
  is saturated over it). `ActiveMatchesInjects` needs the extra fact that the
  loop leaves with nothing changed since the snapshots, and is proved of
  `HostSpec`, where every operation converges.
  `ProvisionsAreKept` uses the part of `EffectsMatchActive` that says that the table
  names active slots only: a slot that unwinds removes what is routed to *it*, and a
  slot that comes up takes only what it declares.
  `RefinesServiceGraph` is the step-by-step half of the refinement: a step of the
  registry is a step of `ServiceGraph` or leaves its variables alone. Its lower and
  upper bound say that what is up is supported *from below*, where the registry only
  looks a step down, at a provider that is active. Two slots that provide to each other
  could keep each other up. They do not, by an invariant about the loop (`NoKnotUp`): a
  set of active slots in which each needs an uncontested service of another of the set
  (`Knot`) cannot come to be, since the last of them to go up found all its injects
  provided before it was there (`GoingUp` adds those about to go up). While a round of
  deactivations is under way, who is about to go down is not satisfied, and who stays
  up has, for each of its injects, a provider that is active or not satisfied
  (`Downed`): so nothing comes up again under a slot that lost its support in the round.
  That nobody who is supported stays down needs that an uncontested service of an active
  slot is routed to it (`Routed`). Of contested services neither is true, as told above,
  and the bounds are about what does not hang on them; that nobody is up without a
  provider (`Stands`) is proved of all.
- **ToolSync.** `ComputesReference`: the removal loop keeps every closed set
  inside of what is left, the addition loop stays inside of every saturated set.
- **Supervisor.** Type correctness rests on which locals mean something at which
  `pc` (a slot in hand is enabled and in the config in force). `OldKeepsServing`
  is an action property and follows step by step. `NoMissedBuild` of `PollSpec`
  needs: a recorded mtime is never ahead of the file, a good recorded version is
  live, and what was looked at (`now`) is not newer than what is read next.
- **Calls.** The inductive invariant adds to `NeverReentered` and
  `StoreAccounts` who may be where: the first guest of a stack is held by the
  operation and belongs to the thread (`Placed`), those behind it came from the
  store and are not held (`Borrowed`), and a single call has no workers beside
  it (`Split`). `AnswersInPlace` adds that an index is answered, has no tool, or
  is still some thread's to do (`Answers`, `InOrder`).
- **Turn.** For any slots and any hooks. `SubsInOrder` rests on what sorting and
  retaining do to positions (`ArrangedPlaces`: in a finite set that is totally
  ordered, whoever comes later has more below, and every rank is taken), and is
  inductive: a slot that becomes active is behind all that are, and what goes takes
  nobody else's place. `DispatchAccounts` needs that a veto has emptied the queue and
  that the last rewrite is one (`Account`). `GatesHold` needs how much may have been
  refused by each stage (`RefusedBy`), and that nothing changes between the gate and
  the tool (`ToolAsked`).
- **Artifacts.** For any releases and installers, any threshold and any number of kills
  and crashes. The inductive invariant `AInv` has ten parts. `SectionOK` and `AppOK` say
  who may be where: a holder of the mutex is where its caller sent it, and the caller
  waits. `PromoteOK` is how far `promote` has got: between its writes `previous` repeats
  `current`, then `current` repeats `next`, and after it `next` is empty. `ServerIntact`
  needs that the running server's version is named by a pointer (`ServerOK`): so an
  activation does not replace its directory (`Protected`), and the collector, which
  reads the pointers after its listing, does not have it among its targets.
  `QuarantineNotStaged` needs the check under the mutex only. `BothOrNeither` follows the
  update through the renderer's pointers: it is next, or current, or quarantined, or was
  pushed into `previous` by the installed seed (`Landed`); a demotion that takes it out
  of `current` has quarantined it first; and when an app boots its renderer first, be it
  at its start or, over a reused server, with the first update, its server's boot has
  left nothing staged that this could disturb (`NoBoot`, `ServerBooted`, `LandedOK`).
  `VersionForward` compares three versions with the current one (`ForwardOK`): that of an
  update past its gates, of a staged update, and of a seed that is being put in place,
  the last only over an intact directory, and unless an update was killed half activated
  while the seed waited. Pointers are written by six steps; each has
  a lemma that says what it does to them (`KeepsEffect` to `FailsEffect`).
- **Bridge.** For any number of requests and upsets: `TokenInUse` from who holds the
  token at which `pc`; `NothingAfterEnd` and `ClearedWhenOver` from what may be in the
  channel. Events are delivered in order and the last status of a stream is the last
  that names it (`OverSealed`, `EndsSealed`): once sent, the token is gone or about to
  go and no handler pushes with it again, and a message of another load of the page
  is told apart by its request (`Fenced`).
- **Media.** For any number of tasks, retries and crashes. `PendingIsPolled` is
  inductive as it stands. For the others each task has a *story* (`Fits`): its job, its
  entry, its delivery and what the session was told are about attempts, none of them
  about a later one than the job's; what was told of the current attempt is what the
  entry says; a delivery is of a failure. `NobodyWaits`, `OneOutcome` and
  `DeliveredIsTold` are parts of it. That a discarded or stopped task is cancelled
  along with its entry rests on `PendingIsPolled`: the registry cancels what is
  polled. `FenceHolds` follows step by step, since what is fenced off is neither
  pending nor due. Each kind of step has a lemma about one task (`EndedFits` to
  `AgainFits`), which the steps of the system cite.

Model-checked only: liveness (`RebuildsGoLive`, `PolicyReachesInstance`,
`OperationReturns`, `TurnEnds`, `BootsEnd`, `ShownEnds`, `TaskEnds`, `NothingStaysDue`),
which this prover does not do, and the fairness of `ImplementsServiceGraph`, whose
other half is `RefinesServiceGraph`. Every invariant and every action property of
the runs is proved.

## What is not modelled

- The guest side: memory, buffers, fuel, instance states (`plugin.rs`,
  `component_backend.rs`, `plugin-sdk`). A guest call is a step that ends.
- The caches of `runtime.rs`; the rings of `state.rs` and `audit.rs`; the
  framing of `pipe.rs`; the decisions of `capability.rs`; validation in
  `config.rs`.
- The fibers and the outer tool registry of `dsh-wasm-host`; of it only what it
  does to the registry is there.
- Of the OpenHanako shell, everything but the three modules above: 358,000 lines
  of a forked application, most of them presentation, prompts, providers, tools,
  chat platforms, migrations and their tests. Their share is far below what three
  state machines can cover, and modelling them line by line would show
  nothing: what is modelled was chosen because several actors meet there over
  state that outlives a step. Next in line are listed below.
- Scaffolding, example plugins, demos, log wording, formatting of reports,
  timing beyond order.

## Plan

Done, in this order: `ToolGraph`, `Registry` with `ServiceGraph`, `ToolSync`,
`Supervisor`, `Calls`, `Turn`, `Artifacts`, `Bridge`, `Media`.

What is left, most important first:

1. `DshSlots`: `Registry` composed with fibers and the outer tool registry. Is
   a slot active in one exactly if it is in the other? `KeepLoaded` disposal
   against the next converge, a `provide` that fails halfway, resync against
   reload.
2. Sessions of the OpenHanako server: prompts, turns and branches of
   `session-coordinator.ts` under Stop, retry, fork and hibernation; the resume
   of streams (`stream-resume.ts`), where a status that arrives during a rebuild
   is dropped.
3. `GuestCall`: the growing output buffer, fuel, the log budget and the states
   of an instance.
4. `LogSink` with two threads, `Pipe` and `Audit`; `DiskCache` with two hosts;
   `Grant`, the intersection of manifest and policy.
