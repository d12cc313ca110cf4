# A verification of embedded_gpui

embedded_gpui runs GPUI programs as WebAssembly components inside a GPUI
application. Host and guest share *objects*: an entity that one end shares can be
called, observed and passed on by the other through a `Remote`. Everything that
crosses the boundary is one FIFO of frames in each direction, carried by guest
turns that run on a worker while the host's foreground goes on.

This directory models that machinery in TLA+ and checks the models with TLC. Every
safety property that a passing run checks is also proved with TLAPS, for all values of the
constants (`NoLostNotify` where a root is installed once), and so are the three refinements:
the registry keeps what `Receipts` promises, the transport is a `Pipe`, and the wrappers are
a `Caretaker`.

## The system

| Part | Source | State | Operations | Hard behaviour |
|---|---|---|---|---|
| Object registry, one per end | `registry.rs`, `embedded_gpui.rs` | homes with their observers, projections with a signal and a guard, the release queue, open receipts, root frames that wait | share, share_root, connect, clone and drop a `Remote`, observe, call, deliver a frame, drain releases | every pair of steps of the two ends interleaves; drops are queued and race with connects; bootstraps race; handlers answer later |
| Host transport | `host.rs` | request queue, worker, turns to apply, pump, scheduled wakeup | call, pump, coalesce and run a turn, trap, apply a turn, fail pending receipts, wake | concurrency of worker and foreground; a trap at any point; timers of a guest that cannot run on its own |
| Guest turn and scheduler | `guest.rs`, `guest/objects.rs`, `guest/dispatcher.rs` | inbound frames, tasks, timers, collected output | deliver, run until idle, report the next wakeup | order of the work in a turn; what is left when it ends |
| Surfaces and views | `host/surface.rs`, `guest/window.rs`, `guest/platform.rs`, `guest.rs` | the surface's view, geometry and display list; the guest's windows, their events and sizes | mount, attach, measure, forward input, draw, replace, drop | layout, attach, drawing and release all travel at their own pace |
| Capability wrappers | `embedded_gpui_util.rs` | revocation flag, wrapper table, audit ledger | forward, translate refs, revoke | revocation racing with calls in flight |
| Mirror | `embedded_gpui_util.rs` | latest value, fetching, dirty | refresh, settle | notifies during a fetch |
| Script runtime | `embedded_gpui_js` | operation queue, remotes, views, click handlers, pending requests, history; the watcher's last modification time | dispatch, drain operations, settle, click, load and replay, poll the file | a load with receipts and requests open; the file changing during a load; several views of one script |
| Text and glyph atlas | `guest/text_system.rs` | a font cache for the guest; per window the atlas (tiles, their payload ids) and the tints; the images that wait to be shipped | resolve a family, make a tile for a glyph, image or vector, remove a tile, tint | several windows mint ids for one cache; an image leaves the atlas while a scene still names its tile; fonts change at the host |
| Scenes and their replay | `guest/window.rs`, `host.rs` (`apply_scenes`), `host/surface.rs` | the scene that a window drew last; the image cache of a plugin; a surface's display list | draw or repeat a scene, serialise it, carry the list in a turn, ingest it, replay it | a list is replaced before it is seen, or its surface is gone, and later lists name what it shipped |
| Schema, macros, WIT, examples | the rest | none at run time | | |

What makes each part correct:

* **Registry.** Each call is handled at most once and its receipt settles once.
  Calls to one target start in order. A remote keeps the entity behind it alive;
  dropping the last one lets go of it at the dropping end's next drain, after everything
  sent through it. Both ends
  agree on who observes what, and the last change of an observed entity is
  signalled. Nothing that belongs to a released projection stays behind.
* **Transport.** Frames arrive once, in order, until the plugin stops; when it
  stops, open receipts fail; a sleeping guest is woken.
* **Wrappers.** To its caller a wrapper is the object behind it. Refs that cross a
  membrane are wrapped once and unwrapped on their way back; after a revoke nothing
  crosses and nothing minted is live. A ledger's records have their own calls' outcomes.
* **Mirror.** One fetch in flight; the last change is fetched.
* **Script runtime.** Every script that loads hears every call of the host, once and in
  order. Nothing that an earlier script began answers, closes or shows anything later.
  The last write of the file gets loaded. A view's click handlers stay callable.
* **Pixels.** Whatever a list names has arrived at the host, was shipped once, and is
  the picture, in the tint and the font, that the view drew.
* **Surfaces.** The view attached to a surface has a window that is pumped and has
  the slot's size; a view that was replaced or lost its surface is released once and, at
  the next drain, closes its window.

The parts meet at three interfaces: the registry hands frames to a *sink* and is
given frames by *deliver* (the transport stands between two registries); the
transport hands the guest a turn's frames and takes its output; surfaces and views
are ordinary shared objects plus a side channel of display lists.

## The modules

| Module | Models | Uses |
|---|---|---|
| `Registry` | both object registries and the two FIFOs between them | |
| `Receipts` | what a receipt promises its caller | refined by `Registry` |
| `MCRegistry` | model values for `Registry` | extends `Registry` |
| `RegistryProofs` | theorems about `Registry`, and its refinement of `Receipts` | extends `Registry` |
| `ObserverProofs` | theorems about the observers of `Registry` | extends `RegistryProofs` |
| `PluginHost` | the transport and the guest's turn | |
| `Pipe` | what a transport promises the registries: a FIFO that only closing cuts | refined by `PluginHost` |
| `PluginHostProofs` | theorems about `PluginHost`, and its refinement of `Pipe` | extends `PluginHost` |
| `SurfaceView` | surfaces, views and windows | |
| `MCSurfaceView` | model values for `SurfaceView` | extends `SurfaceView` |
| `SurfaceViewProofs` | theorems about `SurfaceView` | extends `SurfaceView` |
| `Wrappers` | `Revocable` and its membrane, `Attenuated`, `Audited` | |
| `Caretaker` | what a wrapper promises its callers | refined by `Wrappers` |
| `MCWrappers` | model values for `Wrappers` | extends `Wrappers` |
| `Mirror` | a `Mirror` and the object it follows | |
| `WrappersProofs` | theorems about `Wrappers`, and its refinement of `Caretaker` | extends `Wrappers` |
| `MirrorProofs` | theorems about `Mirror` | extends `Mirror` |
| `JsRuntime` | the script runtime: loads, replay, calls, views and the file watcher | |
| `JsRuntimeProofs` | theorems about `JsRuntime` | extends `JsRuntime` |
| `Pixels` | from what a view draws to what its surface paints: fonts, atlas, scenes, image cache | |
| `MCPixels` | model values for `Pixels` | extends `Pixels` |
| `PixelsProofs` | theorems about `Pixels` | extends `Pixels` |

In `Registry`, `Host` and `Guest` run the same code. Frames are delivered one at a
time: that turns batch them is `PluginHost`'s business, and its refinement of `Pipe`
is what entitles `Registry` to its two sequences.

### Registry and the code

* `homes[e][a]` is the kind of `HomeEntry.entity`: `strong`, `weak` once released,
  `owned` for a type with `keep_alive = false`, `observer` for the hidden homes,
  which have no entity. An entity is *alive* while its home is strong or its end's
  user code holds it (`held`).
* `projections`, `remotes`, `signal` and `releases` are the projection table, the
  strong count of each guard, the observer id behind each signal, and the queue that
  a guard's `Drop` fills.
* `Reconnect` is the branch of `connect_id` for a projection whose guard died but
  whose release is still queued. `Forget` is what `release_id` does to its own end.
* `HandleCall` covers a handler that answers at once and one that answers from a
  task; `FinishTask` is that task. A handler's own calls, shares and drops are user
  steps like any other.
* `cx.notify` is a gpui effect: `Change` queues it (once per entity), `FlushNotify`
  runs the observation that `install` registered.
* `ShareRoot` installs the root and delivers the frames that waited for it, in one
  step as in the code; each waiting call may have a synchronous or an asynchronous
  handler, and either may answer a ref.
* History that no code keeps, for the properties only: `version` counts the changes
  of an entity, a notify carries the version it was sent at and `seen` records it;
  `released` remembers every address an end released and a call's `ok` whether its
  sender had; `minted` is every id drawn.

Abstractions: payloads are reduced to the one ref they may carry; typed events take
the way of notifies; random 64-bit ids are distinct; a second share of one entity is
another object; connecting a ref homed on the same end is excluded, as the code
declares it unsupported; errors that a handler returns are not told apart; the queue of
releases is drained in an arbitrary order.

### PluginHost and the code

`requests` is the worker's queue, `StartTurn` takes everything from it
(`Coalesce`), `GuestDeliver` to `EndTurn` are the turn, `Trap` is the `Err` arm of
the worker at any moment of a turn, `ApplyTurn` and `FailPending` are the pump, and
`WakeFires` is the task of `schedule_wake`. A frame has the ordinal that its end gave
it, so that `Pipe` can speak about order; only calls and responses travel, the
registry's other frames being the same to a transport. Task 0 is a task of the
plugin's own, task r the handler of the host's call r. A host's handler answers at
once, while the pump applies the turn. Delays are abstracted: a timer comes due at any
time after it was set, and a wakeup fires at any time after it was scheduled. A frame
that the host sends after the worker reported a trap, but before the queue's receiver
is gone, is lost like one in the queue: the model lets `Trap` do both at once.

### SurfaceView and the code

One `Surface` entity is shared under several ids (each `share` draws one) and may be
mounted several times; a view is named with its window. `applying` holds the turn
that the pump is in the middle of: its attach calls one by one, then its scenes; no
other foreground code runs in between, the worker does. `phase` walks through the
guest's `pump`: deliver, flush the window events, run tasks, let windows draw, run
tasks again, take the output. A display list is reduced to the window that drew it,
an input event to its arrival, sizes to a few values with `Empty` for a collapsed
slot, which `resized` ignores. The cursor is left out.

### Wrappers and the code

A membrane has one end that holds remotes and shares wrappers back; both sides of it,
the *inner* one with the wrapped object and the *outer* one that calls, live on the far
end (refs of a third party are not supported by the code). `wrappers` and `innerOf` are the
two maps of `MembraneState`, `target` is each `Revocable`'s remote, `records` the ledger.
`Translation` is what `translate_ref` returns and `Translate` what it does; a payload has at
most one ref. A call takes a hop at a time, and any call may be next, which allows more
orders than the FIFOs do. `sent` and `wraps` are history: the ids ever sent to a side, and
what each wrapper was made for. Refs that `Attenuated` and `Audited` pass verbatim are
left out. The root wrapper is never passed as a ref: the code's table does not know it, so
it crosses as it is (listed as a hazard).

### JsRuntime and the code

The guest has one thread and `run_js` pumps the engine's jobs and drains the operation
queue before it returns, so an entry into the script is one step; the queue is empty
between steps and needs no variable. What stays open between steps is explicit:
`pending` are requests whose promise waits (`JsState.pending`), `receipts` the calls of
scripts that they wait for, `windows` what scripts opened. The watcher is in pieces
(`Poll`, `Stat`, `Read`) because the file is not the guest's: `Edit` may fall between them.

A root method answers, throws, awaits one call before it answers, opens a view and
answers, or throws what has no text, which fails the dispatch itself and leaves the
request behind (`Mode`). A method that awaited may also never answer (`Ending`): it waits
for something else, or its answer has no encoding, and the request stays pending until
the next load. `Load` gives the outcome of a replay in closed form: request i is the
i-th call of the history, views and handlers are numbered as the replayed calls mount
them, and a load that fails leaves a fresh state without a replay. A script's name is
its number. A write is named by its number, which is also its modification time. A
settled call of an earlier script enters the new runtime, where the engine refuses a
function of another runtime (`Persistent::restore`, external): `Settle` takes the
receipt and does nothing else. `CloseWindow` is the host letting go of a view.
`heard` is history: what was dispatched to the running script.

### Mirror and the code

The home is a version, `changed` and `signalled` are the gpui notify effects of the
object and of the signal, `receipts` are answers whose task has not run. `Init` is
`Mirror::new`, with or without an earlier subscription; `Refresh` is the part of
`refresh` that runs at once and `Settle` its task. An asynchronous handler answers with
any state since it started. `failed` is history: the code only logs it. The object lives
in a plugin: `Stop` is the end of the worker, which takes the home, the frames on their way
to it and the frames of the turn it was in; the turns before it are still applied, then
`FailPending` fails the fetch whose receipt is `open`. A fetch that starts after that
hangs, which is finding 2 seen from a mirror: it stays `fetching`.

### Pixels and the code

A view paints text of a family, images, vectors in a color and plain shapes. `scene` is
what GPUI has of a window after its last draw: a redraw repeats a range of it as it was, tiles
included, as GPUI does for views that did not change, and paints on. A primitive carries
what it was drawn as, which is history; tile, font and image are looked up where the code
looks them up. While a window draws (`frame`), nothing else of its plugin runs: it
paints, then serialises, tinting masks on the way (`Tint`), and pushes its list
(`Present`).

`tiles`, `nextTile`, `payload` and `pending` are the maps of a window's `AtlasState`; tile 0
stands for none. `minted` is what each payload id was minted for, and its length the counter
that all windows of a plugin share. `fontIds` is the guest's font cache, `fonts` what the
host can resolve. `Remove` is the atlas forgetting an image that GPUI drops. `EndTurn`
hands over the lists of a turn and `Unpack` applies one: its images go into
`PluginHost.images`, its primitives onto the surface if that is still there. A window stands for one opening of
a window: reopening gives another. `DropSurface`, `AddFont` and `Trap` may come between any
two steps.

## The runs

Bounds are CONSTANTS named in each module; each run's cfg sets them.

| Run | Question | Instance |
|---|---|---|
| `RegistryLifetimes` | do the release queue, the observer homes and both ends' observers stay exact, and is an observed change ever lost? | three ids (an object and two observer homes, so that a projection can be observed, released and observed again) and a root; one object shared, two clones of each remote, one entity that changes after it was shared; two frames of room |
| `RegistryCalls` | does each call run once, in order, and find its entity? does the registry implement `Receipts`? do receipts settle, do the guest's drops arrive, and is an observer told of the last change, whenever it falls? | one object and a root of the host, one of which changes after it was shared; two calls of the guest, one clone of each remote; one frame of room |
| `RegistryRootRelease` | violation: see finding 1 | |
| `PluginHost` | is the transport a `Pipe`, is no wakeup lost, is every open receipt owed? do timers fire and calls settle, with traps? | two host calls, one guest call, three turns ahead of the pump |
| `PluginHostAfterTrap` | violation: see finding 2 | |
| `SurfaceViews` | does the attached view keep its window and get the slot's size? is each replaced or orphaned view released once, and does it close if host or guest had anything to do? | two views, two ids, three sizes, two mounts |
| `Wrappers` | do refs stay on their side of a membrane, is a revoke complete, are the wrappers otherwise transparent, is the ledger exact? | a vault with a key, one outer object, two calls and an event |
| `Mirror` | is one fetch in flight, is the last change fetched, and does a stop of the plugin end the fetch it interrupts? | three changes, a stop at any moment |
| `JsRuntime` | does every script hear the history, does nothing outlive its script, is the last write loaded? | two calls of the host, four loads, two renders a script, three writes |
| `Pixels` | have the images of a list arrived, does a surface paint what its view drew, is an image shipped once, has a family one font? | two plugins, a window and a surface each or two windows of one, two images, one vector in two colors, one family, lists of two sprites, three tiles, three payloads, two redraws: 1.6 million states |
| `SurfaceLateRedraw`, `JsClicks` | violations: findings 3 and 4 | |

Why the bounds are enough: the hazards are races between a drop, a reconnect and the
frames about one object, and two generations of a projection (three ids) with two
frames in flight each way already show every pair of them. Replies and releases
are not limited by `MaxWire`, which only keeps user code from flooding the wire.
`MaxShares` and `MaxChanged` say how many objects are shared and change: objects meet
only in the order of the wires, which a root and an object already show. In
`Wrappers`, two calls and an event let a ref cross in one and come back in another, with a
revoke anywhere between; four wrappers suffice for every object. In `Mirror`, three changes
let one precede, one accompany and one follow a fetch. In `JsRuntime`, three loads are an
old script, its successor and one that fails between them, a fourth lets the successor's
requests outlive it too, two calls are pending side by side, and three writes allow one
in the middle of a load and one after it. In `Pixels`, two redraws are a
scene and its repetition, two windows of one plugin share its counter and its cache,
and three payloads let an image be shipped, removed and shipped again. In
`PluginHost`, two calls are what order and coalescing need, and three turns let a
wakeup wait behind two others. Two views are a replacement. Guest and host run the
same registry code, so one end shares and the other calls; the theorems hold for any
choice of `Sharers` and `Callers`. Ids, views and surface ids are interchangeable and
declared as symmetry sets where no liveness is checked. `RegistryCalls`, which checks it, has
one id, for an object or for the observer of the root, and one frame of room: the two calls meet
in the queue of the root and on the wire behind it, and notifies, responses and releases
travel besides.

Deadlock checking is off where it is no error to stop: user code may stop at any
time, every counter is bounded, and a trapped plugin stops for good.

Properties worth a word:

* `ReleaseQueueExact` and `ObserverHomesExact` relate three tables that four
  operations update in different orders.
* `ObserverPairing` compares the home's observer list, *after everything in flight is
  applied*, with the projection's signal.
* `NoLostNotify` says where the news is whenever an observer is behind, and
  `ObserversFire` that it arrives: an observer is told of the *last* change, or the object or
  the observation is gone.
* `DroppedViewCloses` says when a drop needs nobody's help: any turn that is asked for,
  running or waiting ends with a drain after the drop. Without one, the release stays queued
  until the embedder calls `pump` (see the end of the findings).
* `RequestsAccounted` and `ReceiptsSpec` follow each request through frame, task
  and response. `CallsFindEntity` needs the FIFO, the strong home and the position
  of the release.
* `PipeSpec` says that queue, coalescing, turns and pump together are a FIFO.
* `NoLostWake` is what stands between a guest timer and eternal sleep.
* `CaretakerSpec` maps ids to the objects behind them, and finds that a call through
  any wrapper is a call to the object with the same objects as argument and answer.
* `NewsOnItsWay` says what will tell a mirror that it is behind.
* `NothingOutlivesScript` holds although request and view numbers start over with each
  script and receipts of earlier ones settle at any time. A request that nothing will
  answer is still one that the next load fails.
* `ScriptHearsHistory` compares what the running script heard with what the *host* knows
  of its calls, not with the runtime's own history.
* `EditsNoticed` rests on the modification time being read before the text.
* `PaintsWhatWasDrawn` compares what comes out at the surface with what the view drew,
  across tile numbers that every window counts from the start, payload ids that all of
  them share, and scenes that name tiles already gone.
* `ImagesArrive` holds for lists that were never shown: what an older list shipped is in
  the cache before a newer list can name it.
* `AttachedViewMeasured` compares the slot with the size that the window will end
  up with, whatever is still on its way.

### Fairness

`Registry`: frames are delivered, the guest drains its releases (guest code runs in turns
only, and every turn ends with a drain), gpui flushes its effects, asynchronous handlers
finish, and an end that shares anything installs its root. The last one is needed: calls to a
root that is never installed stay pending by design. The *host's* drains are not fair: it
drains around a turn that it applies and when the embedder calls `PluginHost::pump`, and a
quiescent plugin gives it no turn. In the fair runs the guest calls and the host shares, so
`DropsReachHome` speaks of the guest's drops, and nothing rests on a drain of the host.
`PluginHost`: the worker takes what is queued, a turn goes on (and the budget traps
it if it does not end: `Trap` itself is not fair, the plugin may be well-behaved),
the foreground runs the pump and its tasks, timers come due.
`SurfaceView`: requests get a turn, and turns are run and applied. `PumpReleases` is the
embedder's call of `pump` and not fair. `DroppedViewCloses` therefore promises something only
for a view let go of while a turn is asked for, running or waiting; a replaced view is always such
a one.
`Mirror`: both ends pump and flush, tasks run, and an asynchronous handler finishes;
the stop of the plugin is not fair, but the pump that hears of it is.
User code is never fair.

## Findings

1. **A root's release overtakes its subscribe** (`RegistryRootRelease`,
   `registry.rs:566`). Frames to a root that is not installed wait in a queue, but not
   its release, which is dropped. A root that was observed and released meanwhile
   starts with an observer that no longer exists, and notifies it for ever.
2. **Calls after a trap hang** (`PluginHostAfterTrap`, `host.rs:551`). The sink drops
   the frame with a log line; the receipt was already registered and nothing fails it
   any more. The existing test awaits a call made before the pump saw the trap.
3. **A late redraw** (`SurfaceLateRedraw`, `guest.rs:153`). A task that runs in the
   second scheduler pass can dirty a window, which then waits for an unrelated turn.
4. **A render disables the other views' clicks** (`JsClicks`, `prelude.js:136`).
   `View.render` clears one table of handlers that all views of a script share.

Not findings, since the repository states them: a reconnect after the release
reached the home finds "entity dropped" (tests), reload replay is best-effort
(`TODO.md`), a surface dropped while its attach is on the way leaves its view's window
open (`TODO.md:135-139`, refs in flight are not accounted for; `SurfaceView` shows it, and
`DroppedViewCloses` speaks only of views that were attached), and images are never evicted from the
host's cache (`DESIGN.md:552`).

The source contradicts itself on one point, which is why `DroppedViewCloses` has a condition.
The docs of `Surface` say "Drop the entity and the guest's remote dangles, its view is released,
and the window behind it closes" (`host/surface.rs:26-27`, likewise `DESIGN.md:57-58`). The drop
only queues a release, and the host drains that queue around a turn that it applies or when the embedder
calls `PluginHost::pump`; so a surface dropped while its plugin is quiescent leaves the
window open. The comment of `pump` says as much: "Hosts with quiescent plugins (no pending tick)
can call this to make drops observable" (`host.rs:672-673`). Without the condition TLC finds
that behaviour: the surface is dropped between turns, and nothing more happens.

## Proofs

`RegistryProofs` proves, for any finite set of ids and any bounds:

* `TypeCorrect`: `Spec => []TypeOK`. The only step that needs more than its own
  assignments is `ShareRoot`, whose effects are given by enumerations of positions in the
  waiting queue, and `DrainReleases`, whose frames are an ordering of a set.
* `QueueExact`: `Spec => []ReleaseQueueExact`. Inductive together with `TypeOK`: a
  case per action that touches remotes, projections or the queue.
* `ObserverHomes`: `Spec => []ObserverHomesExact`. It is not inductive by itself: a
  fresh observer id must not be a home already, so the invariant is strengthened with
  `HomesMinted` (every home but a root's, and every signal, was drawn before). `Observe`
  then adds a home and a signal that were both absent, and `Forget` removes a home
  exactly with the one projection that listens on it, which the injectivity part of
  `ObserverHomesExact` gives.
* `CallsFind`: `Spec => []CallsFindEntity`. Strengthened with `WiresTame`, which speaks
  of everything on a wire at once: a release on it is of an address its sender has
  recorded as released, no call by a sender that had never released its target stands
  behind a release of that target, and a home is weak only if the other end ever released
  it. A first call therefore goes behind no release of its target, and only the release
  in front of the FIFO can weaken a home. The lemmas about `Tame` say what appending,
  consuming and weakening do to a wire; each action then only has to name its frames.
* `RequestsKept`: `Spec => []RequestsAccounted`. `StageIs` says of one request that it is
  in the one place its stage names and in no other: waiting for a root, on the wire,
  with a running handler, or answered. `Moves` says that a step leaves it there or
  advances it, and there is one lemma per group of actions; `ShareRoot`, which answers a
  whole queue and hands part of it to tasks, needs that `InOrder` reaches each position once.
* `ReceiptsKept`: `Spec => ReceiptsSpec`, the refinement. `StageRead` says that the refinement
  mapping reads off the stage of `StageIs`, so that `Moves` is the step of `Receipts`.
* `CallsStartInOrder`: `Spec => CallsInOrder`. The queue for a root and the wire behind it are
  `Sorted`, one `Before` the other, and nothing waits for a root that is there (`QueueFirst`), so
  a call to a root never overtakes the queue. Every step grows what is in flight, answers
  the queue, or moves or takes the head of the wire (`Flows`).

`ObserverProofs` proves, on top of these:

* `ObserversPaired`: `Spec => []ObserverPairing`. `Heard` says what a sequence of frames
  makes of a list of observers, and `HeardConcat` that it may be applied piece by piece: so
  sending appends to it, delivering takes the front off it. It rests on `FitInv`, what a frame
  in flight may be: whatever is subscribed to, released or called is shared by the receiver,
  or is a `$notify` to an observer that was drawn; only root frames wait for a root; what
  an end holds a ref or Remote of, the other end shares.
* `NotifyReaches`: `MaxRoots <= 1` implies `Spec => []NoLostNotify`. The condition is the code's:
  a root that is installed again starts without the observers of the one before, and what it
  notifies then reaches nobody (see the hazard at `registry.rs:213`). Three facts make it inductive. Who
  listens on a root is listed there or has a subscribe under way (`RootHeard`). An observer has
  one subject, so no $notify to it is another object's (`OneSubject`). And
  the versions on the wire end in the newest one: `WillSee` is what an observer will have
  been signalled when the wire is empty, which appending a $notify sets and delivering one keeps.

`PluginHostProofs` proves, for any number of calls, requests and turns:

* `HostTypeCorrect`: `Spec => []TypeOK`. The frames of a turn and of a coalesced request are
  concatenations, so it needs what `FlattenSeq` does to a sequence that grows at its end or
  shrinks at its front: an induction, done over a *set* of numbers (`SetInduction`), because
  the provers cannot use the library's induction theorems, whose parameter is an operator.
* `SleepersWake`: `Spec => []NoLostWake`. It is not inductive without `ShapeInv`, which says what is
  queued where: that a guest between turns holds neither input nor output, that the worker
  leaves no request behind when it stops, and that the turn that reports it carries nothing.
* `HostIsPipe`: `Spec => PipeSpec`, the refinement. Every step of queue, worker, turn and pump
  is one `Flow` of each end's frames: it takes some from the front of all that is in flight
  and puts new ones at the end, or cuts the end when the plugin stops. `LinedInv` says that the
  frames in flight bear consecutive numbers, from which `Flow` is a step of `Pipe` or none.
* `ReceiptsAreOwed`: `Spec => []OpenReceiptsOwed`. `OwedInv` follows a receipt from the call's frame
  to the handler's task, the response, or the turn that reports the plugin's end, and adds
  that a worker which stopped has left such a turn for a pump that still runs.

`SurfaceViewProofs` proves, for any views, ids, sizes and bounds:

* `SurfaceTypeCorrect`: `Spec => []TypeOK`. `FiniteInv` is needed because the releases of a pump and
  the scenes of a frame are orderings of sets, which are sequences only if the sets are finite.
* `ViewsReleasedOnce`: `Spec => []ReleasedOnce`. `StageInv` says of each view that opened that it is
  on its way to attach, attached, dropped, released or closed, and one of these at a time, and
  that no two frames release one view. `Attach` breaks it unless the view has no second
  attach call behind it, which only the next invariant gives.
* `AttachedWindowPumped`: `Spec => []AttachedViewLive`. Windows open in the order in which their views
  attach, through the guest's output, the turns and the pump's list of calls. `OrderInv` says
  so with a rank of the views, bound by an existential quantifier: no variable keeps it. A view
  that is attached or on its way either draws on its id or has a view of higher rank behind it that will
  replace it. `OpenView` gives its view the highest rank; `Attach` takes the lowest one,
  which no other view waits for.
* `AttachedWindowMeasured`: `Spec => []AttachedViewMeasured`. `Targets` splits what a window ends up
  with into a frame's, an event's and its own size; delivering moves the front of the first to the end of
  the second and a flush folds the second into the third, and no step but a measure or an
  attach changes the last one that counts.

`WrappersProofs` proves, for any objects, wrappers, calls and events:

* `SidesStaySeparate`, `MembraneStaysWhole` and `RevokeIsFinal`: `SidesSeparated`,
  `MembraneWhole` and `NothingCrossesAfterRevoke`. `Inv` adds that the tables say of a wrapper what it
  was made for (`TablesTrue`) and that a payload in flight holds what its sender may pass
  (`PayloadsPassable`). The lemma `TranslateCrosses` is the heart: what
  `translate_ref` makes of such a ref, before a revoke, belongs on the other side.
* `LedgerStaysExact`: `LedgerExact`, because the index that a call keeps names its own record
  (`LedgerInv`).

It also proves the refinement, `WrappersAreCaretaker`: `Spec => CaretakerSpec`.
With every id read as the object behind it, each step is the step of `Caretaker` of the
same name, or none. Two facts carry it: the tables only learn, so what a call was once seen to be does not
change (`Learning`), and a crossing changes an id's name but not its object (`CrossingObject`). `CareInv`
adds that a forwarded call was permitted and made before any revoke.

`MirrorProofs` proves `OneFetch` and `NewsOnItsWay`, for any number of changes. The
invariant counts the places of a fetch (`FetchInv` is the one step that starts one);
what makes `NewsOnItsWay` inductive is `OldIsNews`: an answer in flight that is older than
the object has another notify behind it. `Gone` says what a stopped plugin leaves: answers
that each have an open receipt, and nothing that still has to be handled.

`JsRuntimeProofs` proves `ScriptHearsHistory`, `NothingOutlivesScript` and `EditsNoticed`, for any number
of calls, loads, renders and writes. `ScriptInv` relates pending requests, outcomes, receipts and
windows, and accounts for a load in closed form. `HistoryInv` says that the history is the host's
calls so far, numbered as they were made; that settling a request never makes or unmakes a
call needs `ScriptInv`. `FileInv` orders the times of a write, of the watcher's reading of it and of the load.

`PixelsProofs` proves type correctness, `ImagesArrive`, `PaintsWhatWasDrawn`, `ShippedOnce` and `OneFontPerFamily`,
for any plugins, windows, surfaces, sprites and bounds. The invariant says that every tile
has the picture it was made for or none (`TilesExact`), that ids are minted once for one
picture (`MintedExact`), that every primitive on its way stands for what was drawn
(`PrimsExact`), that an id in use is cached or ahead of its use (`Arriving`), and that
payloads that wait, travel and are cached have different ids (`Separate`).

The assumptions are the ASSUMEs of the modules: model values differ where the code's ids
do, bounds are naturals. TLC evaluates them in every run.

Model-checked only are the liveness properties: `ReceiptsSettle`, `DropsReachHome`, `ObserversFire`,
`TimersFire`, `InFlightCallsSettle`, `GuestCallsSettle`, `DroppedViewCloses` and `CatchesUp`. Fairness and
ENABLED are out of the prover's reach. The four violations need only a counterexample.

## Plan

Done, in order of weight: registry, transport, surfaces, wrappers, mirror, script
runtime, pixels, and the theorems above. Next:

1. Dropping wrappers, and notifies through them.
2. Observers and the table of remotes of a script.

## Not modelled

* Of the parts modelled: typed events apart from notifies, errors told apart, a third
  party's refs (`Registry`, `Wrappers`); dropping the `PluginHost` entity, compiling and instantiating a
  component (`PluginHost`); cursor styles (`SurfaceView`: the pending cursor is flushed at
  the next pump, `guest/platform.rs:89`); glyph metrics, raster bounds, geometry, painting
  order, fallback fonts within a line, malformed payloads (`Pixels`); that attaching a view empties its
  surface, and that a window closes and another opens on its id, which is `SurfaceView`.
* Macros, schema and declaration generators, WIT: code that runs when a program is built
  and produces text. They have no state at run time and no interleavings.
* wasmtime and WASI set-up: configuration of a library.
* Examples and tests: user code, which the models let do anything the interfaces allow.
