------------------------------ MODULE Registry ------------------------------
(***************************************************************************)
(* The object registry (embedded_gpui/src/registry.rs), instantiated at    *)
(* both ends of the boundary and joined by one FIFO of frames in each      *)
(* direction.                                                              *)
(*                                                                         *)
(* At an end e, homes[e] holds the local objects and projections[e] the    *)
(* remote ones.  An object is known by its id; the address Root means "the *)
(* root of whichever end you send it to".  User code shares entities,      *)
(* clones and drops Remotes, observes, calls and notifies at any time;     *)
(* Deliver applies the oldest frame sent by the other end.                 *)
(*                                                                         *)
(* Payloads are reduced to the one ref they may carry.  An entity's state  *)
(* is reduced to the number of times it changed (version), and the value a *)
(* reader is certain to see once its observer fired to seen: a $notify     *)
(* frame carries the version it was sent at, which no code reads.          *)
(***************************************************************************)
EXTENDS Naturals, Sequences, FiniteSets, Functions

CONSTANTS
    Host, Guest,    \* the two ends
    Id,             \* the ids reserve_local_id may draw
    Root,           \* ROOT_ADDRESS
    Nil,            \* no id
    Sharers,        \* the ends whose user code shares objects and a root
    Callers,        \* the ends whose user code connects, observes and calls
    MaxRequests,    \* bound: calls an end makes
    MaxVersion,     \* bound: changes of an entity that are followed
    MaxChanged,     \* bound: entities of an end that change
    MaxClones,      \* bound: Remotes of one projection at a time
    MaxShares,      \* bound: objects an end shares
    MaxRoots,       \* bound: times an end installs a root
    MaxWire         \* bound: frames in flight before user code sends more

ASSUME EndsAssumption == Host # Guest
ASSUME IdAssumption == /\ IsFiniteSet(Id)
                       /\ Root \notin Id
                       /\ Nil \notin Id \cup {Root}
ASSUME BoundsAssumption ==
    /\ MaxRequests \in Nat /\ MaxVersion \in Nat /\ MaxClones \in Nat
    /\ MaxRoots \in Nat /\ MaxShares \in Nat /\ MaxChanged \in Nat
    /\ MaxWire \in Nat

VARIABLES
    homes,          \* homes[e][a]: what State.homes maps a to
    observers,      \* observers[e][a]: HomeEntry.observers
    held,           \* held[e]: entities that the end's own code still holds
    version,        \* version[e][a]: changes of the entity so far
    dirty,          \* dirty[e]: entities with a gpui notify effect queued
    roots,          \* roots[e]: times share_root ran
    pendingRoot,    \* pendingRoot[e]: State.pending_root_frames
    tasks,          \* tasks[e]: calls whose async handler is running
    projections,    \* projections[e]: the keys of State.projections
    remotes,        \* remotes[e][a]: strong count of the projection's guard
    signal,         \* signal[e][a]: observer id in Projection.signal, or Nil
    seen,           \* seen[e][a]: version last signalled, 0 for never
    releases,       \* releases[e]: Inner.releases, dead guards not yet drained
    released,       \* released[e]: addresses a release was ever sent for
    refs,           \* refs[e]: ids that arrived in a payload
    nextRequest,    \* nextRequest[e]: State.next_request_id
    pending,        \* pending[e]: the keys of State.pending_responses
    wire,           \* wire[e]: frames e sent, oldest first
    minted          \* every id drawn so far, at either end

homeVars == <<homes, observers, held, version, dirty, roots, pendingRoot, tasks>>
remoteVars == <<projections, remotes, signal, seen, releases, released>>
callVars == <<refs, nextRequest, pending>>
vars == <<homeVars, remoteVars, callVars, wire, minted>>

End == {Host, Guest}
Peer(e) == IF e = Host THEN Guest ELSE Host
Addr == Id \cup {Root}

(***************************************************************************)
(* HomeEntry.entity: "observer" for None, "strong", "weak" once released,  *)
(* "owned" for the Weak of a type that opted out of keep_alive.            *)
(***************************************************************************)
HomeKind == {"absent", "observer", "strong", "weak", "owned"}
IsShared(e, a) == homes[e][a] \in {"strong", "weak", "owned"}

\* The entity behind a home upgrades.
Alive(e, a) == homes[e][a] = "strong" \/ a \in held[e]
-----------------------------------------------------------------------------
(***************************************************************************)
(* Frames.  In a call, ok says that its sender had never released the      *)
(* target when it called: like ver, it is there for the properties only.   *)
(* In a response, ok tells Ok from Err.                                    *)
(***************************************************************************)
Frame == {f \in [kind : {"call", "response", "subscribe", "release"},
                 target : Addr, request : Nat, id : Id \cup {Nil},
                 ok : BOOLEAN, ver : Nat] : f.kind = "subscribe" => f.id # Nil}

Call(a, r, ref, first) == [kind |-> "call", target |-> a, request |-> r,
                           id |-> ref, ok |-> first, ver |-> 0]
Notify(o, v) == [kind |-> "call", target |-> o, request |-> 0,
                 id |-> Nil, ok |-> FALSE, ver |-> v]
Response(call, ref, outcome) ==
    [kind |-> "response", target |-> Root, request |-> call.request,
     id |-> ref, ok |-> outcome, ver |-> 0]
Subscribe(a, o) == [kind |-> "subscribe", target |-> a, request |-> 0,
                    id |-> o, ok |-> TRUE, ver |-> 0]
Release(a) == [kind |-> "release", target |-> a, request |-> 0,
               id |-> Nil, ok |-> TRUE, ver |-> 0]

Send(e, frames) == wire' = [wire EXCEPT ![e] = @ \o frames]
Room(e) == Len(wire[e]) < MaxWire

\* A slip: only an Ok outcome is sent.
RespondIfOk(e, call, ref, outcome) ==
    IF call.request = 0 \/ ~outcome THEN <<>> ELSE <<Response(call, ref, outcome)>>

\* respond: a call that asked for no response gets none.
Respond(e, call, ref, outcome) ==
    IF call.request = 0 THEN <<>> ELSE <<Response(call, ref, outcome)>>

\* A slip: the last observer is left out.
NotificationsButLast(e, a) ==
    [i \in 1 .. Len(observers[e][a]) - 1
        |-> Notify(observers[e][a][i], version[e][a])]

\* notify_observers: one $notify to each observer of a home.
Notifications(e, a) ==
    [i \in DOMAIN observers[e][a] |-> Notify(observers[e][a][i], version[e][a])]

\* What a payload built at e can carry: no ref, or a ref to a shared object.
Payload(e) == {Nil} \cup {a \in Id : IsShared(e, a)}
-----------------------------------------------------------------------------
Init ==
    /\ homes = [e \in End |-> [a \in Addr |-> "absent"]]
    /\ observers = [e \in End |-> [a \in Addr |-> <<>>]]
    /\ held = [e \in End |-> {}]
    /\ version = [e \in End |-> [a \in Addr |-> 0]]
    /\ dirty = [e \in End |-> {}]
    /\ roots = [e \in End |-> 0]
    /\ pendingRoot = [e \in End |-> <<>>]
    /\ tasks = [e \in End |-> {}]
    /\ projections = [e \in End |-> {}]
    /\ remotes = [e \in End |-> [a \in Addr |-> 0]]
    /\ signal = [e \in End |-> [a \in Addr |-> Nil]]
    /\ seen = [e \in End |-> [a \in Addr |-> 0]]
    /\ releases = [e \in End |-> {}]
    /\ released = [e \in End |-> {}]
    /\ refs = [e \in End |-> {}]
    /\ nextRequest = [e \in End |-> 0]
    /\ pending = [e \in End |-> {}]
    /\ wire = [e \in End |-> <<>>]
    /\ minted = {}
-----------------------------------------------------------------------------
(***************************************************************************)
(* Sharing, and the life of the shared entities at their own end.          *)
(***************************************************************************)
\* reserve_local_id: random, so distinct from every id drawn at either end.
Mint(a) == /\ a \in Id \ minted
           /\ minted' = minted \cup {a}

\* share / share_with, by code that holds the entity.
Share(e, a, keepAlive) ==
    /\ Cardinality({x \in Id : IsShared(e, x)}) < MaxShares
    /\ Mint(a)
    /\ homes' = [homes EXCEPT ![e][a] = IF keepAlive THEN "strong" ELSE "owned"]
    /\ held' = [held EXCEPT ![e] = @ \cup {a}]
    /\ version' = [version EXCEPT ![e][a] = 1]
    /\ UNCHANGED <<observers, dirty, roots, pendingRoot, tasks, remoteVars,
                   callVars, wire>>

\* The increasing enumerations of a set K of positions (there is one).
InOrder(K) == {p \in [1 .. Cardinality(K) -> K] :
                    \A i, j \in DOMAIN p : i < j => p[i] < p[j]}

\* What delivering a queued root frame sends back at once, if its handler
\* answers ref.
RootReply(e, f, ref) == IF f.kind = "subscribe"
                        THEN Notify(f.id, version'[e][Root])
                        ELSE Response(f, ref, TRUE)

\* A slip: the root is installed and what waited for it stays in the queue.
ShareRootOnly(e, async) ==
    /\ roots[e] < MaxRoots /\ async = {}
    /\ roots' = [roots EXCEPT ![e] = @ + 1]
    /\ homes' = [homes EXCEPT ![e][Root] = "strong"]
    /\ held' = [held EXCEPT ![e] = @ \cup {Root}]
    /\ version' = [version EXCEPT ![e][Root] = @ + 1]
    /\ observers' = [observers EXCEPT ![e][Root] = <<>>]
    /\ UNCHANGED <<dirty, pendingRoot, tasks, remoteVars, callVars, wire, minted>>

(***************************************************************************)
(* share_root: install at address 0, dropping a previous root and its      *)
(* observers, then deliver the root frames queued so far, in order.  The   *)
(* calls in async have asynchronous handlers.                              *)
(***************************************************************************)
ShareRoot(e, async) ==
    LET queue == pendingRoot[e]
        Subs == {i \in DOMAIN queue : queue[i].kind = "subscribe"}
        Calls == {queue[i] : i \in DOMAIN queue \ Subs}
        Ready == Subs \cup {i \in DOMAIN queue : queue[i] \in Calls \ async}
    IN  /\ roots[e] < MaxRoots
        /\ roots' = [roots EXCEPT ![e] = @ + 1]
        /\ async \subseteq Calls
        /\ homes' = [homes EXCEPT ![e][Root] = "strong"]
        /\ held' = [held EXCEPT ![e] = @ \cup {Root}]
        /\ version' = [version EXCEPT ![e][Root] = @ + 1]
        /\ dirty' = [dirty EXCEPT ![e] = @ \ {Root}]
        /\ pendingRoot' = [pendingRoot EXCEPT ![e] = <<>>]
        /\ \E p \in InOrder(Subs) :
              observers' = [observers EXCEPT ![e][Root] =
                                [i \in DOMAIN p |-> queue[p[i]].id]]
        /\ \E p \in InOrder(Ready) : \E answer \in [DOMAIN p -> Payload(e)] :
              Send(e, [i \in DOMAIN p |-> RootReply(e, queue[p[i]], answer[i])])
        /\ tasks' = [tasks EXCEPT ![e] = @ \cup async]
        /\ refs' = [refs EXCEPT ![e] = @ \cup ({f.id : f \in Calls} \ {Nil})]
        /\ UNCHANGED <<remoteVars, nextRequest, pending, minted>>

\* The end's own code drops its last handle on a shared entity.
DropEntity(e, a) ==
    /\ a \in held[e]
    /\ held' = [held EXCEPT ![e] = @ \ {a}]
    /\ UNCHANGED <<homes, observers, version, dirty, roots, pendingRoot, tasks,
                   remoteVars, callVars, wire, minted>>

\* A shared entity changes and calls cx.notify: gpui queues one effect for it.
Change(e, a) ==
    /\ IsShared(e, a) /\ Alive(e, a)
    /\ version[e][a] < MaxVersion
    /\ Cardinality({b \in Addr \ {a} : version[e][b] > 1}) < MaxChanged
    /\ version' = [version EXCEPT ![e][a] = @ + 1]
    /\ dirty' = [dirty EXCEPT ![e] = @ \cup {a}]
    /\ UNCHANGED <<homes, observers, held, roots, pendingRoot, tasks, remoteVars,
                   callVars, wire, minted>>

\* gpui flushes the effect: the observation installed by share notifies the
\* observers of the home, unless the entity is gone by then.
FlushNotify(e, a) ==
    /\ a \in dirty[e]
    /\ dirty' = [dirty EXCEPT ![e] = @ \ {a}]
    /\ Send(e, IF Alive(e, a) THEN Notifications(e, a) ELSE <<>>)
    /\ UNCHANGED <<homes, observers, held, version, roots, pendingRoot, tasks,
                   remoteVars, callVars, minted>>
-----------------------------------------------------------------------------
(***************************************************************************)
(* Remotes: connecting, cloning, dropping, releasing, observing, calling.  *)
(***************************************************************************)
\* A slip: the observer homes stay.
ForgetProjections(e, S) ==
    /\ UNCHANGED homes
    /\ signal' = [signal EXCEPT ![e] = [a \in Addr |->
                    IF a \in S THEN Nil ELSE @[a]]]
    /\ seen' = [seen EXCEPT ![e] = [a \in Addr |-> IF a \in S THEN 0 ELSE @[a]]]
    /\ released' = [released EXCEPT ![e] = @ \cup S]

\* What release_id does to this end for the projections in S: they and their
\* observer homes are forgotten.
Forget(e, S) ==
    /\ homes' = [homes EXCEPT ![e] = [a \in Addr |->
                    IF \E x \in S : a = signal[e][x] THEN "absent" ELSE @[a]]]
    /\ signal' = [signal EXCEPT ![e] = [a \in Addr |->
                    IF a \in S THEN Nil ELSE @[a]]]
    /\ seen' = [seen EXCEPT ![e] = [a \in Addr |-> IF a \in S THEN 0 ELSE @[a]]]
    /\ released' = [released EXCEPT ![e] = @ \cup S]

\* Refs usable at e.  Connecting a ref homed on this end is not supported.
Connectable(e, a) == a = Root \/ (a \in refs[e] /\ homes[e][a] = "absent")

\* connect_id on a live projection, and Remote::clone: the guard is shared.
CloneRemote(e, a) ==
    /\ remotes[e][a] \in 1 .. MaxClones - 1
    /\ remotes' = [remotes EXCEPT ![e][a] = @ + 1]
    /\ UNCHANGED <<homeVars, projections, signal, seen, releases, released,
                   callVars, wire, minted>>

\* connect_id, no projection yet.
Connect(e, a) ==
    /\ Connectable(e, a)
    /\ a \notin projections[e]
    /\ Room(e)
    /\ projections' = [projections EXCEPT ![e] = @ \cup {a}]
    /\ remotes' = [remotes EXCEPT ![e][a] = 1]
    /\ UNCHANGED <<homeVars, signal, seen, releases, released, callVars, wire,
                   minted>>

\* connect_id, the guard is dead but its release not drained: release now.
Reconnect(e, a) ==
    /\ Connectable(e, a)
    /\ a \in projections[e] /\ remotes[e][a] = 0
    /\ Room(e)
    /\ releases' = [releases EXCEPT ![e] = @ \ {a}]
    /\ Forget(e, {a})
    /\ Send(e, <<Release(a)>>)
    /\ remotes' = [remotes EXCEPT ![e][a] = 1]
    /\ UNCHANGED <<observers, held, version, dirty, roots, pendingRoot, tasks,
                   projections, callVars, minted>>

\* A slip: every drop queues the release, with clones left or not.
DropAnyRemote(e, a) ==
    /\ remotes[e][a] > 0
    /\ remotes' = [remotes EXCEPT ![e][a] = @ - 1]
    /\ releases' = [releases EXCEPT ![e] = @ \cup {a}]
    /\ UNCHANGED <<homeVars, projections, signal, seen, released, callVars,
                   wire, minted>>

\* A Remote drops; with the last one the guard queues the release.
DropRemote(e, a) ==
    /\ remotes[e][a] > 0
    /\ remotes' = [remotes EXCEPT ![e][a] = @ - 1]
    /\ releases' = IF remotes[e][a] = 1
                   THEN [releases EXCEPT ![e] = @ \cup {a}]
                   ELSE releases
    /\ UNCHANGED <<homeVars, projections, signal, seen, released, callVars,
                   wire, minted>>

\* A slip: the releases overtake the frames that wait to be sent.
DrainReleasesFirst(e) ==
    LET gone == releases[e] \cap projections[e] IN
    /\ releases[e] # {}
    /\ releases' = [releases EXCEPT ![e] = {}]
    /\ projections' = [projections EXCEPT ![e] = @ \ gone]
    /\ Forget(e, gone)
    /\ \E order \in Bijection(1 .. Cardinality(gone), gone) :
          wire' = [wire EXCEPT ![e] =
                      [i \in 1 .. Cardinality(gone) |-> Release(order[i])] \o @]
    /\ UNCHANGED <<observers, held, version, dirty, roots, pendingRoot, tasks,
                   remotes, callVars, minted>>

\* drain_releases, from the pump of this end.
DrainReleases(e) ==
    LET gone == releases[e] \cap projections[e] IN
    /\ releases[e] # {}
    /\ releases' = [releases EXCEPT ![e] = {}]
    /\ projections' = [projections EXCEPT ![e] = @ \ gone]
    /\ Forget(e, gone)
    /\ \E order \in Bijection(1 .. Cardinality(gone), gone) :
          Send(e, [i \in 1 .. Cardinality(gone) |-> Release(order[i])])
    /\ UNCHANGED <<observers, held, version, dirty, roots, pendingRoot, tasks,
                   remotes, callVars, minted>>

\* signal_for and install_observer, the first observe or subscribe of a Remote.
Observe(e, a, o) ==
    /\ remotes[e][a] > 0
    /\ a \in projections[e] /\ signal[e][a] = Nil
    /\ Room(e)
    /\ Mint(o)
    /\ homes' = [homes EXCEPT ![e][o] = "observer"]
    /\ signal' = [signal EXCEPT ![e][a] = o]
    /\ Send(e, <<Subscribe(a, o)>>)
    /\ UNCHANGED <<observers, held, version, dirty, roots, pendingRoot, tasks,
                   projections, remotes, seen, releases, released, callVars>>

\* Remote::call and Objects::send, through a projection that exists.
CallMethod(e, a, ref) ==
    /\ remotes[e][a] > 0
    /\ a \in projections[e]
    /\ ref \in Payload(e)
    /\ nextRequest[e] < MaxRequests /\ Room(e)
    /\ nextRequest' = [nextRequest EXCEPT ![e] = @ + 1]
    /\ pending' = [pending EXCEPT ![e] = @ \cup {nextRequest'[e]}]
    /\ Send(e, <<Call(a, nextRequest'[e], ref, a \notin released[e])>>)
    /\ UNCHANGED <<homeVars, remoteVars, refs, minted>>
-----------------------------------------------------------------------------
(***************************************************************************)
(* Objects::deliver: end e applies the oldest frame f of the other end.    *)
(***************************************************************************)
Next1(e) == Head(wire[Peer(e)])
\* Consume the frame, and append what e sends in response.
Receive(e, reply) ==
    wire' = [wire EXCEPT ![Peer(e)] = Tail(@), ![e] = @ \o reply]

\* deliver_response, of a request that may no longer be known.
DeliverResponse(e) ==
    LET f == Next1(e) IN
    /\ f.kind = "response"
    /\ pending' = [pending EXCEPT ![e] = @ \ {f.request}]
    /\ refs' = [refs EXCEPT ![e] =
                   IF f.request \in pending[e] THEN @ \cup ({f.id} \ {Nil}) ELSE @]
    /\ Receive(e, <<>>)
    /\ UNCHANGED <<homeVars, remoteVars, nextRequest, minted>>

\* A slip: no initial notify.
SubscribeSilently(e) ==
    LET f == Next1(e) IN
    /\ f.kind = "subscribe"
    /\ IF homes[e][f.target] # "absent"
       THEN /\ observers' = [observers EXCEPT ![e][f.target] = Append(@, f.id)]
            /\ UNCHANGED pendingRoot
       ELSE /\ pendingRoot' = IF f.target = Root
                              THEN [pendingRoot EXCEPT ![e] = Append(@, f)]
                              ELSE pendingRoot
            /\ UNCHANGED observers
    /\ Receive(e, <<>>)
    /\ UNCHANGED <<homes, held, version, dirty, roots, tasks, remoteVars,
                   callVars, minted>>

\* A subscribe is answered with an initial notify; one to an unknown object
\* is dropped, one to a root not yet installed is queued.
DeliverSubscribe(e) ==
    LET f == Next1(e) IN
    /\ f.kind = "subscribe"
    /\ IF homes[e][f.target] # "absent"
       THEN /\ observers' = [observers EXCEPT ![e][f.target] = Append(@, f.id)]
            /\ Receive(e, <<Notify(f.id, version[e][f.target])>>)
            /\ UNCHANGED pendingRoot
       ELSE /\ pendingRoot' = IF f.target = Root
                              THEN [pendingRoot EXCEPT ![e] = Append(@, f)]
                              ELSE pendingRoot
            /\ Receive(e, <<>>)
            /\ UNCHANGED observers
    /\ UNCHANGED <<homes, held, version, dirty, roots, tasks, remoteVars,
                   callVars, minted>>

\* A slip: a release is taken for one of an unknown object.
IgnoreRelease(e) ==
    /\ Next1(e).kind = "release"
    /\ Receive(e, <<>>)
    /\ UNCHANGED <<homeVars, remoteVars, callVars, minted>>

\* A release of a home weakens it and clears its observers; a release of
\* anything else, a root not yet installed included, is dropped.
DeliverRelease(e) ==
    LET f == Next1(e) IN
    /\ f.kind = "release"
    /\ IF homes[e][f.target] # "absent"
       THEN /\ homes' = [homes EXCEPT ![e][f.target] =
                            IF @ = "strong" THEN "weak" ELSE @]
            /\ observers' = [observers EXCEPT ![e][f.target] = <<>>]
       ELSE UNCHANGED <<homes, observers>>
    /\ Receive(e, <<>>)
    /\ UNCHANGED <<held, version, dirty, roots, pendingRoot, tasks, remoteVars,
                   callVars, minted>>

\* A slip: a call to a root not yet installed is dropped.
DropRootCall(e) ==
    LET f == Next1(e) IN
    /\ f.kind = "call" /\ f.target = Root /\ homes[e][Root] = "absent"
    /\ Receive(e, <<>>)
    /\ UNCHANGED <<homeVars, remoteVars, callVars, minted>>

\* A call to a root not yet installed is queued.
QueueRootCall(e) ==
    LET f == Next1(e) IN
    /\ f.kind = "call" /\ f.target = Root /\ homes[e][Root] = "absent"
    /\ pendingRoot' = [pendingRoot EXCEPT ![e] = Append(@, f)]
    /\ Receive(e, <<>>)
    /\ UNCHANGED <<homes, observers, held, version, dirty, roots, tasks,
                   remoteVars, callVars, minted>>

\* A call that no entity can handle: its target is unknown ("call to unknown
\* object") or its entity is gone ("entity dropped").
RejectCall(e) ==
    LET f == Next1(e) IN
    /\ f.kind = "call"
    /\ \/ homes[e][f.target] = "absent" /\ f.target # Root
       \/ IsShared(e, f.target) /\ ~Alive(e, f.target)
    /\ Receive(e, Respond(e, f, Nil, FALSE))
    /\ UNCHANGED <<homeVars, remoteVars, callVars, minted>>

\* A call to an observer object: its signal fires.
FireSignal(e) ==
    LET f == Next1(e) IN
    /\ f.kind = "call" /\ homes[e][f.target] = "observer"
    /\ seen' = [seen EXCEPT ![e] = [a \in Addr |->
                   IF signal[e][a] = f.target THEN f.ver ELSE @[a]]]
    /\ Receive(e, Respond(e, f, Nil, TRUE))
    /\ UNCHANGED <<homeVars, projections, remotes, signal, releases, released,
                   callVars, minted>>

\* A call to a live entity, by a handler that returns at once or spawns a task.
HandleCall(e, ref, async) ==
    LET f == Next1(e) IN
    /\ f.kind = "call" /\ IsShared(e, f.target) /\ Alive(e, f.target)
    /\ ref \in Payload(e)
    /\ refs' = [refs EXCEPT ![e] = @ \cup ({f.id} \ {Nil})]
    /\ IF async THEN /\ ref = Nil
                     /\ tasks' = [tasks EXCEPT ![e] = @ \cup {f}]
                     /\ Receive(e, <<>>)
                ELSE /\ Receive(e, Respond(e, f, ref, TRUE))
                     /\ UNCHANGED tasks
    /\ UNCHANGED <<homes, observers, held, version, dirty, roots, pendingRoot,
                   remoteVars, nextRequest, pending, minted>>

Deliver(e) ==
    /\ wire[Peer(e)] # <<>>
    /\ \/ DeliverResponse(e)
       \/ DeliverSubscribe(e)
       \/ DeliverRelease(e)
       \/ QueueRootCall(e)
       \/ RejectCall(e)
       \/ FireSignal(e)
       \/ \E ref \in Id \cup {Nil}, async \in BOOLEAN : HandleCall(e, ref, async)

\* A slip: the task answers and stays.
AnswerTwice(e, f, ref) ==
    /\ f \in tasks[e]
    /\ ref \in Payload(e)
    /\ Send(e, Respond(e, f, ref, TRUE))
    /\ UNCHANGED <<homeVars, remoteVars, callVars, minted>>

\* The task of an asynchronous handler resolves.
FinishTask(e, f, ref) ==
    /\ f \in tasks[e]
    /\ ref \in Payload(e)
    /\ tasks' = [tasks EXCEPT ![e] = @ \ {f}]
    /\ Send(e, Respond(e, f, ref, TRUE))
    /\ UNCHANGED <<homes, observers, held, version, dirty, roots, pendingRoot,
                   remoteVars, callVars, minted>>
-----------------------------------------------------------------------------
HomeStep(e) ==
    \/ \E a \in Id, keepAlive \in BOOLEAN : e \in Sharers /\ Share(e, a, keepAlive)
    \/ \E async \in SUBSET {pendingRoot[e][i] : i \in DOMAIN pendingRoot[e]} :
          e \in Sharers /\ ShareRoot(e, async)
    \/ \E a \in Addr : DropEntity(e, a) \/ Change(e, a) \/ FlushNotify(e, a)
    \/ \E f \in tasks[e], ref \in Id \cup {Nil} : FinishTask(e, f, ref)

RemoteStep(e) ==
    \/ \E a \in Addr : \/ e \in Callers /\ (Connect(e, a) \/ Reconnect(e, a))
                       \/ CloneRemote(e, a)
                       \/ DropRemote(e, a)
                       \/ \E o \in Id : Observe(e, a, o)
                       \/ \E ref \in Id \cup {Nil} : CallMethod(e, a, ref)
    \/ DrainReleases(e)

Next == \E e \in End : HomeStep(e) \/ RemoteStep(e) \/ Deliver(e)

Spec == Init /\ [][Next]_vars

(***************************************************************************)
(* Frames are delivered, gpui flushes its effects, asynchronous handlers   *)
(* finish and roots are installed.  Guest code runs in turns only, and     *)
(* every turn ends with a drain.  The host's drains are not fair: it has   *)
(* one around each turn that it applies, which a quiescent plugin does not *)
(* give it, and else the embedder's call of PluginHost::pump.              *)
(***************************************************************************)
Fairness ==
    /\ WF_vars(DrainReleases(Guest))
    /\ \A e \in End :
        /\ WF_vars(Deliver(e))
        /\ WF_vars(\E a \in Addr : FlushNotify(e, a))
        /\ WF_vars(\E f \in tasks[e], ref \in Id \cup {Nil} : FinishTask(e, f, ref))
        /\ WF_vars(e \in Sharers /\ ShareRoot(e, {}))

FairSpec == Spec /\ Fairness
-----------------------------------------------------------------------------
TypeOK ==
    /\ homes \in [End -> [Addr -> HomeKind]]
    /\ observers \in [End -> [Addr -> Seq(Id)]]
    /\ held \in [End -> SUBSET Addr]
    /\ version \in [End -> [Addr -> Nat]]
    /\ dirty \in [End -> SUBSET Addr]
    /\ roots \in [End -> Nat]
    /\ pendingRoot \in [End -> Seq(Frame)]
    /\ tasks \in [End -> SUBSET Frame]
    /\ projections \in [End -> SUBSET Addr]
    /\ remotes \in [End -> [Addr -> Nat]]
    /\ signal \in [End -> [Addr -> Id \cup {Nil}]]
    /\ seen \in [End -> [Addr -> Nat]]
    /\ releases \in [End -> SUBSET Addr]
    /\ released \in [End -> SUBSET Addr]
    /\ refs \in [End -> SUBSET Id]
    /\ nextRequest \in [End -> Nat]
    /\ pending \in [End -> SUBSET Nat]
    /\ wire \in [End -> Seq(Frame)]
    /\ minted \in SUBSET Id

(***************************************************************************)
(* A Remote always has its projection, and the release queue names exactly *)
(* the projections whose last Remote dropped.  If a live Remote's id were  *)
(* queued, the next pump would cut it off: its calls would fail and its    *)
(* observers would silently never fire.  If a dead one were not, its home  *)
(* would be kept alive for ever.  connect_id races with the queue.         *)
(***************************************************************************)
ReleaseQueueExact ==
    \A e \in End :
        /\ releases[e] = {a \in projections[e] : remotes[e][a] = 0}
        /\ \A a \in Addr : remotes[e][a] > 0 => a \in projections[e]

(***************************************************************************)
(* The hidden observer homes of an end are exactly the signals of its      *)
(* projections, one projection each: none leaks when a projection goes,    *)
(* and none is removed while a projection still listens on it.             *)
(***************************************************************************)
ObserverHomesExact ==
    \A e \in End :
        /\ {o \in Id : homes[e][o] = "observer"}
              = {signal[e][a] : a \in projections[e]} \ {Nil}
        /\ \A a \in Addr \ projections[e] : signal[e][a] = Nil
        /\ \A a, b \in Addr : signal[e][a] = signal[e][b] /\ a # b
                              => signal[e][a] = Nil

\* What e sent and its peer has not applied yet, in the order it will be.
InFlight(e) == pendingRoot[Peer(e)] \o wire[e]

\* The observers that a has at its home once all that is in flight is applied.
ObserversToBe(e, a) ==
    LET q == InFlight(e)
        Rel == {i \in DOMAIN q : q[i].kind = "release" /\ q[i].target = a}
        Sub == {i \in DOMAIN q : q[i].kind = "subscribe" /\ q[i].target = a}
    IN  (IF Rel = {} THEN Range(observers[Peer(e)][a]) ELSE {})
          \cup {q[i].id : i \in {j \in Sub : \A k \in Rel : k < j}}

\* Both ends agree on who observes a: the home's list, after what is in
\* flight, is the projection's current signal and nothing else.
ObserversAgree(e, a) == ObserversToBe(e, a) = {signal[e][a]} \ {Nil}

(***************************************************************************)
(* For every object but the root, subscribe, release, reconnect and their  *)
(* races leave the two ends agreeing on the observers ("releasing now and  *)
(* resubscribing below keeps the home end consistent", connect_id).        *)
(***************************************************************************)
ObserverPairing == \A e \in End, a \in Id : ObserversAgree(e, a)

\* The same of the roots, whose frames may arrive before share_root.
RootObserverPairing == \A e \in End : ObserversAgree(e, Root)

(***************************************************************************)
(* No notify is lost: an observed projection has been signalled since the  *)
(* home's last change, or what will signal it is still on its way: the     *)
(* queued gpui effect, the $notify, or the subscribe it will answer.       *)
(***************************************************************************)
NoLostNotify ==
    \A e \in End, a \in Addr :
        LET p == Peer(e) IN
        signal[e][a] # Nil /\ IsShared(p, a) /\ Alive(p, a) =>
            \/ seen[e][a] = version[p][a]
            \/ a \in dirty[p]
            \/ \E i \in DOMAIN wire[p] :
                  wire[p][i] = Notify(signal[e][a], version[p][a])
            \/ \E i \in DOMAIN InFlight(e) :
                  InFlight(e)[i] = Subscribe(a, signal[e][a])

\* The frames and tasks in which request r of end e currently lives.
CallPlaces(e, r) ==
    {<<"call", i>> : i \in {j \in DOMAIN InFlight(e) :
        InFlight(e)[j].kind = "call" /\ InFlight(e)[j].request = r}}
      \cup {<<"task", f>> : f \in {g \in tasks[Peer(e)] : g.request = r}}
      \cup {<<"response", i>> : i \in {j \in DOMAIN wire[Peer(e)] :
        wire[Peer(e)][j].kind = "response" /\ wire[Peer(e)][j].request = r}}

(***************************************************************************)
(* A call whose receipt is open is in exactly one place: queued as a call, *)
(* running in a handler, or answered.  One that is settled is nowhere.  So *)
(* no receipt is forgotten, and no call runs or is answered twice.         *)
(***************************************************************************)
RequestsAccounted ==
    \A e \in End : \A r \in 1 .. nextRequest[e] :
        Cardinality(CallPlaces(e, r)) = IF r \in pending[e] THEN 1 ELSE 0

\* How far request r of end e has come; "lost" is no stage of Receipts.
StageOf(e, r) ==
    LET kinds == {x[1] : x \in CallPlaces(e, r)} IN
    CASE r > nextRequest[e] -> "idle"
      [] r <= nextRequest[e] /\ r \notin pending[e] -> "settled"
      [] r \in pending[e] /\ kinds = {"call"} -> "queued"
      [] r \in pending[e] /\ kinds = {"task"} -> "running"
      [] r \in pending[e] /\ kinds = {"response"} -> "answered"
      [] OTHER -> "lost"

(***************************************************************************)
(* The registry keeps the promise of Receipts to both ends.                *)
(***************************************************************************)
R == INSTANCE Receipts WITH
        Caller <- End, Request <- 1 .. MaxRequests,
        stage <- [e \in End |-> [r \in 1 .. MaxRequests |-> StageOf(e, r)]]

ReceiptsSpec == R!Spec

(***************************************************************************)
(* A call made before the caller ever released the object finds it alive,  *)
(* even if its Remote is dropped, and released, while the call is in       *)
(* flight: "sharing holds the entity strongly in the registry until the    *)
(* other end's last remote drops".                                         *)
(***************************************************************************)
CallsFindEntity ==
    \A e \in End : \A i \in DOMAIN wire[e] :
        LET f == wire[e][i] IN
        f.kind = "call" /\ f.ok /\ f.target # Root
            => homes[Peer(e)][f.target] # "weak"

(***************************************************************************)
(* Calls to one target start in the order they were made, also when they   *)
(* wait for a root: a call leaves the queue only if no earlier call to the *)
(* same target stays in it.                                                *)
(***************************************************************************)
CallsInOrder ==
    [][\A e \in End :
          LET Waiting == {f \in Range(InFlight(e)) :
                            f.kind = "call" /\ f.request > 0}
          IN  \A f \in Waiting \ Waiting', g \in Waiting' :
                 f.target = g.target => f.request <= g.request]_vars

\* Under fairness, every receipt settles.
ReceiptsSettle ==
    \A e \in End : \A r \in 1 .. MaxRequests :
        r \in pending[e] ~> r \notin pending[e]

\* Under fairness, when the guest drops its last Remote of an object, the host
\* lets go of the entity.
DropsReachHome ==
    \A a \in Id : a \in releases[Guest] ~> homes[Host][a] \in {"weak", "owned"}

\* A live object changed since e, which observes it, was last signalled.
Behind(e, a) == /\ signal[e][a] # Nil
                /\ IsShared(Peer(e), a) /\ Alive(Peer(e), a)
                /\ seen[e][a] # version[Peer(e)][a]

(***************************************************************************)
(* Under fairness, who observes an object is told of its last change, or   *)
(* releases it first, or it is gone: whether the change falls before the   *)
(* subscribe, while that is in flight, or among earlier notifies.          *)
(***************************************************************************)
ObserversFire == \A e \in Callers, a \in Addr : Behind(e, a) ~> ~Behind(e, a)
=============================================================================
