----------------------------- MODULE PluginHost -----------------------------
(***************************************************************************)
(* The transport between the two registries (embedded_gpui/src/host.rs,    *)
(* PluginHost and PluginInstance): a request queue to the worker that owns *)
(* the guest, the turns it returns, the pump that applies them, and the    *)
(* timer that wakes a guest with nothing to do.  A turn that overruns its  *)
(* budget, exhausts its memory or panics traps, and stops the plugin.      *)
(*                                                                         *)
(* Of the guest (guest.rs, guest/dispatcher.rs, guest/objects.rs) this     *)
(* module has what a turn is made of: deliver all frames, run the          *)
(* scheduler until it is idle, hand over the output and the next wakeup.   *)
(* Of the registries it has only calls and responses; a handler of the     *)
(* guest answers at once or from a task that may sleep on a timer, one of  *)
(* the host at once.  Registry models the rest.                            *)
(***************************************************************************)
EXTENDS Naturals, Sequences, FiniteSets, SequencesExt

CONSTANTS
    MaxCalls,       \* bound: calls the host makes
    MaxGuestCalls,  \* bound: calls the guest makes
    MaxRequests,    \* bound: requests queued when user code adds one
    MaxTurns        \* bound: turns by which the worker outruns the pump

ASSUME BoundsAssumption ==
    /\ MaxCalls \in Nat /\ MaxGuestCalls \in Nat
    /\ MaxRequests \in Nat /\ MaxTurns \in Nat \ {0}

VARIABLES
    requests,       \* PluginHost.requests: what the worker has not taken yet
    worker,         \* the worker's loop
    inbound,        \* frames of the running turn not delivered yet
    task,           \* task[r]: the guest's task for call r; 0 is a task of its own
    awaiting,       \* the guest's calls without a response
    guestCalls,     \* calls the guest made so far
    outbound,       \* OUTBOUND: frames the running turn collected
    turns,          \* turns that ended and are not applied yet
    pump,           \* the pump's loop
    scheduled,      \* PluginHost.scheduled_tick is waiting
    nextRequest,    \* calls the host made so far
    pending,        \* the host's calls without an outcome
    sent,           \* frames each end put on the transport so far
    got             \* frames of each end that the other applied so far

queueVars == <<requests, worker, turns, pump, scheduled>>
guestVars == <<inbound, task, awaiting, guestCalls, outbound>>
hostVars == <<nextRequest, pending>>
vars == <<queueVars, guestVars, hostVars, sent, got>>

\* The n-th frame of its sender: a call, or the response to one.
Frame == [n : Nat, kind : {"call", "response"}, request : Nat]

\* PluginRequest; a guest's init is a request without frames.
Request == [kind : {"init", "tick"}, frames : Seq(Frame)]
Tick(frames) == [kind |-> "tick", frames |-> frames]

\* Result<Turn, String>; wake tells whether wake_after_ms is Some.
Turn == [ok : BOOLEAN, frames : Seq(Frame), wake : BOOLEAN]

Tasks == 0 .. MaxCalls
TaskState == {"none", "ready", "asleep", "due", "woken"}

IsCall(f) == f.kind = "call"
Answered(frames) == {f.request : f \in {g \in Range(frames) : ~IsCall(g)}}

\* A slip: frames are dropped while the guest is busy.
HostSendIfIdle(queue, frames) ==
    IF worker # "waiting" THEN UNCHANGED <<requests, sent>>
    ELSE /\ requests' = queue \o [i \in DOMAIN frames |->
                            Tick(<<[frames[i] EXCEPT !.n = sent["host"] + i]>>)]
         /\ sent' = [sent EXCEPT !["host"] = @ + Len(frames)]

\* The sink of the host's registry: one request per frame, while the worker
\* that holds the receiving end of the queue lives.
HostSend(queue, frames) ==
    IF worker = "stopped" THEN UNCHANGED <<requests, sent>>
    ELSE /\ requests' = queue \o [i \in DOMAIN frames |->
                            Tick(<<[frames[i] EXCEPT !.n = sent["host"] + i]>>)]
         /\ sent' = [sent EXCEPT !["host"] = @ + Len(frames)]

\* The sink of the guest's registry.
GuestSend(kind, r) ==
    /\ outbound' = Append(outbound, [n |-> sent["guest"] + 1, kind |-> kind,
                                     request |-> r])
    /\ sent' = [sent EXCEPT !["guest"] = @ + 1]

\* A slip: an empty tick is not worth a turn.
EnqueueIfFrames(request) ==
    requests' = IF worker = "stopped" \/ request.frames = <<>> THEN requests
                ELSE Append(requests, request)

\* PluginHost::enqueue
Enqueue(request) == requests' = IF worker = "stopped" THEN requests
                                ELSE Append(requests, request)
-----------------------------------------------------------------------------
\* PluginHost::new
Init ==
    /\ requests = <<[kind |-> "init", frames |-> <<>>]>>
    /\ worker = "waiting" /\ pump = "running"
    /\ inbound = <<>> /\ outbound = <<>> /\ turns = <<>>
    /\ task = [r \in Tasks |-> "none"]
    /\ awaiting = {} /\ guestCalls = 0
    /\ scheduled = FALSE
    /\ nextRequest = 0 /\ pending = {}
    /\ sent = [e \in {"host", "guest"} |-> 0]
    /\ got = [e \in {"host", "guest"} |-> 0]
-----------------------------------------------------------------------------
(***************************************************************************)
(* The host's user code.                                                   *)
(***************************************************************************)
\* Remote::call: the receipt is open before the sink is tried.
HostCall ==
    /\ nextRequest < MaxCalls /\ Len(requests) < MaxRequests
    /\ nextRequest' = nextRequest + 1
    /\ pending' = pending \cup {nextRequest'}
    /\ HostSend(requests, <<[n |-> 0, kind |-> "call", request |-> nextRequest']>>)
    /\ UNCHANGED <<worker, turns, pump, scheduled, guestVars, got>>

\* PluginHost::pump
Pump ==
    /\ Len(requests) < MaxRequests
    /\ Enqueue(Tick(<<>>))
    /\ UNCHANGED <<worker, turns, pump, scheduled, guestVars, hostVars, sent, got>>
-----------------------------------------------------------------------------
(***************************************************************************)
(* The worker, and the guest turn it runs.                                 *)
(***************************************************************************)
\* A slip: a later request goes before an earlier one.
CoalesceBackwards(queue) ==
    FlattenSeq([i \in DOMAIN queue |-> queue[Len(queue) + 1 - i].frames])

\* One turn for everything that is queued.
Coalesce(queue) == FlattenSeq([i \in DOMAIN queue |-> queue[i].frames])

\* Init, the first request, runs alone, and Plugin::new may spawn a task.  A
\* tick takes everything that is queued with it.
StartTurn ==
    /\ worker = "waiting" /\ requests # <<>> /\ Len(turns) < MaxTurns
    /\ worker' = "running"
    /\ IF Head(requests).kind = "init"
       THEN /\ requests' = Tail(requests)
            /\ task' = [task EXCEPT ![0] = "ready"]
            /\ UNCHANGED inbound
       ELSE /\ inbound' = Coalesce(requests)
            /\ requests' = <<>>
            /\ UNCHANGED task
    /\ UNCHANGED <<turns, pump, scheduled, awaiting, guestCalls, outbound,
                   hostVars, sent, got>>

\* objects::deliver, the next frame of the turn.
GuestDeliver ==
    LET f == Head(inbound) IN
    /\ worker = "running" /\ inbound # <<>>
    /\ inbound' = Tail(inbound)
    /\ got' = [got EXCEPT !["host"] = @ + 1]
    /\ CASE f.kind = "response" ->
              /\ awaiting' = awaiting \ {f.request}
              /\ UNCHANGED <<task, outbound, sent>>
         [] f.kind = "call" ->
              /\ \/ GuestSend("response", f.request) /\ UNCHANGED task
                 \/ /\ task' = [task EXCEPT ![f.request] = "ready"]
                    /\ UNCHANGED <<outbound, sent>>
              /\ UNCHANGED awaiting
    /\ UNCHANGED <<queueVars, guestCalls, hostVars>>

\* The scheduler runs once all frames are delivered.
Running == worker = "running" /\ inbound = <<>>

\* run_until_idle takes the timers that are due.
WakeTask(r) ==
    /\ Running /\ task[r] = "due"
    /\ task' = [task EXCEPT ![r] = "woken"]
    /\ UNCHANGED <<queueVars, inbound, awaiting, guestCalls, outbound, hostVars,
                   sent, got>>

\* dispatch_after: a task sleeps on a timer (once, a bound).
Sleep(r) ==
    /\ Running /\ task[r] = "ready"
    /\ task' = [task EXCEPT ![r] = "asleep"]
    /\ UNCHANGED <<queueVars, inbound, awaiting, guestCalls, outbound, hostVars,
                   sent, got>>

\* A task ends; if it is a handler's, with a response.
FinishTask(r) ==
    /\ Running /\ task[r] \in {"ready", "woken"}
    /\ task' = [task EXCEPT ![r] = "none"]
    /\ IF r = 0 THEN UNCHANGED <<outbound, sent>> ELSE GuestSend("response", r)
    /\ UNCHANGED <<queueVars, inbound, awaiting, guestCalls, hostVars, got>>

\* The guest's user code, in a handler, a task or Plugin::new, calls the host.
GuestCall ==
    /\ worker = "running" /\ guestCalls < MaxGuestCalls
    /\ guestCalls' = guestCalls + 1
    /\ awaiting' = awaiting \cup {guestCalls'}
    /\ GuestSend("call", guestCalls')
    /\ UNCHANGED <<queueVars, inbound, task, hostVars, got>>

\* A timer comes due, in a turn or between two.
TimerDue(r) ==
    /\ task[r] = "asleep"
    /\ task' = [task EXCEPT ![r] = "due"]
    /\ UNCHANGED <<queueVars, inbound, awaiting, guestCalls, outbound, hostVars,
                   sent, got>>

\* A slip: a turn with output is followed by another, so needs no wakeup.
EndTurnWithoutWake ==
    /\ Running
    /\ \A r \in Tasks : task[r] \in {"none", "asleep"}
    /\ worker' = "waiting"
    /\ turns' = Append(turns, [ok |-> TRUE, frames |-> outbound,
                               wake |-> /\ outbound = <<>>
                                        /\ \E r \in Tasks : task[r] = "asleep"])
    /\ outbound' = <<>>
    /\ UNCHANGED <<requests, pump, scheduled, inbound, task, awaiting,
                   guestCalls, hostVars, sent, got>>

\* take_turn, when a pass of the scheduler found nothing to do: the output of
\* the turn, and whether a timer remains.
EndTurn ==
    /\ Running
    /\ \A r \in Tasks : task[r] \in {"none", "asleep"}
    /\ worker' = "waiting"
    /\ turns' = Append(turns, [ok |-> TRUE, frames |-> outbound,
                               wake |-> \E r \in Tasks : task[r] = "asleep"])
    /\ outbound' = <<>>
    /\ UNCHANGED <<requests, pump, scheduled, inbound, task, awaiting,
                   guestCalls, hostVars, sent, got>>

\* A slip: the worker ends without a word.
TrapSilently ==
    /\ worker = "running"
    /\ worker' = "stopped"
    /\ requests' = <<>>
    /\ inbound' = <<>> /\ outbound' = <<>> /\ awaiting' = {}
    /\ task' = [r \in Tasks |-> "none"]
    /\ UNCHANGED <<turns, pump, scheduled, guestCalls, hostVars, sent, got>>

\* The turn traps: the worker reports it and ends, and the request queue and
\* the guest's state go with it.
Trap ==
    /\ worker = "running"
    /\ worker' = "stopped"
    /\ turns' = Append(turns, [ok |-> FALSE, frames |-> <<>>, wake |-> FALSE])
    /\ requests' = <<>>
    /\ inbound' = <<>> /\ outbound' = <<>> /\ awaiting' = {}
    /\ task' = [r \in Tasks |-> "none"]
    /\ UNCHANGED <<pump, scheduled, guestCalls, hostVars, sent, got>>
-----------------------------------------------------------------------------
(***************************************************************************)
(* The pump on the host's foreground, and the wakeup it schedules.         *)
(***************************************************************************)
\* deliver every frame of the turn, answering its calls, then schedule_wake:
\* a turn without a wakeup leaves the scheduled one alone.
ApplyTurn ==
    LET t == Head(turns)
        Reply(f) == IF IsCall(f) THEN <<[f EXCEPT !.kind = "response"]>> ELSE <<>>
    IN  /\ pump = "running" /\ turns # <<>> /\ t.ok
        /\ turns' = Tail(turns)
        /\ pending' = pending \ Answered(t.frames)
        /\ HostSend(requests, FlattenSeq([i \in DOMAIN t.frames |->
                                             Reply(t.frames[i])]))
        /\ got' = [got EXCEPT !["guest"] = @ + Len(t.frames)]
        /\ scheduled' = (scheduled \/ t.wake)
        /\ UNCHANGED <<worker, pump, guestVars, nextRequest>>

\* A slip: the pump ends and leaves the receipts open.
StopPump ==
    /\ pump = "running" /\ turns # <<>> /\ ~Head(turns).ok
    /\ turns' = Tail(turns)
    /\ pump' = "stopped"
    /\ UNCHANGED <<requests, worker, scheduled, guestVars, hostVars, sent, got>>

\* fail_pending: the plugin stopped, every open receipt fails, the pump ends.
FailPending ==
    /\ pump = "running" /\ turns # <<>> /\ ~Head(turns).ok
    /\ turns' = Tail(turns)
    /\ pending' = {}
    /\ pump' = "stopped"
    /\ UNCHANGED <<requests, worker, scheduled, guestVars, nextRequest, sent, got>>

\* The task of schedule_wake gives the guest a turn.
WakeFires ==
    /\ scheduled
    /\ scheduled' = FALSE
    /\ Enqueue(Tick(<<>>))
    /\ UNCHANGED <<worker, turns, pump, guestVars, hostVars, sent, got>>
-----------------------------------------------------------------------------
GuestStep == \/ GuestDeliver
             \/ \E r \in Tasks : WakeTask(r) \/ Sleep(r) \/ FinishTask(r)
             \/ EndTurn

Next == \/ HostCall \/ Pump
        \/ StartTurn \/ GuestStep \/ GuestCall \/ Trap
        \/ \E r \in Tasks : TimerDue(r)
        \/ ApplyTurn \/ FailPending \/ WakeFires

Spec == Init /\ [][Next]_vars

(***************************************************************************)
(* The worker takes what is queued; a turn ends, or its budget traps it;   *)
(* timers come due; the foreground runs its tasks.  User code owes nothing.*)
(***************************************************************************)
Fairness ==
    /\ WF_vars(StartTurn)
    /\ WF_vars(GuestStep)
    /\ WF_vars(ApplyTurn \/ FailPending)
    /\ WF_vars(WakeFires)
    /\ \A r \in Tasks : WF_vars(TimerDue(r))

FairSpec == Spec /\ Fairness
-----------------------------------------------------------------------------
TypeOK ==
    /\ requests \in Seq(Request)
    /\ worker \in {"waiting", "running", "stopped"}
    /\ inbound \in Seq(Frame)
    /\ task \in [Tasks -> TaskState]
    /\ awaiting \in SUBSET Nat
    /\ guestCalls \in Nat
    /\ outbound \in Seq(Frame)
    /\ turns \in Seq(Turn)
    /\ pump \in {"running", "stopped"}
    /\ scheduled \in BOOLEAN
    /\ nextRequest \in Nat
    /\ pending \in SUBSET Nat
    /\ sent \in [{"host", "guest"} -> Nat]
    /\ got \in [{"host", "guest"} -> Nat]

\* The ordinals of the frames on their way from each end.
Ordinals(frames) == [i \in DOMAIN frames |-> frames[i].n]
FramesOf(s) == FlattenSeq([i \in DOMAIN s |-> s[i].frames])

InTransit == [e \in {"host", "guest"} |->
                 Ordinals(IF e = "host" THEN inbound \o FramesOf(requests)
                                        ELSE FramesOf(turns) \o outbound)]

(***************************************************************************)
(* Queueing, coalescing, turns and the pump are a Pipe, which is what      *)
(* Registry takes for granted: "one boundary crossing per burst, and the   *)
(* FIFO is preserved by construction".                                     *)
(***************************************************************************)
P == INSTANCE Pipe WITH Sender <- {"host", "guest"}, queue <- InTransit,
                        got <- got, open <- worker # "stopped"

PipeSpec == P!Spec

(***************************************************************************)
(* A guest that sleeps is woken: whenever it has a timer and no turn is    *)
(* running or queued, a wakeup is scheduled or on its way in a turn that   *)
(* the pump has not applied.  Nothing else would ever run the timer.       *)
(***************************************************************************)
NoLostWake ==
    worker = "waiting" /\ (\E r \in Tasks : task[r] \in {"asleep", "due"}) =>
        requests # <<>> \/ scheduled \/ \E i \in DOMAIN turns : turns[i].wake

(***************************************************************************)
(* A receipt that is open while the plugin runs has somewhere to get its   *)
(* outcome from: its call or its response is on the way, a task of the     *)
(* guest owes it, or the pump has yet to learn that the plugin stopped.    *)
(***************************************************************************)
OpenReceiptsOwed ==
    pump = "running" => \A r \in pending :
        \/ \E f \in Range(inbound \o FramesOf(requests)) : IsCall(f) /\ f.request = r
        \/ task[r] # "none"
        \/ r \in Answered(FramesOf(turns) \o outbound)
        \/ \E i \in DOMAIN turns : ~turns[i].ok

\* Every sleeping task runs again, unless its guest stopped.
TimersFire == \A r \in Tasks : task[r] \in {"asleep", "due"} ~>
                                   task[r] \notin {"asleep", "due"}

\* A call made while the pump runs settles: it is answered, or fails when the
\* plugin stops ("in-flight calls fail instead of hanging").
InFlightCallsSettle ==
    \A r \in 1 .. MaxCalls : r \in pending /\ pump = "running" ~> r \notin pending

\* The guest's own calls are answered while it lives.
GuestCallsSettle == \A r \in 1 .. MaxGuestCalls : r \in awaiting ~> r \notin awaiting

\* "calls after the trap must fail, not hang"
CallsAfterTrapFail == \A r \in 1 .. MaxCalls : r \in pending ~> r \notin pending
=============================================================================
