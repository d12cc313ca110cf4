------------------------------- MODULE Mirror -------------------------------
(***************************************************************************)
(* A Mirror keeps the latest value of an object of the other end: it       *)
(* observes the object and fetches the value again whenever the home       *)
(* notifies, with one fetch in flight.                                     *)
(*                                                                         *)
(* The home's state is its version.  The two wires are the FIFOs of the    *)
(* registry; of its frames only the subscribe, the fetch, the notify and   *)
(* the answer occur here.  A gpui effect (a notify of the object or of the *)
(* signal) is a flag: gpui coalesces equal notifies until it flushes them. *)
(*                                                                         *)
(* The home is in a plugin, which may stop at any moment: its state goes,  *)
(* and so do the frames on their way to it and those of its last turn.     *)
(* The mirror's end applies the turns before, then fails what is open.     *)
(***************************************************************************)
EXTENDS Integers, FiniteSets, SequencesExt

CONSTANTS
    MaxVersion,     \* bound on the changes of the object
    Nil,            \* no value fetched yet
    Notify,         \* the frame of a notify
    Error           \* the answer of a fetch that failed

ASSUME BoundAssumption == MaxVersion \in Nat
ASSUME DistinctAssumption ==
    Nil \notin Nat /\ Notify \notin Nat /\ Error \notin Nat /\ Notify # Error

VARIABLES
    plugin,         \* "runs", "stopped" (the pump has yet to hear of it) or "failed"
    version,        \* the state of the object at its home
    changed,        \* the object's notify waits for gpui's flush
    subscribed,     \* the home knows the mirror's signal as an observer
    handling,       \* the versions that asynchronous fetch handlers started at
    requests,       \* frames to the home
    replies,        \* frames to the mirror's end
    signalled,      \* the signal's notify waits for gpui's flush
    open,           \* fetches in pending_responses
    receipts,       \* answers that the tasks awaiting them have not picked up
    latest,         \* Mirror.latest
    fetching,       \* Mirror.fetching
    dirty,          \* Mirror.dirty
    alive,          \* the mirror has not been dropped
    failed          \* the last fetch failed (the mirror only logs it)

home == <<version, changed, subscribed, handling>>
wires == <<requests, replies>>
mirror == <<signalled, open, receipts, latest, fetching, dirty, alive, failed>>
vars == <<plugin, home, wires, mirror>>

Version == 0 .. MaxVersion
Answer == Version \cup {Error}

-----------------------------------------------------------------------------

\* Mirror::new: the first observation of a remote subscribes, a later one joins
\* the signal that is there; the first fetch does not wait for a notify.
Init ==
    /\ plugin = "runs"
    /\ version = 0 /\ changed = FALSE /\ handling = <<>>
    /\ \/ subscribed = FALSE /\ requests = <<"subscribe", "fetch">>
       \/ subscribed = TRUE  /\ requests = <<"fetch">>
    /\ replies = <<>>
    /\ signalled = FALSE /\ open = 1 /\ receipts = <<>>
    /\ latest = Nil /\ fetching = TRUE /\ dirty = FALSE
    /\ alive = TRUE /\ failed = FALSE

\* Remote::call: the receipt opens, and the frame goes to a plugin that runs; the
\* sink drops it otherwise.
Fetch ==
    /\ open' = open + 1
    /\ requests' = IF plugin = "runs" THEN Append(requests, "fetch") ELSE requests

\* A slip: every notify starts a fetch of its own.
RefreshAlways(busy) ==
    dirty' = FALSE /\ fetching' = TRUE /\ Fetch

\* A slip: a notify during a fetch is forgotten.
RefreshIfIdle(busy) ==
    IF busy
    THEN UNCHANGED <<dirty, fetching, open, requests>>
    ELSE dirty' = FALSE /\ fetching' = TRUE /\ Fetch

\* The part of refresh that every caller shares: with a fetch in flight,
\* remember to go again; otherwise start one.  A dropped mirror does neither.
Refresh(busy) ==
    IF busy
    THEN dirty' = TRUE /\ fetching' = TRUE /\ UNCHANGED <<open, requests>>
    ELSE dirty' = FALSE /\ fetching' = TRUE /\ Fetch

\* The object changes and calls cx.notify.
Change ==
    /\ plugin = "runs" /\ version < MaxVersion
    /\ version' = version + 1
    /\ changed' = TRUE
    /\ UNCHANGED <<plugin, subscribed, handling, wires, mirror>>

\* gpui flushes the object's notify: the observation that sharing installed
\* sends one to every observer.
FlushChange ==
    /\ changed
    /\ changed' = FALSE
    /\ replies' = IF subscribed THEN Append(replies, Notify) ELSE replies
    /\ UNCHANGED <<plugin, version, subscribed, handling, requests, mirror>>

\* The home notifies once on subscription.
HandleSubscribe ==
    /\ requests # <<>> /\ Head(requests) = "subscribe"
    /\ requests' = Tail(requests)
    /\ subscribed' = TRUE
    /\ replies' = Append(replies, Notify)
    /\ UNCHANGED <<plugin, version, changed, handling, mirror>>

\* The home runs the method behind a fetch: it answers at once, or starts work
\* that answers later.
HandleFetch ==
    /\ requests # <<>> /\ Head(requests) = "fetch"
    /\ requests' = Tail(requests)
    /\ \/ /\ \E answer \in {version, Error} : replies' = Append(replies, answer)
          /\ UNCHANGED handling
       \/ handling' = Append(handling, version) /\ UNCHANGED replies
    /\ UNCHANGED <<plugin, version, changed, subscribed, mirror>>

\* The work resolves with a state the object had since it started, or fails.
FinishFetch ==
    /\ \E i \in DOMAIN handling :
           /\ handling' = RemoveAt(handling, i)
           /\ \E answer \in (handling[i] .. version) \cup {Error} :
                  replies' = Append(replies, answer)
    /\ UNCHANGED <<plugin, version, changed, subscribed, requests, mirror>>

\* A notify lands on the signal, an answer in the receipt.
Deliver ==
    /\ replies # <<>>
    /\ replies' = Tail(replies)
    /\ IF Head(replies) = Notify
       THEN signalled' = TRUE /\ UNCHANGED <<open, receipts>>
       ELSE /\ open' = open - 1
            /\ receipts' = Append(receipts, Head(replies)) /\ UNCHANGED signalled
    /\ UNCHANGED <<plugin, home, requests, latest, fetching, dirty, alive, failed>>

\* gpui flushes the signal's notify: the mirror's observation refreshes.
FlushSignal ==
    /\ signalled
    /\ signalled' = FALSE
    /\ IF alive THEN Refresh(fetching) ELSE UNCHANGED <<fetching, dirty, open, requests>>
    /\ UNCHANGED <<plugin, home, replies, receipts, latest, alive, failed>>

\* A slip: the dirty flag waits for another notify.
SettleAndRest ==
    /\ \E i \in DOMAIN receipts :
           /\ receipts' = RemoveAt(receipts, i)
           /\ IF alive
              THEN /\ failed' = (receipts[i] = Error)
                   /\ latest' = IF receipts[i] = Error THEN latest ELSE receipts[i]
                   /\ fetching' = FALSE /\ UNCHANGED <<dirty, open, requests>>
              ELSE UNCHANGED <<latest, fetching, dirty, failed, open, requests>>
    /\ UNCHANGED <<plugin, home, replies, signalled, alive>>

\* The task that awaited a receipt: store the value, and go again if a notify
\* came while the fetch was in flight.
Settle ==
    /\ \E i \in DOMAIN receipts :
           /\ receipts' = RemoveAt(receipts, i)
           /\ IF alive
              THEN /\ failed' = (receipts[i] = Error)
                   /\ latest' = IF receipts[i] = Error THEN latest ELSE receipts[i]
                   /\ IF dirty
                      THEN Refresh(FALSE)
                      ELSE fetching' = FALSE /\ UNCHANGED <<dirty, open, requests>>
              ELSE UNCHANGED <<latest, fetching, dirty, failed, open, requests>>
    /\ UNCHANGED <<plugin, home, replies, signalled, alive>>

\* The embedder drops the mirror; its task goes on with a weak handle.
DropMirror ==
    /\ alive
    /\ alive' = FALSE
    /\ UNCHANGED <<plugin, home, wires, signalled, open, receipts, latest, fetching, dirty,
                   failed>>

\* The plugin's worker ends in the middle of a turn: of the home's frames, those
\* of earlier turns still arrive.
Stop ==
    /\ plugin = "runs"
    /\ plugin' = "stopped"
    /\ requests' = <<>> /\ handling' = <<>> /\ changed' = FALSE
    /\ \E n \in 0 .. Len(replies) : replies' = SubSeq(replies, 1, n)
    /\ UNCHANGED <<version, subscribed, mirror>>

\* A slip: the pump ends and leaves the receipts open.
StopPump ==
    /\ plugin = "stopped" /\ replies = <<>>
    /\ plugin' = "failed"
    /\ UNCHANGED <<home, wires, mirror>>

\* fail_pending, after the last turn: every receipt still open fails.
FailPending ==
    /\ plugin = "stopped" /\ replies = <<>>
    /\ plugin' = "failed"
    /\ open' = 0
    /\ receipts' = receipts \o [i \in 1 .. open |-> Error]
    /\ UNCHANGED <<home, wires, signalled, latest, fetching, dirty, alive, failed>>

Next ==
    \/ Change \/ FlushChange \/ HandleSubscribe \/ HandleFetch \/ FinishFetch
    \/ Deliver \/ FlushSignal \/ Settle \/ DropMirror \/ Stop \/ FailPending

Spec == Init /\ [][Next]_vars

\* Both ends pump and flush, tasks run, and asynchronous handlers finish.
Fairness ==
    /\ WF_vars(FlushChange) /\ WF_vars(HandleSubscribe \/ HandleFetch)
    /\ WF_vars(FinishFetch) /\ WF_vars(Deliver \/ FailPending)
    /\ WF_vars(FlushSignal) /\ WF_vars(Settle)
FairSpec == Spec /\ Fairness

-----------------------------------------------------------------------------

Positions(s, S) == {i \in DOMAIN s : s[i] \in S}

\* The fetches that the home has to answer, or has answered with a frame that is
\* on its way.
Owed ==
    Cardinality(Positions(requests, {"fetch"})) + Len(handling)
    + Cardinality(Positions(replies, Answer))

\* "coalescing bursts into one in-flight call": however notifies, answers, the
\* tasks that pick them up and the stop of the plugin interleave, a live mirror
\* that says it is fetching has one fetch, whose receipt is open or whose answer
\* waits for its task, and one that does not has none; and an open receipt is
\* one that the home owes an answer, while there is a home.
OneFetch ==
    /\ alive => open + Len(receipts) = IF fetching THEN 1 ELSE 0
    /\ plugin = "runs" => open = Owed

\* A mirror is never behind with nothing under way to tell it so, unless its
\* last fetch failed or its object is gone: the news is a change that gpui has
\* not flushed, a frame that ends in a notify, a notify, a fetch that will read
\* or has read the new state, or the dirty flag.
NewsOnItsWay ==
    alive /\ plugin = "runs" /\ latest # version =>
        \/ changed \/ signalled \/ dirty \/ failed
        \/ \E i \in DOMAIN requests : requests[i] \in {"subscribe", "fetch"}
        \/ \E i \in DOMAIN handling : handling[i] = version
        \/ \E i \in DOMAIN replies : replies[i] \in {Notify, Error, version}
        \/ \E i \in DOMAIN receipts : receipts[i] \in {Error, version}

\* "observe the remote, refetch whenever the home notifies, and hold the latest
\* value": once the object stops changing, the mirror has its state, unless it
\* was dropped, its last fetch failed or the plugin stopped; and "its in-flight calls
\* fail instead of hanging": no fetch that the stop interrupts stays open.
CatchesUp ==
    /\ version = MaxVersion ~>
           latest = MaxVersion \/ failed \/ ~alive \/ plugin # "runs"
    /\ plugin = "stopped" /\ open > 0 ~> open = 0

=============================================================================
