---------------------------- MODULE SurfaceView ----------------------------
(***************************************************************************)
(* Views on surfaces: the Surface entity of the host (host/surface.rs) and *)
(* the windows that the guest draws on it (guest.rs open_view and pump,    *)
(* guest/window.rs, guest/platform.rs), joined by the host's requests and  *)
(* the guest's turns.                                                      *)
(*                                                                         *)
(* There is one Surface entity.  Each share of it gives it another id, and *)
(* the guest is asked to mount a view on an id, once or again.  Windows    *)
(* are known by the view that was shared for them.  Worker and foreground  *)
(* run concurrently: a step of the guest's turn and a step of the host's   *)
(* pump interleave, and so does user code of the host between two turns.   *)
(* Display lists are reduced to the window that drew them.                 *)
(***************************************************************************)
EXTENDS Naturals, Sequences, FiniteSets, SequencesExt

CONSTANTS
    View,           \* views, and their windows
    SurfaceId,      \* ids under which the surface is shared
    Size,           \* slot sizes
    Empty,          \* the size of a collapsed slot, in Size
    Nil,
    MaxMounts,      \* bound: mounts the host asks for
    MaxWire         \* bound: frames or turns on their way

ASSUME NilAssumption == Empty \in Size /\ Nil \notin Size \cup View \cup SurfaceId
ASSUME BoundsAssumption == MaxMounts \in Nat /\ MaxWire \in Nat

VARIABLES
    alive,          \* the owner still holds the Surface
    view,           \* Surface.view, or Nil
    display,        \* Surface.display_list: the window that drew it, or Nil
    geometry,       \* Surface.geometry, or Nil
    dropped,        \* views whose last Remote dropped, release not sent yet
    mounts,         \* mounts asked for so far
    applying,       \* the turn that the pump is applying, as <<turn>>, or <<>>
    requests,       \* frames the worker has not taken yet
    phase,          \* where the guest's turn is
    inbound,        \* frames of the turn not delivered yet
    mounting,       \* ids for which a task of the guest will open a view
    opened,         \* opened[v]: the id that window v was opened on, or Nil
    windows,        \* PluginPlatform.windows: the window drawing on an id, or Nil
    events,         \* PluginWindowState.pending: sizes, Nil for an input
    size,           \* PluginWindowState.size, Nil until measured
    dirty,          \* windows that GPUI wants to redraw
    closed,         \* windows that GPUI removed
    outbound,       \* OUTBOUND: attach calls collected in this turn
    scenes,         \* SCENES: display lists collected in this turn
    turns           \* turns that ended and are not applied yet

surfaceVars == <<alive, view, display, geometry>>
hostVars == <<surfaceVars, dropped, mounts, applying>>
windowVars == <<opened, windows, events, size, dirty, closed>>
guestVars == <<phase, inbound, mounting, windowVars, outbound, scenes>>
vars == <<hostVars, requests, guestVars, turns>>

Request == [kind : {"mount"}, to : SurfaceId, size : {Nil}]
             \cup [kind : {"resize"}, to : View, size : Size]
             \cup [kind : {"input", "release"}, to : View, size : {Nil}]
Mount(s) == [kind |-> "mount", to |-> s, size |-> Nil]
Resize(v, g) == [kind |-> "resize", to |-> v, size |-> g]
Input(v) == [kind |-> "input", to |-> v, size |-> Nil]
Release(v) == [kind |-> "release", to |-> v, size |-> Nil]
Turn == [attaches : Seq(View), scenes : Seq(View)]

\* The windows that the platform still pumps.
Live == {v \in View : opened[v] # Nil /\ windows[opened[v]] = v /\ v \notin closed}

\* drain_releases, in any order.
Releases(S) == {[i \in DOMAIN q |-> Release(q[i])] : q \in SetToSeqs(S)}
-----------------------------------------------------------------------------
Init ==
    /\ alive = TRUE /\ view = Nil /\ display = Nil /\ geometry = Nil
    /\ dropped = {} /\ mounts = 0 /\ applying = <<>>
    /\ requests = <<>> /\ turns = <<>>
    /\ phase = "between" /\ inbound = <<>> /\ mounting = {}
    /\ opened = [v \in View |-> Nil]
    /\ windows = [s \in SurfaceId |-> Nil]
    /\ events = [v \in View |-> <<>>]
    /\ size = [v \in View |-> Nil]
    /\ dirty = {} /\ closed = {}
    /\ outbound = <<>> /\ scenes = <<>>
-----------------------------------------------------------------------------
(***************************************************************************)
(* The host: the owner of the surface, its layout, and its users.  The     *)
(* foreground does one thing at a time.                                    *)
(***************************************************************************)
Foreground == applying = <<>> /\ Len(requests) < MaxWire

\* The owner passes a Ref to the surface through a method of the plugin.
MountOn(s) ==
    /\ Foreground /\ alive /\ mounts < MaxMounts
    /\ mounts' = mounts + 1
    /\ requests' = Append(requests, Mount(s))
    /\ UNCHANGED <<surfaceVars, dropped, applying, guestVars, turns>>

\* Surface::measured, from a layout pass of the host's window.
Measured(g) ==
    /\ Foreground /\ alive /\ geometry # g
    /\ geometry' = g
    /\ requests' = IF view = Nil THEN requests
                   ELSE Append(requests, Resize(view, g))
    /\ UNCHANGED <<alive, view, display, dropped, mounts, applying, guestVars,
                   turns>>

\* forward_mouse and forward_key
ForwardInput ==
    /\ Foreground /\ alive /\ view # Nil
    /\ requests' = Append(requests, Input(view))
    /\ UNCHANGED <<hostVars, guestVars, turns>>

\* The owner drops the surface, and with it the Remote to its view.
DropSurface ==
    /\ applying = <<>> /\ alive
    /\ alive' = FALSE
    /\ view' = Nil /\ display' = Nil
    /\ dropped' = dropped \cup ({view} \ {Nil})
    /\ UNCHANGED <<geometry, mounts, applying, requests, guestVars, turns>>

\* A slip: the queue is read and not emptied.
PumpReleasesAgain ==
    /\ applying = <<>> /\ dropped # {}
    /\ \E q \in Releases(dropped) : requests' = requests \o q
    /\ UNCHANGED <<surfaceVars, dropped, mounts, applying, guestVars, turns>>

\* PluginHost::pump, where a release is all that it brings about.
PumpReleases ==
    /\ applying = <<>> /\ dropped # {}
    /\ \E q \in Releases(dropped) : requests' = requests \o q
    /\ dropped' = {}
    /\ UNCHANGED <<surfaceVars, mounts, applying, guestVars, turns>>
-----------------------------------------------------------------------------
(***************************************************************************)
(* The host's pump applies a turn: its attach calls in order, then its     *)
(* scenes; releases before and after the calls.                            *)
(***************************************************************************)
TakeTurn ==
    /\ applying = <<>> /\ turns # <<>>
    /\ applying' = <<Head(turns)>>
    /\ turns' = Tail(turns)
    /\ \E q \in Releases(dropped) : requests' = requests \o q
    /\ dropped' = {}
    /\ UNCHANGED <<surfaceVars, mounts, guestVars>>

\* A slip: layout is left to send the next size.
AttachUnmeasured ==
    LET v == Head(applying[1].attaches) IN
    /\ applying # <<>> /\ applying[1].attaches # <<>>
    /\ applying' = <<[applying[1] EXCEPT !.attaches = Tail(@)]>>
    /\ IF alive
       THEN /\ dropped' = dropped \cup ({view} \ {Nil})
            /\ view' = v
            /\ display' = Nil
       ELSE UNCHANGED <<dropped, view, display>>
    /\ UNCHANGED <<alive, geometry, mounts, requests, guestVars, turns>>

\* Surface::attach.  If the surface is gone, the call fails and nobody ever
\* connects the view.
Attach ==
    LET v == Head(applying[1].attaches) IN
    /\ applying # <<>> /\ applying[1].attaches # <<>>
    /\ applying' = <<[applying[1] EXCEPT !.attaches = Tail(@)]>>
    /\ IF alive
       THEN /\ requests' = IF geometry = Nil THEN requests
                           ELSE Append(requests, Resize(v, geometry))
            /\ dropped' = dropped \cup ({view} \ {Nil})
            /\ view' = v
            /\ display' = Nil
       ELSE UNCHANGED <<requests, dropped, view, display>>
    /\ UNCHANGED <<alive, geometry, mounts, guestVars, turns>>

\* apply_scenes: every id of the surface leads to the same entity, and the
\* last scene of a turn stays.
ApplyScenes ==
    /\ applying # <<>> /\ applying[1].attaches = <<>>
    /\ applying' = <<>>
    /\ \E q \in Releases(dropped) : requests' = requests \o q
    /\ dropped' = {}
    /\ display' = IF alive /\ applying[1].scenes # <<>>
                  THEN Last(applying[1].scenes) ELSE display
    /\ UNCHANGED <<alive, view, geometry, mounts, guestVars, turns>>
-----------------------------------------------------------------------------
(***************************************************************************)
(* The guest's turn: deliver every frame, apply the queued window events,  *)
(* run tasks, let dirty windows redraw, run tasks again.                   *)
(***************************************************************************)
\* A turn takes all that is queued; a pump or a wakeup may be all there is.
BeginTurn ==
    /\ phase = "between" /\ Len(turns) < MaxWire
    /\ phase' = "deliver"
    /\ inbound' = requests
    /\ requests' = <<>>
    /\ UNCHANGED <<hostVars, mounting, windowVars, outbound, scenes, turns>>

\* open_view: a window bound to the surface id, in place of the one that was
\* drawing there; the view is shared and attached.
OpenView(s) ==
    \E v \in View :
        /\ opened[v] = Nil
        /\ opened' = [opened EXCEPT ![v] = s]
        /\ windows' = [windows EXCEPT ![s] = v]
        /\ dirty' = dirty \cup {v}
        /\ outbound' = Append(outbound, v)
        /\ UNCHANGED <<events, size, closed>>

\* The plugin's mount method opens the view at once, or from a task.
DeliverMount(s) ==
    \/ OpenView(s) /\ UNCHANGED mounting
    \/ mounting' = mounting \cup {s} /\ UNCHANGED <<windowVars, outbound>>

\* GuestView's resize, mouse and key queue an event on the window.
DeliverEvent(f) ==
    /\ events' = [events EXCEPT ![f.to] = Append(@, f.size)]
    /\ UNCHANGED <<mounting, opened, windows, size, dirty, closed, outbound>>

\* A slip: whatever draws on the id is forgotten.
ForgetAnyWindow(v) == windows' = [windows EXCEPT ![opened[v]] = Nil]

\* forget_window: a newer window on the same id stays.
ForgetWindow(v) == windows' = [windows EXCEPT ![opened[v]] = IF @ = v THEN Nil ELSE @]

\* A slip: the platform forgets the window and GPUI keeps it.
ReleaseWithoutClose(v) ==
    /\ ForgetWindow(v)
    /\ UNCHANGED <<mounting, opened, events, size, dirty, closed, outbound>>

\* The release of a view drops it, and its on_release closes the window.
DeliverRelease(v) ==
    /\ ForgetWindow(v)
    /\ closed' = closed \cup {v}
    /\ UNCHANGED <<mounting, opened, events, size, dirty, outbound>>

DeliverFrame ==
    LET f == Head(inbound) IN
    /\ phase = "deliver" /\ inbound # <<>>
    /\ inbound' = Tail(inbound)
    /\ CASE f.kind = "mount" -> DeliverMount(f.to)
         [] f.kind \in {"resize", "input"} -> DeliverEvent(f)
         [] f.kind = "release" -> DeliverRelease(f.to)
    /\ UNCHANGED <<hostVars, requests, phase, scenes, turns>>

\* The last size that resized() does not ignore, or Nil.
LastSize(s) == LET sizes == {i \in DOMAIN s : s[i] \notin {Nil, Empty}}
               IN  IF sizes = {} THEN Nil ELSE s[Max(sizes)]

\* flush_events of every live window: a size is applied and calls for a
\* redraw; an input may.
FlushEvents ==
    /\ phase = "deliver" /\ inbound = <<>>
    /\ phase' = "tasks"
    /\ events' = [v \in View |-> IF v \in Live THEN <<>> ELSE events[v]]
    /\ size' = [v \in View |-> IF v \in Live /\ LastSize(events[v]) # Nil
                               THEN LastSize(events[v]) ELSE size[v]]
    /\ \E S \in SUBSET {v \in Live : Nil \in Range(events[v])} :
          dirty' = dirty \cup S \cup {v \in Live : LastSize(events[v]) # Nil}
    /\ UNCHANGED <<hostVars, requests, inbound, mounting, opened, windows,
                   closed, outbound, scenes, turns>>

\* run_until_idle, before the windows redraw and after: a task notifies an
\* entity that a window shows, or opens a view.
Task ==
    /\ phase \in {"tasks", "late tasks"}
    /\ \/ \E v \in Live : /\ dirty' = dirty \cup {v}
                          /\ UNCHANGED <<mounting, opened, windows, events, size,
                                         closed, outbound>>
       \/ \E s \in mounting : mounting' = mounting \ {s} /\ OpenView(s)
    /\ UNCHANGED <<hostVars, requests, phase, inbound, scenes, turns>>

\* pump_frame of every live window, in any order: a dirty one draws, once it
\* is measured.
PumpFrames ==
    LET drawn == {v \in Live : size[v] # Nil /\ v \in dirty} IN
    /\ phase = "tasks"
    /\ phase' = "late tasks"
    /\ \E order \in SetToSeqs(drawn) : scenes' = scenes \o order
    /\ dirty' = dirty \ drawn
    /\ UNCHANGED <<hostVars, requests, inbound, mounting, opened, windows,
                   events, size, closed, outbound, turns>>

\* take_turn
EndTurn ==
    /\ phase = "late tasks"
    /\ phase' = "between"
    /\ turns' = Append(turns, [attaches |-> outbound, scenes |-> scenes])
    /\ outbound' = <<>> /\ scenes' = <<>>
    /\ UNCHANGED <<hostVars, requests, inbound, mounting, windowVars>>
-----------------------------------------------------------------------------
HostStep == \/ \E s \in SurfaceId : MountOn(s)
            \/ \E g \in Size : Measured(g)
            \/ ForwardInput \/ DropSurface \/ PumpReleases
PumpStep == TakeTurn \/ Attach \/ ApplyScenes
TurnStep == DeliverFrame \/ FlushEvents \/ PumpFrames \/ EndTurn

Next == HostStep \/ PumpStep \/ BeginTurn \/ TurnStep \/ Task

Spec == Init /\ [][Next]_vars

(***************************************************************************)
(* Requests get a turn, turns end and are applied.  Nothing of the code    *)
(* calls PluginHost::pump: PumpReleases is the embedder's and is not fair. *)
(***************************************************************************)
Fairness == /\ WF_vars(PumpStep)
            /\ WF_vars(requests # <<>> /\ BeginTurn)
            /\ WF_vars(TurnStep)

FairSpec == Spec /\ Fairness
-----------------------------------------------------------------------------
TypeOK ==
    /\ alive \in BOOLEAN
    /\ view \in View \cup {Nil}
    /\ display \in View \cup {Nil}
    /\ geometry \in Size \cup {Nil}
    /\ dropped \in SUBSET View
    /\ mounts \in Nat
    /\ applying \in Seq(Turn) /\ Len(applying) <= 1
    /\ requests \in Seq(Request)
    /\ phase \in {"between", "deliver", "tasks", "late tasks"}
    /\ inbound \in Seq(Request)
    /\ mounting \in SUBSET SurfaceId
    /\ opened \in [View -> SurfaceId \cup {Nil}]
    /\ windows \in [SurfaceId -> View \cup {Nil}]
    /\ events \in [View -> Seq(Size \cup {Nil})]
    /\ size \in [View -> Size \cup {Nil}]
    /\ dirty \in SUBSET View
    /\ closed \in SUBSET View
    /\ outbound \in Seq(View)
    /\ scenes \in Seq(View)
    /\ turns \in Seq(Turn)

\* The size of window v and those on their way to it, oldest first, with Nil
\* for what is none.
SizesToBe(v) ==
    LET frames == inbound \o requests
        SizeFor(f) == IF f.kind = "resize" /\ f.to = v THEN f.size ELSE Nil
    IN  <<size[v]>> \o events[v] \o [i \in DOMAIN frames |-> SizeFor(frames[i])]

\* Attach calls that the host has not handled.
Attaching == Range(outbound) \cup UNION {Range(t.attaches) : t \in Range(turns \o applying)}

(***************************************************************************)
(* The attached window ends up with the size of the slot: layout and       *)
(* attach race, a measure being sent by whichever comes second.            *)
(***************************************************************************)
AttachedViewMeasured ==
    alive /\ view # Nil /\ geometry \notin {Nil, Empty} =>
        LastSize(SizesToBe(view)) = geometry

(***************************************************************************)
(* The platform pumps the window of the attached view: replacing a view,   *)
(* releasing the old one late, and mounting an id again never leave the    *)
(* current view without a window to draw and to take input ("a newer       *)
(* window may have taken the surface over, in which case it is left        *)
(* alone").                                                                *)
(***************************************************************************)
AttachedViewLive == alive /\ view # Nil /\ Attaching = {} => view \in Live

(***************************************************************************)
(* A window closes exactly because the host let go of its view: the one    *)
(* attached is never closed or on its way to be, and no view is released   *)
(* twice.                                                                  *)
(***************************************************************************)
ReleasedOnce ==
    LET Releasing == {i \in DOMAIN (inbound \o requests) :
                         (inbound \o requests)[i].kind = "release"}
        Gone == {(inbound \o requests)[i].to : i \in Releasing}
    IN  /\ view \notin Gone \cup dropped \cup closed
        /\ Cardinality(Gone) = Cardinality(Releasing)
        /\ Gone \cap dropped = {} /\ (Gone \cup dropped) \cap closed = {}

\* A turn is asked for, under way, to be applied or being applied.
Busy == requests # <<>> \/ phase # "between" \/ turns # <<>> \/ applying # <<>>

(***************************************************************************)
(* A view that the host let go of while host and guest were busy closes    *)
(* its window, without anybody asking for more: replaced by an attach, or  *)
(* dropped with the surface anywhere between a request and the end of the  *)
(* turn that it brings about, the release still gets a drain.              *)
(***************************************************************************)
DroppedViewCloses == \A v \in View : v \in dropped /\ Busy ~> v \in closed

\* "let dirty windows redraw, then report the next wakeup: everything queued
\* is drained before this returns"
NoRedrawLeft == phase = "between" => \A v \in Live \cap dirty : size[v] = Nil
=============================================================================
