------------------------------ MODULE JsRuntime ------------------------------
(***************************************************************************)
(* The script runtime (embedded_gpui_js/src/runtime.rs and prelude.js):    *)
(* one JsRoot, the calls the host makes to it, the scripts loaded one      *)
(* after the other by the host or by the watcher of index.js, and the      *)
(* calls, views and click handlers of those scripts.                       *)
(*                                                                         *)
(* The guest runs one thing at a time: an entry into the script, with the  *)
(* promise jobs it queues and the operations it asks for, is one step.     *)
(* Only the file may change in the middle of a load.                       *)
(***************************************************************************)
EXTENDS Naturals, Sequences, FiniteSets, Functions

CONSTANTS
    Detached,       \* no host call: nobody waits for the result
    MaxCalls,       \* bound: calls the host makes to the root
    MaxScripts,     \* bound: scripts loaded
    MaxHandlers,    \* bound: trees a script renders
    MaxEdits        \* bound: times the file is written

ASSUME BoundsAssumption ==
    /\ MaxCalls \in Nat /\ MaxScripts \in Nat
    /\ MaxHandlers \in Nat /\ MaxEdits \in Nat
ASSUME DetachedAssumption == Detached \notin Nat

VARIABLES
    script,         \* how many scripts were loaded, the running one's name
    evaluated,      \* its source ran to the end
    heard,          \* the calls dispatched to it, in order
    history,        \* JsState.history
    pending,        \* JsState.pending: the host call that a request answers
    nextRequest,    \* JsState.next_request
    outcome,        \* outcome[c]: what the host knows of its call c
    receipts,       \* calls of scripts that are not settled, and for what
    views,          \* JsState.views: the handler in the tree of each view
    handlers,       \* the keys of handlers in the prelude
    nextHandler,    \* nextHandler - 1 in the prelude
    windows,        \* the windows that scripts opened
    disk,           \* the write that index.js holds, 0 for no file
    edits,          \* writes so far
    watch,          \* where the watcher is
    stat,           \* the modification time it read last
    lastModified,   \* last_modified
    fromDisk        \* the write it loaded last

stateVars == <<pending, nextRequest, views, handlers, nextHandler>>
hostVars == <<history, outcome>>
scriptVars == <<script, evaluated, heard>>
worldVars == <<receipts, windows>>
fileVars == <<disk, edits, watch, stat, lastModified, fromDisk>>
vars == <<stateVars, hostVars, scriptVars, worldVars, fileVars>>

Calls == 1 .. MaxCalls
None == [x \in {} |-> x]

(***************************************************************************)
(* How a method of plugin.root behaves: it answers, throws, awaits a call  *)
(* of its own before it answers, opens a view, renders and answers, or     *)
(* throws what has no text, so that the dispatch itself fails and leaves   *)
(* its request behind.                                                     *)
(***************************************************************************)
Mode == {"answer", "throw", "await", "mount", "break"}

\* Those whose request is still pending when the dispatch returns.
Lasting == {"await", "break"}
-----------------------------------------------------------------------------
Init ==
    /\ script = 0 /\ evaluated = FALSE /\ heard = <<>>
    /\ history = <<>> /\ outcome = [c \in Calls |-> "none"]
    /\ pending = None /\ nextRequest = 0
    /\ receipts = {}
    /\ views = <<>> /\ handlers = {} /\ nextHandler = 0 /\ windows = {}
    /\ disk \in {0, 1} /\ edits = 1
    /\ watch = "start" /\ stat = 0 /\ lastModified = 0 /\ fromDisk = 0

\* The watcher is not in the middle of a load.
Idle == watch \in {"off", "sleep"}
-----------------------------------------------------------------------------
(***************************************************************************)
(* Views.  A tree has one handler, or none (0).                            *)
(***************************************************************************)
\* View.render: the handlers of every view are forgotten.
RenderView(key, clickable) ==
    /\ nextHandler < MaxHandlers
    /\ nextHandler' = nextHandler + (IF clickable THEN 1 ELSE 0)
    /\ handlers' = IF clickable THEN {nextHandler'} ELSE {}
    /\ views' = [k \in DOMAIN views \cup {key} |->
                    IF k = key THEN IF clickable THEN nextHandler' ELSE 0
                               ELSE views[k]]

\* openView, and the render that follows.
MountView ==
    /\ RenderView(Len(views) + 1, TRUE)
    /\ windows' = windows \cup {<<script, Len(views) + 1>>}

\* The user clicks on a view: invokeHandler.  The handler may render a view.
Click(key, rendered, clickable) ==
    /\ Idle
    /\ <<script, key>> \in windows /\ views[key] \in handlers
    /\ RenderView(rendered, clickable)
    /\ UNCHANGED <<pending, nextRequest, hostVars, scriptVars, worldVars, fileVars>>

\* The host lets go of a view: its window closes, JsState keeps the entry.
CloseWindow(w) ==
    /\ Idle
    /\ windows' = windows \ {w}
    /\ UNCHANGED <<stateVars, hostVars, scriptVars, receipts, fileVars>>
-----------------------------------------------------------------------------
(***************************************************************************)
(* Host calls.                                                             *)
(***************************************************************************)
\* dispatch_to_js: remember the call and run the script's method.
HostCall(c, mode) ==
    /\ Idle
    /\ outcome[c] = "none" /\ \A b \in 1 .. c - 1 : outcome[b] # "none"
    /\ script = 0 => mode = "throw"
    /\ history' = Append(history, c)
    /\ heard' = Append(heard, c)
    /\ nextRequest' = nextRequest + 1
    /\ outcome' = [outcome EXCEPT ![c] = CASE mode \in {"throw", "break"} -> "failed"
                                           [] mode = "await" -> "open"
                                           [] OTHER -> "answered"]
    /\ pending' = IF mode \in Lasting
                  THEN [r \in DOMAIN pending \cup {nextRequest'} |->
                           IF r # nextRequest' THEN pending[r]
                           ELSE IF mode = "await" THEN c ELSE Detached]
                  ELSE pending
    /\ receipts' = IF mode = "await" THEN receipts \cup {<<script, nextRequest'>>}
                                     ELSE receipts
    /\ IF mode = "mount"
       THEN MountView
       ELSE UNCHANGED <<views, handlers, nextHandler, windows>>
    /\ UNCHANGED <<script, evaluated, fileVars>>

\* How an awaiting method ends.
Ending == {"answered", "failed", "never"}

\* Op::Respond: the request is answered, if its sender is still there.
Answer(r, how) ==
    IF how # "never" /\ r \in DOMAIN pending
    THEN /\ pending' = Restrict(pending, DOMAIN pending \ {r})
         /\ outcome' = [c \in Calls |-> IF c = pending[r] THEN how ELSE outcome[c]]
    ELSE UNCHANGED <<pending, outcome>>

\* A slip: the promise is settled by request, whichever script made the call.
SettleAnyScript(x, how, mounts) ==
    /\ Idle
    /\ receipts' = receipts \ {x}
    /\ Answer(x[2], how)
    /\ IF mounts THEN MountView ELSE UNCHANGED <<views, handlers, nextHandler, windows>>
    /\ UNCHANGED <<nextRequest, history, scriptVars, fileVars>>

(***************************************************************************)
(* A call of a script settles.  The awaiting method goes on and answers,   *)
(* or never does, because it waits for something else or its answer has no *)
(* encoding.  If its script is gone, so is the method: its functions       *)
(* belong to another runtime, and the engine refuses them.                 *)
(***************************************************************************)
Settle(x, how, mounts) ==
    /\ Idle
    /\ receipts' = receipts \ {x}
    /\ IF x[1] = script
       THEN /\ Answer(x[2], how)
            /\ IF mounts THEN MountView
                         ELSE UNCHANGED <<views, handlers, nextHandler, windows>>
       ELSE UNCHANGED <<pending, outcome, views, handlers, nextHandler, windows>>
    /\ UNCHANGED <<nextRequest, history, scriptVars, fileVars>>
-----------------------------------------------------------------------------
(***************************************************************************)
(* Loading.                                                                *)
(***************************************************************************)
\* A slip: replayed calls are remembered again.
RememberedTwice == history \o history

\* What a load leaves of the history.
Remembered == history

(***************************************************************************)
(* JsRoot::load.  The old script's windows and requests go, the new one is *)
(* evaluated in a fresh state and, if that worked, hears the history, in   *)
(* which call i behaves as modes[i].  Requests and views count from 1.     *)
(***************************************************************************)
Load(ok, modes) ==
    LET Of(kinds) == {i \in DOMAIN modes : modes[i] \in kinds}
        mounted == Cardinality(Of({"mount"}))
    IN  /\ script < MaxScripts
        /\ modes \in [IF ok THEN DOMAIN history ELSE {} -> Mode]
        /\ mounted <= MaxHandlers
        /\ script' = script + 1
        /\ evaluated' = ok
        /\ heard' = IF ok THEN history ELSE <<>>
        /\ history' = Remembered
        /\ outcome' = [c \in Calls |-> IF outcome[c] = "open" THEN "failed"
                                                              ELSE outcome[c]]
        /\ pending' = [r \in Of(Lasting) |-> Detached]
        /\ nextRequest' = Cardinality(DOMAIN modes)
        /\ receipts' = receipts \cup {<<script', r>> : r \in Of({"await"})}
        /\ nextHandler' = mounted
        /\ handlers' = {mounted} \ {0}
        /\ views' = [k \in 1 .. mounted |-> k]
        /\ windows' = {<<script', k>> : k \in 1 .. mounted}

\* The host calls load(source).
HostLoad(ok, modes) ==
    /\ Idle
    /\ Load(ok, modes)
    /\ UNCHANGED fileVars

\* The developer writes or removes index.js, at any time.
Edit ==
    /\ edits < MaxEdits
    /\ edits' = edits + 1
    /\ disk' \in {0, edits'}
    /\ UNCHANGED <<stateVars, hostVars, scriptVars, worldVars, watch, stat,
                   lastModified, fromDisk>>

\* JsPlugin::new: without index.js there is no watcher.
Start ==
    /\ watch = "start"
    /\ watch' = IF disk = 0 THEN "off" ELSE "stat"
    /\ UNCHANGED <<stateVars, hostVars, scriptVars, worldVars, disk, edits, stat,
                   lastModified, fromDisk>>

\* run_from_disk, twice a second: has the modification time changed?
Poll ==
    /\ watch = "sleep"
    /\ disk \notin {0, lastModified}
    /\ watch' = "stat"
    /\ UNCHANGED <<stateVars, hostVars, scriptVars, worldVars, disk, edits, stat,
                   lastModified, fromDisk>>

\* load_entry_point reads the modification time.
Stat ==
    /\ watch = "stat"
    /\ stat' = disk
    /\ watch' = "read"
    /\ UNCHANGED <<stateVars, hostVars, scriptVars, worldVars, disk, edits,
                   lastModified, fromDisk>>

\* A slip: the content was read first, and now the modification time is.
ReadBeforeStat(ok, modes) ==
    /\ watch = "read"
    /\ lastModified' = disk
    /\ watch' = "sleep"
    /\ stat # 0
    /\ Load(ok, modes)
    /\ fromDisk' = stat
    /\ UNCHANGED <<disk, edits, stat>>

\* Then it reads the file and loads what it read.
Read(ok, modes) ==
    /\ watch = "read"
    /\ disk # 0
    /\ lastModified' = stat
    /\ watch' = "sleep"
    /\ Load(ok, modes)
    /\ fromDisk' = disk
    /\ UNCHANGED <<disk, edits, stat>>

\* Or fails to, because the file is gone.
ReadNothing ==
    /\ watch = "read"
    /\ disk = 0
    /\ lastModified' = stat
    /\ watch' = "sleep"
    /\ UNCHANGED <<stateVars, hostVars, scriptVars, worldVars, disk, edits, stat,
                   fromDisk>>
-----------------------------------------------------------------------------
\* The behaviours that the history may have under a load that works or fails.
Replays(ok) == [IF ok THEN DOMAIN history ELSE {} -> Mode]

Next ==
    \/ \E c \in Calls, mode \in Mode : HostCall(c, mode)
    \/ \E x \in receipts, how \in Ending, mounts \in BOOLEAN : Settle(x, how, mounts)
    \/ \E key, rendered \in DOMAIN views, clickable \in BOOLEAN :
          Click(key, rendered, clickable)
    \/ \E ok \in BOOLEAN : \E modes \in Replays(ok) :
          HostLoad(ok, modes) \/ Read(ok, modes)
    \/ \E w \in windows : CloseWindow(w)
    \/ Edit \/ Start \/ Poll \/ Stat \/ ReadNothing

Spec == Init /\ [][Next]_vars
-----------------------------------------------------------------------------
(***************************************************************************)
(* A script that evaluated has been dispatched every call the host ever    *)
(* made to the root, once and in order, whenever it was loaded: "replays   *)
(* every call the host made to the root".                                  *)
(***************************************************************************)
ScriptHearsHistory ==
    evaluated => heard = [c \in {d \in Calls : outcome[d] # "none"} |-> c]

(***************************************************************************)
(* What the runtime keeps for a script is the running one's.  What it      *)
(* awaits belongs to requests that are pending, though their numbers start *)
(* over and calls of earlier scripts settle late; the open calls of the    *)
(* host are the pending requests that somebody waits for, one each, also   *)
(* when nothing will answer them, so that the next load fails them; and no *)
(* window of an earlier script is left.                                    *)
(***************************************************************************)
NothingOutlivesScript ==
    /\ {x[2] : x \in {y \in receipts : y[1] = script}} \subseteq DOMAIN pending
    /\ {c \in Calls : outcome[c] = "open"} = Range(pending) \ {Detached}
    /\ \A r, s \in DOMAIN pending :
          pending[r] = pending[s] /\ r # s => pending[r] = Detached
    /\ windows \subseteq {<<script, k>> : k \in DOMAIN views}

(***************************************************************************)
(* No write of index.js is overlooked: when the watcher takes the file for *)
(* loaded, it is what it loaded, whenever it was written during a load.    *)
(***************************************************************************)
EditsNoticed == watch = "sleep" /\ disk # 0 /\ disk = lastModified => fromDisk = disk

(***************************************************************************)
(* The handler in the tree of a view is there to be invoked: "functions in *)
(* the tree become handler ids the runtime invokes on input".              *)
(***************************************************************************)
HandlersLive == \A key \in DOMAIN views : views[key] # 0 => views[key] \in handlers
=============================================================================
