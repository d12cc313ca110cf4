--------------------------- MODULE JsRuntimeProofs ---------------------------
(***************************************************************************)
(* The safety properties of JsRuntime, for any number of calls, scripts,   *)
(* trees and writes of index.js.                                           *)
(***************************************************************************)
EXTENDS JsRuntime, FiniteSetTheorems, TLAPS

-----------------------------------------------------------------------------
(***************************************************************************)
(* The watcher.                                                            *)
(***************************************************************************)
\* No modification time is newer than the last write: the next one is new to
\* whatever the watcher remembers.
TimesPast ==
    /\ edits \in Nat /\ disk \in 0 .. edits
    /\ stat \in 0 .. edits /\ lastModified \in 0 .. edits

FileInv == TimesPast /\ EditsNoticed

LEMMA InitFile == Init => FileInv
  BY DEF Init, FileInv, TimesPast, EditsNoticed

LEMMA NextFile == FileInv /\ [Next]_vars => FileInv'
  <1> SUFFICES ASSUME FileInv, [Next]_vars PROVE FileInv'
    OBVIOUS
  <1> USE DEF FileInv, TimesPast, EditsNoticed
  <1>0. ASSUME UNCHANGED fileVars PROVE FileInv'
    BY <1>0 DEF fileVars
  <1>1. ASSUME NEW c \in Calls, NEW mode \in Mode, HostCall(c, mode) PROVE FileInv'
    BY <1>1, <1>0 DEF HostCall
  <1>2. ASSUME NEW x \in receipts, NEW how \in Ending,
               NEW mounts \in BOOLEAN, Settle(x, how, mounts)
        PROVE  FileInv'
    BY <1>2, <1>0 DEF Settle
  <1>3. ASSUME NEW key \in DOMAIN views, NEW rendered \in DOMAIN views,
               NEW clickable \in BOOLEAN, Click(key, rendered, clickable)
        PROVE  FileInv'
    BY <1>3, <1>0 DEF Click
  <1>4. ASSUME NEW ok \in BOOLEAN, NEW modes \in Replays(ok), HostLoad(ok, modes)
        PROVE  FileInv'
    BY <1>4, <1>0 DEF HostLoad
  <1>5. ASSUME NEW ok \in BOOLEAN, NEW modes \in Replays(ok), Read(ok, modes)
        PROVE  FileInv'
    BY <1>5 DEF Read
  <1>6. ASSUME NEW w \in windows, CloseWindow(w) PROVE FileInv'
    BY <1>6, <1>0 DEF CloseWindow
  <1>7. CASE Edit
    <2>1. /\ edits' = edits + 1 /\ disk' \in {0, edits'}
          /\ UNCHANGED <<stat, lastModified, fromDisk>>
      BY <1>7 DEF Edit
    <2>2. disk' # 0 => disk' # lastModified'
      BY <2>1
    <2> QED BY <2>1, <2>2
  <1>8. CASE Start
    BY <1>8 DEF Start
  <1>9. CASE Poll
    BY <1>9 DEF Poll
  <1>10. CASE Stat
    BY <1>10 DEF Stat
  <1>11. CASE ReadNothing
    BY <1>11 DEF ReadNothing
  <1>12. CASE UNCHANGED vars
    BY <1>12, <1>0 DEF vars
  <1> QED BY <1>1, <1>2, <1>3, <1>4, <1>5, <1>6, <1>7, <1>8, <1>9, <1>10, <1>11,
             <1>12 DEF Next

(***************************************************************************)
(* JsPlugin::load_entry_point: no write of index.js is overlooked, whenever *)
(* it happens during a load, since its modification time is read first.    *)
(***************************************************************************)
THEOREM NoEditOverlooked == Spec => []EditsNoticed
  <1>1. FileInv => EditsNoticed
    BY DEF FileInv
  <1> QED BY InitFile, NextFile, <1>1, PTL DEF Spec

-----------------------------------------------------------------------------
(***************************************************************************)
(* Requests and windows.                                                   *)
(***************************************************************************)
Outcome == {"none", "open", "failed", "answered"}

Typed ==
    /\ script \in Nat /\ nextRequest \in Nat
    /\ history \in Seq(Calls)
    /\ outcome \in [Calls -> Outcome]
    /\ views \in Seq(Nat) /\ nextHandler \in Nat

\* Receipts are of scripts so far, and requests are numbered by nextRequest.
Numbered ==
    /\ \A y \in receipts : y = <<y[1], y[2]>> /\ y[1] \in 0 .. script
    /\ DOMAIN pending \subseteq 1 .. nextRequest
    /\ \A r \in DOMAIN pending : pending[r] \in Calls \cup {Detached}

\* The parts of NothingOutlivesScript.
PendingReceipts == {x[2] : x \in {y \in receipts : y[1] = script}} \subseteq DOMAIN pending
OpenPending == {c \in Calls : outcome[c] = "open"} = Range(pending) \ {Detached}
OneRequestEach == \A r, s \in DOMAIN pending :
                      pending[r] = pending[s] /\ r # s => pending[r] = Detached
WindowsShown == windows \subseteq {<<script, k>> : k \in DOMAIN views}

ScriptInv == Typed /\ Numbered /\ NothingOutlivesScript

LEMMA Parts ==
    NothingOutlivesScript
        <=> PendingReceipts /\ OpenPending /\ OneRequestEach /\ WindowsShown
  BY DEF NothingOutlivesScript, PendingReceipts, OpenPending, OneRequestEach, WindowsShown

\* What a script's request answers does not depend on how Range is written.
LEMMA OpenAre ==
    OpenPending <=>
        /\ \A c \in Calls : outcome[c] = "open" =>
               \E r \in DOMAIN pending : pending[r] = c /\ c # Detached
        /\ \A r \in DOMAIN pending : pending[r] # Detached =>
               pending[r] \in Calls /\ outcome[pending[r]] = "open"
  <1>1. Range(pending) = {pending[r] : r \in DOMAIN pending}
    BY DEF Range
  <1> QED BY <1>1 DEF OpenPending

LEMMA PendingAre ==
    (\A y \in receipts : y = <<y[1], y[2]>>)
        => (PendingReceipts <=> \A r : <<script, r>> \in receipts => r \in DOMAIN pending)
  <1> SUFFICES ASSUME \A y \in receipts : y = <<y[1], y[2]>>
               PROVE  PendingReceipts
                         <=> \A r : <<script, r>> \in receipts => r \in DOMAIN pending
    OBVIOUS
  <1>1. ASSUME PendingReceipts, NEW r, <<script, r>> \in receipts
        PROVE  r \in DOMAIN pending
    BY <1>1 DEF PendingReceipts
  <1>2. ASSUME \A r : <<script, r>> \in receipts => r \in DOMAIN pending
        PROVE  PendingReceipts
    <2>1. ASSUME NEW x \in receipts, x[1] = script PROVE x[2] \in DOMAIN pending
      BY <1>2, <2>1
    <2> QED BY <2>1 DEF PendingReceipts
  <1> QED BY <1>1, <1>2

LEMMA InitScript == Init => ScriptInv
  <1> SUFFICES ASSUME Init PROVE ScriptInv
    OBVIOUS
  <1>1. DOMAIN pending = {} /\ receipts = {}
    BY DEF Init, None
  <1>2. Typed
    BY DEF Init, Typed, Outcome
  <1>3. Numbered
    BY <1>1 DEF Numbered
  <1>4. PendingReceipts
    BY <1>1 DEF PendingReceipts
  <1>5. OpenPending
    <2>1. \A c \in Calls : outcome[c] # "open"
      BY DEF Init
    <2> QED BY <1>1, <2>1, OpenAre
  <1>6. OneRequestEach /\ WindowsShown
    BY <1>1 DEF Init, OneRequestEach, WindowsShown
  <1> QED BY <1>2, <1>3, <1>4, <1>5, <1>6, Parts DEF ScriptInv

\* Rendering a view that there is, or the next one.
LEMMA Rendered ==
    ASSUME Typed, NEW key \in 1 .. Len(views) + 1, NEW clickable \in BOOLEAN,
           RenderView(key, clickable)
    PROVE  /\ views' \in Seq(Nat) /\ nextHandler' \in Nat
           /\ DOMAIN views \cup {key} = DOMAIN views'
  <1>1. views \in Seq(Nat) /\ nextHandler \in Nat
    BY DEF Typed
  <1>2. DOMAIN views = 1 .. Len(views) /\ Len(views) \in Nat
    BY <1>1
  <1>3. nextHandler' \in Nat
    BY <1>1 DEF RenderView
  <1>4. PICK n \in Nat : DOMAIN views \cup {key} = 1 .. n
    <2>1. CASE key = Len(views) + 1
      BY <1>2, <2>1
    <2>2. CASE key \in 1 .. Len(views)
      BY <1>2, <2>2
    <2> QED BY <1>2, <2>1, <2>2
  <1>5. \A k \in 1 .. n : views'[k] \in Nat
    <2> TAKE k \in 1 .. n
    <2>1. views'[k] = IF k = key THEN IF clickable THEN nextHandler' ELSE 0 ELSE views[k]
      BY <1>4 DEF RenderView
    <2>2. k # key => views[k] \in Nat
      BY <1>1, <1>2, <1>4
    <2> QED BY <1>3, <2>1, <2>2
  <1>6. views' = [k \in 1 .. n |-> views'[k]]
    BY <1>4 DEF RenderView
  <1>7. views' \in [1 .. n -> Nat]
    BY <1>5, <1>6
  <1>8. views' \in Seq(Nat)
    BY <1>7
  <1> QED BY <1>3, <1>4, <1>6, <1>8

LEMMA Mounted ==
    ASSUME Typed, WindowsShown, MountView, script' = script
    PROVE  views' \in Seq(Nat) /\ nextHandler' \in Nat /\ WindowsShown'
  <1>1. Len(views) + 1 \in 1 .. Len(views) + 1
    BY DEF Typed
  <1>2. RenderView(Len(views) + 1, TRUE)
    BY DEF MountView
  <1>3. /\ views' \in Seq(Nat) /\ nextHandler' \in Nat
        /\ DOMAIN views \cup {Len(views) + 1} = DOMAIN views'
    BY <1>1, <1>2, Rendered
  <1>4. windows' = windows \cup {<<script, Len(views) + 1>>}
    BY DEF MountView
  <1> QED BY <1>3, <1>4 DEF WindowsShown

\* The same for the next state.
LEMMA NextAre ==
    ASSUME Numbered'
    PROVE  /\ PendingReceipts' <=> \A r : <<script', r>> \in receipts' => r \in DOMAIN pending'
           /\ OpenPending' <=>
                /\ \A c \in Calls : outcome'[c] = "open" =>
                       \E r \in DOMAIN pending' : pending'[r] = c /\ c # Detached
                /\ \A r \in DOMAIN pending' : pending'[r] # Detached =>
                       pending'[r] \in Calls /\ outcome'[pending'[r]] = "open"
  <1>1. \A y \in receipts' : y = <<y[1], y[2]>>
    BY DEF Numbered
  <1>2. (\A y \in receipts : y = <<y[1], y[2]>>)'
            => (PendingReceipts <=> \A r : <<script, r>> \in receipts => r \in DOMAIN pending)'
    BY PendingAre, PTL
  <1>3. (OpenPending <=>
                /\ \A c \in Calls : outcome[c] = "open" =>
                       \E r \in DOMAIN pending : pending[r] = c /\ c # Detached
                /\ \A r \in DOMAIN pending : pending[r] # Detached =>
                       pending[r] \in Calls /\ outcome[pending[r]] = "open")'
    BY OpenAre, PTL
  <1> QED BY <1>1, <1>2, <1>3

LEMMA NextParts ==
    ASSUME Typed', Numbered', PendingReceipts', OpenPending', OneRequestEach', WindowsShown'
    PROVE  ScriptInv'
  <1>1. (NothingOutlivesScript
            <=> PendingReceipts /\ OpenPending /\ OneRequestEach /\ WindowsShown)'
    BY Parts, PTL
  <1> QED BY <1>1 DEF ScriptInv

\* A load starts the requests over, and fails whatever was open.
LEMMA LoadKeeps ==
    ASSUME ScriptInv, NEW ok \in BOOLEAN, NEW modes \in Replays(ok), Load(ok, modes)
    PROVE  ScriptInv'
  <1> DEFINE Of(kinds) == {i \in DOMAIN modes : modes[i] \in kinds}
             Mounting == Of({"mount"})
             mounted == Cardinality(Mounting)
  <1>0. Typed /\ Numbered
    BY DEF ScriptInv
  <1>1. PICK n \in Nat : DOMAIN modes = 1 .. n /\ (ok => DOMAIN history = 1 .. n)
    <2>1. DOMAIN history = 1 .. Len(history) /\ Len(history) \in Nat
      BY <1>0 DEF Typed
    <2>2. CASE ok
      BY <2>1, <2>2 DEF Replays
    <2>3. CASE ~ok
      <3>1. DOMAIN modes = 1 .. 0
        BY <2>3 DEF Replays
      <3> QED BY <3>1, <2>3
    <2> QED BY <2>2, <2>3
  <1>2. IsFiniteSet(1 .. n) /\ Cardinality(1 .. n) = n
    BY FS_Interval
  <1>3. mounted \in Nat
    <2>1. Mounting \in SUBSET (1 .. n)
      BY <1>1
    <2>2. IsFiniteSet(Mounting)
      BY <2>1, <1>2, FS_Subset
    <2> QED BY <2>2, FS_CardinalityType
  <1>4. /\ script' = script + 1 /\ history' = history
        /\ outcome' = [c \in Calls |-> IF outcome[c] = "open" THEN "failed" ELSE outcome[c]]
        /\ pending' = [r \in Of(Lasting) |-> Detached]
        /\ nextRequest' = n
        /\ receipts' = receipts \cup {<<script', r>> : r \in Of({"await"})}
        /\ nextHandler' = mounted
        /\ views' = [k \in 1 .. mounted |-> k]
        /\ windows' = {<<script', k>> : k \in 1 .. mounted}
    BY <1>1, <1>2 DEF Load, Remembered
  <1> HIDE DEF mounted
  <1>5. Typed'
    <2>1. views' \in Seq(Nat)
      BY <1>3, <1>4
    <2>2. outcome' \in [Calls -> Outcome]
      BY <1>0, <1>4 DEF Typed, Outcome
    <2> QED BY <2>1, <2>2, <1>0, <1>3, <1>4 DEF Typed
  <1>6. Numbered'
    <2>1. \A y \in receipts' : y = <<y[1], y[2]>> /\ y[1] \in 0 .. script'
      BY <1>0, <1>4 DEF Typed, Numbered
    <2>2. DOMAIN pending' \subseteq 1 .. nextRequest'
      BY <1>1, <1>4
    <2> QED BY <2>1, <2>2, <1>4 DEF Numbered
  <1>7. PendingReceipts'
    <2>1. \A r : <<script', r>> \notin receipts
      BY <1>0, <1>4 DEF Typed, Numbered
    <2>2. DOMAIN pending' = Of(Lasting) /\ Of({"await"}) \subseteq Of(Lasting)
      BY <1>4 DEF Lasting
    <2>3. \A r : <<script', r>> \in receipts' => r \in Of({"await"})
      BY <2>1, <1>4
    <2> QED BY <2>2, <2>3, <1>6, NextAre
  <1>8. OpenPending'
    BY <1>4, <1>6, NextAre
  <1>9. OneRequestEach'
    BY <1>4 DEF OneRequestEach
  <1>10. WindowsShown'
    BY <1>4 DEF WindowsShown
  <1> QED BY <1>5, <1>6, <1>7, <1>8, <1>9, <1>10, NextParts

\* A call of the host: a request of its own if the script awaits something.
LEMMA CallKeeps ==
    ASSUME ScriptInv, NEW c \in Calls, NEW mode \in Mode, HostCall(c, mode)
    PROVE  ScriptInv'
  <1> DEFINE r0 == nextRequest + 1
  <1>0. Typed /\ Numbered /\ PendingReceipts /\ OpenPending /\ OneRequestEach /\ WindowsShown
    BY Parts DEF ScriptInv
  <1>1. /\ script' = script /\ nextRequest' = r0 /\ outcome[c] = "none"
        /\ history' = Append(history, c)
        /\ outcome' = [outcome EXCEPT ![c] = CASE mode \in {"throw", "break"} -> "failed"
                                               [] mode = "await" -> "open"
                                               [] OTHER -> "answered"]
    BY DEF HostCall
  <1>2. /\ nextRequest \in Nat /\ c # Detached
        /\ \A r \in DOMAIN pending : r # r0 /\ pending[r] # c
    <2>1. nextRequest \in Nat /\ c # Detached
      BY <1>0, DetachedAssumption, BoundsAssumption DEF Typed, Calls
    <2>2. \A r \in DOMAIN pending : pending[r] # c
      BY <1>0, <1>1, <2>1, OpenAre
    <2> QED BY <2>1, <2>2, <1>0 DEF Numbered
  <1>3. views' \in Seq(Nat) /\ nextHandler' \in Nat /\ WindowsShown'
    <2>1. CASE mode = "mount"
      BY <2>1, <1>0, <1>1, Mounted DEF HostCall
    <2>2. CASE mode # "mount"
      BY <2>2, <1>0, <1>1 DEF HostCall, Typed, WindowsShown
    <2> QED BY <2>1, <2>2
  <1>4. Typed'
    BY <1>0, <1>1, <1>2, <1>3 DEF Typed, Outcome
  <1>5. CASE mode = "await"
    <2>1. /\ pending' = [r \in DOMAIN pending \cup {r0} |-> IF r = r0 THEN c ELSE pending[r]]
          /\ receipts' = receipts \cup {<<script, r0>>}
          /\ outcome' = [outcome EXCEPT ![c] = "open"]
      BY <1>1, <1>5 DEF HostCall, Lasting
    <2>2. /\ DOMAIN pending' = DOMAIN pending \cup {r0} /\ pending'[r0] = c
          /\ \A r \in DOMAIN pending : pending'[r] = pending[r]
      BY <1>2, <2>1
    <2>3. Numbered'
      <3>1. \A y \in receipts' : y = <<y[1], y[2]>> /\ y[1] \in 0 .. script'
        BY <1>0, <1>1, <2>1 DEF Typed, Numbered
      <3>2. DOMAIN pending' \subseteq 1 .. nextRequest'
        BY <1>0, <1>1, <1>2, <2>2 DEF Numbered
      <3>3. \A r \in DOMAIN pending' : pending'[r] \in Calls \cup {Detached}
        BY <1>0, <2>2 DEF Numbered
      <3> QED BY <3>1, <3>2, <3>3 DEF Numbered
    <2>4. PendingReceipts'
      <3>1. \A r : <<script, r>> \in receipts => r \in DOMAIN pending
        BY <1>0, PendingAre DEF Numbered
      <3>2. \A r : <<script', r>> \in receipts' => r \in DOMAIN pending'
        BY <3>1, <1>1, <2>1, <2>2
      <3> QED BY <3>2, <2>3, NextAre
    <2>5. OpenPending'
      <3>1. \A b \in Calls : outcome'[b] = IF b = c THEN "open" ELSE outcome[b]
        BY <1>0, <2>1 DEF Typed
      <3>2. \A b \in Calls : outcome'[b] = "open" =>
                \E r \in DOMAIN pending' : pending'[r] = b /\ b # Detached
        BY <3>1, <1>0, <1>2, <2>2, OpenAre
      <3>3. \A r \in DOMAIN pending' : pending'[r] # Detached =>
                pending'[r] \in Calls /\ outcome'[pending'[r]] = "open"
        BY <3>1, <1>0, <1>2, <2>2, OpenAre
      <3> QED BY <3>2, <3>3, <2>3, NextAre
    <2>6. OneRequestEach'
      BY <1>0, <1>2, <2>2 DEF OneRequestEach
    <2> QED BY <1>3, <1>4, <2>3, <2>4, <2>5, <2>6, NextParts
  <1>6. CASE mode = "break"
    <2>1. /\ pending' = [r \in DOMAIN pending \cup {r0} |->
                            IF r = r0 THEN Detached ELSE pending[r]]
          /\ receipts' = receipts
          /\ outcome' = [outcome EXCEPT ![c] = "failed"]
      BY <1>1, <1>6 DEF HostCall, Lasting
    <2>2. /\ DOMAIN pending' = DOMAIN pending \cup {r0} /\ pending'[r0] = Detached
          /\ \A r \in DOMAIN pending : pending'[r] = pending[r]
      BY <1>2, <2>1
    <2>3. Numbered'
      <3>1. \A y \in receipts' : y = <<y[1], y[2]>> /\ y[1] \in 0 .. script'
        BY <1>0, <1>1, <2>1 DEF Numbered
      <3>2. DOMAIN pending' \subseteq 1 .. nextRequest'
        BY <1>0, <1>1, <1>2, <2>2 DEF Numbered
      <3>3. \A r \in DOMAIN pending' : pending'[r] \in Calls \cup {Detached}
        BY <1>0, <2>2 DEF Numbered
      <3> QED BY <3>1, <3>2, <3>3 DEF Numbered
    <2>4. PendingReceipts'
      BY <1>0, <1>1, <2>1, <2>2 DEF PendingReceipts
    <2>5. OpenPending'
      <3>1. \A b \in Calls : outcome'[b] = IF b = c THEN "failed" ELSE outcome[b]
        BY <1>0, <2>1 DEF Typed
      <3>2. \A b \in Calls : outcome'[b] = "open" =>
                \E r \in DOMAIN pending' : pending'[r] = b /\ b # Detached
        BY <3>1, <1>0, <2>2, OpenAre
      <3>3. \A r \in DOMAIN pending' : pending'[r] # Detached =>
                pending'[r] \in Calls /\ outcome'[pending'[r]] = "open"
        BY <3>1, <1>0, <1>2, <2>2, OpenAre
      <3> QED BY <3>2, <3>3, <2>3, NextAre
    <2>6. OneRequestEach'
      BY <1>0, <1>2, <2>2 DEF OneRequestEach
    <2> QED BY <1>3, <1>4, <2>3, <2>4, <2>5, <2>6, NextParts
  <1>7. CASE mode \notin Lasting
    <2>1. pending' = pending /\ receipts' = receipts
      BY <1>7 DEF HostCall, Lasting
    <2>2. \A b \in Calls : b # c => outcome'[b] = outcome[b]
      BY <1>0, <1>1 DEF Typed
    <2>3. outcome'[c] # "open"
      BY <1>0, <1>1, <1>7 DEF Typed, Lasting
    <2>4. Numbered'
      BY <1>0, <1>1, <1>2, <2>1 DEF Numbered, Typed
    <2>5. PendingReceipts'
      BY <1>0, <1>1, <2>1 DEF PendingReceipts
    <2>6. OpenPending'
      BY <1>0, <1>2, <2>1, <2>2, <2>3, <2>4, OpenAre, NextAre
    <2>7. OneRequestEach'
      BY <1>0, <2>1 DEF OneRequestEach
    <2> QED BY <1>3, <1>4, <2>4, <2>5, <2>6, <2>7, NextParts
  <1> QED BY <1>5, <1>6, <1>7 DEF Lasting

\* A script's call settles: its request is answered, if the script still runs.
LEMMA SettleKeeps ==
    ASSUME ScriptInv, NEW x \in receipts, NEW how \in Ending,
           NEW mounts \in BOOLEAN, Settle(x, how, mounts)
    PROVE  ScriptInv'
  <1>0. Typed /\ Numbered /\ PendingReceipts /\ OpenPending /\ OneRequestEach /\ WindowsShown
    BY Parts DEF ScriptInv
  <1>1. /\ receipts' = receipts \ {x}
        /\ UNCHANGED <<nextRequest, history, script>>
        /\ \A r : <<script, r>> \in receipts => r \in DOMAIN pending
        /\ x = <<x[1], x[2]>>
    BY <1>0, PendingAre DEF Settle, Numbered, scriptVars
  <1>2. views' \in Seq(Nat) /\ nextHandler' \in Nat /\ WindowsShown'
    <2>1. CASE x[1] = script /\ mounts
      BY <2>1, <1>0, <1>1, Mounted DEF Settle
    <2>2. CASE ~(x[1] = script /\ mounts)
      BY <2>2, <1>0, <1>1 DEF Settle, Typed, WindowsShown
    <2> QED BY <2>1, <2>2
  <1>3. CASE x[1] = script /\ how # "never"
    <2>1. x[2] \in DOMAIN pending
      BY <1>1, <1>3
    <2>2. /\ pending' = [r \in DOMAIN pending \ {x[2]} |-> pending[r]]
          /\ outcome' = [c \in Calls |-> IF c = pending[x[2]] THEN how ELSE outcome[c]]
      <3>1. Answer(x[2], how)
        BY <1>3 DEF Settle
      <3> QED BY <1>3, <2>1, <3>1 DEF Answer, Restrict
    <2>3. /\ DOMAIN pending' = DOMAIN pending \ {x[2]}
          /\ \A r \in DOMAIN pending' : pending'[r] = pending[r]
      BY <2>2
    <2>4. Typed'
      <3>1. outcome' \in [Calls -> Outcome]
        BY <1>0, <1>3, <2>2 DEF Typed, Outcome, Ending
      <3> QED BY <3>1, <1>0, <1>1, <1>2 DEF Typed
    <2>5. Numbered'
      BY <1>0, <1>1, <2>3 DEF Numbered
    <2>6. PendingReceipts'
      <3>1. \A r : <<script, r>> = x <=> r = x[2]
        BY <1>1, <1>3
      <3>2. \A r : <<script', r>> \in receipts' => r \in DOMAIN pending'
        BY <3>1, <1>1, <2>3
      <3> QED BY <3>2, <2>5, NextAre
    <2>7. OpenPending'
      <3>1. \A r \in DOMAIN pending' : pending'[r] # Detached => pending'[r] # pending[x[2]]
        BY <1>0, <2>1, <2>3 DEF OneRequestEach
      <3>2. \A c \in Calls : outcome'[c] = "open" =>
                \E r \in DOMAIN pending' : pending'[r] = c /\ c # Detached
        <4> SUFFICES ASSUME NEW c \in Calls, outcome'[c] = "open"
                     PROVE  \E r \in DOMAIN pending' : pending'[r] = c /\ c # Detached
          OBVIOUS
        <4>1. c # pending[x[2]] /\ outcome[c] = "open"
          BY <2>2 DEF Ending
        <4>2. PICK r \in DOMAIN pending : pending[r] = c /\ c # Detached
          BY <4>1, <1>0, OpenAre
        <4> QED BY <4>1, <4>2, <2>3
      <3>3. \A r \in DOMAIN pending' : pending'[r] # Detached =>
                pending'[r] \in Calls /\ outcome'[pending'[r]] = "open"
        BY <3>1, <1>0, <2>2, <2>3, OpenAre
      <3> QED BY <3>2, <3>3, <2>5, NextAre
    <2>8. OneRequestEach'
      BY <1>0, <2>3 DEF OneRequestEach
    <2> QED BY <1>2, <2>4, <2>5, <2>6, <2>7, <2>8, NextParts
  <1>4. CASE ~(x[1] = script /\ how # "never")
    <2>1. UNCHANGED <<pending, outcome>>
      BY <1>4 DEF Settle, Answer
    <2>2. Typed' /\ Numbered'
      BY <1>0, <1>1, <1>2, <2>1 DEF Typed, Numbered
    <2>3. PendingReceipts'
      BY <1>1, <2>1, <2>2, NextAre
    <2>4. OpenPending' /\ OneRequestEach'
      BY <1>0, <2>1 DEF OpenPending, OneRequestEach
    <2> QED BY <1>2, <2>2, <2>3, <2>4, NextParts
  <1> QED BY <1>3, <1>4

\* Steps that touch no request.
LEMMA ViewsKeep ==
    ASSUME ScriptInv, UNCHANGED <<script, history, outcome, pending, nextRequest, receipts>>,
           views' \in Seq(Nat), nextHandler' \in Nat, WindowsShown'
    PROVE  ScriptInv'
  <1>1. Typed /\ Numbered /\ PendingReceipts /\ OpenPending /\ OneRequestEach
    BY Parts DEF ScriptInv
  <1>2. Typed' /\ Numbered'
    BY <1>1 DEF Typed, Numbered
  <1>3. PendingReceipts' /\ OpenPending' /\ OneRequestEach'
    BY <1>1 DEF PendingReceipts, OpenPending, OneRequestEach
  <1> QED BY <1>2, <1>3, NextParts

LEMMA NextScript == ScriptInv /\ [Next]_vars => ScriptInv'
  <1> SUFFICES ASSUME ScriptInv, [Next]_vars PROVE ScriptInv'
    OBVIOUS
  <1>0. ASSUME UNCHANGED <<stateVars, hostVars, scriptVars, worldVars>> PROVE ScriptInv'
    <2>1. Typed /\ WindowsShown
      BY Parts DEF ScriptInv
    <2>2. views' \in Seq(Nat) /\ nextHandler' \in Nat /\ WindowsShown'
      BY <1>0, <2>1 DEF Typed, WindowsShown, stateVars, scriptVars, worldVars
    <2> QED BY <1>0, <2>2, ViewsKeep DEF stateVars, hostVars, scriptVars, worldVars
  <1>1. ASSUME NEW key \in DOMAIN views, NEW rendered \in DOMAIN views,
               NEW clickable \in BOOLEAN, Click(key, rendered, clickable)
        PROVE  ScriptInv'
    <2>1. Typed /\ WindowsShown /\ rendered \in 1 .. Len(views) + 1
      BY Parts DEF ScriptInv, Typed
    <2>2. /\ views' \in Seq(Nat) /\ nextHandler' \in Nat
          /\ DOMAIN views \cup {rendered} = DOMAIN views'
      BY <1>1, <2>1, Rendered DEF Click
    <2>3. UNCHANGED <<script, history, outcome, pending, nextRequest, receipts, windows>>
      BY <1>1 DEF Click, hostVars, scriptVars, worldVars
    <2>4. WindowsShown'
      BY <2>1, <2>2, <2>3 DEF WindowsShown
    <2> QED BY <2>2, <2>3, <2>4, ViewsKeep
  <1>2. ASSUME NEW w \in windows, CloseWindow(w) PROVE ScriptInv'
    <2>1. Typed /\ WindowsShown
      BY Parts DEF ScriptInv
    <2>2. /\ UNCHANGED <<script, history, outcome, pending, nextRequest, receipts>>
          /\ UNCHANGED <<views, nextHandler>> /\ windows' \subseteq windows
      BY <1>2 DEF CloseWindow, stateVars, hostVars, scriptVars
    <2>3. views' \in Seq(Nat) /\ nextHandler' \in Nat /\ WindowsShown'
      BY <2>1, <2>2 DEF Typed, WindowsShown
    <2> QED BY <2>2, <2>3, ViewsKeep
  <1>3. ASSUME NEW ok \in BOOLEAN, NEW modes \in Replays(ok),
               HostLoad(ok, modes) \/ Read(ok, modes)
        PROVE  ScriptInv'
    BY <1>3, LoadKeeps DEF HostLoad, Read
  <1>4. CASE Edit \/ Start \/ Poll \/ Stat \/ ReadNothing
    BY <1>4, <1>0 DEF Edit, Start, Poll, Stat, ReadNothing
  <1>5. CASE UNCHANGED vars
    BY <1>5, <1>0 DEF vars
  <1> QED BY <1>1, <1>2, <1>3, <1>4, <1>5, CallKeeps, SettleKeeps DEF Next

(***************************************************************************)
(* JsState::reset and apply_op: what the runtime keeps for a script is the *)
(* running one's, though requests and views count from one in each script  *)
(* and the calls of earlier scripts settle whenever they like.             *)
(***************************************************************************)
THEOREM NothingLeftOver == Spec => []NothingOutlivesScript
  <1>1. ScriptInv => NothingOutlivesScript
    BY DEF ScriptInv
  <1> QED BY InitScript, NextScript, <1>1, PTL DEF Spec

-----------------------------------------------------------------------------
(***************************************************************************)
(* The history.                                                            *)
(***************************************************************************)
\* It is the calls that were made, in their order, and so is what was heard.
HistoryInv ==
    /\ Len(history) \in 0 .. MaxCalls
    /\ history = [c \in 1 .. Len(history) |-> c]
    /\ outcome \in [Calls -> Outcome]
    /\ \A c \in Calls : outcome[c] # "none" <=> c <= Len(history)
    /\ evaluated => heard = history

LEMMA HistoryMade == HistoryInv => ScriptHearsHistory
  <1> SUFFICES ASSUME HistoryInv PROVE ScriptHearsHistory
    OBVIOUS
  <1>1. {d \in Calls : outcome[d] # "none"} = 1 .. Len(history)
    BY BoundsAssumption DEF HistoryInv, Calls
  <1> QED BY <1>1 DEF HistoryInv, ScriptHearsHistory

LEMMA InitHistory == Init => HistoryInv
  BY BoundsAssumption DEF Init, HistoryInv, Outcome, Calls

LEMMA NextHistory == ScriptInv /\ HistoryInv /\ [Next]_vars => HistoryInv'
  <1> SUFFICES ASSUME ScriptInv, HistoryInv, [Next]_vars PROVE HistoryInv'
    OBVIOUS
  <1> DEFINE n == Len(history)
  <1>1. /\ n \in Nat /\ n <= MaxCalls /\ MaxCalls \in Nat
        /\ history = [c \in 1 .. n |-> c] /\ history \in Seq(Nat)
        /\ outcome \in [Calls -> Outcome]
        /\ \A c \in Calls : outcome[c] # "none" <=> c <= n
        /\ evaluated => heard = history
    BY BoundsAssumption DEF HistoryInv
  <1>2. ASSUME NEW c \in Calls, NEW mode \in Mode, HostCall(c, mode) PROVE HistoryInv'
    <2>1. /\ outcome[c] = "none" /\ \A b \in 1 .. c - 1 : outcome[b] # "none"
          /\ history' = Append(history, c) /\ heard' = Append(heard, c)
          /\ evaluated' = evaluated
      BY <1>2 DEF HostCall
    <2>2. c = n + 1
      BY <1>1, <2>1 DEF Calls
    <2>3. PICK how \in Outcome \ {"none"} : outcome' = [outcome EXCEPT ![c] = how]
      <3> DEFINE known == CASE mode \in {"throw", "break"} -> "failed"
                            [] mode = "await" -> "open"
                            [] OTHER -> "answered"
      <3>1. outcome' = [outcome EXCEPT ![c] = known]
        BY <1>2 DEF HostCall
      <3>2. known \in Outcome \ {"none"}
        BY DEF Outcome
      <3> QED BY <3>1, <3>2
    <2>4. Len(history') = n + 1 /\ history' = [b \in 1 .. n + 1 |-> b]
      BY <1>1, <2>1, <2>2
    <2>5. \A b \in Calls : outcome'[b] # "none" <=> b <= n + 1
      BY <1>1, <2>2, <2>3 DEF Calls
    <2>6. outcome' \in [Calls -> Outcome]
      BY <1>1, <2>3
    <2>7. Len(history') \in 0 .. MaxCalls
      BY <1>1, <2>2, <2>4 DEF Calls
    <2> QED BY <1>1, <2>1, <2>4, <2>5, <2>6, <2>7 DEF HistoryInv
  <1>3. ASSUME NEW ok \in BOOLEAN, NEW modes, Load(ok, modes) PROVE HistoryInv'
    <2>1. /\ history' = history /\ evaluated' = ok /\ (ok => heard' = history)
          /\ outcome' = [c \in Calls |-> IF outcome[c] = "open" THEN "failed" ELSE outcome[c]]
      BY <1>3 DEF Load, Remembered
    <2>2. outcome' \in [Calls -> Outcome]
      BY <1>1, <2>1 DEF Outcome
    <2>3. \A c \in Calls : outcome'[c] # "none" <=> outcome[c] # "none"
      BY <1>1, <2>1
    <2> QED BY <2>1, <2>2, <2>3 DEF HistoryInv
  <1>4. ASSUME UNCHANGED <<history, outcome, scriptVars>> PROVE HistoryInv'
    BY <1>4 DEF scriptVars, HistoryInv
  <1>5. ASSUME NEW x \in receipts, NEW how \in Ending, NEW mounts \in BOOLEAN,
               Settle(x, how, mounts)
        PROVE  HistoryInv'
    <2>1. UNCHANGED <<history, scriptVars>>
      BY <1>5 DEF Settle
    <2>2. CASE outcome' = outcome
      BY <1>4, <2>1, <2>2
    <2>3. CASE outcome' # outcome
      <3>1. /\ x[2] \in DOMAIN pending
            /\ outcome' = [c \in Calls |-> IF c = pending[x[2]] THEN how ELSE outcome[c]]
            /\ how # "never"
        BY <1>5, <2>3 DEF Settle, Answer
      <3>2. \A c \in Calls : c = pending[x[2]] => outcome[c] = "open"
        <4>1. OpenPending
          BY Parts DEF ScriptInv
        <4>2. \A c \in Calls : c # Detached
          BY BoundsAssumption, DetachedAssumption DEF Calls
        <4> QED BY <3>1, <4>1, <4>2, OpenAre
      <3>3. outcome' \in [Calls -> Outcome]
        BY <1>1, <3>1 DEF Outcome, Ending
      <3>4. \A c \in Calls : outcome'[c] # "none" <=> outcome[c] # "none"
        BY <3>1, <3>2 DEF Ending
      <3> QED BY <1>1, <2>1, <3>3, <3>4 DEF HistoryInv, scriptVars
    <2> QED BY <2>2, <2>3
  <1>6. CASE \/ \E key, rendered \in DOMAIN views, clickable \in BOOLEAN :
                   Click(key, rendered, clickable)
             \/ \E w \in windows : CloseWindow(w)
             \/ Edit \/ Start \/ Poll \/ Stat \/ ReadNothing
             \/ UNCHANGED vars
    BY <1>4, <1>6 DEF Click, CloseWindow, Edit, Start, Poll, Stat, ReadNothing, hostVars, vars
  <1> QED BY <1>2, <1>3, <1>5, <1>6 DEF Next, HostLoad, Read

(***************************************************************************)
(* JsRoot::load: "replays every call the host made to the root", so every  *)
(* script that evaluated has heard them all, once and in order.            *)
(***************************************************************************)
THEOREM HistoryHeard == Spec => []ScriptHearsHistory
  BY InitScript, NextScript, InitHistory, NextHistory, HistoryMade, PTL DEF Spec
=============================================================================
