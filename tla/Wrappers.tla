------------------------------ MODULE Wrappers ------------------------------
(***************************************************************************)
(* The capability wrappers of embedded_gpui_util: Revocable, which is a    *)
(* membrane, Attenuated and Audited.  One end holds remotes to objects of  *)
(* the other end, wraps them, and shares the wrappers back; on the far end *)
(* an inner side owns what is wrapped and an outer side calls through the  *)
(* wrappers.  A ref that crosses the membrane is wrapped on its way, in    *)
(* both directions, so the inner side may call back into the outer one.    *)
(*                                                                         *)
(* Calls travel as frames of the registry; here a call is a record whose   *)
(* stage says which hop it has reached, and any call may be the next to    *)
(* take a hop: the order of two calls' hops does not matter to a wrapper.  *)
(* A payload carries at most one ref.  The methods of an object are told   *)
(* apart only by whether the Attenuated wrapper permits them.              *)
(***************************************************************************)
EXTENDS Integers, Sequences, FiniteSets

CONSTANTS
    Inner, Outer,       \* the objects of the inner and of the outer side
    Wrapped,            \* the inner object that was wrapped to begin with
    Nil,                \* no ref
    Error,              \* the outcome of a call that failed
    MaxWrappers,        \* bound on the Revocables of the membrane
    MaxCalls,           \* bound on calls
    MaxEvents           \* bound on events

Obj == Inner \cup Outer

ASSUME ObjAssumption ==
    /\ Wrapped \in Inner
    /\ Inner \cap Outer = {}
    /\ {Nil, Error} \cap Obj = {} /\ Nil # Error
    /\ (Obj \cup {Nil, Error}) \cap Int = {}
ASSUME BoundAssumption ==
    MaxWrappers \in Nat \ {0} /\ MaxCalls \in Nat /\ MaxEvents \in Nat

\* Ids: an object's own, a Revocable's number, and the two flat wrappers.
Revocable == 1 .. MaxWrappers
Root == 1
Attenuated == -1
Audited == -2
Id == Obj \cup Revocable

VARIABLES
    revoked,            \* MembraneState.revoked
    wrappers,           \* MembraneState.wrappers: object -> its wrapper, or Nil
    innerOf,            \* MembraneState.inner_of: wrapper -> its object, or Nil
    target,             \* Revocable.target: wrapper -> object, or Nil
    wraps,              \* history: what each Revocable was made for, or Nil
    calls,              \* every call made: from, via, arg, ... and the stage it is at
    events,             \* events on their way to a wrapper: <<wrapper, ref>>
    emitted,            \* the number of events so far
    records,            \* Audited.records: the call, and how it completed
    sent                \* side -> the ids ever sent to it

membrane == <<revoked, wrappers, innerOf, target, wraps>>
vars == <<membrane, calls, events, emitted, records, sent>>

Side == {"inner", "outer"}
Other(side) == IF side = "inner" THEN "outer" ELSE "inner"
Own(side) == IF side = "inner" THEN Inner ELSE Outer
SideOf(o) == IF o \in Inner THEN "inner" ELSE "outer"

-----------------------------------------------------------------------------
\* The membrane

\* Revocable::new wraps one object; the three wrappers are handed to the outer
\* side.
Init ==
    /\ revoked = FALSE
    /\ wrappers = [o \in Obj |-> Nil]
    /\ innerOf = [w \in Revocable |-> Nil]
    /\ target = [w \in Revocable |-> IF w = Root THEN Wrapped ELSE Nil]
    /\ wraps = target
    /\ calls = <<>> /\ events = {} /\ emitted = 0 /\ records = <<>>
    /\ sent = [side \in Side |-> IF side = "outer" THEN {Root} ELSE {}]

Fresh == {w \in Revocable : wraps[w] = Nil}
NextWrapper == CHOOSE w \in Fresh : TRUE

IsWrapper(id) == id \in Revocable

\* A slip: refs are wrapped but never unwrapped.
TranslationOneWay(id) ==
    CASE id = Nil -> Nil
      [] IsWrapper(id) -> id
      [] OTHER -> IF wrappers[id] # Nil THEN wrappers[id] ELSE NextWrapper

\* translate_ref, what it returns: wrappers that come back are unwrapped, an
\* object has one wrapper, and a ref homed on this end passes as it is.
Translation(id) ==
    CASE id = Nil -> Nil
      [] IsWrapper(id) -> IF innerOf[id] # Nil THEN innerOf[id] ELSE id
      [] OTHER -> IF wrappers[id] # Nil THEN wrappers[id] ELSE NextWrapper

\* translate_ref mints a wrapper for an object it meets for the first time.
Mints(id) == id \in Obj /\ wrappers[id] = Nil

\* translate_ref, its effect.
Translate(id) ==
    IF Mints(id)
    THEN LET w == NextWrapper IN
         /\ wrappers' = [wrappers EXCEPT ![id] = w]
         /\ innerOf' = [innerOf EXCEPT ![w] = id]
         /\ target' = [target EXCEPT ![w] = id]
         /\ wraps' = [wraps EXCEPT ![w] = id]
    ELSE UNCHANGED <<wrappers, innerOf, target, wraps>>

Room(id) == Mints(id) => Fresh # {}

\* Revocable::revoke on the root wrapper, by whoever holds the entity: every
\* wrapper of the table drops its inner remote, and the table is emptied.
Revoke ==
    /\ revoked' = TRUE
    /\ target' = [w \in Revocable |->
                    IF w = Root \/ \E o \in Obj : wrappers[o] = w
                    THEN Nil ELSE target[w]]
    /\ wrappers' = [o \in Obj |-> Nil]
    /\ innerOf' = [w \in Revocable |-> Nil]
    /\ UNCHANGED <<wraps, calls, events, emitted, records, sent>>

-----------------------------------------------------------------------------
\* Calls

\* The refs that a side may put into a payload: of what it was sent, all but
\* the root wrapper, which no table knows and no side passes on here.
Passable(side) == (Own(side) \cup sent[side] \cup {Nil}) \ {Root}

Learn(side, id) ==
    sent' = [sent EXCEPT ![side] = @ \cup ({id} \ {Nil})]

Settle(i, answer) ==
    calls' = [calls EXCEPT ![i].stage = "settled", ![i].answer = answer]

\* Remote::call_raw on a wrapper, by a side that was sent it.
Ask(side, via, arg, permitted) ==
    /\ Len(calls) < MaxCalls
    /\ via \in Revocable => via \in sent[side] /\ arg \in Passable(side) /\ permitted
    /\ via \notin Revocable => side = "outer" /\ arg = Nil
    /\ via = Audited => permitted
    /\ calls' = Append(calls,
           [from |-> side, via |-> via, arg |-> arg, permitted |-> permitted,
            late |-> via \in Revocable /\ revoked,
            stage |-> "sent", record |-> 0, answer |-> Nil])
    /\ UNCHANGED <<membrane, events, emitted, records, sent>>

\* Revocable's wildcard handler, up to the call it makes.
ForwardRevocable(i) ==
    LET call == calls[i] IN
    /\ call.stage = "sent" /\ call.via \in Revocable
    /\ IF target[call.via] = Nil
       THEN Settle(i, Error) /\ UNCHANGED <<membrane, sent>>
       ELSE /\ Room(call.arg)
            /\ Translate(call.arg)
            /\ Learn(SideOf(target[call.via]), Translation(call.arg))
            /\ calls' = [calls EXCEPT ![i].stage = "forwarded",
                                      ![i].arg = Translation(call.arg)]
            /\ UNCHANGED revoked
    /\ UNCHANGED <<events, emitted, records>>

\* A slip: the allowlist is not consulted.
ForwardEverything(i) ==
    /\ calls[i].stage = "sent" /\ calls[i].via = Attenuated
    /\ calls' = [calls EXCEPT ![i].stage = "forwarded"]
    /\ UNCHANGED <<membrane, events, emitted, records, sent>>

\* Attenuated's wildcard handler.
ForwardAttenuated(i) ==
    /\ calls[i].stage = "sent" /\ calls[i].via = Attenuated
    /\ IF calls[i].permitted
       THEN calls' = [calls EXCEPT ![i].stage = "forwarded"]
       ELSE Settle(i, Error)
    /\ UNCHANGED <<membrane, events, emitted, records, sent>>

\* Audited's wildcard handler: the record comes first, its index stays with
\* the task that forwards the answer.
ForwardAudited(i) ==
    /\ calls[i].stage = "sent" /\ calls[i].via = Audited
    /\ records' = Append(records, [call |-> i, completed |-> "pending"])
    /\ calls' = [calls EXCEPT ![i].stage = "forwarded", ![i].record = Len(records')]
    /\ UNCHANGED <<membrane, events, emitted, sent>>

\* The object behind the wrapper answers, or fails.
Serve(i, answer) ==
    /\ calls[i].stage = "forwarded"
    /\ \/ answer \in {Nil, Error}
       \/ /\ calls[i].via \in Revocable
          /\ answer \in Passable(SideOf(wraps[calls[i].via]))
    /\ calls' = [calls EXCEPT ![i].stage = "answered", ![i].answer = answer]
    /\ UNCHANGED <<membrane, events, emitted, records, sent>>

\* A slip: a response is translated without asking whether a revoke came first.
ReturnUnchecked(i) ==
    LET call == calls[i] IN
    /\ call.stage = "answered" /\ call.via \in Revocable
    /\ IF call.answer = Error
       THEN Settle(i, Error) /\ UNCHANGED <<membrane, sent>>
       ELSE /\ Room(call.answer)
            /\ Translate(call.answer)
            /\ Learn(call.from, Translation(call.answer))
            /\ Settle(i, Translation(call.answer))
            /\ UNCHANGED revoked
    /\ UNCHANGED <<events, emitted, records>>

\* The task of Revocable's handler.
ReturnRevocable(i) ==
    LET call == calls[i] IN
    /\ call.stage = "answered" /\ call.via \in Revocable
    /\ IF call.answer = Error \/ revoked
       THEN Settle(i, Error) /\ UNCHANGED <<membrane, sent>>
       ELSE /\ Room(call.answer)
            /\ Translate(call.answer)
            /\ Learn(call.from, Translation(call.answer))
            /\ Settle(i, Translation(call.answer))
            /\ UNCHANGED revoked
    /\ UNCHANGED <<events, emitted, records>>

\* The task of Attenuated's handler.
ReturnAttenuated(i) ==
    /\ calls[i].stage = "answered" /\ calls[i].via = Attenuated
    /\ Settle(i, calls[i].answer)
    /\ UNCHANGED <<membrane, events, emitted, records, sent>>

\* A slip: the outcome goes to the newest record.
ReturnToLastRecord(i) ==
    LET call == calls[i] IN
    /\ call.stage = "answered" /\ call.via = Audited
    /\ Settle(i, call.answer)
    /\ records' = [records EXCEPT ![Len(records)].completed =
                      IF call.answer = Error THEN "failed" ELSE "ok"]
    /\ UNCHANGED <<membrane, events, emitted, sent>>

\* The task of Audited's handler.
ReturnAudited(i) ==
    LET call == calls[i] IN
    /\ call.stage = "answered" /\ call.via = Audited
    /\ Settle(i, call.answer)
    /\ records' = [records EXCEPT ![call.record].completed =
                      IF call.answer = Error THEN "failed" ELSE "ok"]
    /\ UNCHANGED <<membrane, events, emitted, sent>>

-----------------------------------------------------------------------------
\* Events

\* An object emits an event with a ref.  It is on its way as long as the
\* membrane's end has not released the object, which it does at some time
\* after a revoke.
Emit(o, ref) ==
    /\ emitted < MaxEvents
    /\ emitted' = emitted + 1
    /\ \E w \in Revocable : wraps[w] = o
    /\ ref \in Passable(SideOf(o))
    /\ events' = events \cup {<<o, ref>>}
    /\ UNCHANGED <<membrane, calls, records, sent>>

\* A slip: severed wrappers pass events on.
DeliverEventAlways(o, ref) ==
    /\ <<o, ref>> \in events
    /\ events' = events \ {<<o, ref>>}
    /\ Room(ref)
    /\ Translate(ref)
    /\ Learn(Other(SideOf(o)), Translation(ref))
    /\ UNCHANGED <<revoked, calls, emitted, records>>

\* The subscription of Shared::events: the wrappers of the object that are
\* still live pass the event on.
DeliverEvent(o, ref) ==
    /\ <<o, ref>> \in events
    /\ events' = events \ {<<o, ref>>}
    /\ IF \E w \in Revocable : target[w] = o
       THEN /\ Room(ref)
            /\ Translate(ref)
            /\ Learn(Other(SideOf(o)), Translation(ref))
            /\ UNCHANGED revoked
       ELSE UNCHANGED <<membrane, sent>>
    /\ UNCHANGED <<calls, emitted, records>>

-----------------------------------------------------------------------------

Next ==
    \/ Revoke
    \/ \E side \in Side, via \in Revocable \cup {Attenuated, Audited},
          arg \in Id \cup {Nil}, permitted \in BOOLEAN : Ask(side, via, arg, permitted)
    \/ \E i \in DOMAIN calls :
          \/ ForwardRevocable(i) \/ ForwardAttenuated(i) \/ ForwardAudited(i)
          \/ \E answer \in Id \cup {Nil, Error} : Serve(i, answer)
          \/ ReturnRevocable(i) \/ ReturnAttenuated(i) \/ ReturnAudited(i)
    \/ \E o \in Obj, ref \in Id \cup {Nil} : Emit(o, ref) \/ DeliverEvent(o, ref)

Spec == Init /\ [][Next]_vars

-----------------------------------------------------------------------------

\* "Every ref that crosses in either direction is rewritten to a wrapper, and
\* wrapper refs coming back are unwrapped, so the wrapped object sees its own
\* objects": whatever detours a ref takes through arguments, answers and
\* events, a side is sent its own objects and wrappers of the other side's.
SidesSeparated ==
    \A side \in Side : \A id \in sent[side] :
        IF IsWrapper(id) THEN wraps[id] \in Own(Other(side)) ELSE id \in Own(side)

\* "One revoke severs the whole graph": before it, an object has one wrapper
\* besides the root, live and known to both tables; after it, no wrapper ever
\* minted is live, also not one that a call in flight might have minted.
MembraneWhole ==
    IF revoked
    THEN /\ \A w \in Revocable : target[w] = Nil
         /\ \A o \in Obj : wrappers[o] = Nil
    ELSE \A w \in Revocable \ {Root} : wraps[w] # Nil =>
            /\ target[w] = wraps[w] /\ innerOf[w] = wraps[w]
            /\ wrappers[wraps[w]] = w

\* "every subsequent call through any of them fails": once the membrane is
\* revoked, no side is sent another ref, by a call, an answer or an event
\* that was already in flight.
NothingCrossesAfterRevoke == [][revoked => UNCHANGED sent]_vars

\* "records every call and its eventual outcome": however answers overtake one
\* another, each forwarded call has one record, and the record has that call's
\* outcome once the caller has it.
LedgerExact ==
    /\ \A i, j \in DOMAIN records : records[i].call = records[j].call => i = j
    /\ \A i \in DOMAIN calls :
          calls[i].via = Audited /\ calls[i].stage # "sent" =>
             \E j \in DOMAIN records :
                /\ records[j].call = i
                /\ records[j].completed =
                     IF calls[i].stage # "settled" THEN "pending"
                     ELSE IF calls[i].answer = Error THEN "failed" ELSE "ok"

-----------------------------------------------------------------------------
\* The wrappers implement Caretaker: an id stands for the object behind it.

ObjectOf(id) ==
    CASE id \in Revocable -> wraps[id]
      [] id \in {Attenuated, Audited} -> Wrapped
      [] OTHER -> id

Stage(stage) ==
    CASE stage \in {"sent", "forwarded"} -> "asked"
      [] stage = "answered" -> "served"
      [] OTHER -> "settled"

Seen(call) ==
    [to |-> ObjectOf(call.via), arg |-> ObjectOf(call.arg),
     guarded |-> call.via \in Revocable, permitted |-> call.permitted,
     late |-> call.late, stage |-> Stage(call.stage), answer |-> ObjectOf(call.answer)]

C == INSTANCE Caretaker WITH calls <- [i \in DOMAIN calls |-> Seen(calls[i])]

\* "To the recipient it is indistinguishable from the real entity", until it is
\* revoked; and what Attenuated does not permit never reaches the object.
CaretakerSpec == C!Spec
=============================================================================
