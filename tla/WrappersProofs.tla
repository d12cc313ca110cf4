--------------------------- MODULE WrappersProofs ---------------------------
(***************************************************************************)
(* The properties of Wrappers, for any objects on the two sides of the     *)
(* membrane and any number of wrappers, calls and events; and that the     *)
(* wrappers implement Caretaker.                                           *)
(***************************************************************************)
EXTENDS Wrappers, TLAPS

Via == Revocable \cup {Attenuated, Audited}
Call == [from : Side, via : Via, arg : Id \cup {Nil}, permitted : BOOLEAN,
         late : BOOLEAN, stage : {"sent", "forwarded", "answered", "settled"},
         record : Nat, answer : Id \cup {Nil, Error}]
Record == [call : Nat, completed : {"pending", "ok", "failed"}]

TypeTables ==
    /\ revoked \in BOOLEAN
    /\ wrappers \in [Obj -> Revocable \cup {Nil}]
    /\ innerOf \in [Revocable -> Obj \cup {Nil}]
    /\ target \in [Revocable -> Obj \cup {Nil}]
    /\ wraps \in [Revocable -> Obj \cup {Nil}]
    /\ sent \in [Side -> SUBSET Id]
TypeTraffic ==
    /\ calls \in Seq(Call)
    /\ events \subseteq Obj \X (Id \cup {Nil})
    /\ records \in Seq(Record)

\* What the tables say of a wrapper is what it was made for.
TablesTrue ==
    /\ wraps[Root] = Wrapped
    /\ \A w \in Revocable :
          /\ target[w] \in {Nil, wraps[w]}
          /\ innerOf[w] \in {Nil, wraps[w]}
    /\ \A o \in Obj : wrappers[o] # Nil => wraps[wrappers[o]] = o

\* A ref in a payload is one that its sender may pass.
CallPassable(c) ==
    c.via \in Revocable =>
       /\ c.via \in sent[c.from]
       /\ c.stage = "sent" => c.arg \in Passable(c.from)
       /\ c.stage = "answered" => c.answer \in Passable(Other(c.from)) \cup {Error}
PayloadsPassable ==
    /\ \A i \in DOMAIN calls : CallPassable(calls[i])
    /\ \A e \in events : e[2] \in Passable(SideOf(e[1]))

Inv == /\ TypeTables /\ TypeTraffic
       /\ TablesTrue /\ PayloadsPassable /\ SidesSeparated /\ MembraneWhole

-----------------------------------------------------------------------------
(***************************************************************************)
(* Sides, ids and wrappers.                                                *)
(***************************************************************************)
LEMMA Ids ==
    /\ Root \in Revocable /\ Revocable \subseteq Int \ {Attenuated, Audited}
    /\ Attenuated # Audited
    /\ \A o \in Obj : o \notin Int /\ o # Nil /\ o # Error
    /\ Nil \notin Int /\ Error \notin Int /\ Nil # Error
    /\ Wrapped \in Obj
  BY ObjAssumption, BoundAssumption DEF Root, Revocable, Attenuated, Audited, Obj

LEMMA Sides ==
    /\ \A s \in Side : Other(s) \in Side /\ Other(Other(s)) = s /\ Other(s) # s
    /\ \A s \in Side : Own(s) \subseteq Obj /\ Own(s) \cap Own(Other(s)) = {}
    /\ \A o \in Obj : SideOf(o) \in Side /\ o \in Own(SideOf(o))
    /\ \A s \in Side : \A o \in Own(s) : SideOf(o) = s
    /\ Own("inner") = Inner /\ Own("outer") = Outer
  BY ObjAssumption DEF Side, Other, Own, SideOf, Obj

LEMMA FreshWrapper ==
    ASSUME TypeTables, TablesTrue, Fresh # {}
    PROVE  NextWrapper \in Revocable /\ wraps[NextWrapper] = Nil /\ NextWrapper # Root
  <1>1. NextWrapper \in Fresh
    BY DEF NextWrapper
  <1>2. wraps[Root] # Nil
    BY Ids DEF TablesTrue
  <1> QED BY <1>1, <1>2 DEF Fresh

\* A live wrapper says that the membrane has not been revoked.
LEMMA LiveUnrevoked ==
    ASSUME MembraneWhole, NEW w \in Revocable, target[w] # Nil
    PROVE  ~revoked
  BY DEF MembraneWhole

\* What a side may pass: nothing, its own objects, and wrappers of the other
\* side's, but not the root.
LEMMA Passed ==
    ASSUME SidesSeparated, NEW side \in Side, NEW id \in Passable(side), id # Nil
    PROVE  \/ id \in Own(side) /\ id \in Obj /\ ~IsWrapper(id)
           \/ /\ IsWrapper(id) /\ id # Root /\ id \in Revocable
              /\ wraps[id] \in Own(Other(side)) /\ wraps[id] \in Obj
  <1>1. id \in Own(side) \/ id \in sent[side]
    BY DEF Passable
  <1>2. id \in Own(side) => id \in Obj /\ ~IsWrapper(id)
    BY Sides, Ids DEF IsWrapper
  <1>3. IsWrapper(id) /\ id \in sent[side] => wraps[id] \in Own(Other(side))
    BY DEF SidesSeparated
  <1>4. ~IsWrapper(id) /\ id \in sent[side] => id \in Own(side)
    BY DEF SidesSeparated
  <1>5. Own(Other(side)) \subseteq Obj
    BY Sides
  <1>6. id # Root
    BY DEF Passable
  <1> QED BY <1>1, <1>2, <1>3, <1>4, <1>5, <1>6 DEF IsWrapper

(***************************************************************************)
(* translate_ref, on a ref that its sender may pass and before a revoke.   *)
(***************************************************************************)
Tables == <<wrappers, innerOf, target, wraps>>

\* The tables only grow by a wrapper that was not there.
LEMMA TranslateTables ==
    ASSUME TypeTables, TablesTrue, MembraneWhole, ~revoked, NEW id, Room(id), Translate(id)
    PROVE  /\ wrappers' \in [Obj -> Revocable \cup {Nil}]
           /\ innerOf' \in [Revocable -> Obj \cup {Nil}]
           /\ target' \in [Revocable -> Obj \cup {Nil}]
           /\ wraps' \in [Revocable -> Obj \cup {Nil}]
           /\ TablesTrue'
           /\ \A w \in Revocable : wraps[w] # Nil => wraps'[w] = wraps[w]
           /\ revoked' = revoked => MembraneWhole'
  <1>1. CASE ~Mints(id)
    BY <1>1 DEF Translate, TypeTables, TablesTrue, MembraneWhole
  <1>2. CASE Mints(id)
    <2> DEFINE n == NextWrapper
    <2>1. n \in Revocable /\ wraps[n] = Nil /\ n # Root
      BY <1>2, FreshWrapper DEF Room
    <2>2. id \in Obj /\ wrappers[id] = Nil /\ id # Nil
      BY <1>2, Ids DEF Mints
    <2>3. /\ wrappers' = [wrappers EXCEPT ![id] = n]
          /\ innerOf' = [innerOf EXCEPT ![n] = id]
          /\ target' = [target EXCEPT ![n] = id]
          /\ wraps' = [wraps EXCEPT ![n] = id]
      BY <1>2 DEF Translate
    <2> HIDE DEF n
    <2>4. /\ wrappers' \in [Obj -> Revocable \cup {Nil}]
          /\ innerOf' \in [Revocable -> Obj \cup {Nil}]
          /\ target' \in [Revocable -> Obj \cup {Nil}]
          /\ wraps' \in [Revocable -> Obj \cup {Nil}]
      BY <2>1, <2>2, <2>3 DEF TypeTables
    <2>5. \A w \in Revocable : /\ wraps'[w] = IF w = n THEN id ELSE wraps[w]
                               /\ target'[w] = IF w = n THEN id ELSE target[w]
                               /\ innerOf'[w] = IF w = n THEN id ELSE innerOf[w]
      BY <2>1, <2>3 DEF TypeTables
    <2>6. \A o \in Obj : wrappers'[o] = IF o = id THEN n ELSE wrappers[o]
      BY <2>2, <2>3 DEF TypeTables
    <2>7. \A o \in Obj : wrappers[o] \in Revocable \cup {Nil}
      BY DEF TypeTables
    <2>8. TablesTrue'
      <3>1. wraps'[Root] = Wrapped
        BY <2>1, <2>5, Ids DEF TablesTrue
      <3>2. \A w \in Revocable : target'[w] \in {Nil, wraps'[w]} /\ innerOf'[w] \in {Nil, wraps'[w]}
        BY <2>5 DEF TablesTrue
      <3>3. ASSUME NEW o \in Obj, wrappers'[o] # Nil PROVE wraps'[wrappers'[o]] = o
        <4>1. CASE o = id
          BY <2>1, <2>5, <2>6, <4>1
        <4>2. CASE o # id
          <5>1. wrappers[o] \in Revocable /\ wraps[wrappers[o]] = o
            BY <2>6, <2>7, <3>3, <4>2 DEF TablesTrue
          <5>2. wrappers[o] # n
            BY <2>1, <5>1, Ids
          <5> QED BY <2>5, <2>6, <4>2, <5>1, <5>2
        <4> QED BY <4>1, <4>2
      <3> QED BY <3>1, <3>2, <3>3 DEF TablesTrue
    <2>9. \A w \in Revocable : wraps[w] # Nil => wraps'[w] = wraps[w]
      BY <2>1, <2>5
    <2>10. ASSUME revoked' = revoked PROVE MembraneWhole'
      <3>1. ASSUME NEW w \in Revocable \ {Root}, wraps'[w] # Nil
            PROVE  /\ target'[w] = wraps'[w] /\ innerOf'[w] = wraps'[w]
                   /\ wrappers'[wraps'[w]] = w
        <4>1. CASE w = n
          BY <2>1, <2>2, <2>5, <2>6, <4>1
        <4>2. CASE w # n
          <5>1. /\ wraps[w] # Nil /\ target[w] = wraps[w] /\ innerOf[w] = wraps[w]
                /\ wrappers[wraps[w]] = w /\ wraps[w] \in Obj
            BY <2>5, <3>1, <4>2 DEF MembraneWhole, TypeTables
          <5>2. wraps[w] # id
            BY <2>2, <5>1, Ids
          <5> QED BY <2>5, <2>6, <4>2, <5>1, <5>2
        <4> QED BY <4>1, <4>2
      <3> QED BY <2>10, <3>1 DEF MembraneWhole
    <2> QED BY <2>4, <2>8, <2>9, <2>10
  <1> QED BY <1>1, <1>2

\* What comes out belongs on the other side, and names the same object.
LEMMA TranslateCrosses ==
    ASSUME TypeTables, TablesTrue, SidesSeparated, MembraneWhole, ~revoked,
           NEW side \in Side, NEW id \in Passable(side), Room(id), Translate(id)
    PROVE  /\ Translation(id) \in Id \cup {Nil}
           /\ Translation(id) # Nil =>
                 IF IsWrapper(Translation(id))
                 THEN wraps'[Translation(id)] \in Own(side)
                 ELSE Translation(id) \in Own(Other(side))
           /\ (Translation(id) = Nil) <=> (id = Nil)
           /\ id \in Revocable => Translation(id) = wraps[id] /\ Translation(id) \in Obj
           /\ id \in Obj => Translation(id) \in Revocable /\ wraps'[Translation(id)] = id
  <1>1. CASE id = Nil
    <2>1. Translation(id) = Nil
      BY <1>1, Ids DEF Translation, IsWrapper
    <2> QED BY <1>1, <2>1, Ids
  <1>2. CASE id # Nil /\ IsWrapper(id)
    <2>1. /\ id # Root /\ id \in Revocable
          /\ wraps[id] \in Own(Other(side)) /\ wraps[id] \in Obj
      BY <1>2, Passed
    <2>2. innerOf[id] = wraps[id] /\ wraps[id] # Nil
      BY <2>1, Ids DEF MembraneWhole
    <2>3. Translation(id) = wraps[id]
      BY <1>2, <2>2 DEF Translation
    <2>4. ~IsWrapper(wraps[id]) /\ id \notin Obj
      BY <2>1, Ids DEF IsWrapper
    <2> QED BY <2>1, <2>2, <2>3, <2>4, <1>2 DEF Id
  <1>3. CASE id # Nil /\ ~IsWrapper(id)
    <2>1. id \in Own(side) /\ id \in Obj /\ id \notin Revocable
      BY <1>3, Passed DEF IsWrapper
    <2>2. CASE wrappers[id] # Nil
      <3>1. Translation(id) = wrappers[id]
        BY <1>3, <2>2 DEF Translation
      <3>2. wrappers[id] \in Revocable /\ wraps[wrappers[id]] = id
        BY <2>1, <2>2 DEF TypeTables, TablesTrue
      <3>3. wraps'[wrappers[id]] = id
        BY <2>1, <3>2, Ids, TranslateTables
      <3> QED BY <1>3, <2>1, <2>2, <3>1, <3>2, <3>3 DEF Id, IsWrapper
    <2>3. CASE wrappers[id] = Nil
      <3>1. Translation(id) = NextWrapper /\ Mints(id)
        BY <1>3, <2>1, <2>3 DEF Translation, Mints
      <3>2. NextWrapper \in Revocable
        BY <3>1, FreshWrapper DEF Room
      <3>3. wraps' = [wraps EXCEPT ![NextWrapper] = id]
        BY <3>1 DEF Translate
      <3>4. wraps'[NextWrapper] = id
        BY <3>2, <3>3 DEF TypeTables
      <3>5. NextWrapper # Nil
        BY <3>2, Ids
      <3> QED BY <1>3, <2>1, <3>1, <3>2, <3>4, <3>5 DEF Id, IsWrapper
    <2> QED BY <2>2, <2>3
  <1> QED BY <1>1, <1>2, <1>3

\* A crossing keeps what the invariant says of tables and sides.
LEMMA Crossing ==
    ASSUME TypeTables, TablesTrue, SidesSeparated, MembraneWhole, ~revoked,
           NEW side \in Side, NEW id \in Passable(side), Room(id), Translate(id),
           Learn(Other(side), Translation(id)), UNCHANGED revoked
    PROVE  /\ TypeTables' /\ TablesTrue' /\ SidesSeparated' /\ MembraneWhole'
           /\ \A s \in Side : sent[s] \subseteq sent'[s]
  <1> DEFINE t == Translation(id)
  <1>1. /\ t \in Id \cup {Nil}
        /\ t # Nil => IF IsWrapper(t) THEN wraps'[t] \in Own(side) ELSE t \in Own(Other(side))
    BY TranslateCrosses
  <1>2. \A s \in Side : sent'[s] = IF s = Other(side) THEN sent[s] \cup ({t} \ {Nil}) ELSE sent[s]
    BY Sides DEF Learn, TypeTables
  <1>3. sent' \in [Side -> SUBSET Id]
    <2>1. sent[Other(side)] \cup ({t} \ {Nil}) \subseteq Id
      BY <1>1, Sides DEF TypeTables
    <2> QED BY <2>1, Sides DEF Learn, TypeTables
  <1> HIDE DEF t
  <1>4. TypeTables' /\ TablesTrue' /\ MembraneWhole'
    BY <1>3, TranslateTables DEF TypeTables
  <1>5. ASSUME NEW s \in Side, NEW x \in sent'[s]
        PROVE  IF IsWrapper(x) THEN wraps'[x] \in Own(Other(s)) ELSE x \in Own(s)
    <2>1. CASE x \in sent[s]
      <3>1. IF IsWrapper(x) THEN wraps[x] \in Own(Other(s)) ELSE x \in Own(s)
        BY <2>1 DEF SidesSeparated
      <3>2. IsWrapper(x) => wraps[x] # Nil
        BY <3>1, Sides, Ids
      <3> QED BY <3>1, <3>2, TranslateTables DEF IsWrapper
    <2>2. CASE x \notin sent[s]
      <3>1. s = Other(side) /\ x = t /\ t # Nil
        BY <1>2, <1>5, <2>2
      <3>2. Other(s) = side
        BY <3>1, Sides
      <3> QED BY <1>1, <3>1, <3>2
    <2> QED BY <2>1, <2>2
  <1>6. SidesSeparated'
    BY <1>5 DEF SidesSeparated, IsWrapper
  <1> QED BY <1>2, <1>4, <1>6

LEMMA Grown ==
    ASSUME \A s \in Side : sent[s] \subseteq sent'[s]
    PROVE  /\ \A s \in Side : Passable(s) \subseteq Passable(s)'
           /\ \A c \in Call : CallPassable(c) => CallPassable(c)'
           /\ \A e \in Obj \X (Id \cup {Nil}) :
                 e[2] \in Passable(SideOf(e[1])) => e[2] \in Passable(SideOf(e[1]))'
  <1>1. \A s \in Side : Passable(s) \subseteq Passable(s)'
    BY DEF Passable
  <1>2. ASSUME NEW c \in Call, CallPassable(c) PROVE CallPassable(c)'
    <2>1. c.from \in Side /\ Other(c.from) \in Side
      BY Sides DEF Call
    <2>2. Passable(c.from) \subseteq Passable(c.from)'
      BY <1>1, <2>1
    <2>3. Passable(Other(c.from)) \subseteq Passable(Other(c.from))'
      BY <1>1, <2>1
    <2> QED BY <1>2, <2>1, <2>2, <2>3 DEF CallPassable
  <1>3. ASSUME NEW e \in Obj \X (Id \cup {Nil}), e[2] \in Passable(SideOf(e[1]))
        PROVE  e[2] \in Passable(SideOf(e[1]))'
    <2>1. SideOf(e[1]) \in Side
      BY Sides
    <2> QED BY <1>1, <1>3, <2>1
  <1> QED BY <1>1, <1>2, <1>3

\* A step that changes one call.
LEMMA OneCall ==
    ASSUME Inv, NEW i \in DOMAIN calls, NEW c \in Call,
           calls' = [calls EXCEPT ![i] = c],
           \A s \in Side : sent[s] \subseteq sent'[s],
           CallPassable(c)', UNCHANGED events
    PROVE  calls' \in Seq(Call) /\ PayloadsPassable'
  <1>1. /\ calls \in Seq(Call) /\ \A j \in DOMAIN calls : calls[j] \in Call
        /\ events \subseteq Obj \X (Id \cup {Nil})
    BY DEF Inv, TypeTraffic
  <1>2. /\ calls' \in Seq(Call) /\ DOMAIN calls' = DOMAIN calls /\ calls'[i] = c
        /\ \A j \in DOMAIN calls : j # i => calls'[j] = calls[j]
    BY <1>1
  <1>3. ASSUME NEW j \in DOMAIN calls' PROVE CallPassable(calls[j])'
    <2>1. CASE j = i
      <3>1. calls'[j] = c
        BY <1>2, <2>1
      <3> QED BY <3>1 DEF CallPassable
    <2>2. CASE j # i
      <3>1. CallPassable(calls[j]) /\ calls'[j] = calls[j] /\ calls[j] \in Call
        BY <1>1, <1>2, <1>3, <2>2 DEF Inv, PayloadsPassable
      <3> DEFINE d == calls[j]
      <3>2. d \in Call /\ CallPassable(d)
        BY <3>1
      <3> QED BY <3>1, Grown DEF CallPassable
    <2> QED BY <2>1, <2>2
  <1>4. \A e \in events' : e[2] \in Passable(SideOf(e[1]))'
    BY <1>1, Grown DEF Inv, PayloadsPassable
  <1> QED BY <1>2, <1>3, <1>4 DEF PayloadsPassable

-----------------------------------------------------------------------------
(***************************************************************************)
(* The invariant.                                                          *)
(***************************************************************************)
LEMMA InitInv == Init => Inv
  <1> SUFFICES ASSUME Init PROVE Inv
    OBVIOUS
  <1> USE DEF Init
  <1>1. TypeTables /\ TablesTrue
    <2>1. target \in [Revocable -> Obj \cup {Nil}] /\ target[Root] = Wrapped
      BY Ids
    <2>2. sent \in [Side -> SUBSET Id]
      BY Ids DEF Id
    <2> QED BY <2>1, <2>2 DEF TypeTables, TablesTrue
  <1>2. TypeTraffic
    BY DEF TypeTraffic
  <1>3. PayloadsPassable
    BY DEF PayloadsPassable
  <1>4. SidesSeparated
    <2>1. \A side \in Side : \A id \in sent[side] : id = Root /\ side = "outer"
      BY DEF Side
    <2>2. wraps[Root] \in Own(Other("outer"))
      BY <1>1, ObjAssumption DEF TablesTrue, Own, Other
    <2> QED BY <2>1, <2>2, Ids DEF SidesSeparated, IsWrapper
  <1>5. MembraneWhole
    BY DEF MembraneWhole
  <1> QED BY <1>1, <1>2, <1>3, <1>4, <1>5 DEF Inv

LEMMA CallsTyped ==
    ASSUME Inv, NEW i \in DOMAIN calls
    PROVE  calls[i] \in Call /\ CallPassable(calls[i])
  BY DEF Inv, TypeTraffic, PayloadsPassable

LEMMA RevokeInv == Inv /\ Revoke => Inv'
  <1> SUFFICES ASSUME Inv, Revoke PROVE Inv'
    OBVIOUS
  <1> USE DEF Revoke
  <1>1. TypeTables' /\ TablesTrue'
    BY DEF Inv, TypeTables, TablesTrue
  <1>2. \A w \in Revocable : target'[w] = Nil
    <2>1. ASSUME NEW w \in Revocable, w # Root, ~(\E o \in Obj : wrappers[o] = w)
          PROVE  target[w] = Nil
      <3>1. CASE revoked
        BY <3>1 DEF Inv, MembraneWhole
      <3>2. CASE ~revoked
        <4>1. wraps[w] = Nil
          BY <2>1, <3>2 DEF Inv, MembraneWhole, TypeTables
        <4> QED BY <4>1 DEF Inv, TablesTrue
      <3> QED BY <3>1, <3>2
    <2> QED BY <2>1
  <1>3. MembraneWhole'
    BY <1>2 DEF MembraneWhole
  <1>4. TypeTraffic' /\ SidesSeparated' /\ PayloadsPassable'
    BY DEF Inv, TypeTraffic, SidesSeparated, PayloadsPassable, CallPassable, Passable
  <1> QED BY <1>1, <1>3, <1>4 DEF Inv

\* What a step keeps that leaves tables and sides alone.
LEMMA TablesKept ==
    ASSUME Inv, UNCHANGED <<membrane, sent>>
    PROVE  /\ TypeTables' /\ TablesTrue' /\ SidesSeparated' /\ MembraneWhole'
           /\ \A s \in Side : sent[s] \subseteq sent'[s]
  BY DEF Inv, membrane, TypeTables, TablesTrue, SidesSeparated, MembraneWhole

LEMMA AskInv ==
    ASSUME Inv, NEW side \in Side, NEW via \in Via, NEW arg \in Id \cup {Nil},
           NEW permitted \in BOOLEAN, Ask(side, via, arg, permitted)
    PROVE  Inv'
  <1> DEFINE c == [from |-> side, via |-> via, arg |-> arg, permitted |-> permitted,
                   late |-> via \in Revocable /\ revoked,
                   stage |-> "sent", record |-> 0, answer |-> Nil]
  <1>1. /\ calls' = Append(calls, c)
        /\ UNCHANGED <<membrane, events, records, sent>>
        /\ via \in Revocable => via \in sent[side] /\ arg \in Passable(side)
    BY DEF Ask
  <1>2. c \in Call
    BY DEF Call
  <1>3. CallPassable(c)
    BY <1>1 DEF CallPassable
  <1> HIDE DEF c
  <1>4. calls \in Seq(Call)
    BY DEF Inv, TypeTraffic
  <1>5. /\ calls' \in Seq(Call)
        /\ \A j \in DOMAIN calls' : calls'[j] = c \/ (j \in DOMAIN calls /\ calls'[j] = calls[j])
    BY <1>1, <1>2, <1>4
  <1>6. TypeTraffic'
    BY <1>1, <1>5 DEF Inv, TypeTraffic
  <1>7. \A j \in DOMAIN calls' : CallPassable(calls'[j])
    BY <1>3, <1>5, CallsTyped
  <1>8. PayloadsPassable'
    BY <1>1, <1>7 DEF Inv, PayloadsPassable, CallPassable, Passable
  <1> QED BY <1>1, <1>6, <1>8, TablesKept DEF Inv

\* A step that changes the stage, the argument and the answer of a call.
Moved(i, stage, arg, record, answer) ==
    [from |-> calls[i].from, via |-> calls[i].via, arg |-> arg,
     permitted |-> calls[i].permitted, late |-> calls[i].late,
     stage |-> stage, record |-> record, answer |-> answer]

LEMMA MovedCall ==
    ASSUME Inv, NEW i \in DOMAIN calls,
           NEW stage \in {"sent", "forwarded", "answered", "settled"},
           NEW arg \in Id \cup {Nil}, NEW record \in Nat, NEW answer \in Id \cup {Nil, Error}
    PROVE  Moved(i, stage, arg, record, answer) \in Call
  BY CallsTyped DEF Moved, Call

LEMMA CallRecord ==
    ASSUME Inv, NEW i \in DOMAIN calls
    PROVE  calls[i] = Moved(i, calls[i].stage, calls[i].arg, calls[i].record, calls[i].answer)
  BY CallsTyped DEF Moved, Call

\* The updates of the actions, in that form.
LEMMA Updates ==
    ASSUME Inv, NEW i \in DOMAIN calls, NEW x
    PROVE  /\ [calls EXCEPT ![i].stage = "settled", ![i].answer = x]
                = [calls EXCEPT ![i] = Moved(i, "settled", calls[i].arg, calls[i].record, x)]
           /\ [calls EXCEPT ![i].stage = "answered", ![i].answer = x]
                = [calls EXCEPT ![i] = Moved(i, "answered", calls[i].arg, calls[i].record, x)]
           /\ [calls EXCEPT ![i].stage = "forwarded", ![i].arg = x]
                = [calls EXCEPT ![i] = Moved(i, "forwarded", x, calls[i].record, calls[i].answer)]
           /\ [calls EXCEPT ![i].stage = "forwarded", ![i].record = x]
                = [calls EXCEPT ![i] = Moved(i, "forwarded", calls[i].arg, x, calls[i].answer)]
           /\ [calls EXCEPT ![i].stage = "forwarded"]
                = [calls EXCEPT ![i] = Moved(i, "forwarded", calls[i].arg, calls[i].record,
                                             calls[i].answer)]
  <1>1. calls \in Seq(Call) /\ calls[i] \in Call
    BY CallsTyped DEF Inv, TypeTraffic
  <1>2. /\ [calls[i] EXCEPT !.stage = "settled", !.answer = x]
              = Moved(i, "settled", calls[i].arg, calls[i].record, x)
        /\ [calls[i] EXCEPT !.stage = "answered", !.answer = x]
              = Moved(i, "answered", calls[i].arg, calls[i].record, x)
        /\ [calls[i] EXCEPT !.stage = "forwarded", !.arg = x]
              = Moved(i, "forwarded", x, calls[i].record, calls[i].answer)
        /\ [calls[i] EXCEPT !.stage = "forwarded", !.record = x]
              = Moved(i, "forwarded", calls[i].arg, x, calls[i].answer)
        /\ [calls[i] EXCEPT !.stage = "forwarded"]
              = Moved(i, "forwarded", calls[i].arg, calls[i].record, calls[i].answer)
    <2>1. \A y : [calls[i] EXCEPT !.stage = y]
                    = Moved(i, y, calls[i].arg, calls[i].record, calls[i].answer)
      BY <1>1, SMTT(20) DEF Moved, Call
    <2>2. ASSUME NEW y PROVE [calls[i] EXCEPT !.stage = y, !.answer = x]
                                = Moved(i, y, calls[i].arg, calls[i].record, x)
      <3>1. [calls[i] EXCEPT !.stage = y, !.answer = x]
               = [[calls[i] EXCEPT !.stage = y] EXCEPT !.answer = x]
        OBVIOUS
      <3>2. [Moved(i, y, calls[i].arg, calls[i].record, calls[i].answer) EXCEPT !.answer = x]
               = Moved(i, y, calls[i].arg, calls[i].record, x)
        BY DEF Moved
      <3> QED BY <2>1, <3>1, <3>2
    <2>3. [calls[i] EXCEPT !.stage = "forwarded", !.arg = x]
              = Moved(i, "forwarded", x, calls[i].record, calls[i].answer)
      <3>1. [calls[i] EXCEPT !.stage = "forwarded", !.arg = x]
               = [[calls[i] EXCEPT !.stage = "forwarded"] EXCEPT !.arg = x]
        OBVIOUS
      <3>2. [Moved(i, "forwarded", calls[i].arg, calls[i].record, calls[i].answer) EXCEPT !.arg = x]
               = Moved(i, "forwarded", x, calls[i].record, calls[i].answer)
        BY DEF Moved
      <3> QED BY <2>1, <3>1, <3>2
    <2>4. [calls[i] EXCEPT !.stage = "forwarded", !.record = x]
              = Moved(i, "forwarded", calls[i].arg, x, calls[i].answer)
      <3>1. [calls[i] EXCEPT !.stage = "forwarded", !.record = x]
               = [[calls[i] EXCEPT !.stage = "forwarded"] EXCEPT !.record = x]
        OBVIOUS
      <3>2. [Moved(i, "forwarded", calls[i].arg, calls[i].record, calls[i].answer) EXCEPT !.record = x]
               = Moved(i, "forwarded", calls[i].arg, x, calls[i].answer)
        BY DEF Moved
      <3> QED BY <2>1, <3>1, <3>2
    <2> QED BY <2>1, <2>2, <2>3, <2>4
  <1>3. /\ [calls EXCEPT ![i].stage = "settled", ![i].answer = x]
              = [calls EXCEPT ![i] = [@ EXCEPT !.stage = "settled", !.answer = x]]
        /\ [calls EXCEPT ![i].stage = "answered", ![i].answer = x]
              = [calls EXCEPT ![i] = [@ EXCEPT !.stage = "answered", !.answer = x]]
        /\ [calls EXCEPT ![i].stage = "forwarded", ![i].arg = x]
              = [calls EXCEPT ![i] = [@ EXCEPT !.stage = "forwarded", !.arg = x]]
        /\ [calls EXCEPT ![i].stage = "forwarded", ![i].record = x]
              = [calls EXCEPT ![i] = [@ EXCEPT !.stage = "forwarded", !.record = x]]
        /\ [calls EXCEPT ![i].stage = "forwarded"]
              = [calls EXCEPT ![i] = [@ EXCEPT !.stage = "forwarded"]]
    BY <1>1
  <1> QED BY <1>2, <1>3

LEMMA MoveInv ==
    ASSUME Inv, NEW i \in DOMAIN calls,
           NEW stage \in {"forwarded", "answered", "settled"}, NEW arg \in Id \cup {Nil},
           NEW record \in Nat, NEW answer \in Id \cup {Nil, Error},
           calls' = [calls EXCEPT ![i] = Moved(i, stage, arg, record, answer)],
           stage = "answered" /\ calls[i].via \in Revocable =>
              answer \in Passable(Other(calls[i].from)) \cup {Error},
           TypeTables', TablesTrue', SidesSeparated', MembraneWhole',
           \A s \in Side : sent[s] \subseteq sent'[s],
           UNCHANGED events, records' \in Seq(Record)
    PROVE  Inv'
  <1>1. PICK c : c = Moved(i, stage, arg, record, answer)
    OBVIOUS
  <1>2. c \in Call /\ calls[i] \in Call /\ CallPassable(calls[i])
    BY <1>1, MovedCall, CallsTyped
  <1>3. /\ c.from = calls[i].from /\ c.via = calls[i].via
        /\ c.stage = stage /\ c.answer = answer
    BY <1>1 DEF Moved
  <1>4. c.from \in Side /\ Other(c.from) \in Side
    BY <1>2, Sides DEF Call
  <1>5. c.via \in Revocable => c.via \in sent'[c.from]
    BY <1>2, <1>3, <1>4 DEF CallPassable
  <1>6. Passable(Other(c.from)) \subseteq Passable(Other(c.from))'
    BY <1>4, Grown
  <1>7. CallPassable(c)'
    BY <1>3, <1>5, <1>6 DEF CallPassable
  <1>8. calls' \in Seq(Call) /\ PayloadsPassable'
    BY <1>1, <1>2, <1>7, OneCall
  <1>9. TypeTraffic'
    BY <1>8 DEF Inv, TypeTraffic
  <1> QED BY <1>8, <1>9 DEF Inv

\* A step that moves a call and nothing else.
LEMMA StayInv ==
    ASSUME Inv, NEW i \in DOMAIN calls,
           NEW stage \in {"forwarded", "answered", "settled"}, NEW record \in Nat,
           NEW answer \in Id \cup {Nil, Error},
           calls' = [calls EXCEPT ![i] = Moved(i, stage, calls[i].arg, record, answer)],
           stage = "answered" /\ calls[i].via \in Revocable =>
              answer \in Passable(Other(calls[i].from)) \cup {Error},
           UNCHANGED <<membrane, events, sent>>, records' \in Seq(Record)
    PROVE  Inv'
  <1>1. calls[i].arg \in Id \cup {Nil}
    BY CallsTyped DEF Call
  <1>2. UNCHANGED <<membrane, sent>> /\ UNCHANGED events
    OBVIOUS
  <1> QED BY <1>1, <1>2, TablesKept, MoveInv

LEMMA Fields ==
    ASSUME Inv, NEW i \in DOMAIN calls
    PROVE  /\ calls[i].arg \in Id \cup {Nil} /\ calls[i].record \in Nat
           /\ calls[i].answer \in Id \cup {Nil, Error}
           /\ calls[i].from \in Side /\ Other(calls[i].from) \in Side
           /\ calls[i].via \in Via /\ records \in Seq(Record)
  BY CallsTyped, Sides DEF Call, Inv, TypeTraffic

\* Behind the wrapper that a side calls is an object of the other side.
LEMMA CalledSide ==
    ASSUME Inv, NEW i \in DOMAIN calls, calls[i].via \in Revocable
    PROVE  /\ wraps[calls[i].via] \in Own(Other(calls[i].from))
           /\ wraps[calls[i].via] \in Obj /\ wraps[calls[i].via] # Nil
           /\ SideOf(wraps[calls[i].via]) = Other(calls[i].from)
  <1>1. calls[i].from \in Side /\ Other(calls[i].from) \in Side
    BY Fields
  <1>2. calls[i].via \in sent[calls[i].from]
    BY CallsTyped DEF CallPassable
  <1>3. wraps[calls[i].via] \in Own(Other(calls[i].from))
    BY <1>1, <1>2 DEF Inv, SidesSeparated, IsWrapper
  <1> QED BY <1>1, <1>3, Sides, Ids

\* What a live wrapper does with a ref that its caller may pass, on its way in
\* or out.
LEMMA CallCrosses ==
    ASSUME Inv, NEW i \in DOMAIN calls, calls[i].via \in Revocable, ~revoked,
           NEW side \in Side, NEW id \in Passable(side),
           Room(id), Translate(id), Learn(Other(side), Translation(id)),
           NEW stage \in {"forwarded", "settled"},
           NEW arg \in Id \cup {Nil}, NEW answer \in Id \cup {Nil, Error},
           calls' = [calls EXCEPT ![i] = Moved(i, stage, arg, calls[i].record, answer)],
           UNCHANGED <<revoked, events, records>>
    PROVE  Inv'
  <1>1. /\ TypeTables' /\ TablesTrue' /\ SidesSeparated' /\ MembraneWhole'
        /\ \A s \in Side : sent[s] \subseteq sent'[s]
    BY Crossing DEF Inv
  <1>2. calls[i].record \in Nat /\ records' \in Seq(Record) /\ UNCHANGED events
    BY Fields
  <1> QED BY <1>1, <1>2, MoveInv

LEMMA ForwardRevocableInv ==
    ASSUME Inv, NEW i \in DOMAIN calls, ForwardRevocable(i)
    PROVE  Inv'
  <1>0. calls[i].stage = "sent" /\ calls[i].via \in Revocable
    BY DEF ForwardRevocable
  <1>1. CASE target[calls[i].via] = Nil
    <2>1. Settle(i, Error) /\ UNCHANGED <<membrane, events, sent>> /\ UNCHANGED records
      BY <1>1 DEF ForwardRevocable
    <2>2. calls' = [calls EXCEPT ![i] = Moved(i, "settled", calls[i].arg, calls[i].record, Error)]
      BY <2>1, Updates DEF Settle
    <2> QED BY <2>1, <2>2, Fields, StayInv
  <1>2. CASE target[calls[i].via] # Nil
    <2> DEFINE side == calls[i].from
               arg == calls[i].arg
    <2>1. /\ Room(arg) /\ Translate(arg)
          /\ Learn(SideOf(target[calls[i].via]), Translation(arg))
          /\ calls' = [calls EXCEPT ![i].stage = "forwarded", ![i].arg = Translation(arg)]
          /\ UNCHANGED <<revoked, events, records>>
      BY <1>2 DEF ForwardRevocable
    <2>2. ~revoked
      BY <1>0, <1>2, LiveUnrevoked DEF Inv
    <2>3. side \in Side /\ arg \in Passable(side)
      BY <1>0, Fields, CallsTyped DEF CallPassable
    <2>4. target[calls[i].via] = wraps[calls[i].via]
      BY <1>0, <1>2 DEF Inv, TablesTrue
    <2>5. Learn(Other(side), Translation(arg))
      BY <1>0, <2>1, <2>4, CalledSide
    <2>6. Translation(arg) \in Id \cup {Nil}
      BY <2>1, <2>2, <2>3, TranslateCrosses DEF Inv
    <2>7. calls' = [calls EXCEPT ![i] =
                       Moved(i, "forwarded", Translation(arg), calls[i].record, calls[i].answer)]
      BY <2>1, Updates
    <2>8. calls[i].answer \in Id \cup {Nil, Error}
      BY Fields
    <2> QED BY <1>0, <2>1, <2>2, <2>3, <2>5, <2>6, <2>7, <2>8, CallCrosses
  <1> QED BY <1>1, <1>2

LEMMA ReturnRevocableInv ==
    ASSUME Inv, NEW i \in DOMAIN calls, ReturnRevocable(i)
    PROVE  Inv'
  <1>0. calls[i].stage = "answered" /\ calls[i].via \in Revocable
    BY DEF ReturnRevocable
  <1>1. CASE calls[i].answer = Error \/ revoked
    <2>1. Settle(i, Error) /\ UNCHANGED <<membrane, events, sent>> /\ UNCHANGED records
      BY <1>1 DEF ReturnRevocable
    <2>2. calls' = [calls EXCEPT ![i] = Moved(i, "settled", calls[i].arg, calls[i].record, Error)]
      BY <2>1, Updates DEF Settle
    <2> QED BY <2>1, <2>2, Fields, StayInv
  <1>2. CASE ~(calls[i].answer = Error \/ revoked)
    <2> DEFINE side == Other(calls[i].from)
               answer == calls[i].answer
    <2>1. /\ Room(answer) /\ Translate(answer)
          /\ Learn(calls[i].from, Translation(answer))
          /\ Settle(i, Translation(answer))
          /\ UNCHANGED <<revoked, events, records>>
      BY <1>2 DEF ReturnRevocable
    <2>2. side \in Side /\ answer \in Passable(side)
      BY <1>0, <1>2, Fields, CallsTyped DEF CallPassable
    <2>3. Learn(Other(side), Translation(answer))
      BY <2>1, Fields, Sides
    <2>4. Translation(answer) \in Id \cup {Nil}
      BY <1>2, <2>1, <2>2, TranslateCrosses DEF Inv
    <2>5. calls' = [calls EXCEPT ![i] =
                       Moved(i, "settled", calls[i].arg, calls[i].record, Translation(answer))]
      BY <2>1, Updates DEF Settle
    <2>6. calls[i].arg \in Id \cup {Nil} /\ Translation(answer) \in Id \cup {Nil, Error}
      BY <2>4, Fields
    <2> QED BY <1>0, <1>2, <2>1, <2>2, <2>3, <2>5, <2>6, CallCrosses
  <1> QED BY <1>1, <1>2

LEMMA ServeInv ==
    ASSUME Inv, NEW i \in DOMAIN calls, NEW answer \in Id \cup {Nil, Error}, Serve(i, answer)
    PROVE  Inv'
  <1>1. /\ calls[i].via \in Revocable =>
              answer \in Passable(SideOf(wraps[calls[i].via])) \cup {Error}
        /\ UNCHANGED <<membrane, events, sent>> /\ UNCHANGED records
    <2>1. Nil \in Passable(SideOf(wraps[calls[i].via]))
      BY Ids DEF Passable
    <2>2. UNCHANGED <<membrane, events, sent>> /\ UNCHANGED records
      BY DEF Serve
    <2>3. answer \in {Nil, Error} \/ answer \in Passable(SideOf(wraps[calls[i].via]))
      BY DEF Serve
    <2> QED BY <2>1, <2>2, <2>3
  <1>2. calls[i].via \in Revocable =>
           answer \in Passable(Other(calls[i].from)) \cup {Error}
    BY <1>1, CalledSide
  <1>3. calls' = [calls EXCEPT ![i] =
                     Moved(i, "answered", calls[i].arg, calls[i].record, answer)]
    BY Updates DEF Serve
  <1> QED BY <1>1, <1>2, <1>3, Fields, StayInv

LEMMA AttenuatedInv ==
    ASSUME Inv, NEW i \in DOMAIN calls, ForwardAttenuated(i) \/ ReturnAttenuated(i)
    PROVE  Inv'
  <1>1. UNCHANGED <<membrane, events, sent>> /\ UNCHANGED records
    BY DEF ForwardAttenuated, ReturnAttenuated
  <1>2. \/ calls' = [calls EXCEPT ![i] = Moved(i, "forwarded", calls[i].arg, calls[i].record,
                                               calls[i].answer)]
        \/ calls' = [calls EXCEPT ![i] = Moved(i, "settled", calls[i].arg, calls[i].record, Error)]
        \/ calls' = [calls EXCEPT ![i] = Moved(i, "settled", calls[i].arg, calls[i].record,
                                               calls[i].answer)]
    BY Updates DEF ForwardAttenuated, ReturnAttenuated, Settle
  <1>3. \A stage \in {"forwarded", "settled"}, answer \in Id \cup {Nil, Error} :
           calls' = [calls EXCEPT ![i] = Moved(i, stage, calls[i].arg, calls[i].record, answer)]
              => Inv'
    BY <1>1, Fields, StayInv, ZenonT(30)
  <1>4. "forwarded" \in {"forwarded", "settled"} /\ "settled" \in {"forwarded", "settled"}
    OBVIOUS
  <1> QED BY <1>2, <1>3, <1>4, Fields

\* What Audited does to its calls and records.
LEMMA AuditedSteps ==
    ASSUME Inv, NEW i \in DOMAIN calls
    PROVE  /\ ForwardAudited(i) =>
                 /\ calls[i].stage = "sent" /\ calls[i].via = Audited
                 /\ records' = Append(records, [call |-> i, completed |-> "pending"])
                 /\ calls' = [calls EXCEPT ![i] = Moved(i, "forwarded", calls[i].arg,
                                                        Len(records) + 1, calls[i].answer)]
                 /\ UNCHANGED <<membrane, events, sent>>
           /\ ReturnAudited(i) =>
                 /\ calls[i].stage = "answered" /\ calls[i].via = Audited
                 /\ records' = [records EXCEPT ![calls[i].record].completed =
                                   IF calls[i].answer = Error THEN "failed" ELSE "ok"]
                 /\ calls' = [calls EXCEPT ![i] = Moved(i, "settled", calls[i].arg,
                                                        calls[i].record, calls[i].answer)]
                 /\ UNCHANGED <<membrane, events, sent>>
  <1>1. ASSUME ForwardAudited(i)
        PROVE  calls' = [calls EXCEPT ![i] = Moved(i, "forwarded", calls[i].arg,
                                                   Len(records) + 1, calls[i].answer)]
    <2>1. Len(records') = Len(records) + 1
      BY <1>1, Fields DEF ForwardAudited
    <2>2. calls' = [calls EXCEPT ![i].stage = "forwarded", ![i].record = Len(records) + 1]
      BY <1>1, <2>1 DEF ForwardAudited
    <2> QED BY <2>2, Updates
  <1>2. ReturnAudited(i) =>
           calls' = [calls EXCEPT ![i] = Moved(i, "settled", calls[i].arg,
                                               calls[i].record, calls[i].answer)]
    BY Updates DEF ReturnAudited, Settle
  <1> QED BY <1>1, <1>2 DEF ForwardAudited, ReturnAudited

LEMMA AuditedInv ==
    ASSUME Inv, NEW i \in DOMAIN calls, ForwardAudited(i) \/ ReturnAudited(i)
    PROVE  Inv'
  <1>0. i \in Nat /\ records \in Seq(Record)
    BY Fields DEF Inv, TypeTraffic
  <1>1. CASE ForwardAudited(i)
    <2>1. [call |-> i, completed |-> "pending"] \in Record
      BY <1>0 DEF Record
    <2>2. /\ records' = Append(records, [call |-> i, completed |-> "pending"])
          /\ calls' = [calls EXCEPT ![i] = Moved(i, "forwarded", calls[i].arg,
                                                 Len(records) + 1, calls[i].answer)]
          /\ UNCHANGED <<membrane, events, sent>>
      BY <1>1, AuditedSteps
    <2>3. records' \in Seq(Record) /\ Len(records) + 1 \in Nat
      BY <1>0, <2>1, <2>2
    <2> QED BY <2>2, <2>3, Fields, StayInv
  <1>2. CASE ReturnAudited(i)
    <2> DEFINE done == IF calls[i].answer = Error THEN "failed" ELSE "ok"
    <2>1. records' = [records EXCEPT ![calls[i].record].completed = done]
      BY <1>2, AuditedSteps
    <2>2. records' \in Seq(Record)
      <3>1. done \in {"pending", "ok", "failed"}
        OBVIOUS
      <3> HIDE DEF done
      <3>2. \A r \in Record : [r EXCEPT !.completed = done] \in Record
        BY <3>1 DEF Record
      <3>3. DOMAIN records' = DOMAIN records /\ records' = [j \in DOMAIN records |-> records'[j]]
        BY <1>0, <2>1
      <3>4. ASSUME NEW j \in DOMAIN records PROVE records'[j] \in Record
        <4>1. records[j] \in Record
          BY <1>0
        <4>2. records'[j] = records[j] \/ records'[j] = [records[j] EXCEPT !.completed = done]
          BY <1>0, <2>1
        <4> QED BY <3>2, <4>1, <4>2
      <3>5. DOMAIN records = 1 .. Len(records) /\ Len(records) \in Nat
        BY <1>0
      <3> QED BY <3>3, <3>4, <3>5
    <2>3. /\ calls' = [calls EXCEPT ![i] = Moved(i, "settled", calls[i].arg,
                                                 calls[i].record, calls[i].answer)]
          /\ UNCHANGED <<membrane, events, sent>>
      BY <1>2, AuditedSteps
    <2>4. calls[i].record \in Nat /\ calls[i].answer \in Id \cup {Nil, Error}
      BY Fields
    <2> QED BY <2>2, <2>3, <2>4, StayInv
  <1> QED BY <1>1, <1>2

\* Calls stay as they are in a step of an event.
LEMMA EventInv ==
    ASSUME Inv, UNCHANGED <<calls, records>>,
           TypeTables', TablesTrue', SidesSeparated', MembraneWhole',
           \A s \in Side : sent[s] \subseteq sent'[s],
           events' \subseteq Obj \X (Id \cup {Nil}),
           \A e \in events' : e[2] \in Passable(SideOf(e[1]))'
    PROVE  Inv'
  <1>1. TypeTraffic'
    BY DEF Inv, TypeTraffic
  <1>2. ASSUME NEW j \in DOMAIN calls PROVE CallPassable(calls[j])'
    <2>1. PICK c : c = calls[j]
      OBVIOUS
    <2>2. c \in Call /\ CallPassable(c)
      BY <2>1, CallsTyped
    <2>3. CallPassable(c)'
      BY <2>2, Grown
    <2> QED BY <2>1, <2>3 DEF CallPassable
  <1>3. PayloadsPassable'
    BY <1>2 DEF PayloadsPassable
  <1> QED BY <1>1, <1>3 DEF Inv

LEMMA EmitInv ==
    ASSUME Inv, NEW o \in Obj, NEW ref \in Id \cup {Nil}, Emit(o, ref)
    PROVE  Inv'
  <1>1. /\ UNCHANGED <<membrane, sent>> /\ UNCHANGED <<calls, records>>
        /\ events' = events \cup {<<o, ref>>} /\ ref \in Passable(SideOf(o))
    BY DEF Emit
  <1>2. events' \subseteq Obj \X (Id \cup {Nil})
    BY <1>1 DEF Inv, TypeTraffic
  <1>3. ASSUME NEW e \in events' PROVE e[2] \in Passable(SideOf(e[1]))'
    <2>1. e[2] \in Passable(SideOf(e[1]))
      BY <1>1 DEF Inv, PayloadsPassable
    <2> QED BY <1>1, <2>1 DEF Passable
  <1> QED BY <1>1, <1>2, <1>3, TablesKept, EventInv

LEMMA DeliverEventInv ==
    ASSUME Inv, NEW o \in Obj, NEW ref \in Id \cup {Nil}, DeliverEvent(o, ref)
    PROVE  Inv'
  <1>1. /\ UNCHANGED <<calls, records>> /\ events' \subseteq events /\ <<o, ref>> \in events
    BY DEF DeliverEvent
  <1>2. ASSUME \A s \in Side : sent[s] \subseteq sent'[s]
        PROVE  /\ events' \subseteq Obj \X (Id \cup {Nil})
               /\ \A e \in events' : e[2] \in Passable(SideOf(e[1]))'
    BY <1>1, <1>2, Grown DEF Inv, TypeTraffic, PayloadsPassable
  <1>3. CASE \E w \in Revocable : target[w] = o
    <2> DEFINE side == SideOf(o)
    <2>1. /\ Room(ref) /\ Translate(ref) /\ Learn(Other(side), Translation(ref))
          /\ UNCHANGED revoked
      BY <1>3 DEF DeliverEvent
    <2>2. ~revoked
      BY <1>3, Ids, LiveUnrevoked DEF Inv
    <2>3. side \in Side /\ ref \in Passable(side)
      BY <1>1, Sides DEF Inv, PayloadsPassable
    <2>4. /\ TypeTables' /\ TablesTrue' /\ SidesSeparated' /\ MembraneWhole'
          /\ \A s \in Side : sent[s] \subseteq sent'[s]
      BY <2>1, <2>2, <2>3, Crossing DEF Inv
    <2> QED BY <1>1, <1>2, <2>4, EventInv
  <1>4. CASE ~(\E w \in Revocable : target[w] = o)
    <2>1. UNCHANGED <<membrane, sent>>
      BY <1>4 DEF DeliverEvent
    <2> QED BY <1>1, <1>2, <2>1, TablesKept, EventInv
  <1> QED BY <1>3, <1>4

LEMMA NextInv == Inv /\ [Next]_vars => Inv'
  <1> SUFFICES ASSUME Inv, [Next]_vars PROVE Inv'
    OBVIOUS
  <1>1. CASE UNCHANGED vars
    <2>1. UNCHANGED <<membrane, sent>> /\ UNCHANGED <<calls, records, events>>
      BY <1>1 DEF vars, membrane
    <2>2. \A e \in events' : e[2] \in Passable(SideOf(e[1]))'
      BY <2>1 DEF Inv, PayloadsPassable, Passable
    <2>3. events' \subseteq Obj \X (Id \cup {Nil})
      BY <2>1 DEF Inv, TypeTraffic
    <2> QED BY <2>1, <2>2, <2>3, TablesKept, EventInv
  <1> QED BY <1>1, RevokeInv, AskInv, ForwardRevocableInv, ReturnRevocableInv, AttenuatedInv,
             AuditedInv, ServeInv, EmitInv, DeliverEventInv DEF Next, Via

LEMMA InvHolds == Spec => []Inv
  BY InitInv, NextInv, PTL DEF Spec

-----------------------------------------------------------------------------
\* "wrapper refs coming back are unwrapped, so the wrapped object sees its own
\* objects": a side is only ever sent its own objects and wrappers of the other
\* side's, whatever way a ref takes.
THEOREM SidesStaySeparate == Spec => []SidesSeparated
  <1>1. Inv => SidesSeparated
    BY DEF Inv
  <1> QED BY <1>1, InvHolds, PTL

\* "One revoke severs the whole graph": an object has one wrapper, known to both
\* tables, and after a revoke no wrapper ever minted is live.
THEOREM MembraneStaysWhole == Spec => []MembraneWhole
  <1>1. Inv => MembraneWhole
    BY DEF Inv
  <1> QED BY <1>1, InvHolds, PTL

\* "every subsequent call through any of them fails": after a revoke no side is
\* sent another ref.
THEOREM RevokeIsFinal == Spec => NothingCrossesAfterRevoke
  <1>1. Inv /\ [Next]_vars => [revoked => UNCHANGED sent]_vars
    <2> SUFFICES ASSUME Inv, [Next]_vars, revoked PROVE UNCHANGED sent
      OBVIOUS
    <2>1. \A w \in Revocable : target[w] = Nil
      BY DEF Inv, MembraneWhole
    <2>2. ASSUME NEW i \in DOMAIN calls, ForwardRevocable(i) PROVE UNCHANGED sent
      BY <2>1, <2>2 DEF ForwardRevocable
    <2>3. ASSUME NEW i \in DOMAIN calls, ReturnRevocable(i) PROVE UNCHANGED sent
      BY <2>3 DEF ReturnRevocable
    <2>4. ASSUME NEW o \in Obj, NEW ref, DeliverEvent(o, ref) PROVE UNCHANGED sent
      <3>1. ~(\E w \in Revocable : target[w] = o)
        BY <2>1, Ids
      <3> QED BY <2>4, <3>1 DEF DeliverEvent
    <2> QED BY <2>2, <2>3, <2>4 DEF Next, Revoke, Ask, ForwardAttenuated, ForwardAudited, Serve,
                                   ReturnAttenuated, ReturnAudited, Emit, vars
  <1> QED BY <1>1, InvHolds, PTL DEF Spec, NothingCrossesAfterRevoke

-----------------------------------------------------------------------------
(***************************************************************************)
(* The ledger: the record of a call is the one whose index its task keeps. *)
(***************************************************************************)
Outcome(c) == IF c.stage # "settled" THEN "pending"
              ELSE IF c.answer = Error THEN "failed" ELSE "ok"

Ledgered(c) == c.via = Audited /\ c.stage # "sent"

LedgerInv ==
    /\ \A j \in DOMAIN records :
          /\ records[j].call \in DOMAIN calls /\ Ledgered(calls[records[j].call])
          /\ calls[records[j].call].record = j
    /\ \A i \in DOMAIN calls : Ledgered(calls[i]) =>
          /\ calls[i].record \in DOMAIN records
          /\ records[calls[i].record].call = i
          /\ records[calls[i].record].completed = Outcome(calls[i])

LEMMA LedgerIsExact == LedgerInv => LedgerExact
  <1> SUFFICES ASSUME LedgerInv PROVE LedgerExact
    OBVIOUS
  <1>1. ASSUME NEW i \in DOMAIN records, NEW j \in DOMAIN records,
               records[i].call = records[j].call
        PROVE  i = j
    BY <1>1 DEF LedgerInv
  <1>2. ASSUME NEW i \in DOMAIN calls, Ledgered(calls[i])
        PROVE  \E j \in DOMAIN records :
                  records[j].call = i /\ records[j].completed = Outcome(calls[i])
    BY <1>2 DEF LedgerInv
  <1> QED BY <1>1, <1>2 DEF LedgerExact, Ledgered, Outcome

LEMMA CallsSeq == Inv => calls \in Seq(Call)
  BY DEF Inv, TypeTraffic

\* Calls that are not audited, and answers that have not come back, leave the
\* ledger alone.
LEMMA MoveLedger ==
    ASSUME Inv, LedgerInv, NEW i \in DOMAIN calls,
           DOMAIN calls' = DOMAIN calls,
           calls'[i].via = calls[i].via, calls'[i].record = calls[i].record,
           \A j \in DOMAIN calls : j # i => calls'[j] = calls[j],
           \/ calls[i].via # Audited
           \/ calls[i].stage = "forwarded" /\ calls'[i].stage = "answered",
           UNCHANGED records
    PROVE  LedgerInv'
  <1>1. /\ DOMAIN calls' = DOMAIN calls
        /\ calls'[i].via = calls[i].via /\ calls'[i].record = calls[i].record
        /\ \A j \in DOMAIN calls : j # i => calls'[j] = calls[j]
    OBVIOUS
  <1>2. \A j \in DOMAIN calls :
           /\ Ledgered(calls'[j]) <=> Ledgered(calls[j])
           /\ calls'[j].record = calls[j].record
           /\ Ledgered(calls[j]) => Outcome(calls'[j]) = Outcome(calls[j])
    <2>1. ASSUME NEW j \in DOMAIN calls, j # i PROVE calls'[j] = calls[j]
      BY <1>1, <2>1
    <2>2. /\ Ledgered(calls'[i]) <=> Ledgered(calls[i])
          /\ calls'[i].record = calls[i].record
          /\ Ledgered(calls[i]) => Outcome(calls'[i]) = Outcome(calls[i])
      BY <1>1 DEF Ledgered, Outcome
    <2> QED BY <2>1, <2>2
  <1>3. \A j \in DOMAIN records' :
          /\ records'[j].call \in DOMAIN calls' /\ Ledgered(calls'[records'[j].call])
          /\ calls'[records'[j].call].record = j
    BY <1>1, <1>2 DEF LedgerInv
  <1>4. \A j \in DOMAIN calls' : Ledgered(calls'[j]) =>
          /\ calls'[j].record \in DOMAIN records'
          /\ records'[calls'[j].record].call = j
          /\ records'[calls'[j].record].completed = Outcome(calls'[j])
    BY <1>1, <1>2 DEF LedgerInv
  <1> QED BY <1>3, <1>4 DEF LedgerInv, Ledgered, Outcome

LEMMA AskLedger ==
    ASSUME Inv, LedgerInv, NEW side \in Side, NEW via \in Via, NEW arg,
           NEW permitted, Ask(side, via, arg, permitted)
    PROVE  LedgerInv'
  <1>1. PICK c : /\ calls' = Append(calls, c) /\ c.stage = "sent"
                 /\ UNCHANGED records
    BY DEF Ask
  <1>2. calls \in Seq(Call)
    BY DEF Inv, TypeTraffic
  <1>3. /\ \A j \in DOMAIN calls : j \in DOMAIN calls' /\ calls'[j] = calls[j]
        /\ \A j \in DOMAIN calls' : j \in DOMAIN calls \/ calls'[j].stage = "sent"
    BY <1>1, <1>2
  <1>4. \A j \in DOMAIN records' :
          /\ records'[j].call \in DOMAIN calls' /\ Ledgered(calls'[records'[j].call])
          /\ calls'[records'[j].call].record = j
    BY <1>1, <1>3 DEF LedgerInv
  <1>5. \A j \in DOMAIN calls' : Ledgered(calls'[j]) =>
          /\ calls'[j].record \in DOMAIN records'
          /\ records'[calls'[j].record].call = j
          /\ records'[calls'[j].record].completed = Outcome(calls'[j])
    BY <1>1, <1>3 DEF LedgerInv, Ledgered
  <1> QED BY <1>4, <1>5 DEF LedgerInv, Ledgered, Outcome

LEMMA ForwardAuditedLedger ==
    ASSUME Inv, LedgerInv, NEW i \in DOMAIN calls, ForwardAudited(i)
    PROVE  LedgerInv'
  <1> DEFINE n == Len(records) + 1
  <1>1. /\ calls[i].stage = "sent" /\ calls[i].via = Audited
        /\ records' = Append(records, [call |-> i, completed |-> "pending"])
        /\ calls' = [calls EXCEPT ![i] = Moved(i, "forwarded", calls[i].arg, n, calls[i].answer)]
    BY AuditedSteps
  <1>2. /\ records \in Seq(Record) /\ n \in DOMAIN records' /\ n \notin DOMAIN records
        /\ records'[n].call = i /\ records'[n].completed = "pending"
        /\ \A j \in DOMAIN records : j \in DOMAIN records' /\ records'[j] = records[j]
        /\ \A j \in DOMAIN records' : j \in DOMAIN records \/ j = n
    BY <1>1, Fields
  <1> HIDE DEF n
  <1>3. /\ DOMAIN calls' = DOMAIN calls
        /\ calls'[i].via = Audited /\ calls'[i].stage = "forwarded" /\ calls'[i].record = n
        /\ \A j \in DOMAIN calls : j # i => calls'[j] = calls[j]
    BY <1>1, CallsSeq DEF Moved
  <1>4. ASSUME NEW j \in DOMAIN records'
        PROVE  /\ records'[j].call \in DOMAIN calls' /\ Ledgered(calls'[records'[j].call])
               /\ calls'[records'[j].call].record = j
    <2>1. CASE j = n
      BY <1>2, <1>3, <2>1 DEF Ledgered
    <2>2. CASE j # n
      <3>1. /\ j \in DOMAIN records /\ records'[j] = records[j]
            /\ records[j].call \in DOMAIN calls /\ Ledgered(calls[records[j].call])
            /\ calls[records[j].call].record = j
        BY <1>2, <1>4, <2>2 DEF LedgerInv
      <3>2. records[j].call # i
        BY <1>1, <3>1 DEF Ledgered
      <3> QED BY <1>3, <3>1, <3>2
    <2> QED BY <2>1, <2>2
  <1>5. ASSUME NEW j \in DOMAIN calls', Ledgered(calls'[j])
        PROVE  /\ calls'[j].record \in DOMAIN records'
               /\ records'[calls'[j].record].call = j
               /\ records'[calls'[j].record].completed = Outcome(calls'[j])
    <2>1. CASE j = i
      BY <1>2, <1>3, <2>1 DEF Outcome
    <2>2. CASE j # i
      <3>1. /\ calls'[j] = calls[j] /\ calls[j].record \in DOMAIN records
            /\ records[calls[j].record].call = j
            /\ records[calls[j].record].completed = Outcome(calls[j])
        BY <1>3, <1>5, <2>2 DEF LedgerInv
      <3> QED BY <1>2, <3>1
    <2> QED BY <2>1, <2>2
  <1> QED BY <1>4, <1>5 DEF LedgerInv, Ledgered, Outcome

LEMMA ReturnAuditedLedger ==
    ASSUME Inv, LedgerInv, NEW i \in DOMAIN calls, ReturnAudited(i)
    PROVE  LedgerInv'
  <1> DEFINE n == calls[i].record
             done == IF calls[i].answer = Error THEN "failed" ELSE "ok"
  <1>1. /\ calls[i].stage = "answered" /\ calls[i].via = Audited
        /\ records' = [records EXCEPT ![n].completed = done]
        /\ calls' = [calls EXCEPT ![i] = Moved(i, "settled", calls[i].arg, n, calls[i].answer)]
    BY AuditedSteps
  <1>2. n \in DOMAIN records /\ records[n].call = i
    BY <1>1 DEF LedgerInv, Ledgered
  <1>3. /\ DOMAIN records' = DOMAIN records
        /\ records'[n].call = i /\ records'[n].completed = done
        /\ \A j \in DOMAIN records : j # n => records'[j] = records[j]
    <2>1. records \in Seq(Record) /\ records[n] \in Record
      BY <1>2, Fields
    <2>2. records' = [records EXCEPT ![n] = [@ EXCEPT !.completed = done]]
      BY <1>1
    <2> QED BY <1>2, <2>1, <2>2 DEF Record
  <1>4. /\ DOMAIN calls' = DOMAIN calls
        /\ calls'[i].via = Audited /\ calls'[i].stage = "settled" /\ calls'[i].record = n
        /\ calls'[i].answer = calls[i].answer
        /\ \A j \in DOMAIN calls : j # i => calls'[j] = calls[j]
    BY <1>1, CallsSeq DEF Moved
  <1>5. Ledgered(calls'[i]) /\ Outcome(calls'[i]) = done
    BY <1>4 DEF Ledgered, Outcome
  <1> HIDE DEF n, done
  <1>6. ASSUME NEW j \in DOMAIN records'
        PROVE  /\ records'[j].call \in DOMAIN calls' /\ Ledgered(calls'[records'[j].call])
               /\ calls'[records'[j].call].record = j
    <2>1. CASE j = n
      BY <1>3, <1>4, <1>5, <2>1
    <2>2. CASE j # n
      <3>1. /\ j \in DOMAIN records /\ records'[j] = records[j]
            /\ records[j].call \in DOMAIN calls /\ Ledgered(calls[records[j].call])
            /\ calls[records[j].call].record = j
        BY <1>3, <1>6, <2>2 DEF LedgerInv
      <3>2. records[j].call # i
        BY <2>2, <3>1 DEF n
      <3> QED BY <1>4, <3>1, <3>2
    <2> QED BY <2>1, <2>2
  <1>7. ASSUME NEW j \in DOMAIN calls', Ledgered(calls'[j])
        PROVE  /\ calls'[j].record \in DOMAIN records'
               /\ records'[calls'[j].record].call = j
               /\ records'[calls'[j].record].completed = Outcome(calls'[j])
    <2>1. CASE j = i
      BY <1>2, <1>3, <1>4, <1>5, <2>1
    <2>2. CASE j # i
      <3>1. /\ calls'[j] = calls[j] /\ calls[j].record \in DOMAIN records
            /\ records[calls[j].record].call = j
            /\ records[calls[j].record].completed = Outcome(calls[j])
        BY <1>4, <1>7, <2>2 DEF LedgerInv
      <3>2. calls[j].record # n
        BY <1>2, <2>2, <3>1
      <3> QED BY <1>3, <3>1, <3>2
    <2> QED BY <2>1, <2>2
  <1> QED BY <1>6, <1>7 DEF LedgerInv, Ledgered, Outcome

LEMMA NextLedger == Inv /\ LedgerInv /\ [Next]_vars => LedgerInv'
  <1> SUFFICES ASSUME Inv, LedgerInv, [Next]_vars PROVE LedgerInv'
    OBVIOUS
  <1>1. ASSUME UNCHANGED <<calls, records>> PROVE LedgerInv'
    BY <1>1 DEF LedgerInv, Ledgered, Outcome
  <1>2. ASSUME NEW i \in DOMAIN calls, NEW x,
               \/ calls' = [calls EXCEPT ![i].stage = "settled", ![i].answer = x]
               \/ calls' = [calls EXCEPT ![i].stage = "answered", ![i].answer = x]
               \/ calls' = [calls EXCEPT ![i].stage = "forwarded", ![i].arg = x]
               \/ calls' = [calls EXCEPT ![i].stage = "forwarded"]
        PROVE  /\ DOMAIN calls' = DOMAIN calls
               /\ calls'[i].via = calls[i].via /\ calls'[i].record = calls[i].record
               /\ \A j \in DOMAIN calls : j # i => calls'[j] = calls[j]
    <2>1. \/ calls' = [calls EXCEPT ![i] = Moved(i, "settled", calls[i].arg, calls[i].record, x)]
          \/ calls' = [calls EXCEPT ![i] = Moved(i, "answered", calls[i].arg, calls[i].record, x)]
          \/ calls' = [calls EXCEPT ![i] = Moved(i, "forwarded", x, calls[i].record,
                                                 calls[i].answer)]
          \/ calls' = [calls EXCEPT ![i] = Moved(i, "forwarded", calls[i].arg, calls[i].record,
                                                 calls[i].answer)]
      <3>1. CASE calls' = [calls EXCEPT ![i].stage = "settled", ![i].answer = x]
        BY <3>1, Updates
      <3>2. CASE calls' = [calls EXCEPT ![i].stage = "answered", ![i].answer = x]
        BY <3>2, Updates
      <3>3. CASE calls' = [calls EXCEPT ![i].stage = "forwarded", ![i].arg = x]
        BY <3>3, Updates
      <3>4. CASE calls' = [calls EXCEPT ![i].stage = "forwarded"]
        BY <3>4, Updates
      <3> QED BY <1>2, <3>1, <3>2, <3>3, <3>4
    <2> QED BY <2>1, CallsSeq DEF Moved
  <1>3. ASSUME NEW i \in DOMAIN calls,
               \/ ForwardRevocable(i) \/ ReturnRevocable(i)
               \/ ForwardAttenuated(i) \/ ReturnAttenuated(i)
        PROVE  LedgerInv'
    <2>1. calls[i].via # Audited /\ UNCHANGED records
      BY <1>3, Ids DEF ForwardRevocable, ReturnRevocable, ForwardAttenuated, ReturnAttenuated
    <2>2. PICK x : \/ calls' = [calls EXCEPT ![i].stage = "settled", ![i].answer = x]
                   \/ calls' = [calls EXCEPT ![i].stage = "forwarded", ![i].arg = x]
                   \/ calls' = [calls EXCEPT ![i].stage = "forwarded"]
      BY <1>3 DEF ForwardRevocable, ReturnRevocable, ForwardAttenuated, ReturnAttenuated, Settle
    <2>3. /\ DOMAIN calls' = DOMAIN calls
          /\ calls'[i].via = calls[i].via /\ calls'[i].record = calls[i].record
          /\ \A j \in DOMAIN calls : j # i => calls'[j] = calls[j]
      BY <1>2, <2>2
    <2> QED BY <2>1, <2>3, MoveLedger
  <1>5. ASSUME NEW i \in DOMAIN calls, NEW answer, Serve(i, answer) PROVE LedgerInv'
    <2>1. /\ calls[i].stage = "forwarded" /\ UNCHANGED records
          /\ calls' = [calls EXCEPT ![i].stage = "answered", ![i].answer = answer]
      BY <1>5 DEF Serve
    <2>2. /\ DOMAIN calls' = DOMAIN calls
          /\ calls'[i].via = calls[i].via /\ calls'[i].record = calls[i].record
          /\ \A j \in DOMAIN calls : j # i => calls'[j] = calls[j]
      BY <1>2, <2>1
    <2>3. calls'[i].stage = "answered"
      <3>1. calls' = [calls EXCEPT ![i] =
                         Moved(i, "answered", calls[i].arg, calls[i].record, answer)]
        BY <2>1, Updates
      <3> QED BY <3>1, CallsSeq DEF Moved
    <2> QED BY <2>1, <2>2, <2>3, MoveLedger
  <1>6. CASE Revoke \/ (\E o \in Obj, ref \in Id \cup {Nil} : Emit(o, ref) \/ DeliverEvent(o, ref))
             \/ UNCHANGED vars
    BY <1>1, <1>6 DEF Revoke, Emit, DeliverEvent, vars
  <1> QED BY <1>3, <1>5, <1>6, AskLedger, ForwardAuditedLedger, ReturnAuditedLedger
          DEF Next, Via

\* "records every call and its eventual outcome": however answers overtake one
\* another, each forwarded call has one record, with that call's outcome.
THEOREM LedgerStaysExact == Spec => []LedgerExact
  <1>1. Init => LedgerInv
    BY DEF Init, LedgerInv
  <1> QED BY <1>1, InvHolds, NextLedger, LedgerIsExact, PTL DEF Spec
-----------------------------------------------------------------------------
(***************************************************************************)
(* The wrappers implement Caretaker, for any objects, wrappers and calls:  *)
(* every step of Wrappers is a step of Caretaker or leaves it as it is,    *)
(* when each id is read as the object behind it.                           *)
(***************************************************************************)

Known(id) == id \in Revocable => wraps[id] # Nil

\* What the wrapper of a call has made sure of at each stage.
CallKnown(c) ==
    /\ Known(c.via) /\ Known(c.arg) /\ Known(c.answer)
    /\ c.late => revoked /\ c.via \in Revocable
    /\ c.via \in Revocable \cup {Audited} => c.permitted
    /\ c.stage \in {"forwarded", "answered"} => c.permitted /\ ~c.late

CareInv ==
    /\ ~revoked => target[Root] = Wrapped
    /\ \A i \in DOMAIN calls : CallKnown(calls[i])

\* The tables only learn: what is behind a wrapper does not change.
Learning ==
    /\ wraps' \in [Revocable -> Obj \cup {Nil}]
    /\ \A w \in Revocable : wraps[w] # Nil => wraps'[w] = wraps[w]
    /\ revoked => revoked'
    /\ ~revoked' => target'[Root] = target[Root]

Bar == [i \in DOMAIN calls |-> Seen(calls[i])]

-----------------------------------------------------------------------------
LEMMA ObjectStays ==
    ASSUME Learning, NEW id, Known(id)
    PROVE  ObjectOf(id)' = ObjectOf(id) /\ Known(id)'
  BY DEF Learning, Known, ObjectOf

LEMMA ObjectPlain ==
    /\ ObjectOf(Nil) = Nil /\ ObjectOf(Error) = Error
    /\ \A o \in Obj : ObjectOf(o) = o
    /\ Known(Nil) /\ Known(Error) /\ \A o \in Obj : Known(o)
  <1>1. Attenuated \in Int /\ Audited \in Int
    BY DEF Attenuated, Audited
  <1>2. \A o \in Obj \cup {Nil, Error} : o \notin Revocable /\ o # Attenuated /\ o # Audited
    BY <1>1, Ids
  <1> QED BY <1>2 DEF ObjectOf, Known

\* What a side may pass is known to stand for an object, or is nothing.
LEMMA PassedKnown ==
    ASSUME Inv, NEW side \in Side, NEW id \in Passable(side)
    PROVE  Known(id) /\ ObjectOf(id) \in Obj \cup {Nil}
  <1>1. CASE id = Nil
    BY <1>1, ObjectPlain
  <1>2. CASE id # Nil
    <2>1. \/ id \in Own(side) /\ id \in Obj /\ ~IsWrapper(id)
          \/ /\ IsWrapper(id) /\ id # Root /\ id \in Revocable
             /\ wraps[id] \in Own(Other(side)) /\ wraps[id] \in Obj
      BY <1>2, Passed DEF Inv
    <2>2. CASE id \in Obj
      BY <2>2, ObjectPlain
    <2>3. CASE id \in Revocable /\ wraps[id] \in Obj
      <3>1. wraps[id] # Nil
        BY <2>3, Ids
      <3>2. ObjectOf(id) = wraps[id]
        BY <2>3, Ids DEF ObjectOf
      <3> QED BY <2>3, <3>1, <3>2 DEF Known
    <2> QED BY <2>1, <2>2, <2>3
  <1> QED BY <1>1, <1>2

LEMMA KnownObject ==
    ASSUME Inv, NEW id \in Id \cup {Nil, Error}, Known(id)
    PROVE  ObjectOf(id) \in Obj \cup {Nil, Error}
  <1>1. CASE id \in Revocable
    BY <1>1, Ids DEF Known, ObjectOf, Inv, TypeTables
  <1>2. CASE id \notin Revocable
    BY <1>2, ObjectPlain DEF Id
  <1> QED BY <1>1, <1>2

LEMMA SeenStays ==
    ASSUME Learning, NEW c \in Call, CallKnown(c)
    PROVE  Seen(c)' = Seen(c) /\ CallKnown(c)'
  <1>1. /\ ObjectOf(c.via)' = ObjectOf(c.via) /\ ObjectOf(c.arg)' = ObjectOf(c.arg)
        /\ ObjectOf(c.answer)' = ObjectOf(c.answer)
        /\ Known(c.via)' /\ Known(c.arg)' /\ Known(c.answer)'
    BY ObjectStays DEF CallKnown
  <1>2. Seen(c)' = Seen(c)
    BY <1>1 DEF Seen
  <1>3. CallKnown(c)'
    BY <1>1 DEF CallKnown, Learning
  <1> QED BY <1>2, <1>3

\* A crossing tells an id's new name; the object stays.
LEMMA CrossingObject ==
    ASSUME Inv, ~revoked, NEW side \in Side, NEW id \in Passable(side),
           Room(id), Translate(id), UNCHANGED revoked, NEW t, t = Translation(id)
    PROVE  Learning /\ Known(t)' /\ ObjectOf(t)' = ObjectOf(id)
  <1>1. /\ (t = Nil) <=> (id = Nil)
        /\ id \in Revocable => t = wraps[id] /\ t \in Obj
        /\ id \in Obj => t \in Revocable /\ wraps'[t] = id
    BY TranslateCrosses DEF Inv
  <1>2. Learning
    <2>1. /\ wraps' \in [Revocable -> Obj \cup {Nil}]
          /\ \A w \in Revocable : wraps[w] # Nil => wraps'[w] = wraps[w]
      BY TranslateTables DEF Inv
    <2>2. target'[Root] = target[Root]
      <3>1. CASE Mints(id)
        <4>1. NextWrapper # Root /\ target' = [target EXCEPT ![NextWrapper] = id]
          BY <3>1, FreshWrapper DEF Inv, Room, Translate
        <4> QED BY <4>1, Ids DEF Inv, TypeTables
      <3>2. CASE ~Mints(id)
        BY <3>2 DEF Translate
      <3> QED BY <3>1, <3>2
    <2> QED BY <2>1, <2>2 DEF Learning
  <1>3. id = Nil \/ id \in Obj \/ id \in Revocable
    BY Passed DEF Inv
  <1>4. CASE id = Nil
    BY <1>1, <1>2, <1>4, ObjectPlain, ObjectStays
  <1>5. CASE id \in Revocable
    <2>1. t = wraps[id] /\ t \in Obj /\ ObjectOf(id) = t
      BY <1>1, <1>5, Ids DEF ObjectOf
    <2>2. ObjectOf(t) = t /\ Known(t)
      BY <2>1, ObjectPlain
    <2> QED BY <1>2, <2>1, <2>2, ObjectStays
  <1>6. CASE id \in Obj
    <2>1. t \in Revocable /\ wraps'[t] = id /\ id # Nil
      BY <1>1, <1>6, Ids
    <2>2. ObjectOf(t)' = id /\ Known(t)'
      BY <2>1, Ids DEF ObjectOf, Known
    <2> QED BY <1>2, <1>6, <2>2, ObjectPlain
  <1> QED BY <1>3, <1>4, <1>5, <1>6

LEMMA StillLearning ==
    ASSUME Inv, UNCHANGED membrane
    PROVE  Learning
  BY DEF Inv, TypeTables, Learning, membrane

-----------------------------------------------------------------------------
(***************************************************************************)
(* A step that moves a call, seen from outside.                            *)
(***************************************************************************)
LEMMA BarIs ==
    ASSUME Inv
    PROVE  DOMAIN Bar = DOMAIN calls /\ \A i \in DOMAIN calls : Bar[i] = Seen(calls[i])
  BY DEF Bar

LEMMA OtherCalls ==
    ASSUME Inv, CareInv, Learning, NEW j \in DOMAIN calls,
           j \in DOMAIN calls', calls'[j] = calls[j]
    PROVE  Bar'[j] = Bar[j] /\ CallKnown(calls[j])'
  <1>1. PICK d : d = calls[j]
    OBVIOUS
  <1>2. d \in Call /\ CallKnown(d)
    BY <1>1, CallsTyped DEF CareInv
  <1>3. Seen(d)' = Seen(d) /\ CallKnown(d)'
    BY <1>2, SeenStays
  <1>4. Bar'[j] = Seen(d)' /\ Bar[j] = Seen(d)
    BY <1>1 DEF Bar, Seen, ObjectOf, Stage
  <1>5. CallKnown(calls[j])'
    BY <1>1, <1>3 DEF CallKnown, Known
  <1> QED BY <1>3, <1>4, <1>5

Answered(i, stage, x) == [Bar EXCEPT ![i] = [@ EXCEPT !.stage = stage, !.answer = x]]

\* Only the stage and the answer of the call differ, read as objects.
LEMMA MovedBar ==
    ASSUME Inv, CareInv, Learning, NEW i \in DOMAIN calls,
           NEW stage \in {"forwarded", "answered", "settled"},
           NEW arg \in Id \cup {Nil}, NEW record \in Nat, NEW answer \in Id \cup {Nil, Error},
           calls' = [calls EXCEPT ![i] = Moved(i, stage, arg, record, answer)],
           Known(arg)', ObjectOf(arg)' = ObjectOf(calls[i].arg), Known(answer)',
           stage \in {"forwarded", "answered"} => calls[i].permitted /\ ~calls[i].late,
           NEW x, ObjectOf(answer)' = x
    PROVE  CareInv' /\ Bar' = Answered(i, Stage(stage), x)
  <1>1. PICK c : c = Moved(i, stage, arg, record, answer)
    OBVIOUS
  <1>2. calls \in Seq(Call) /\ c \in Call /\ calls[i] \in Call
    BY <1>1, MovedCall, CallsTyped, CallsSeq
  <1>3. calls' = [calls EXCEPT ![i] = c]
    BY <1>1
  <1>4. /\ DOMAIN calls' = DOMAIN calls /\ calls'[i] = c
        /\ \A j \in DOMAIN calls : j # i => calls'[j] = calls[j]
    BY <1>2, <1>3
  <1>5. /\ c.via = calls[i].via /\ c.permitted = calls[i].permitted /\ c.late = calls[i].late
        /\ c.arg = arg /\ c.stage = stage /\ c.answer = answer
    BY <1>1 DEF Moved
  <1>6. CallKnown(calls[i])
    BY DEF CareInv
  <1>7. PICK via : via = calls[i].via
    OBVIOUS
  <1>8. Known(via)' /\ ObjectOf(via)' = ObjectOf(via)
    BY <1>6, <1>7, ObjectStays DEF CallKnown
  <1>9. CallKnown(c)'
    BY <1>5, <1>6, <1>7, <1>8 DEF CallKnown, Learning, Known
  <1>10. \A j \in DOMAIN calls' : CallKnown(calls[j])'
    <2>1. ASSUME NEW j \in DOMAIN calls' PROVE CallKnown(calls[j])'
      <3>1. CASE j = i
        BY <1>4, <1>9, <3>1 DEF CallKnown, Known
      <3>2. CASE j # i
        BY <1>4, <2>1, <3>2, OtherCalls
      <3> QED BY <3>1, <3>2
    <2> QED BY <2>1
  <1>11. CareInv'
    BY <1>10 DEF CareInv, Learning
  <1>12. Bar'[i] = [Bar[i] EXCEPT !.stage = Stage(stage), !.answer = x]
    <2>1. Bar'[i] = Seen(c)'
      BY <1>4 DEF Bar, Seen, ObjectOf
    <2>2. Seen(c)' = [to |-> ObjectOf(c.via)', arg |-> ObjectOf(c.arg)',
                      guarded |-> c.via \in Revocable, permitted |-> c.permitted,
                      late |-> c.late, stage |-> Stage(c.stage), answer |-> ObjectOf(c.answer)']
      BY DEF Seen
    <2>3. Bar[i] = [to |-> ObjectOf(calls[i].via), arg |-> ObjectOf(calls[i].arg),
                    guarded |-> calls[i].via \in Revocable, permitted |-> calls[i].permitted,
                    late |-> calls[i].late, stage |-> Stage(calls[i].stage),
                    answer |-> ObjectOf(calls[i].answer)]
      BY DEF Bar, Seen
    <2>4. /\ ObjectOf(c.via)' = ObjectOf(calls[i].via)
          /\ ObjectOf(c.arg)' = ObjectOf(calls[i].arg)
          /\ ObjectOf(c.answer)' = x
      BY <1>5, <1>7, <1>8 DEF ObjectOf
    <2> DEFINE R(st, y) ==
                  [to |-> ObjectOf(calls[i].via), arg |-> ObjectOf(calls[i].arg),
                   guarded |-> calls[i].via \in Revocable, permitted |-> calls[i].permitted,
                   late |-> calls[i].late, stage |-> st, answer |-> y]
    <2>5. ASSUME NEW st
          PROVE  [Bar[i] EXCEPT !.stage = st, !.answer = x] = R(st, x)
      <3>1. [Bar[i] EXCEPT !.stage = st, !.answer = x]
               = [[Bar[i] EXCEPT !.stage = st] EXCEPT !.answer = x]
        OBVIOUS
      <3>2. [Bar[i] EXCEPT !.stage = st] = R(st, ObjectOf(calls[i].answer))
        BY <2>3
      <3>3. [R(st, ObjectOf(calls[i].answer)) EXCEPT !.answer = x] = R(st, x)
        OBVIOUS
      <3> QED BY <3>1, <3>2, <3>3
    <2>6. Bar'[i] = R(Stage(stage), x)
      BY <1>5, <2>1, <2>2, <2>4
    <2> HIDE DEF R
    <2> QED BY <2>5, <2>6
  <1>13. \A j \in DOMAIN calls : j # i => Bar'[j] = Bar[j]
    BY <1>4, OtherCalls
  <1>14. /\ DOMAIN Bar' = DOMAIN Bar /\ DOMAIN Bar = DOMAIN calls
         /\ Bar = [j \in DOMAIN calls |-> Bar[j]] /\ Bar' = [j \in DOMAIN calls |-> Bar'[j]]
    BY <1>4 DEF Bar
  <1> QED BY <1>11, <1>12, <1>13, <1>14 DEF Answered

-----------------------------------------------------------------------------
(***************************************************************************)
(* The steps of Caretaker, on the calls as they are seen from outside.     *)
(***************************************************************************)
LEMMA AnsweredForm ==
    ASSUME NEW i \in DOMAIN Bar, NEW stage, NEW x
    PROVE  [Bar EXCEPT ![i].stage = stage, ![i].answer = x] = Answered(i, stage, x)
  BY DEF Answered

LEMMA AbstractRefuse ==
    ASSUME Inv, NEW i \in DOMAIN calls, UNCHANGED revoked,
           Bar[i].stage = "asked", ~Bar[i].permitted \/ (Bar[i].guarded /\ revoked),
           Bar' = Answered(i, "settled", Error)
    PROVE  C!Next
  <1>1. i \in DOMAIN Bar
    BY BarIs
  <1>2. Bar' = [Bar EXCEPT ![i].stage = "settled", ![i].answer = Error]
    BY <1>1, AnsweredForm
  <1>3. C!Refuse(i)
    BY <1>2 DEF C!Refuse, C!Settle, Bar
  <1> QED BY <1>1, <1>3 DEF C!Next, Bar

LEMMA AbstractServe ==
    ASSUME Inv, NEW i \in DOMAIN calls, NEW x \in Obj \cup {Nil, Error}, UNCHANGED revoked,
           Bar[i].stage = "asked", Bar[i].permitted, ~Bar[i].late,
           Bar' = Answered(i, "served", x)
    PROVE  C!Next
  <1>1. i \in DOMAIN Bar
    BY BarIs
  <1>2. Bar' = [Bar EXCEPT ![i].stage = "served", ![i].answer = x]
    BY <1>1, AnsweredForm
  <1>3. C!Serve(i)
    BY <1>2 DEF C!Serve, C!Value, Bar
  <1> QED BY <1>1, <1>3 DEF C!Next, Bar

LEMMA AbstractReturn ==
    ASSUME Inv, NEW i \in DOMAIN calls, UNCHANGED revoked, Bar[i].stage = "served",
           Bar' = Answered(i, "settled",
                           IF Bar[i].guarded /\ revoked THEN Error ELSE Bar[i].answer)
    PROVE  C!Next
  <1>1. i \in DOMAIN Bar
    BY BarIs
  <1>2. Bar' = [Bar EXCEPT ![i].stage = "settled",
                           ![i].answer = IF Bar[i].guarded /\ revoked THEN Error ELSE Bar[i].answer]
    BY <1>1, AnsweredForm
  <1>3. C!Return(i)
    <2>1. CASE Bar[i].guarded /\ revoked
      <3>1. Bar' = [Bar EXCEPT ![i].stage = "settled", ![i].answer = Error]
        BY <1>2, <2>1
      <3> QED BY <2>1, <3>1 DEF C!Return, C!Settle, Bar
    <2>2. CASE ~(Bar[i].guarded /\ revoked)
      <3>1. Bar' = [Bar EXCEPT ![i].stage = "settled", ![i].answer = Bar[i].answer]
        BY <1>2, <2>2
      <3> QED BY <2>2, <3>1 DEF C!Return, C!Settle, Bar
    <2> QED BY <2>1, <2>2
  <1> QED BY <1>1, <1>3 DEF C!Next, Bar

LEMMA AbstractStutter ==
    ASSUME Bar' = Bar, UNCHANGED revoked
    PROVE  UNCHANGED C!vars
  BY DEF C!vars, Bar

Step == CareInv' /\ [C!Next]_(C!vars)

LEMMA BarFields ==
    ASSUME Inv, NEW i \in DOMAIN calls
    PROVE  /\ Bar[i].stage = Stage(calls[i].stage) /\ Bar[i].answer = ObjectOf(calls[i].answer)
           /\ Bar[i].permitted = calls[i].permitted /\ Bar[i].late = calls[i].late
           /\ Bar[i].guarded <=> calls[i].via \in Revocable
           /\ Answered(i, Bar[i].stage, Bar[i].answer) = Bar
  <1>1. Bar[i] = Seen(calls[i]) /\ i \in DOMAIN Bar /\ Bar = [j \in DOMAIN calls |-> Bar[j]]
    BY DEF Bar
  <1>2. [Bar[i] EXCEPT !.stage = Bar[i].stage, !.answer = Bar[i].answer] = Bar[i]
    <2>1. [Bar[i] EXCEPT !.stage = Bar[i].stage] = Bar[i]
      BY <1>1 DEF Seen
    <2>2. [Bar[i] EXCEPT !.answer = Bar[i].answer] = Bar[i]
      BY <1>1 DEF Seen
    <2>3. [Bar[i] EXCEPT !.stage = Bar[i].stage, !.answer = Bar[i].answer]
             = [[Bar[i] EXCEPT !.stage = Bar[i].stage] EXCEPT !.answer = Bar[i].answer]
      OBVIOUS
    <2> QED BY <2>1, <2>2, <2>3
  <1>3. /\ Bar[i].stage = Stage(calls[i].stage) /\ Bar[i].answer = ObjectOf(calls[i].answer)
        /\ Bar[i].permitted = calls[i].permitted /\ Bar[i].late = calls[i].late
        /\ Bar[i].guarded <=> calls[i].via \in Revocable
    <2>1. /\ Bar[i].stage = Stage(calls[i].stage) /\ Bar[i].answer = ObjectOf(calls[i].answer)
          /\ Bar[i].permitted = calls[i].permitted /\ Bar[i].late = calls[i].late
      BY <1>1 DEF Seen
    <2>2. Bar[i].guarded = (calls[i].via \in Revocable)
      BY <1>1 DEF Seen
    <2>3. Bar[i].guarded <=> calls[i].via \in Revocable
      BY <2>2
    <2> QED BY <2>1, <2>3
  <1>4. [Bar EXCEPT ![i] = Bar[i]] = Bar
    BY <1>1
  <1>5. Answered(i, Bar[i].stage, Bar[i].answer) = [Bar EXCEPT ![i] = Bar[i]]
    BY <1>2 DEF Answered
  <1> QED BY <1>3, <1>4, <1>5

\* No call moves, and what is behind a wrapper stays.
LEMMA QuietStep ==
    ASSUME Inv, CareInv, Learning, UNCHANGED calls
    PROVE  CareInv' /\ Bar' = Bar
  <1>1. \A j \in DOMAIN calls : Bar'[j] = Bar[j] /\ CallKnown(calls[j])'
    <2>1. ASSUME NEW j \in DOMAIN calls PROVE Bar'[j] = Bar[j] /\ CallKnown(calls[j])'
      BY <2>1, OtherCalls
    <2> QED BY <2>1
  <1>2. CareInv'
    BY <1>1 DEF CareInv, Learning
  <1>3. /\ Bar = [j \in DOMAIN calls |-> Bar[j]] /\ Bar' = [j \in DOMAIN calls |-> Bar'[j]]
    BY DEF Bar
  <1> QED BY <1>1, <1>2, <1>3

LEMMA RevokeStep ==
    ASSUME Inv, CareInv, Revoke
    PROVE  Step
  <1>1. Learning /\ UNCHANGED calls
    BY DEF Revoke, Learning, Inv, TypeTables
  <1>2. CareInv' /\ Bar' = Bar
    BY <1>1, QuietStep
  <1>3. C!Revoke
    BY <1>2 DEF C!Revoke, Bar, Revoke
  <1> QED BY <1>2, <1>3 DEF Step, C!Next

LEMMA EmitStep ==
    ASSUME Inv, CareInv, NEW o \in Obj, NEW ref \in Id \cup {Nil}, Emit(o, ref)
    PROVE  Step
  <1>1. UNCHANGED membrane /\ UNCHANGED calls /\ UNCHANGED revoked
    BY DEF Emit, membrane
  <1>2. CareInv' /\ Bar' = Bar
    BY <1>1, StillLearning, QuietStep
  <1> QED BY <1>1, <1>2, AbstractStutter DEF Step

LEMMA DeliverEventStep ==
    ASSUME Inv, CareInv, NEW o \in Obj, NEW ref \in Id \cup {Nil}, DeliverEvent(o, ref)
    PROVE  Step
  <1>1. Learning
    <2>1. CASE \E w \in Revocable : target[w] = o
      <3>1. ~revoked
        BY <2>1, LiveUnrevoked, Ids DEF Inv
      <3>2. Room(ref) /\ Translate(ref) /\ UNCHANGED revoked
        BY <2>1 DEF DeliverEvent
      <3>3. SideOf(o) \in Side /\ ref \in Passable(SideOf(o))
        BY Sides DEF DeliverEvent, Inv, PayloadsPassable
      <3>4. PICK t : t = Translation(ref)
        OBVIOUS
      <3> QED BY <3>1, <3>2, <3>3, <3>4, CrossingObject
    <2>2. CASE ~(\E w \in Revocable : target[w] = o)
      BY <2>2, StillLearning DEF DeliverEvent
    <2> QED BY <2>1, <2>2
  <1>2. UNCHANGED calls /\ UNCHANGED revoked
    BY DEF DeliverEvent, membrane
  <1>3. CareInv' /\ Bar' = Bar
    BY <1>1, <1>2, QuietStep
  <1> QED BY <1>2, <1>3, AbstractStutter DEF Step

LEMMA AskStep ==
    ASSUME Inv, CareInv, NEW side \in Side, NEW via \in Via, NEW arg \in Id \cup {Nil},
           NEW permitted \in BOOLEAN, Ask(side, via, arg, permitted)
    PROVE  Step
  <1>1. PICK c : /\ c = [from |-> side, via |-> via, arg |-> arg, permitted |-> permitted,
                         late |-> via \in Revocable /\ revoked,
                         stage |-> "sent", record |-> 0, answer |-> Nil]
    OBVIOUS
  <1>2. /\ calls' = Append(calls, c) /\ UNCHANGED membrane /\ UNCHANGED revoked
        /\ via \in Revocable => via \in sent[side] /\ arg \in Passable(side) /\ permitted
        /\ via \notin Revocable => arg = Nil
        /\ via = Audited => permitted
    BY <1>1 DEF Ask, membrane
  <1>3. calls \in Seq(Call)
    BY CallsSeq
  <1>19. PICK n : n = Len(calls) + 1
    OBVIOUS
  <1>4. /\ DOMAIN calls' = DOMAIN calls \cup {n} /\ n \notin DOMAIN calls /\ calls'[n] = c
        /\ \A j \in DOMAIN calls : calls'[j] = calls[j]
    BY <1>2, <1>3, <1>19
  <1>5. Known(arg) /\ ObjectOf(arg) \in Obj \cup {Nil}
    BY <1>2, PassedKnown, ObjectPlain
  <1>6. Known(via) /\ ObjectOf(via) \in Obj
    <2>1. CASE via \in Revocable
      <3>1. wraps[via] \in Own(Other(side))
        BY <1>2, <2>1 DEF Inv, SidesSeparated, IsWrapper
      <3>2. wraps[via] \in Obj
        BY <3>1, Sides
      <3> QED BY <2>1, <3>2, Ids DEF Known, ObjectOf
    <2>2. CASE via \notin Revocable
      BY <2>2, Ids DEF Known, ObjectOf, Via
    <2> QED BY <2>1, <2>2
  <1>7. Learning
    BY <1>2, StillLearning
  <1>8. CallKnown(c)
    BY <1>1, <1>2, <1>5, <1>6, ObjectPlain DEF CallKnown
  <1>9. CallKnown(c)' /\ Seen(c)' = Seen(c)
    <2>1. UNCHANGED wraps /\ UNCHANGED revoked
      BY <1>2 DEF membrane
    <2> QED BY <1>8, <2>1 DEF CallKnown, Known, Seen, ObjectOf
  <1>10. \A j \in DOMAIN calls : Bar'[j] = Bar[j] /\ CallKnown(calls[j])'
    <2>1. ASSUME NEW j \in DOMAIN calls PROVE Bar'[j] = Bar[j] /\ CallKnown(calls[j])'
      BY <1>4, <1>7, OtherCalls
    <2> QED BY <2>1
  <1>11. CallKnown(calls[n])' /\ Bar'[n] = Seen(c)
    <2>1. CallKnown(calls[n])'
      BY <1>4, <1>9 DEF CallKnown, Known
    <2>2. Bar'[n] = Seen(c)'
      BY <1>4 DEF Bar, Seen, ObjectOf
    <2> QED BY <1>9, <2>1, <2>2
  <1>12. CareInv'
    BY <1>4, <1>7, <1>10, <1>11 DEF CareInv, Learning
  <1>13. Bar' = Append(Bar, Seen(c))
    <2>1. /\ Bar \in Seq({Bar[j] : j \in DOMAIN calls}) /\ Len(Bar) = Len(calls)
      BY <1>3 DEF Bar
    <2>2. Bar' = [j \in DOMAIN calls \cup {n} |-> Bar'[j]]
      BY <1>4 DEF Bar
    <2>3. /\ DOMAIN Bar = DOMAIN calls /\ DOMAIN calls \cup {n} = 1 .. Len(Bar) + 1
      BY <1>3, <1>19, <2>1
    <2> QED BY <1>10, <1>11, <2>1, <2>2, <2>3
  <1>14. Seen(c) = [to |-> ObjectOf(via), arg |-> ObjectOf(arg), guarded |-> via \in Revocable,
                    permitted |-> permitted, late |-> via \in Revocable /\ revoked,
                    stage |-> "asked", answer |-> Nil]
    BY <1>1, ObjectPlain DEF Seen, Stage
  <1>15. PICK guarded : guarded = (via \in Revocable)
    OBVIOUS
  <1>16. guarded \in BOOLEAN
    BY <1>15
  <1>17. Bar' = Append(Bar, [to |-> ObjectOf(via), arg |-> ObjectOf(arg), guarded |-> guarded,
                             permitted |-> permitted, late |-> guarded /\ revoked,
                             stage |-> "asked", answer |-> Nil])
    BY <1>13, <1>14, <1>15
  <1>18. C!Ask
    <2>1. \E to \in Obj, a \in Obj \cup {Nil}, g, p \in BOOLEAN :
             Bar' = Append(Bar, [to |-> to, arg |-> a, guarded |-> g, permitted |-> p,
                                 late |-> g /\ revoked, stage |-> "asked", answer |-> Nil])
      BY <1>5, <1>6, <1>16, <1>17, ZenonT(30)
    <2> QED BY <1>2, <2>1 DEF C!Ask, Bar
  <1> QED BY <1>12, <1>18 DEF Step, C!Next

(***************************************************************************)
(* A call that takes a hop.                                                *)
(***************************************************************************)
\* A hop that no ref crosses the membrane in.
LEMMA PlainHop ==
    ASSUME Inv, CareInv, NEW i \in DOMAIN calls, UNCHANGED membrane,
           NEW stage \in {"forwarded", "answered", "settled"},
           NEW record \in Nat, NEW answer \in Id \cup {Nil, Error},
           calls' = [calls EXCEPT ![i] = Moved(i, stage, calls[i].arg, record, answer)],
           Known(answer),
           stage \in {"forwarded", "answered"} => calls[i].permitted /\ ~calls[i].late
    PROVE  CareInv' /\ Bar' = Answered(i, Stage(stage), ObjectOf(answer)) /\ UNCHANGED revoked
  <1>1. Learning /\ UNCHANGED revoked
    BY StillLearning DEF membrane
  <1>2. PICK arg : arg = calls[i].arg
    OBVIOUS
  <1>3. arg \in Id \cup {Nil} /\ Known(arg)
    BY <1>2, Fields DEF CareInv, CallKnown
  <1>4. Known(arg)' /\ ObjectOf(arg)' = ObjectOf(calls[i].arg)
    BY <1>1, <1>2, <1>3, ObjectStays
  <1>5. Known(answer)' /\ ObjectOf(answer)' = ObjectOf(answer)
    BY <1>1, ObjectStays
  <1>6. calls' = [calls EXCEPT ![i] = Moved(i, stage, arg, record, answer)]
    BY <1>2
  <1>7. CareInv' /\ Bar' = Answered(i, Stage(stage), ObjectOf(answer))
    BY <1>1, <1>3, <1>4, <1>5, <1>6, MovedBar
  <1> QED BY <1>1, <1>7

LEMMA Stages ==
    /\ Stage("sent") = "asked" /\ Stage("forwarded") = "asked"
    /\ Stage("answered") = "served" /\ Stage("settled") = "settled"
  BY DEF Stage

\* A wrapper that is not live has been revoked.
LEMMA DeadIsRevoked ==
    ASSUME Inv, CareInv, NEW i \in DOMAIN calls, calls[i].via \in Revocable,
           target[calls[i].via] = Nil
    PROVE  revoked
  <1>1. wraps[calls[i].via] # Nil
    BY CalledSide
  <1>2. calls[i].via = Root => revoked
    BY Ids DEF CareInv
  <1> QED BY <1>1, <1>2, Ids DEF Inv, MembraneWhole

LEMMA ForwardRevocableStep ==
    ASSUME Inv, CareInv, NEW i \in DOMAIN calls, ForwardRevocable(i)
    PROVE  Step
  <1>1. calls[i].stage = "sent" /\ calls[i].via \in Revocable /\ CallKnown(calls[i])
    BY DEF ForwardRevocable, CareInv
  <1>2. CASE target[calls[i].via] = Nil
    <2>1. Settle(i, Error) /\ UNCHANGED membrane /\ revoked
      BY <1>1, <1>2, DeadIsRevoked DEF ForwardRevocable
    <2>2. calls' = [calls EXCEPT ![i] = Moved(i, "settled", calls[i].arg, calls[i].record, Error)]
      BY <2>1, Updates DEF Settle
    <2>3. CareInv' /\ Bar' = Answered(i, "settled", Error) /\ UNCHANGED revoked
      BY <2>1, <2>2, Fields, ObjectPlain, Stages, PlainHop
    <2>4. Bar[i].stage = "asked" /\ Bar[i].guarded
      BY <1>1, BarFields, Stages
    <2> QED BY <2>1, <2>3, <2>4, AbstractRefuse DEF Step
  <1>3. CASE target[calls[i].via] # Nil
    <2>1. ~revoked
      BY <1>1, <1>3, LiveUnrevoked DEF Inv
    <2>2. PICK arg, t : arg = calls[i].arg /\ t = Translation(arg)
      OBVIOUS
    <2>3. /\ Room(arg) /\ Translate(arg) /\ UNCHANGED revoked
          /\ calls' = [calls EXCEPT ![i].stage = "forwarded", ![i].arg = t]
      BY <1>3, <2>2 DEF ForwardRevocable
    <2>4. calls[i].from \in Side /\ arg \in Passable(calls[i].from)
      BY <1>1, <2>2, Fields, CallsTyped DEF CallPassable
    <2>5. Learning /\ Known(t)' /\ ObjectOf(t)' = ObjectOf(arg)
      BY <2>1, <2>2, <2>3, <2>4, CrossingObject
    <2>6. t \in Id \cup {Nil}
      BY <2>1, <2>2, <2>3, <2>4, TranslateCrosses DEF Inv
    <2>7. PICK answer : answer = calls[i].answer
      OBVIOUS
    <2>8. /\ calls' = [calls EXCEPT ![i] = Moved(i, "forwarded", t, calls[i].record, answer)]
          /\ answer \in Id \cup {Nil, Error} /\ calls[i].record \in Nat
      BY <2>3, <2>7, Updates, Fields
    <2>9. Known(answer)' /\ ObjectOf(answer)' = Bar[i].answer
      BY <1>1, <2>5, <2>7, ObjectStays, BarFields DEF CallKnown
    <2>10. calls[i].permitted /\ ~calls[i].late
      BY <1>1, <2>1 DEF CallKnown
    <2>11. ObjectOf(t)' = ObjectOf(calls[i].arg)
      BY <2>2, <2>5
    <2>12. CareInv' /\ Bar' = Answered(i, Stage("forwarded"), Bar[i].answer)
      BY <2>5, <2>6, <2>8, <2>9, <2>10, <2>11, MovedBar
    <2>13. Stage("forwarded") = Bar[i].stage
      BY <1>1, BarFields, Stages
    <2>14. Bar' = Bar
      BY <2>12, <2>13, BarFields
    <2> QED BY <2>3, <2>12, <2>14, AbstractStutter DEF Step
  <1> QED BY <1>2, <1>3

LEMMA ReturnRevocableStep ==
    ASSUME Inv, CareInv, NEW i \in DOMAIN calls, ReturnRevocable(i)
    PROVE  Step
  <1>1. calls[i].stage = "answered" /\ calls[i].via \in Revocable /\ CallKnown(calls[i])
    BY DEF ReturnRevocable, CareInv
  <1>2. Bar[i].stage = "served" /\ Bar[i].guarded /\ Bar[i].answer = ObjectOf(calls[i].answer)
    BY <1>1, BarFields, Stages
  <1>3. CASE calls[i].answer = Error \/ revoked
    <2>1. Settle(i, Error) /\ UNCHANGED membrane
      BY <1>3 DEF ReturnRevocable
    <2>2. calls' = [calls EXCEPT ![i] = Moved(i, "settled", calls[i].arg, calls[i].record, Error)]
      BY <2>1, Updates DEF Settle
    <2>3. CareInv' /\ Bar' = Answered(i, "settled", Error) /\ UNCHANGED revoked
      BY <2>1, <2>2, Fields, ObjectPlain, Stages, PlainHop
    <2>4. (IF Bar[i].guarded /\ revoked THEN Error ELSE Bar[i].answer) = Error
      BY <1>2, <1>3, ObjectPlain
    <2> QED BY <1>2, <2>3, <2>4, AbstractReturn DEF Step
  <1>4. CASE ~(calls[i].answer = Error \/ revoked)
    <2>1. PICK answer, t : answer = calls[i].answer /\ t = Translation(answer)
      OBVIOUS
    <2>2. /\ Room(answer) /\ Translate(answer) /\ UNCHANGED revoked
          /\ calls' = [calls EXCEPT ![i].stage = "settled", ![i].answer = t]
      BY <1>4, <2>1 DEF ReturnRevocable, Settle
    <2>3. Other(calls[i].from) \in Side /\ answer \in Passable(Other(calls[i].from))
      BY <1>1, <1>4, <2>1, Fields, CallsTyped DEF CallPassable
    <2>4. Learning /\ Known(t)' /\ ObjectOf(t)' = ObjectOf(answer)
      BY <1>4, <2>1, <2>2, <2>3, CrossingObject
    <2>5. t \in Id \cup {Nil, Error}
      BY <1>4, <2>1, <2>2, <2>3, TranslateCrosses DEF Inv
    <2>6. PICK arg : arg = calls[i].arg
      OBVIOUS
    <2>7. /\ calls' = [calls EXCEPT ![i] = Moved(i, "settled", arg, calls[i].record, t)]
          /\ arg \in Id \cup {Nil} /\ calls[i].record \in Nat
      BY <2>2, <2>6, Updates, Fields
    <2>8. Known(arg)' /\ ObjectOf(arg)' = ObjectOf(calls[i].arg)
      BY <1>1, <2>4, <2>6, ObjectStays DEF CallKnown
    <2>9. CareInv' /\ Bar' = Answered(i, Stage("settled"), Bar[i].answer)
      <3>1. PICK record, x : record = calls[i].record /\ x = Bar[i].answer
        OBVIOUS
      <3>2. /\ calls' = [calls EXCEPT ![i] = Moved(i, "settled", arg, record, t)]
            /\ arg \in Id \cup {Nil} /\ record \in Nat
        BY <2>7, <3>1
      <3>3. ObjectOf(t)' = x /\ Known(t)'
        BY <1>2, <2>1, <2>4, <3>1
      <3>4. CareInv' /\ Bar' = Answered(i, Stage("settled"), x)
        BY <2>4, <2>5, <2>8, <3>2, <3>3, MovedBar
      <3> QED BY <3>1, <3>4
    <2>10. Bar' = Answered(i, "settled",
                           IF Bar[i].guarded /\ revoked THEN Error ELSE Bar[i].answer)
      BY <1>2, <1>4, <2>1, <2>4, <2>9, Stages
    <2> QED BY <1>2, <2>2, <2>9, <2>10, AbstractReturn DEF Step
  <1> QED BY <1>3, <1>4

LEMMA ServeStep ==
    ASSUME Inv, CareInv, NEW i \in DOMAIN calls, NEW answer \in Id \cup {Nil, Error},
           Serve(i, answer)
    PROVE  Step
  <1>1. /\ calls[i].stage = "forwarded" /\ CallKnown(calls[i]) /\ UNCHANGED membrane
        /\ calls' = [calls EXCEPT ![i].stage = "answered", ![i].answer = answer]
    BY DEF Serve, CareInv
  <1>2. Known(answer) /\ ObjectOf(answer) \in Obj \cup {Nil, Error}
    <2>1. CASE answer \in {Nil, Error}
      BY <2>1, ObjectPlain
    <2>2. CASE answer \notin {Nil, Error}
      <3>1. /\ calls[i].via \in Revocable
            /\ answer \in Passable(SideOf(wraps[calls[i].via]))
        BY <2>2 DEF Serve
      <3>2. SideOf(wraps[calls[i].via]) \in Side
        BY <3>1, CalledSide, Sides
      <3> QED BY <3>1, <3>2, PassedKnown
    <2> QED BY <2>1, <2>2
  <1>3. calls[i].permitted /\ ~calls[i].late
    BY <1>1 DEF CallKnown
  <1>4. calls' = [calls EXCEPT ![i] =
                     Moved(i, "answered", calls[i].arg, calls[i].record, answer)]
    BY <1>1, Updates
  <1>5. CareInv' /\ Bar' = Answered(i, "served", ObjectOf(answer)) /\ UNCHANGED revoked
    <2>1. PICK record : record = calls[i].record
      OBVIOUS
    <2>2. record \in Nat /\ calls' = [calls EXCEPT ![i] =
                                       Moved(i, "answered", calls[i].arg, record, answer)]
      BY <1>4, <2>1, Fields
    <2>3. /\ CareInv' /\ Bar' = Answered(i, Stage("answered"), ObjectOf(answer))
          /\ UNCHANGED revoked
      <3>1. answer \in Id \cup {Nil, Error} /\ Known(answer) /\ UNCHANGED membrane
        BY <1>1, <1>2
      <3>2. PICK stage \in {"forwarded", "answered", "settled"} : stage = "answered"
        OBVIOUS
      <3>3. calls' = [calls EXCEPT ![i] = Moved(i, stage, calls[i].arg, record, answer)]
        BY <2>2, <3>2
      <3>4. /\ CareInv' /\ Bar' = Answered(i, Stage(stage), ObjectOf(answer))
            /\ UNCHANGED revoked
        BY <1>3, <2>2, <3>1, <3>3, PlainHop
      <3> QED BY <3>2, <3>4
    <2> QED BY <2>3, Stages
  <1>6. Bar[i].stage = "asked" /\ Bar[i].permitted /\ ~Bar[i].late
    BY <1>1, <1>3, BarFields, Stages
  <1> QED BY <1>2, <1>5, <1>6, AbstractServe DEF Step

\* The flat wrappers pass a call on, and its answer back, as they are.
LEMMA PassOn ==
    ASSUME Inv, CareInv, NEW i \in DOMAIN calls, UNCHANGED membrane, NEW record \in Nat,
           calls[i].via \notin Revocable, calls[i].stage = "sent", calls[i].permitted,
           calls' = [calls EXCEPT ![i] =
                        Moved(i, "forwarded", calls[i].arg, record, calls[i].answer)]
    PROVE  Step
  <1>1. PICK answer : answer = calls[i].answer
    OBVIOUS
  <1>2. answer \in Id \cup {Nil, Error} /\ Known(answer) /\ ~calls[i].late
    BY <1>1, Fields DEF CareInv, CallKnown
  <1>3. calls' = [calls EXCEPT ![i] = Moved(i, "forwarded", calls[i].arg, record, answer)]
    BY <1>1
  <1>4. /\ CareInv' /\ Bar' = Answered(i, Stage("forwarded"), ObjectOf(answer))
        /\ UNCHANGED revoked
    BY <1>2, <1>3, PlainHop
  <1>5. Stage("forwarded") = Bar[i].stage /\ ObjectOf(answer) = Bar[i].answer
    BY <1>1, BarFields, Stages
  <1>6. Bar' = Bar
    BY <1>4, <1>5, BarFields
  <1> QED BY <1>4, <1>6, AbstractStutter DEF Step

LEMMA PassBack ==
    ASSUME Inv, CareInv, NEW i \in DOMAIN calls, UNCHANGED membrane, NEW record \in Nat,
           calls[i].via \notin Revocable, calls[i].stage = "answered",
           calls' = [calls EXCEPT ![i] =
                        Moved(i, "settled", calls[i].arg, record, calls[i].answer)]
    PROVE  Step
  <1>1. PICK answer : answer = calls[i].answer
    OBVIOUS
  <1>2. answer \in Id \cup {Nil, Error} /\ Known(answer)
    BY <1>1, Fields DEF CareInv, CallKnown
  <1>3. calls' = [calls EXCEPT ![i] = Moved(i, "settled", calls[i].arg, record, answer)]
    BY <1>1
  <1>4. /\ CareInv' /\ Bar' = Answered(i, Stage("settled"), ObjectOf(answer))
        /\ UNCHANGED revoked
    BY <1>2, <1>3, PlainHop
  <1>5. Bar[i].stage = "served" /\ ~Bar[i].guarded /\ ObjectOf(answer) = Bar[i].answer
    BY <1>1, BarFields, Stages
  <1>6. Bar' = Answered(i, "settled", IF Bar[i].guarded /\ revoked THEN Error ELSE Bar[i].answer)
    BY <1>4, <1>5, Stages
  <1> QED BY <1>4, <1>5, <1>6, AbstractReturn DEF Step

LEMMA ForwardAttenuatedStep ==
    ASSUME Inv, CareInv, NEW i \in DOMAIN calls, ForwardAttenuated(i)
    PROVE  Step
  <1>1. /\ calls[i].stage = "sent" /\ calls[i].via \notin Revocable /\ UNCHANGED membrane
        /\ calls[i].record \in Nat
    BY Ids, Fields DEF ForwardAttenuated
  <1>2. CASE calls[i].permitted
    <2>1. calls' = [calls EXCEPT ![i] = Moved(i, "forwarded", calls[i].arg, calls[i].record,
                                              calls[i].answer)]
      BY <1>2, Updates DEF ForwardAttenuated
    <2> QED BY <1>1, <1>2, <2>1, PassOn
  <1>3. CASE ~calls[i].permitted
    <2>1. calls' = [calls EXCEPT ![i] = Moved(i, "settled", calls[i].arg, calls[i].record, Error)]
      BY <1>3, Updates DEF ForwardAttenuated, Settle
    <2>2. CareInv' /\ Bar' = Answered(i, "settled", Error) /\ UNCHANGED revoked
      BY <1>1, <2>1, ObjectPlain, Stages, PlainHop
    <2>3. Bar[i].stage = "asked" /\ ~Bar[i].permitted
      BY <1>1, <1>3, BarFields, Stages
    <2> QED BY <2>2, <2>3, AbstractRefuse DEF Step
  <1> QED BY <1>2, <1>3

LEMMA ReturnAttenuatedStep ==
    ASSUME Inv, CareInv, NEW i \in DOMAIN calls, ReturnAttenuated(i)
    PROVE  Step
  <1>1. /\ calls[i].stage = "answered" /\ calls[i].via \notin Revocable /\ UNCHANGED membrane
        /\ calls[i].record \in Nat
    BY Ids, Fields DEF ReturnAttenuated
  <1>2. calls' = [calls EXCEPT ![i] = Moved(i, "settled", calls[i].arg, calls[i].record,
                                            calls[i].answer)]
    BY Updates DEF ReturnAttenuated, Settle
  <1> QED BY <1>1, <1>2, PassBack

LEMMA ForwardAuditedStep ==
    ASSUME Inv, CareInv, NEW i \in DOMAIN calls, ForwardAudited(i)
    PROVE  Step
  <1>1. /\ calls[i].stage = "sent" /\ calls[i].via = Audited
        /\ calls' = [calls EXCEPT ![i] = Moved(i, "forwarded", calls[i].arg,
                                               Len(records) + 1, calls[i].answer)]
        /\ UNCHANGED membrane
    BY AuditedSteps
  <1>2. calls[i].via \notin Revocable /\ calls[i].permitted
    BY <1>1, Ids DEF CareInv, CallKnown
  <1>3. PICK n : n = Len(records) + 1
    OBVIOUS
  <1>4. n \in Nat /\ calls' = [calls EXCEPT ![i] = Moved(i, "forwarded", calls[i].arg,
                                                         n, calls[i].answer)]
    BY <1>1, <1>3, Fields
  <1> QED BY <1>1, <1>2, <1>4, PassOn

LEMMA ReturnAuditedStep ==
    ASSUME Inv, CareInv, NEW i \in DOMAIN calls, ReturnAudited(i)
    PROVE  Step
  <1>1. /\ calls[i].stage = "answered" /\ calls[i].via \notin Revocable /\ UNCHANGED membrane
        /\ calls' = [calls EXCEPT ![i] = Moved(i, "settled", calls[i].arg,
                                               calls[i].record, calls[i].answer)]
    BY AuditedSteps, Ids
  <1>2. calls[i].record \in Nat
    BY Fields
  <1> QED BY <1>1, <1>2, PassBack

-----------------------------------------------------------------------------
LEMMA InitStep == Init => CareInv /\ C!Init
  <1> SUFFICES ASSUME Init PROVE CareInv /\ C!Init
    OBVIOUS
  <1>1. CareInv
    BY Ids DEF Init, CareInv
  <1>2. [i \in DOMAIN calls |-> Seen(calls[i])] = <<>> /\ revoked = FALSE
    BY DEF Init
  <1> QED BY <1>1, <1>2 DEF C!Init

LEMMA NextStep == Inv /\ CareInv /\ [Next]_vars => Step
  <1> SUFFICES ASSUME Inv, CareInv, [Next]_vars PROVE Step
    OBVIOUS
  <1>1. CASE UNCHANGED vars
    <2>1. UNCHANGED membrane /\ UNCHANGED calls /\ UNCHANGED revoked
      BY <1>1 DEF vars, membrane
    <2>2. CareInv' /\ Bar' = Bar
      BY <2>1, StillLearning, QuietStep
    <2> QED BY <2>1, <2>2, AbstractStutter DEF Step
  <1>2. CASE \E side \in Side, via \in Via, arg \in Id \cup {Nil}, permitted \in BOOLEAN :
                Ask(side, via, arg, permitted)
    BY <1>2, AskStep
  <1>3. ASSUME NEW i \in DOMAIN calls,
               \/ ForwardRevocable(i) \/ ForwardAttenuated(i) \/ ForwardAudited(i)
               \/ \E answer \in Id \cup {Nil, Error} : Serve(i, answer)
               \/ ReturnRevocable(i) \/ ReturnAttenuated(i) \/ ReturnAudited(i)
        PROVE  Step
    BY <1>3, ForwardRevocableStep, ForwardAttenuatedStep, ForwardAuditedStep, ServeStep,
       ReturnRevocableStep, ReturnAttenuatedStep, ReturnAuditedStep
  <1>4. CASE \E o \in Obj, ref \in Id \cup {Nil} : Emit(o, ref) \/ DeliverEvent(o, ref)
    BY <1>4, EmitStep, DeliverEventStep
  <1> QED BY <1>1, <1>2, <1>3, <1>4, RevokeStep DEF Next, Via

\* "To the recipient it is indistinguishable from the real entity": every
\* behaviour of the wrappers, with ids read as the objects behind them, is one
\* of Caretaker, up to the revoke, after it, and across it.
THEOREM WrappersAreCaretaker == Spec => CaretakerSpec
  <1>1. Step => CareInv' /\ [C!Next]_(C!vars)
    BY DEF Step
  <1> QED BY <1>1, InvHolds, InitStep, NextStep, PTL DEF Spec, CaretakerSpec, C!Spec
=============================================================================
