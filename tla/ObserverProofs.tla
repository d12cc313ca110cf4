--------------------------- MODULE ObserverProofs ---------------------------
(***************************************************************************)
(* Proofs about who observes what, for any set of ids and any bounds: both *)
(* ends agree on the observers of an object (ObserversPaired), and no      *)
(* notify is lost (NotifyReaches).                                         *)
(*                                                                         *)
(* The module first says what a sequence of frames does to a list of       *)
(* observers (Heard), then what a frame in flight may be (FitInv), and     *)
(* from both derives the two invariants, one action at a time.             *)
(***************************************************************************)
EXTENDS RegistryProofs

-----------------------------------------------------------------------------
(***************************************************************************)
(* The observers of a that the home has once it has applied the frames s,  *)
(* if it has those in S now.  Registry's ObserversToBe is that of all the  *)
(* frames in flight.                                                       *)
(***************************************************************************)
Releases(f, a) == f.kind = "release" /\ f.target = a
Subscribes(f, a) == f.kind = "subscribe" /\ f.target = a

Heard(s, a, S) ==
    {o \in S : \A i \in DOMAIN s : ~Releases(s[i], a)}
      \cup {s[i].id : i \in {j \in DOMAIN s :
               /\ Subscribes(s[j], a)
               /\ \A k \in DOMAIN s : Releases(s[k], a) => k < j}}

LEMMA HeardMember ==
    ASSUME NEW s, NEW a, NEW S, NEW o
    PROVE  o \in Heard(s, a, S) <=>
              \/ o \in S /\ \A i \in DOMAIN s : ~Releases(s[i], a)
              \/ \E j \in DOMAIN s :
                    /\ Subscribes(s[j], a) /\ s[j].id = o
                    /\ \A k \in DOMAIN s : Releases(s[k], a) => k < j
  BY DEF Heard

LEMMA ObserversToBeHeard ==
    ASSUME NEW e, NEW a
    PROVE  ObserversToBe(e, a)
              = Heard(InFlight(e), a, Range(observers[Peer(e)][a]))
<1> DEFINE q == InFlight(e)
           Rel == {i \in DOMAIN q : q[i].kind = "release" /\ q[i].target = a}
           Sub == {i \in DOMAIN q : q[i].kind = "subscribe" /\ q[i].target = a}
           S == Range(observers[Peer(e)][a])
<1>1. ObserversToBe(e, a) = (IF Rel = {} THEN S ELSE {})
                               \cup {q[i].id : i \in {j \in Sub : \A k \in Rel : k < j}}
  BY DEF ObserversToBe
<1>2. (IF Rel = {} THEN S ELSE {}) = {o \in S : \A i \in DOMAIN q : ~Releases(q[i], a)}
  BY DEF Releases
<1>3. {j \in Sub : \A k \in Rel : k < j}
        = {j \in DOMAIN q : /\ Subscribes(q[j], a)
                            /\ \A k \in DOMAIN q : Releases(q[k], a) => k < j}
  BY DEF Releases, Subscribes
<1>4. QED
  BY <1>1, <1>2, <1>3 DEF Heard

\* What is heard of one sequence of frames after another.
LEMMA HeardConcat ==
    ASSUME NEW s \in Seq(Frame), NEW t \in Seq(Frame), NEW a, NEW S
    PROVE  Heard(s \o t, a, S) = Heard(t, a, Heard(s, a, S))
<1> DEFINE q == s \o t
           m == Len(s)
           n == Len(t)
<1>1. /\ m \in Nat /\ n \in Nat /\ DOMAIN s = 1 .. m /\ DOMAIN t = 1 .. n
      /\ DOMAIN q = 1 .. m + n
      /\ \A i \in 1 .. m : q[i] = s[i]
      /\ \A i \in 1 .. n : q[m + i] = t[i]
  BY ConcatProperties
<1> HIDE DEF q, m, n
<1>2. \A i \in DOMAIN q : \/ i \in DOMAIN s /\ i <= m
                          \/ i > m /\ i - m \in DOMAIN t /\ i = m + (i - m)
  BY <1>1
<1>3. \A i \in DOMAIN s : i \in DOMAIN q /\ q[i] = s[i] /\ i <= m /\ i \in Nat
  BY <1>1
<1>4. \A i \in DOMAIN t : m + i \in DOMAIN q /\ q[m + i] = t[i] /\ m + i > m /\ i \in Nat
  BY <1>1
<1>5. ASSUME NEW o
      PROVE  o \in Heard(q, a, S) <=> o \in Heard(t, a, Heard(s, a, S))
  <2>1. (\A i \in DOMAIN q : ~Releases(q[i], a))
           <=> /\ \A i \in DOMAIN s : ~Releases(s[i], a)
               /\ \A i \in DOMAIN t : ~Releases(t[i], a)
    BY <1>1, <1>2, <1>3, <1>4
  <2>2. ASSUME NEW j \in DOMAIN s
        PROVE  (\A k \in DOMAIN q : Releases(q[k], a) => k < j)
                  <=> /\ \A k \in DOMAIN s : Releases(s[k], a) => k < j
                      /\ \A k \in DOMAIN t : ~Releases(t[k], a)
    BY <1>1, <1>2, <1>3, <1>4
  <2>3. ASSUME NEW j \in DOMAIN t
        PROVE  (\A k \in DOMAIN q : Releases(q[k], a) => k < m + j)
                  <=> \A k \in DOMAIN t : Releases(t[k], a) => k < j
    <3>1. /\ \A k \in DOMAIN s : k < m + j
          /\ \A k \in DOMAIN t : m + k < m + j <=> k < j
      BY <1>1
    <3>2. QED
      BY <1>2, <1>3, <1>4, <3>1
  <2> DEFINE Sub(u, j) == /\ Subscribes(u[j], a) /\ u[j].id = o
                          /\ \A k \in DOMAIN u : Releases(u[k], a) => k < j
  <2>4. (\E j \in DOMAIN q : Sub(q, j))
           <=> \/ /\ \E j \in DOMAIN s : Sub(s, j)
                  /\ \A k \in DOMAIN t : ~Releases(t[k], a)
               \/ \E j \in DOMAIN t : Sub(t, j)
    <3>1. ASSUME NEW j \in DOMAIN s
          PROVE  Sub(q, j) <=> Sub(s, j) /\ \A k \in DOMAIN t : ~Releases(t[k], a)
      BY <1>3, <2>2
    <3>2. ASSUME NEW j \in DOMAIN t
          PROVE  Sub(q, m + j) <=> Sub(t, j)
      BY <1>4, <2>3
    <3> HIDE DEF Sub
    <3>3. QED
      BY <1>2, <1>3, <1>4, <3>1, <3>2
  <2>5. QED
    BY <2>1, <2>4, HeardMember
<1>6. QED
  BY <1>5 DEF q

\* Frames that neither subscribe to a nor release it change nothing.
LEMMA HeardNothing ==
    ASSUME NEW s, NEW a, NEW S,
           \A i \in DOMAIN s : ~Releases(s[i], a) /\ ~Subscribes(s[i], a)
    PROVE  Heard(s, a, S) = S
  BY DEF Heard

\* Releases of a and no subscribes leave nobody.
LEMMA HeardRelease ==
    ASSUME NEW s, NEW a, NEW S, NEW i \in DOMAIN s, Releases(s[i], a),
           \A j \in DOMAIN s : ~Subscribes(s[j], a)
    PROVE  Heard(s, a, S) = {}
  BY DEF Heard

\* A subscribe adds one.
LEMMA HeardSubscribe ==
    ASSUME NEW f \in Frame, NEW a, NEW S, Subscribes(f, a)
    PROVE  Heard(<<f>>, a, S) = S \cup {f.id}
<1>1. DOMAIN <<f>> = {1} /\ <<f>>[1] = f
  OBVIOUS
<1>2. ~Releases(f, a)
  BY DEF Subscribes, Releases
<1>3. QED
  BY <1>1, <1>2, HeardMember

\* More observers before are more observers after.
LEMMA HeardMonotone ==
    ASSUME NEW s, NEW a, NEW S, NEW T, S \subseteq T
    PROVE  Heard(s, a, S) \subseteq Heard(s, a, T)
  BY DEF Heard

\* Splitting off the oldest frame.
LEMMA HeardFront ==
    ASSUME NEW s \in Seq(Frame), s # <<>>, NEW a, NEW S
    PROVE  Heard(s, a, S) = Heard(Tail(s), a, Heard(<<Head(s)>>, a, S))
<1> DEFINE front == <<Head(s)>>
           rest == Tail(s)
<1>1. Head(s) \in Frame /\ rest \in Seq(Frame) /\ front \o rest = s
  BY HeadTailProperties
<1>2. front \in Seq(Frame)
  BY <1>1
<1> HIDE DEF front, rest
<1>3. Heard(front \o rest, a, S) = Heard(rest, a, Heard(front, a, S))
  <2>1. \A x, y \in Seq(Frame) : \A b, T :
           Heard(x \o y, b, T) = Heard(y, b, Heard(x, b, T))
    BY HeardConcat
  <2>2. rest \in Seq(Frame)
    BY <1>1
  <2>3. QED
    BY <1>2, <2>1, <2>2
<1>4. QED
  BY <1>1, <1>3 DEF front, rest
-----------------------------------------------------------------------------
(***************************************************************************)
(* What a frame in flight may be.  A subscribe, a release or a call names  *)
(* an object that its receiver shares, or the root; a payload carries a    *)
(* ref that its sender shares; a $notify names an observer that was drawn. *)
(***************************************************************************)
Known(h, a) == a \in Id => h[a] \in {"strong", "weak", "owned"}

Fits(f, mine, theirs, drawn) ==
    /\ f.kind \in {"subscribe", "release"} => Known(theirs, f.target)
    /\ f.kind = "subscribe" => f = Subscribe(f.target, f.id) /\ f.id \in drawn
    /\ f.kind = "call" => \/ Known(theirs, f.target)
                          \/ f = Notify(f.target, f.ver) /\ f.target \in drawn
    /\ f.kind \in {"call", "response"} => f.id = Nil \/ Known(mine, f.id)

\* Every frame on a wire fits.
WiresFit ==
    \A e \in End : \A i \in DOMAIN wire[e] :
        Fits(wire[e][i], homes[e], homes[Peer(e)], minted)

\* So do the frames that wait for a root, and they are for the root.
QueuesFit ==
    \A e \in End : \A i \in DOMAIN pendingRoot[e] :
        /\ pendingRoot[e][i].target = Root
        /\ pendingRoot[e][i].kind \in {"call", "subscribe"}
        /\ Fits(pendingRoot[e][i], homes[Peer(e)], homes[e], minted)

\* What an end has a ref or a Remote of is shared at the other end.
RemotesKnown ==
    \A e \in End : \A a \in refs[e] \cup projections[e] : Known(homes[Peer(e)], a)

\* A root not yet installed has no observers, and one that is has no queue.
RootsFit ==
    \A e \in End :
        /\ homes[e][Root] \in {"absent", "strong", "weak"}
        /\ homes[e][Root] = "absent" => observers[e][Root] = <<>>
        /\ homes[e][Root] # "absent" => pendingRoot[e] = <<>> /\ roots[e] > 0

\* Every observer that a home lists was drawn.
ObserversDrawn ==
    \A e \in End, a \in Addr : Range(observers[e][a]) \subseteq minted

Fit == WiresFit /\ QueuesFit /\ RemotesKnown /\ RootsFit /\ ObserversDrawn

FitInv == ObserverInv /\ Fit

\* What was shared stays shared, and what was drawn stays drawn.
SharedStays ==
    /\ \A e \in End : \A a \in Id : Known(homes[e], a) => Known(homes'[e], a)
    /\ minted \subseteq minted'

LEMMA FitsStays ==
    ASSUME NEW f \in Frame, NEW mine, NEW theirs, NEW drawn,
           NEW mine2, NEW theirs2, NEW drawn2, Fits(f, mine, theirs, drawn),
           \A a \in Id : Known(mine, a) => Known(mine2, a),
           \A a \in Id : Known(theirs, a) => Known(theirs2, a),
           drawn \subseteq drawn2
    PROVE  Fits(f, mine2, theirs2, drawn2)
  BY DEF Fits, Known

\* What was on a wire, or in a queue, goes on fitting.
LEMMA StillFits ==
    ASSUME SharedStays, NEW e \in End, NEW f \in Frame,
           Fits(f, homes[e], homes[Peer(e)], minted)
    PROVE  Fits(f, homes'[e], homes'[Peer(e)], minted')
  BY FitsStays, PeerType DEF SharedStays

\* The frames of a concatenation, and of a tail.
LEMMA FrameOfConcat ==
    ASSUME NEW s \in Seq(Frame), NEW t \in Seq(Frame), NEW i \in DOMAIN (s \o t)
    PROVE  \/ i \in DOMAIN s /\ (s \o t)[i] = s[i]
           \/ \E j \in DOMAIN t : (s \o t)[i] = t[j]
<1>1. /\ Len(s) \in Nat /\ Len(t) \in Nat
      /\ DOMAIN s = 1 .. Len(s) /\ DOMAIN t = 1 .. Len(t)
      /\ i \in 1 .. Len(s) + Len(t)
      /\ (s \o t)[i] = IF i <= Len(s) THEN s[i] ELSE t[i - Len(s)]
  BY ConcatProperties
<1>2. CASE i <= Len(s)
  BY <1>1, <1>2
<1>3. CASE i > Len(s)
  <2>1. i - Len(s) \in DOMAIN t
    BY <1>1, <1>3
  <2>2. QED
    BY <1>1, <1>3, <2>1
<1>4. QED
  BY <1>1, <1>2, <1>3

LEMMA FrameOfTail ==
    ASSUME NEW s \in Seq(Frame), s # <<>>, NEW i \in DOMAIN Tail(s)
    PROVE  i \in Nat /\ i + 1 \in DOMAIN s /\ Tail(s)[i] = s[i + 1]
  BY HeadTailProperties

\* A step that sends frames that fit.
LEMMA SendFits ==
    ASSUME TypeOK, WiresFit, SharedStays, NEW e \in End,
           NEW fs \in Seq(Frame), Send(e, fs),
           \A i \in DOMAIN fs : Fits(fs[i], homes'[e], homes'[Peer(e)], minted')
    PROVE  WiresFit'
<1> SUFFICES ASSUME NEW x \in End, NEW i \in DOMAIN wire'[x]
             PROVE  Fits(wire'[x][i], homes'[x], homes'[Peer(x)], minted')
  BY DEF WiresFit
<1>1. /\ wire[x] \in Seq(Frame) /\ wire' = [wire EXCEPT ![e] = @ \o fs]
      /\ wire \in [End -> Seq(Frame)]
  BY DEF TypeOK, Send
<1>2. \/ i \in DOMAIN wire[x] /\ wire'[x][i] = wire[x][i]
      \/ x = e /\ \E j \in DOMAIN fs : wire'[x][i] = fs[j]
  <2>1. CASE x = e
    <3>1. wire'[x] = wire[x] \o fs
      BY <1>1, <2>1
    <3>2. QED
      BY <1>1, <2>1, <3>1, FrameOfConcat
  <2>2. CASE x # e
    BY <1>1, <2>2
  <2>3. QED
    BY <2>1, <2>2
<1>3. \A j \in DOMAIN wire[x] : wire[x][j] \in Frame
  BY <1>1
<1>4. \A j \in DOMAIN wire[x] : Fits(wire[x][j], homes'[x], homes'[Peer(x)], minted')
  BY <1>3, StillFits DEF WiresFit
<1>5. QED
  BY <1>2, <1>4

\* A step that consumes a frame and answers it with frames that fit.
LEMMA ReceiveFits ==
    ASSUME TypeOK, WiresFit, SharedStays, NEW e \in End, wire[Peer(e)] # <<>>,
           NEW fs \in Seq(Frame), Receive(e, fs),
           \A i \in DOMAIN fs : Fits(fs[i], homes'[e], homes'[Peer(e)], minted')
    PROVE  WiresFit'
<1> SUFFICES ASSUME NEW x \in End, NEW i \in DOMAIN wire'[x]
             PROVE  Fits(wire'[x][i], homes'[x], homes'[Peer(x)], minted')
  BY DEF WiresFit
<1>1. /\ wire[x] \in Seq(Frame) /\ wire \in [End -> Seq(Frame)]
      /\ wire' = [wire EXCEPT ![Peer(e)] = Tail(@), ![e] = @ \o fs]
      /\ Peer(e) \in End /\ Peer(e) # e /\ wire[Peer(e)] # <<>>
  BY PeerType DEF TypeOK, Receive
<1>2. \/ \E j \in DOMAIN wire[x] : wire'[x][i] = wire[x][j]
      \/ x = e /\ \E j \in DOMAIN fs : wire'[x][i] = fs[j]
  <2>1. CASE x = e
    <3>1. wire'[x] = wire[x] \o fs
      BY <1>1, <2>1
    <3>2. QED
      BY <1>1, <2>1, <3>1, FrameOfConcat, SMTT(20)
  <2>2. CASE x = Peer(e)
    <3>1. wire'[x] = Tail(wire[x]) /\ wire[x] # <<>>
      BY <1>1, <2>2
    <3>2. i \in DOMAIN Tail(wire[x])
      BY <3>1
    <3>3. i + 1 \in DOMAIN wire[x] /\ Tail(wire[x])[i] = wire[x][i + 1]
      BY <1>1, <3>1, <3>2, FrameOfTail
    <3>4. QED
      BY <3>1, <3>3
  <2>3. CASE x # e /\ x # Peer(e)
    BY <1>1, <2>3
  <2>4. QED
    BY <2>1, <2>2, <2>3
<1>3. \A j \in DOMAIN wire[x] : wire[x][j] \in Frame
  BY <1>1
<1>4. \A j \in DOMAIN wire[x] : Fits(wire[x][j], homes'[x], homes'[Peer(x)], minted')
  BY <1>3, StillFits DEF WiresFit
<1>5. QED
  BY <1>2, <1>4
-----------------------------------------------------------------------------
\* The frames that an end builds.
LEMMA BuiltFits ==
    ASSUME NEW mine, NEW theirs, NEW drawn
    PROVE  /\ \A c, ref, b : (ref = Nil \/ Known(mine, ref))
                             => Fits(Response(c, ref, b), mine, theirs, drawn)
           /\ \A o, v : o \in drawn => Fits(Notify(o, v), mine, theirs, drawn)
           /\ \A a : Known(theirs, a) => Fits(Release(a), mine, theirs, drawn)
           /\ \A a, o : Known(theirs, a) /\ o \in drawn
                        => Fits(Subscribe(a, o), mine, theirs, drawn)
           /\ \A a, r, ref, b :
                 Known(theirs, a) /\ (ref = Nil \/ Known(mine, ref))
                    => Fits(Call(a, r, ref, b), mine, theirs, drawn)
  BY DEF Fits, Response, Notify, Release, Subscribe, Call

\* A payload carries a ref that its sender shares.
LEMMA PayloadKnown ==
    ASSUME NEW e, NEW ref \in Payload(e)
    PROVE  ref = Nil \/ Known(homes[e], ref)
  BY DEF Payload, IsShared, Known

\* An answer fits if its ref does.
LEMMA RespondFits ==
    ASSUME NEW e, NEW c, NEW ref, NEW b, NEW mine, NEW theirs, NEW drawn,
           ref = Nil \/ Known(mine, ref)
    PROVE  \A i \in DOMAIN Respond(e, c, ref, b) :
              Fits(Respond(e, c, ref, b)[i], mine, theirs, drawn)
<1>1. Fits(Response(c, ref, b), mine, theirs, drawn)
  BY BuiltFits
<1>2. Respond(e, c, ref, b) \in {<<>>, <<Response(c, ref, b)>>}
  BY DEF Respond
<1>3. QED
  BY <1>1, <1>2

\* A step that leaves the wires alone.
LEMMA StillWires ==
    ASSUME TypeOK, WiresFit, SharedStays, UNCHANGED wire
    PROVE  WiresFit'
<1> SUFFICES ASSUME NEW x \in End, NEW i \in DOMAIN wire[x]
             PROVE  Fits(wire[x][i], homes'[x], homes'[Peer(x)], minted')
  BY DEF WiresFit
<1>1. wire[x][i] \in Frame
  BY DEF TypeOK
<1>2. QED
  BY <1>1, StillFits DEF WiresFit

\* A step that leaves a queue alone, empties it or appends a root frame.
LEMMA QueuesStay ==
    ASSUME TypeOK, QueuesFit, SharedStays,
           \A e \in End :
              \/ pendingRoot'[e] = pendingRoot[e]
              \/ pendingRoot'[e] = <<>>
              \/ \E f \in Frame :
                    /\ pendingRoot'[e] = Append(pendingRoot[e], f)
                    /\ f.target = Root /\ f.kind \in {"call", "subscribe"}
                    /\ Fits(f, homes[Peer(e)], homes[e], minted)
    PROVE  QueuesFit'
<1> SUFFICES ASSUME NEW x \in End, NEW i \in DOMAIN pendingRoot'[x]
             PROVE  /\ pendingRoot'[x][i].target = Root
                    /\ pendingRoot'[x][i].kind \in {"call", "subscribe"}
                    /\ Fits(pendingRoot'[x][i], homes'[Peer(x)], homes'[x], minted')
  BY DEF QueuesFit
<1>1. pendingRoot[x] \in Seq(Frame)
  BY DEF TypeOK
<1>2. PICK f \in Frame :
         /\ pendingRoot'[x][i] = f
         /\ f.target = Root /\ f.kind \in {"call", "subscribe"}
         /\ Fits(f, homes[Peer(x)], homes[x], minted)
  <2>1. CASE pendingRoot'[x] = pendingRoot[x]
    BY <1>1, <2>1 DEF QueuesFit
  <2>2. CASE pendingRoot'[x] = <<>>
    BY <2>2
  <2>3. ASSUME NEW f \in Frame, pendingRoot'[x] = Append(pendingRoot[x], f),
               f.target = Root, f.kind \in {"call", "subscribe"},
               Fits(f, homes[Peer(x)], homes[x], minted)
        PROVE  \E g \in Frame :
                  /\ pendingRoot'[x][i] = g
                  /\ g.target = Root /\ g.kind \in {"call", "subscribe"}
                  /\ Fits(g, homes[Peer(x)], homes[x], minted)
    <3>1. \/ i \in DOMAIN pendingRoot[x] /\ pendingRoot'[x][i] = pendingRoot[x][i]
          \/ pendingRoot'[x][i] = f
      BY <1>1, <2>3
    <3>2. QED
      BY <1>1, <2>3, <3>1 DEF QueuesFit
  <2>4. QED
    BY <2>1, <2>2, <2>3
<1>3. Peer(x) \in End /\ Peer(Peer(x)) = x
  BY EndsAssumption DEF End, Peer
<1>4. QED
  BY <1>2, <1>3, StillFits

\* A step that adds only known refs and Remotes.
LEMMA RemotesStay ==
    ASSUME RemotesKnown, SharedStays,
           \A e \in End : \A a \in refs'[e] \cup projections'[e] :
              a \in refs[e] \cup projections[e] \/ Known(homes[Peer(e)], a)
    PROVE  RemotesKnown'
<1> SUFFICES ASSUME NEW x \in End, NEW a \in refs'[x] \cup projections'[x]
             PROVE  Known(homes'[Peer(x)], a)
  BY DEF RemotesKnown
<1>1. Known(homes[Peer(x)], a)
  BY DEF RemotesKnown
<1>2. QED
  BY <1>1, PeerType DEF SharedStays, Known

\* A step that leaves the homes of roots, their observers and queues alone.
LEMMA RootsStay ==
    ASSUME RootsFit, UNCHANGED <<pendingRoot, roots>>,
           \A e \in End : homes'[e][Root] = homes[e][Root],
           \A e \in End : observers'[e][Root] = observers[e][Root]
    PROVE  RootsFit'
  BY DEF RootsFit

\* How homes may change: an id that was not in use is shared, or becomes an
\* observer, an observer goes, a home weakens.
LEMMA HomesStay ==
    ASSUME minted \subseteq minted',
           \A e \in End : \A a \in Id :
              \/ homes'[e][a] = homes[e][a]
              \/ homes[e][a] \in {"absent", "observer"}
              \/ homes'[e][a] \in {"strong", "weak", "owned"}
    PROVE  SharedStays
<1> SUFFICES ASSUME NEW e \in End, NEW a \in Id, Known(homes[e], a)
             PROVE  Known(homes'[e], a)
  BY DEF SharedStays
<1>1. homes[e][a] \in {"strong", "weak", "owned"}
  BY DEF Known
<1>2. homes'[e][a] \in {"strong", "weak", "owned"}
  BY <1>1
<1>3. QED
  BY <1>2 DEF Known
-----------------------------------------------------------------------------
\* What share_root does to the queue: every frame in it that is not taken by
\* an asynchronous handler is answered, and its subscribes are the observers.
LEMMA ShareRootAnswers ==
    ASSUME TypeOK, NEW e \in End, NEW async, ShareRoot(e, async)
    PROVE  /\ Range(observers'[e][Root])
                 = {pendingRoot[e][i].id :
                       i \in {j \in DOMAIN pendingRoot[e] :
                                pendingRoot[e][j].kind = "subscribe"}}
           /\ \E fs \in Seq(Frame) :
                 /\ Send(e, fs)
                 /\ \A i \in DOMAIN fs :
                       \E j \in DOMAIN pendingRoot[e], ref \in Payload(e) :
                          fs[i] = RootReply(e, pendingRoot[e][j], ref)
                 /\ \A j \in DOMAIN pendingRoot[e] :
                       pendingRoot[e][j].kind = "subscribe"
                          => \E i \in DOMAIN fs :
                                fs[i] = RootReply(e, pendingRoot[e][j], Nil)
<1> DEFINE queue == pendingRoot[e]
           Subs == {i \in DOMAIN queue : queue[i].kind = "subscribe"}
           Calls == {queue[i] : i \in DOMAIN queue \ Subs}
           Ready == Subs \cup {i \in DOMAIN queue : queue[i] \in Calls \ async}
<1>1. /\ Len(queue) \in Nat
      /\ DOMAIN queue = 1 .. Len(queue)
      /\ \A i \in 1 .. Len(queue) : queue[i] \in Frame
  BY DEF TypeOK
<1>2. Subs \in SUBSET (1 .. Len(queue)) /\ Ready \in SUBSET (1 .. Len(queue))
  BY <1>1
<1>3. Range(observers'[e][Root]) = {queue[i].id : i \in Subs}
  <2>1. PICK p \in InOrder(Subs) :
           observers' = [observers EXCEPT ![e][Root] = [i \in DOMAIN p |-> queue[p[i]].id]]
    BY DEF ShareRoot
  <2> HIDE DEF Subs, queue
  <2>2. /\ DOMAIN p = 1 .. Cardinality(Subs) /\ \A i \in DOMAIN p : p[i] \in Subs
        /\ \A k \in Subs : \E i \in DOMAIN p : p[i] = k
    <3> DEFINE n == Len(queue)
    <3>1. n \in Nat /\ Subs \in SUBSET (1 .. n)
      BY <1>1, <1>2
    <3> HIDE DEF n
    <3>2. Enumerates(p, Subs)
      BY <3>1, InOrderOnto
    <3>3. QED
      BY <3>2 DEF Enumerates
  <2>3. observers \in [End -> [Addr -> Seq(Id)]] /\ Root \in Addr
    BY DEF TypeOK, Addr
  <2>4. observers'[e][Root] = [i \in DOMAIN p |-> queue[p[i]].id]
    BY <2>1, <2>3
  <2>5. QED
    BY <2>2, <2>4 DEF Range
<1>4. PICK p \in InOrder(Ready) : \E h \in [DOMAIN p -> Payload(e)] :
         Send(e, [i \in DOMAIN p |-> RootReply(e, queue[p[i]], h[i])])
  BY DEF ShareRoot
<1> PICK answer \in [DOMAIN p -> Payload(e)] :
         Send(e, [i \in DOMAIN p |-> RootReply(e, queue[p[i]], answer[i])])
  BY <1>4
<1>5. version'[e][Root] \in Nat
  <2>1. version' = [version EXCEPT ![e][Root] = @ + 1]
    BY DEF ShareRoot
  <2>2. version \in [End -> [Addr -> Nat]] /\ Root \in Addr
    BY DEF TypeOK, Addr
  <2>3. QED
    BY <2>1, <2>2
<1>6. \A f \in Frame, ref \in Payload(e) : RootReply(e, f, ref) \in Frame
  <2>1. \A ref \in Payload(e) : ref \in Id \cup {Nil}
    BY DEF Payload
  <2>2. QED
    BY <2>1, <1>5, FrameTypes, FrameFields DEF RootReply, Addr
<1> DEFINE c == Cardinality(Ready)
           fs == [i \in DOMAIN p |-> RootReply(e, queue[p[i]], answer[i])]
<1>7. /\ c \in Nat /\ DOMAIN p = 1 .. c /\ \A i \in DOMAIN p : p[i] \in Ready
      /\ \A k \in Ready : \E i \in DOMAIN p : p[i] = k
  <2> DEFINE n == Len(queue)
  <2>1. n \in Nat /\ Ready \in SUBSET (1 .. n)
    BY <1>1, <1>2
  <2> HIDE DEF Ready, n
  <2>2. Enumerates(p, Ready)
    BY <1>4, <2>1, InOrderOnto
  <2>3. QED
    BY <2>2 DEF Enumerates
<1>8. \A i \in DOMAIN p : p[i] \in DOMAIN queue /\ answer[i] \in Payload(e)
  BY <1>1, <1>2, <1>7
<1> HIDE DEF Ready, queue, c
<1>9. fs \in Seq(Frame)
  <2>1. fs \in [1 .. c -> Frame]
    BY <1>1, <1>6, <1>7, <1>8
  <2>2. QED
    BY <1>7, <2>1, FunctionIsSeq
<1>10. \A i \in DOMAIN fs : \E j \in DOMAIN queue, ref \in Payload(e) :
          fs[i] = RootReply(e, queue[j], ref)
  BY <1>8
<1>11. \A j \in DOMAIN queue : queue[j].kind = "subscribe"
          => \E i \in DOMAIN fs : fs[i] = RootReply(e, queue[j], Nil)
  <2>1. \A j \in DOMAIN queue : queue[j].kind = "subscribe" => j \in Ready
    BY DEF Ready
  <2>2. \A f, ref : f.kind = "subscribe" => RootReply(e, f, ref) = RootReply(e, f, Nil)
    BY DEF RootReply
  <2>3. QED
    BY <1>7, <2>1, <2>2
<1>12. Send(e, fs)
  BY <1>4
<1> HIDE DEF fs
<1>13. QED
  BY <1>3, <1>9, <1>10, <1>11, <1>12 DEF queue
-----------------------------------------------------------------------------
(***************************************************************************)
(* Every step keeps what is in flight fitting.                             *)
(***************************************************************************)
\* A step that leaves queues, refs, projections, roots and observers alone.
LEMMA OnlyWiresMove ==
    ASSUME FitInv, SharedStays, WiresFit',
           UNCHANGED <<pendingRoot, refs, projections, roots, observers>>,
           \A e \in End : homes'[e][Root] = homes[e][Root]
    PROVE  Fit'
<1>1. QueuesFit' /\ RemotesKnown'
  BY QueuesStay, RemotesStay DEF FitInv, ObserverInv, Fit
<1>2. RootsFit'
  BY RootsStay DEF FitInv, Fit
<1>3. ObserversDrawn'
  BY DEF FitInv, Fit, ObserversDrawn, SharedStays
<1>4. QED
  BY <1>1, <1>2, <1>3 DEF Fit

\* Homes send answers and notifies.
LEMMA HomeStepKeepsFit ==
    ASSUME FitInv, NEW e \in End, HomeStep(e)
    PROVE  SharedStays /\ Fit'
<1>1. /\ TypeOK /\ HomesMinted /\ WiresFit /\ Root \notin Id /\ Root \in Addr
      /\ homes \in [End -> [Addr -> HomeKind]]
  BY IdAssumption DEF FitInv, ObserverInv, Fit, TypeOK, Addr
<1>2. ASSUME NEW a \in Id, NEW k \in BOOLEAN, Share(e, a, k)
      PROVE  SharedStays /\ Fit'
  <2>1. /\ homes' = [homes EXCEPT ![e][a] = IF k THEN "strong" ELSE "owned"]
        /\ UNCHANGED <<pendingRoot, refs, projections, roots, observers, wire>>
        /\ minted \subseteq minted'
    BY <1>2 DEF Share, Mint, remoteVars, callVars
  <2>2. SharedStays
    BY <1>1, <2>1, HomesStay DEF Addr
  <2>3. \A x \in End : homes'[x][Root] = homes[x][Root]
    BY <1>1, <2>1 DEF Addr
  <2>4. QED
    BY <1>1, <2>1, <2>2, <2>3, StillWires, OnlyWiresMove
<1>3. ASSUME NEW a \in Addr, DropEntity(e, a) \/ Change(e, a)
      PROVE  SharedStays /\ Fit'
  <2>1. UNCHANGED <<pendingRoot, refs, projections, roots, observers, wire, homes, minted>>
    BY <1>3 DEF DropEntity, Change, remoteVars, callVars
  <2>2. SharedStays
    BY <2>1, HomesStay
  <2>3. QED
    BY <1>1, <2>1, <2>2, StillWires, OnlyWiresMove
<1>4. ASSUME NEW a \in Addr, FlushNotify(e, a)
      PROVE  SharedStays /\ Fit'
  <2> DEFINE fs == IF Alive(e, a) THEN Notifications(e, a) ELSE <<>>
  <2>1. /\ UNCHANGED <<pendingRoot, refs, projections, roots, observers, homes, minted>>
        /\ Send(e, fs)
    BY <1>4 DEF FlushNotify, remoteVars, callVars
  <2>2. SharedStays
    BY <2>1, HomesStay
  <2>3. \A i \in DOMAIN fs : Fits(fs[i], homes'[e], homes'[Peer(e)], minted')
    <3>1. \A i \in DOMAIN observers[e][a] : observers[e][a][i] \in minted
      BY DEF FitInv, Fit, ObserversDrawn, Range
    <3>2. \A i \in DOMAIN fs : i \in DOMAIN observers[e][a]
             /\ fs[i] = Notify(observers[e][a][i], version[e][a])
      BY DEF Notifications
    <3> HIDE DEF fs
    <3>3. QED
      BY <2>1, <3>1, <3>2, BuiltFits
  <2>4. fs \in Seq(Frame)
    BY <1>1, NotificationsType
  <2> HIDE DEF fs
  <2>5. WiresFit'
    BY <1>1, <2>1, <2>2, <2>3, <2>4, SendFits
  <2>6. QED
    BY <2>1, <2>2, <2>5, OnlyWiresMove
<1>5. ASSUME NEW f \in tasks[e], NEW ref \in Id \cup {Nil}, FinishTask(e, f, ref)
      PROVE  SharedStays /\ Fit'
  <2> DEFINE fs == Respond(e, f, ref, TRUE)
  <2>1. /\ UNCHANGED <<pendingRoot, refs, projections, roots, observers, homes, minted>>
        /\ Send(e, fs) /\ ref \in Payload(e)
    BY <1>5 DEF FinishTask, remoteVars, callVars
  <2>2. SharedStays
    BY <2>1, HomesStay
  <2>3. \A i \in DOMAIN fs : Fits(fs[i], homes'[e], homes'[Peer(e)], minted')
    BY <2>1, PayloadKnown, RespondFits
  <2>4. fs \in Seq(Frame)
    BY <1>1, RespondType DEF TypeOK
  <2> HIDE DEF fs
  <2>5. WiresFit'
    BY <1>1, <2>1, <2>2, <2>3, <2>4, SendFits
  <2>6. QED
    BY <2>1, <2>2, <2>5, OnlyWiresMove
<1>6. ASSUME NEW async, ShareRoot(e, async)
      PROVE  SharedStays /\ Fit'
  <2> DEFINE queue == pendingRoot[e]
  <2>1. /\ homes' = [homes EXCEPT ![e][Root] = "strong"]
        /\ pendingRoot' = [pendingRoot EXCEPT ![e] = <<>>]
        /\ roots' = [roots EXCEPT ![e] = @ + 1]
        /\ refs' = [refs EXCEPT ![e] = @ \cup
              ({f.id : f \in {queue[i] : i \in DOMAIN queue
                                \ {j \in DOMAIN queue : queue[j].kind = "subscribe"}}}
                 \ {Nil})]
        /\ \E s : observers' = [observers EXCEPT ![e][Root] = s]
        /\ UNCHANGED <<projections, minted>>
    BY <1>6 DEF ShareRoot, remoteVars
  <2>2. \A x \in End : \A a \in Id : homes'[x][a] = homes[x][a]
    BY <1>1, <2>1 DEF Addr
  <2>3. SharedStays
    BY <2>1, <2>2, HomesStay
  <2>4. \A i \in DOMAIN queue :
           /\ queue[i] \in Frame /\ queue[i].kind \in {"call", "subscribe"}
           /\ Fits(queue[i], homes[Peer(e)], homes[e], minted)
    BY <1>1 DEF FitInv, Fit, QueuesFit, TypeOK
  <2>5. WiresFit'
    <3>1. PICK fs \in Seq(Frame) :
             /\ Send(e, fs)
             /\ \A i \in DOMAIN fs : \E j \in DOMAIN queue, ref \in Payload(e) :
                   fs[i] = RootReply(e, queue[j], ref)
      BY <1>1, <1>6, ShareRootAnswers
    <3>2. \A j \in DOMAIN queue, ref \in Payload(e) :
             Fits(RootReply(e, queue[j], ref), homes'[e], homes'[Peer(e)], minted')
      <4> SUFFICES ASSUME NEW j \in DOMAIN queue, NEW ref \in Payload(e)
                   PROVE  Fits(RootReply(e, queue[j], ref), homes'[e], homes'[Peer(e)],
                               minted')
        OBVIOUS
      <4>1. queue[j].kind = "subscribe" => queue[j].id \in minted'
        BY <2>1, <2>4 DEF Fits
      <4>2. ref = Nil \/ Known(homes'[e], ref)
        BY <1>1, <2>3, PayloadKnown DEF SharedStays, Known
      <4>3. QED
        BY <4>1, <4>2, BuiltFits DEF RootReply
    <3>3. QED
      BY <1>1, <2>3, <3>1, <3>2, SendFits
  <2>6. QueuesFit'
    <3>1. \A x \in End : pendingRoot'[x] = pendingRoot[x] \/ pendingRoot'[x] = <<>>
      BY <1>1, <2>1 DEF TypeOK
    <3>2. QED
      BY <1>1, <2>3, <3>1, QueuesStay DEF FitInv, Fit
  <2>7. RemotesKnown'
    <3>1. \A i \in DOMAIN queue : queue[i].kind # "subscribe" =>
             queue[i].id = Nil \/ Known(homes[Peer(e)], queue[i].id)
      BY <2>4 DEF Fits
    <3>2. \A x \in End : \A a \in refs'[x] :
             a \in refs[x] \/ Known(homes[Peer(x)], a)
      BY <1>1, <2>1, <3>1 DEF TypeOK
    <3>3. QED
      BY <2>1, <2>3, <3>2, RemotesStay DEF FitInv, Fit
  <2>8. RootsFit'
    <3>1. \A x \in End : x # e => /\ homes'[x] = homes[x] /\ observers'[x] = observers[x]
                                  /\ pendingRoot'[x] = pendingRoot[x]
                                  /\ roots'[x] = roots[x]
      BY <1>1, <2>1 DEF TypeOK
    <3>2. homes'[e][Root] = "strong" /\ pendingRoot'[e] = <<>> /\ roots'[e] > 0
      BY <1>1, <2>1 DEF TypeOK
    <3>3. QED
      BY <3>1, <3>2 DEF FitInv, Fit, RootsFit
  <2>9. ObserversDrawn'
    <3>1. Range(observers'[e][Root]) \subseteq minted
      <4>1. \A i \in DOMAIN queue : queue[i].kind = "subscribe" => queue[i].id \in minted
        BY <2>4 DEF Fits
      <4>2. Range(observers'[e][Root])
               = {queue[i].id : i \in {j \in DOMAIN queue : queue[j].kind = "subscribe"}}
        BY <1>1, <1>6, ShareRootAnswers
      <4>3. QED
        BY <4>1, <4>2
    <3>2. \A x \in End, a \in Addr :
             (x = e /\ a = Root) \/ observers'[x][a] = observers[x][a]
      BY <1>1, <2>1 DEF TypeOK
    <3>3. QED
      BY <2>1, <3>1, <3>2 DEF FitInv, Fit, ObserversDrawn
  <2>10. QED
    BY <2>3, <2>5, <2>6, <2>7, <2>8, <2>9 DEF Fit
<1>7. QED
  BY <1>2, <1>3, <1>4, <1>5, <1>6 DEF HomeStep

\* The signals of an end are its observer homes.
LEMMA SignalHome ==
    ASSUME ObserverInv, NEW e \in End, NEW a \in Addr, signal[e][a] # Nil
    PROVE  /\ a \in projections[e]
           /\ signal[e][a] \in Id /\ homes[e][signal[e][a]] = "observer"
           /\ signal[e][a] \in minted
<1>1. a \in projections[e] /\ signal[e][a] \in Id
  BY DEF ObserverInv, ObserverHomesExact, TypeOK
<1>2. signal[e][a] \in {o \in Id : homes[e][o] = "observer"}
  BY <1>1 DEF ObserverInv, ObserverHomesExact
<1>3. QED
  BY <1>1, <1>2 DEF ObserverInv, HomesMinted

\* Forgetting projections takes no home but those of observers.
LEMMA ForgetShares ==
    ASSUME ObserverInv, NEW e \in End, NEW S \in SUBSET Addr, Forget(e, S),
           UNCHANGED minted
    PROVE  SharedStays /\ \A x \in End : homes'[x][Root] = homes[x][Root]
<1>1. /\ homes \in [End -> [Addr -> HomeKind]]
      /\ homes' = [homes EXCEPT ![e] = [a \in Addr |->
                      IF \E x \in S : a = signal[e][x] THEN "absent" ELSE homes[e][a]]]
      /\ Root \in Addr
  BY DEF ObserverInv, TypeOK, Forget, Addr
<1>2. \A x \in S : signal[e][x] # Root
  BY IdAssumption DEF ObserverInv, TypeOK
<1>3. \A x \in S : \A a \in Id : a = signal[e][x] => homes[e][a] = "observer"
  BY SignalHome, IdAssumption
<1>4. \A x \in End : \A a \in Id :
         homes'[x][a] = homes[x][a] \/ homes[x][a] = "observer"
  BY <1>1, <1>3 DEF Addr
<1>5. SharedStays
  BY <1>4, HomesStay
<1>6. QED
  BY <1>1, <1>2, <1>5

\* Holders of Remotes address what they know.
LEMMA RemoteStepKeepsFit ==
    ASSUME FitInv, NEW e \in End, RemoteStep(e)
    PROVE  SharedStays /\ Fit'
<1>1. /\ TypeOK /\ HomesMinted /\ WiresFit /\ Root \notin Id /\ Root \in Addr
      /\ ObserverInv
      /\ homes \in [End -> [Addr -> HomeKind]]
      /\ \A a \in projections[e] : Known(homes[Peer(e)], a)
  BY IdAssumption DEF FitInv, ObserverInv, Fit, TypeOK, Addr, RemotesKnown
<1>2. ASSUME NEW a \in Addr, Connect(e, a)
      PROVE  SharedStays /\ Fit'
  <2>1. /\ UNCHANGED <<pendingRoot, refs, roots, observers, homes, minted, wire>>
        /\ projections' = [projections EXCEPT ![e] = @ \cup {a}]
        /\ a = Root \/ a \in refs[e]
    BY <1>2 DEF Connect, Connectable, homeVars, callVars
  <2>2. SharedStays
    BY <2>1, HomesStay
  <2>3. WiresFit'
    BY <1>1, <2>1, <2>2, StillWires
  <2>4. QueuesFit'
    BY <1>1, <2>1, <2>2, QueuesStay DEF FitInv, Fit
  <2>5. RemotesKnown'
    <3>1. Known(homes[Peer(e)], a)
      BY <1>1, <2>1 DEF FitInv, Fit, RemotesKnown, Known
    <3>2. \A x \in End : \A b \in refs'[x] \cup projections'[x] :
             b \in refs[x] \cup projections[x] \/ Known(homes[Peer(x)], b)
      BY <1>1, <2>1, <3>1 DEF TypeOK
    <3>3. QED
      BY <2>2, <3>2, RemotesStay DEF FitInv, Fit
  <2>6. RootsFit' /\ ObserversDrawn'
    BY <2>1, RootsStay DEF FitInv, Fit, ObserversDrawn
  <2>7. QED
    BY <2>2, <2>3, <2>4, <2>5, <2>6 DEF Fit
<1>3. ASSUME NEW a \in Addr, CloneRemote(e, a) \/ DropRemote(e, a)
      PROVE  SharedStays /\ Fit'
  <2>1. UNCHANGED <<pendingRoot, refs, projections, roots, observers, homes, minted, wire>>
    BY <1>3 DEF CloneRemote, DropRemote, homeVars, callVars
  <2>2. SharedStays
    BY <2>1, HomesStay
  <2>3. QED
    BY <1>1, <2>1, <2>2, StillWires, OnlyWiresMove
<1>4. ASSUME NEW a \in Addr, Reconnect(e, a)
      PROVE  SharedStays /\ Fit'
  <2> DEFINE fs == <<Release(a)>>
  <2>1. /\ UNCHANGED <<pendingRoot, refs, projections, roots, observers, minted>>
        /\ Forget(e, {a}) /\ a \in projections[e]
        /\ Send(e, fs)
    BY <1>4 DEF Reconnect, callVars
  <2>2. SharedStays /\ \A x \in End : homes'[x][Root] = homes[x][Root]
    BY <1>1, <2>1, ForgetShares
  <2>3. fs \in Seq(Frame) /\ DOMAIN fs = {1} /\ fs[1] = Release(a)
    BY FrameTypes
  <2>4. Fits(Release(a), homes'[e], homes'[Peer(e)], minted')
    BY <1>1, <2>1, <2>2, BuiltFits, PeerType DEF SharedStays, Known
  <2> HIDE DEF fs
  <2>5. WiresFit'
    BY <1>1, <2>1, <2>2, <2>3, <2>4, SendFits
  <2>6. QED
    BY <2>1, <2>2, <2>5, OnlyWiresMove
<1>5. ASSUME DrainReleases(e)
      PROVE  SharedStays /\ Fit'
  <2> DEFINE gone == releases[e] \cap projections[e]
  <2>1. /\ UNCHANGED <<pendingRoot, refs, roots, observers, minted>>
        /\ Forget(e, gone)
        /\ projections' = [projections EXCEPT ![e] = @ \ gone]
    BY <1>5 DEF DrainReleases, callVars
  <2>2. gone \in SUBSET Addr
    BY <1>1 DEF TypeOK
  <2>3. PICK fs \in Seq(Frame) :
           /\ Send(e, fs)
           /\ \A i \in DOMAIN fs : \E a \in gone : fs[i] = Release(a)
    BY <1>1, <1>5, DrainSends
  <2>4. \A a \in gone : a \in projections[e]
    OBVIOUS
  <2> HIDE DEF gone
  <2>5. SharedStays /\ \A x \in End : homes'[x][Root] = homes[x][Root]
    BY <1>1, <2>1, <2>2, ForgetShares
  <2>6. \A a \in gone : Fits(Release(a), homes'[e], homes'[Peer(e)], minted')
    BY <1>1, <2>4, <2>5, BuiltFits, PeerType DEF SharedStays, Known
  <2>7. WiresFit'
    BY <1>1, <2>3, <2>5, <2>6, SendFits
  <2>8. QueuesFit'
    BY <1>1, <2>1, <2>5, QueuesStay DEF FitInv, Fit
  <2>9. RemotesKnown'
    <3>1. \A x \in End : projections'[x] \subseteq projections[x]
      BY <1>1, <2>1 DEF TypeOK
    <3>2. QED
      BY <2>1, <2>5, <3>1, RemotesStay DEF FitInv, Fit
  <2>10. RootsFit' /\ ObserversDrawn'
    BY <2>1, <2>5, RootsStay DEF FitInv, Fit, ObserversDrawn
  <2>11. QED
    BY <2>5, <2>7, <2>8, <2>9, <2>10 DEF Fit
<1>6. ASSUME NEW a \in Addr, NEW o \in Id, Observe(e, a, o)
      PROVE  SharedStays /\ Fit'
  <2> DEFINE fs == <<Subscribe(a, o)>>
  <2>1. /\ UNCHANGED <<pendingRoot, refs, projections, roots, observers>>
        /\ homes' = [homes EXCEPT ![e][o] = "observer"]
        /\ minted' = minted \cup {o} /\ o \notin minted
        /\ Send(e, fs) /\ a \in projections[e]
    BY <1>6 DEF Observe, Mint, callVars
  <2>2. homes[e][o] = "absent"
    BY <1>1, <2>1 DEF HomesMinted, TypeOK
  <2>3. SharedStays /\ \A x \in End : homes'[x][Root] = homes[x][Root]
    <3>1. /\ \A x \in End : homes'[x][Root] = homes[x][Root]
          /\ \A x \in End : \A b \in Id :
                homes'[x][b] = homes[x][b] \/ homes[x][b] = "absent"
      BY <1>1, <2>1, <2>2 DEF Addr
    <3>2. QED
      BY <2>1, <3>1, HomesStay
  <2>4. fs \in Seq(Frame) /\ DOMAIN fs = {1} /\ fs[1] = Subscribe(a, o)
    BY FrameTypes
  <2>5. Fits(Subscribe(a, o), homes'[e], homes'[Peer(e)], minted')
    BY <1>1, <2>1, <2>3, BuiltFits, PeerType DEF SharedStays, Known
  <2> HIDE DEF fs
  <2>6. WiresFit'
    BY <1>1, <2>1, <2>3, <2>4, <2>5, SendFits
  <2>7. QED
    BY <2>1, <2>3, <2>6, OnlyWiresMove
<1>7. ASSUME NEW a \in Addr, NEW ref \in Id \cup {Nil}, CallMethod(e, a, ref)
      PROVE  SharedStays /\ Fit'
  <2> DEFINE first == a \notin released[e]
             f == Call(a, nextRequest'[e], ref, first)
             fs == <<f>>
  <2>1. /\ UNCHANGED <<pendingRoot, refs, projections, roots, observers, homes, minted>>
        /\ Send(e, fs) /\ a \in projections[e] /\ ref \in Payload(e)
        /\ nextRequest'[e] \in Nat
    BY <1>1, <1>7, SMTT(20) DEF CallMethod, homeVars, remoteVars, TypeOK
  <2>2. SharedStays
    BY <2>1, HomesStay
  <2>3. first \in BOOLEAN
    OBVIOUS
  <2> HIDE DEF first
  <2>4. f \in Frame
    BY <2>1, <2>3, FrameTypes
  <2>5. Fits(f, homes'[e], homes'[Peer(e)], minted')
    BY <1>1, <2>1, BuiltFits, PayloadKnown
  <2> HIDE DEF f
  <2>6. fs \in Seq(Frame) /\ DOMAIN fs = {1} /\ fs[1] = f
    BY <2>4
  <2> HIDE DEF fs
  <2>7. WiresFit'
    BY <1>1, <2>1, <2>2, <2>5, <2>6, SendFits
  <2>8. QED
    BY <2>1, <2>2, <2>7, OnlyWiresMove
<1>8. QED
  BY <1>2, <1>3, <1>4, <1>5, <1>6, <1>7 DEF RemoteStep

\* The frame being delivered.
LEMMA Next1Fits ==
    ASSUME FitInv, NEW e \in End, wire[Peer(e)] # <<>>
    PROVE  /\ Next1(e) \in Frame
           /\ Fits(Next1(e), homes[Peer(e)], homes[e], minted)
           /\ Peer(e) \in End /\ Peer(e) # e /\ Peer(Peer(e)) = e
<1>1. Peer(e) \in End /\ Peer(e) # e /\ Peer(Peer(e)) = e
  BY EndsAssumption DEF End, Peer
<1>2. Next1(e) = wire[Peer(e)][1] /\ 1 \in DOMAIN wire[Peer(e)] /\ Next1(e) \in Frame
  BY <1>1, HeadTailProperties DEF Next1, FitInv, ObserverInv, TypeOK
<1>3. QED
  BY <1>1, <1>2 DEF FitInv, Fit, WiresFit

\* An end answers with what fits, queues what fits and keeps the refs it gets.
LEMMA DeliverKeepsFit ==
    ASSUME FitInv, NEW e \in End, Deliver(e)
    PROVE  SharedStays /\ Fit'
<1> DEFINE f == Next1(e)
<1>1. /\ TypeOK /\ WiresFit /\ QueuesFit /\ RemotesKnown /\ Root \in Addr
      /\ homes \in [End -> [Addr -> HomeKind]] /\ wire[Peer(e)] # <<>>
      /\ f \in Frame /\ Fits(f, homes[Peer(e)], homes[e], minted)
      /\ f.target \in Addr
  BY Next1Fits, FrameFields DEF FitInv, ObserverInv, Fit, TypeOK, Addr, Deliver
<1>2. <<>> \in Seq(Frame) /\ DOMAIN <<>> = {}
  OBVIOUS
<1>3. \A fs \in Seq(Frame) :
         /\ SharedStays /\ Receive(e, fs)
         /\ \A i \in DOMAIN fs : Fits(fs[i], homes'[e], homes'[Peer(e)], minted')
         => WiresFit'
  BY <1>1, ReceiveFits
<1>4. SharedStays /\ Receive(e, <<>>) => WiresFit'
  BY <1>2, <1>3
<1>5. UNCHANGED <<homes, minted>> => SharedStays
  BY HomesStay
<1> HIDE DEF f
<1>6. ASSUME DeliverResponse(e)
      PROVE  SharedStays /\ Fit'
  <2>1. /\ UNCHANGED <<homes, minted, pendingRoot, observers, roots, projections>>
        /\ refs' = [refs EXCEPT ![e] =
              IF f.request \in pending[e] THEN @ \cup ({f.id} \ {Nil}) ELSE @]
        /\ Receive(e, <<>>) /\ f.kind = "response"
    BY <1>6 DEF DeliverResponse, homeVars, remoteVars, f
  <2>2. SharedStays /\ WiresFit'
    BY <1>4, <1>5, <2>1
  <2>3. QueuesFit'
    BY <1>1, <2>1, <2>2, QueuesStay
  <2>4. RemotesKnown'
    <3>1. f.id = Nil \/ Known(homes[Peer(e)], f.id)
      BY <1>1, <2>1 DEF Fits
    <3>2. \A x \in End : \A b \in refs'[x] :
             b \in refs[x] \/ Known(homes[Peer(x)], b)
      BY <1>1, <2>1, <3>1 DEF TypeOK
    <3>3. QED
      BY <1>1, <2>1, <2>2, <3>2, RemotesStay
  <2>5. RootsFit' /\ ObserversDrawn'
    BY <2>1, RootsStay DEF FitInv, Fit, ObserversDrawn
  <2>6. QED
    BY <2>2, <2>3, <2>4, <2>5 DEF Fit
<1>7. ASSUME DeliverSubscribe(e)
      PROVE  SharedStays /\ Fit'
  <2>1. /\ UNCHANGED <<homes, minted, roots, refs, projections>>
        /\ f.kind = "subscribe"
    BY <1>7 DEF DeliverSubscribe, remoteVars, callVars, f
  <2>2. SharedStays
    BY <1>5, <2>1
  <2>3. RemotesKnown'
    BY <1>1, <2>1, <2>2, RemotesStay
  <2>4. f.id \in minted /\ f.id \in Id
    BY <1>1, <2>1, FrameFields DEF Fits
  <2>5. CASE homes[e][f.target] # "absent"
    <3>1. /\ observers' = [observers EXCEPT ![e][f.target] = Append(@, f.id)]
          /\ Receive(e, <<Notify(f.id, version[e][f.target])>>)
          /\ UNCHANGED pendingRoot
      BY <1>7, <2>5 DEF DeliverSubscribe, f
    <3>2. WiresFit'
      <4> DEFINE fs == <<Notify(f.id, version[e][f.target])>>
      <4>1. version[e][f.target] \in Nat
        BY <1>1 DEF TypeOK
      <4>2. /\ fs \in Seq(Frame) /\ DOMAIN fs = {1}
            /\ fs[1] = Notify(f.id, version[e][f.target])
        BY <2>4, <4>1, FrameTypes
      <4>3. Fits(Notify(f.id, version[e][f.target]), homes'[e], homes'[Peer(e)], minted')
        BY <2>1, <2>4, BuiltFits
      <4>4. Receive(e, fs)
        BY <3>1
      <4> HIDE DEF fs
      <4>5. QED
        BY <1>3, <2>2, <4>2, <4>3, <4>4
    <3>3. QueuesFit'
      BY <1>1, <2>2, <3>1, QueuesStay
    <3>4. RootsFit'
      <4>1. \A x \in End : homes[x][Root] = "absent" => observers'[x][Root] = observers[x][Root]
        BY <1>1, <2>5, <3>1 DEF TypeOK
      <4>2. QED
        BY <2>1, <3>1, <4>1 DEF FitInv, Fit, RootsFit
    <3>5. ObserversDrawn'
      <4>1. ASSUME NEW x \in End, NEW a \in Addr
            PROVE  Range(observers'[x][a]) \subseteq minted
        <5>1. observers[x][a] \in Seq(Id) /\ Range(observers[x][a]) \subseteq minted
          BY DEF FitInv, ObserverInv, TypeOK, Fit, ObserversDrawn
        <5>2. \/ observers'[x][a] = observers[x][a]
              \/ observers'[x][a] = Append(observers[x][a], f.id)
          BY <1>1, <3>1 DEF TypeOK
        <5>3. CASE observers'[x][a] = observers[x][a]
          BY <5>1, <5>3
        <5>4. CASE observers'[x][a] = Append(observers[x][a], f.id)
          <6>1. Range(Append(observers[x][a], f.id)) \subseteq minted
            BY <2>4, <5>1 DEF Range
          <6>2. QED
            BY <5>4, <6>1
        <5>5. QED
          BY <5>2, <5>3, <5>4
      <4>2. QED
        BY <2>1, <4>1 DEF ObserversDrawn
    <3>6. QED
      BY <2>2, <2>3, <3>2, <3>3, <3>4, <3>5 DEF Fit
  <2>6. CASE homes[e][f.target] = "absent"
    <3>1. /\ pendingRoot' = IF f.target = Root
                            THEN [pendingRoot EXCEPT ![e] = Append(@, f)]
                            ELSE pendingRoot
          /\ Receive(e, <<>>) /\ UNCHANGED observers
      BY <1>7, <2>6 DEF DeliverSubscribe, f
    <3>2. WiresFit'
      BY <1>4, <2>2, <3>1
    <3>3. QueuesFit'
      <4>1. \A x \in End : \/ pendingRoot'[x] = pendingRoot[x]
                           \/ /\ x = e /\ f.target = Root
                              /\ pendingRoot'[x] = Append(pendingRoot[x], f)
        BY <1>1, <3>1 DEF TypeOK
      <4>2. QED
        BY <1>1, <2>1, <2>2, <4>1, QueuesStay
    <3>4. RootsFit'
      <4>1. \A x \in End : homes[x][Root] # "absent" => pendingRoot'[x] = pendingRoot[x]
        BY <1>1, <2>6, <3>1 DEF TypeOK
      <4>2. QED
        BY <2>1, <3>1, <4>1 DEF FitInv, Fit, RootsFit
    <3>5. ObserversDrawn'
      BY <2>1, <3>1 DEF FitInv, Fit, ObserversDrawn
    <3>6. QED
      BY <2>2, <2>3, <3>2, <3>3, <3>4, <3>5 DEF Fit
  <2>7. QED
    BY <2>5, <2>6
<1>8. ASSUME DeliverRelease(e)
      PROVE  SharedStays /\ Fit'
  <2>1. /\ UNCHANGED <<minted, pendingRoot, roots, refs, projections>>
        /\ f.kind = "release" /\ Receive(e, <<>>)
        /\ \/ UNCHANGED <<homes, observers>>
           \/ /\ homes' = [homes EXCEPT ![e][f.target] =
                              IF @ = "strong" THEN "weak" ELSE @]
              /\ observers' = [observers EXCEPT ![e][f.target] = <<>>]
              /\ homes[e][f.target] # "absent"
    BY <1>8 DEF DeliverRelease, remoteVars, callVars, f
  <2>2. /\ \A x \in End, a \in Addr :
              \/ homes'[x][a] = homes[x][a]
              \/ homes[x][a] = "strong" /\ homes'[x][a] = "weak"
        /\ \A x \in End, a \in Addr :
              \/ observers'[x][a] = observers[x][a]
              \/ observers'[x][a] = <<>>
    <3>1. CASE UNCHANGED <<homes, observers>>
      BY <3>1
    <3>2. CASE /\ homes' = [homes EXCEPT ![e][f.target] =
                              IF @ = "strong" THEN "weak" ELSE @]
               /\ observers' = [observers EXCEPT ![e][f.target] = <<>>]
      BY <1>1, <3>2 DEF TypeOK
    <3>3. QED
      BY <2>1, <3>1, <3>2
  <2>3. SharedStays
    BY <2>1, <2>2, HomesStay DEF Addr
  <2>4. WiresFit'
    BY <1>4, <2>1, <2>3
  <2>5. QueuesFit' /\ RemotesKnown'
    BY <1>1, <2>1, <2>3, QueuesStay, RemotesStay
  <2>6. RootsFit'
    BY <1>1, <2>1, <2>2 DEF FitInv, Fit, RootsFit
  <2>7. ObserversDrawn'
    <3>1. Range(<<>>) = {}
      BY DEF Range
    <3>2. QED
      BY <2>1, <2>2, <3>1 DEF FitInv, Fit, ObserversDrawn
  <2>8. QED
    BY <2>3, <2>4, <2>5, <2>6, <2>7 DEF Fit
<1>9. ASSUME QueueRootCall(e)
      PROVE  SharedStays /\ Fit'
  <2>1. /\ UNCHANGED <<homes, minted, observers, roots, refs, projections>>
        /\ f.kind = "call" /\ f.target = Root /\ homes[e][Root] = "absent"
        /\ pendingRoot' = [pendingRoot EXCEPT ![e] = Append(@, f)]
        /\ Receive(e, <<>>)
    BY <1>9 DEF QueueRootCall, remoteVars, callVars, f
  <2>2. SharedStays /\ WiresFit'
    BY <1>4, <1>5, <2>1
  <2>3. \A x \in End : \/ pendingRoot'[x] = pendingRoot[x]
                       \/ x = e /\ pendingRoot'[x] = Append(pendingRoot[x], f)
    BY <2>1, <1>1 DEF TypeOK
  <2>4. QueuesFit' /\ RemotesKnown'
    BY <1>1, <2>1, <2>2, <2>3, QueuesStay, RemotesStay
  <2>5. RootsFit' /\ ObserversDrawn'
    BY <2>1, <2>3 DEF FitInv, Fit, RootsFit, ObserversDrawn
  <2>6. QED
    BY <2>2, <2>4, <2>5 DEF Fit
<1>10. ASSUME NEW ref \in Id \cup {Nil}, NEW async \in BOOLEAN,
              RejectCall(e) \/ FireSignal(e) \/ HandleCall(e, ref, async)
       PROVE  SharedStays /\ Fit'
  <2>1. /\ UNCHANGED <<homes, minted, pendingRoot, observers, roots, projections>>
        /\ f.kind = "call"
        /\ UNCHANGED refs \/ refs' = [refs EXCEPT ![e] = @ \cup ({f.id} \ {Nil})]
    BY <1>10 DEF RejectCall, FireSignal, HandleCall, homeVars, remoteVars, callVars, f
  <2>2. SharedStays
    BY <1>5, <2>1
  <2>3. WiresFit'
    <3>1. \/ Receive(e, <<>>)
          \/ \E r \in Id \cup {Nil}, b \in BOOLEAN :
                /\ Receive(e, Respond(e, f, r, b))
                /\ r = Nil \/ Known(homes[e], r)
      BY <1>10, PayloadKnown DEF RejectCall, FireSignal, HandleCall, f
    <3>2. ASSUME NEW r \in Id \cup {Nil}, NEW b \in BOOLEAN,
                 Receive(e, Respond(e, f, r, b)), r = Nil \/ Known(homes[e], r)
          PROVE  WiresFit'
      <4>1. Respond(e, f, r, b) \in Seq(Frame)
        BY <1>1, RespondType
      <4>2. r = Nil \/ Known(homes'[e], r)
        BY <2>1, <3>2
      <4>3. \A i \in DOMAIN Respond(e, f, r, b) :
               Fits(Respond(e, f, r, b)[i], homes'[e], homes'[Peer(e)], minted')
        BY <4>2, RespondFits
      <4>4. QED
        BY <1>3, <2>2, <3>2, <4>1, <4>3
    <3>3. QED
      BY <1>4, <2>2, <3>1, <3>2
  <2>4. QueuesFit'
    BY <1>1, <2>1, <2>2, QueuesStay
  <2>5. RemotesKnown'
    <3>1. f.id = Nil \/ Known(homes[Peer(e)], f.id)
      BY <1>1, <2>1 DEF Fits
    <3>2. refs \in [End -> SUBSET Id]
      BY <1>1 DEF TypeOK
    <3>3. \A x \in End : \A b \in refs'[x] :
             b \in refs[x] \/ (x = e /\ b = f.id /\ b # Nil)
      <4>1. CASE UNCHANGED refs
        BY <4>1
      <4>2. CASE refs' = [refs EXCEPT ![e] = @ \cup ({f.id} \ {Nil})]
        BY <3>2, <4>2
      <4>3. QED
        BY <2>1, <4>1, <4>2
    <3>4. QED
      BY <1>1, <2>1, <2>2, <3>1, <3>3, RemotesStay
  <2>6. RootsFit' /\ ObserversDrawn'
    BY <2>1, RootsStay DEF FitInv, Fit, ObserversDrawn
  <2>7. QED
    BY <2>2, <2>3, <2>4, <2>5, <2>6 DEF Fit
<1>11. QED
  BY <1>6, <1>7, <1>8, <1>9, <1>10 DEF Deliver

\* What is in flight fits in every reachable state.
LEMMA FitAlways == Spec => []FitInv
<1>1. Init => FitInv
  <2> SUFFICES ASSUME Init PROVE FitInv
    OBVIOUS
  <2>1. ObserverInv
    BY InitType DEF Init, ObserverInv, HomesMinted, ObserverHomesExact, Addr
  <2>2. DOMAIN <<>> = {} /\ Range(<<>>) = {}
    BY DEF Range
  <2>3. Fit
    BY <2>2, PeerType DEF Init, Fit, WiresFit, QueuesFit, RemotesKnown, RootsFit,
                          ObserversDrawn, Addr
  <2>4. QED
    BY <2>1, <2>3 DEF FitInv
<1>2. FitInv /\ [Next]_vars => FitInv'
  <2> SUFFICES ASSUME FitInv, [Next]_vars PROVE FitInv'
    OBVIOUS
  <2>1. CASE UNCHANGED vars
    <3>1. TypeOK'
      BY StepType DEF FitInv, ObserverInv
    <3>2. UNCHANGED <<homes, observers, roots, pendingRoot, projections, signal,
                      refs, wire, minted>>
      BY <2>1 DEF vars, homeVars, remoteVars, callVars
    <3>3. HomesMinted' /\ ObserverHomesExact'
      BY <3>2 DEF FitInv, ObserverInv, HomesMinted, ObserverHomesExact
    <3>4. Fit'
      BY <3>2 DEF FitInv, Fit, WiresFit, QueuesFit, RemotesKnown, RootsFit,
                  ObserversDrawn
    <3>5. QED
      BY <3>1, <3>3, <3>4 DEF FitInv, ObserverInv
  <2>2. CASE Next
    <3>1. ObserverInv
      BY DEF FitInv
    <3>2. TypeOK'
      BY <3>1, StepType DEF ObserverInv
    <3>3. HomesMinted' /\ ObserverHomesExact'
      BY <2>2, <3>1, HomeStepKeepsObserverHomes, RemoteStepKeepsObserverHomes,
         DeliverKeepsObserverHomes DEF Next
    <3>4. Fit'
      BY <2>2, HomeStepKeepsFit, RemoteStepKeepsFit, DeliverKeepsFit DEF Next
    <3>5. QED
      BY <3>2, <3>3, <3>4 DEF FitInv, ObserverInv
  <2>3. QED
    BY <2>1, <2>2
<1>3. QED
  BY <1>1, <1>2, PTL DEF Spec
-----------------------------------------------------------------------------
(***************************************************************************)
(* Both ends agree on the observers of an object.                          *)
(***************************************************************************)
\* After the frames s, the observers S have become the one o, or none.
Agree(s, a, S, o) == Heard(s, a, S) = {o} \ {Nil}

Paired ==
    \A e \in End, a \in Id :
        Agree(wire[e], a, Range(observers[Peer(e)][a]), signal[e][a])

\* Frames that are no subscribes and no releases.
Silent(fs) == \A i \in DOMAIN fs : fs[i].kind \in {"call", "response"}

LEMMA SilentHeard ==
    ASSUME NEW s \in Seq(Frame), NEW fs \in Seq(Frame), Silent(fs), NEW a, NEW S
    PROVE  Heard(s \o fs, a, S) = Heard(s, a, S)
<1>1. \A T : Heard(fs, a, T) = T
  BY HeardNothing DEF Silent, Releases, Subscribes
<1>2. Heard(s \o fs, a, S) = Heard(fs, a, Heard(s, a, S))
  BY HeardConcat
<1>3. QED
  BY <1>1, <1>2

\* A step that sends silent frames and changes no signal and no observers of an
\* object.
LEMMA SilentKeepsPaired ==
    ASSUME TypeOK, Paired, NEW e \in End, NEW fs \in Seq(Frame), Send(e, fs),
           Silent(fs), UNCHANGED signal,
           \A x \in End, a \in Id : observers'[x][a] = observers[x][a]
    PROVE  Paired'
<1> SUFFICES ASSUME NEW x \in End, NEW a \in Id
             PROVE  Agree(wire'[x], a, Range(observers[Peer(x)][a]), signal[x][a])
  BY PeerType DEF Paired
<1>1. wire \in [End -> Seq(Frame)] /\ wire' = [wire EXCEPT ![e] = @ \o fs]
  BY DEF TypeOK, Send
<1>2. CASE x = e
  <2>1. wire[x] \in Seq(Frame) /\ wire'[x] = wire[x] \o fs
    BY <1>1, <1>2
  <2>2. QED
    BY <2>1, SilentHeard, SMTT(20) DEF Paired, Agree
<1>3. CASE x # e
  BY <1>1, <1>3 DEF Paired
<1>4. QED
  BY <1>2, <1>3

\* Sending nothing.
LEMMA SendNothing ==
    ASSUME TypeOK, NEW e \in End, UNCHANGED wire
    PROVE  <<>> \in Seq(Frame) /\ Send(e, <<>>) /\ Silent(<<>>)
<1>1. wire[e] \in Seq(Frame) /\ wire \in [End -> Seq(Frame)]
  BY DEF TypeOK
<1>2. wire[e] \o <<>> = wire[e]
  BY <1>1
<1>3. QED
  BY <1>1, <1>2 DEF Send, Silent

\* What user code and gpui do at the homes is silent.
LEMMA HomeStepSilent ==
    ASSUME TypeOK, NEW e \in End, HomeStep(e)
    PROVE  /\ \E fs \in Seq(Frame) : Send(e, fs) /\ Silent(fs)
           /\ UNCHANGED signal
           /\ \A x \in End, a \in Id : observers'[x][a] = observers[x][a]
<1>1. ASSUME NEW a, NEW k, Share(e, a, k) \/ DropEntity(e, a) \/ Change(e, a)
      PROVE  /\ \E fs \in Seq(Frame) : Send(e, fs) /\ Silent(fs)
             /\ UNCHANGED <<signal, observers>>
  <2>1. UNCHANGED <<wire, signal, observers>>
    BY <1>1 DEF Share, DropEntity, Change, remoteVars
  <2>2. QED
    BY <2>1, SendNothing
<1>2. ASSUME NEW a \in Addr, FlushNotify(e, a)
      PROVE  /\ \E fs \in Seq(Frame) : Send(e, fs) /\ Silent(fs)
             /\ UNCHANGED <<signal, observers>>
  <2> DEFINE fs == IF Alive(e, a) THEN Notifications(e, a) ELSE <<>>
  <2>1. fs \in Seq(Frame)
    BY NotificationsType
  <2>2. Silent(fs)
    BY DEF Silent, Notifications, Notify
  <2>3. Send(e, fs) /\ UNCHANGED <<signal, observers>>
    BY <1>2 DEF FlushNotify, remoteVars
  <2> HIDE DEF fs
  <2>4. QED
    BY <2>1, <2>2, <2>3
<1>3. ASSUME NEW f \in tasks[e], NEW ref \in Id \cup {Nil}, FinishTask(e, f, ref)
      PROVE  /\ \E fs \in Seq(Frame) : Send(e, fs) /\ Silent(fs)
             /\ UNCHANGED <<signal, observers>>
  <2>1. Respond(e, f, ref, TRUE) \in Seq(Frame)
    BY RespondType DEF TypeOK
  <2>2. Silent(Respond(e, f, ref, TRUE))
    BY DEF Silent, Respond, Response
  <2>3. Send(e, Respond(e, f, ref, TRUE)) /\ UNCHANGED <<signal, observers>>
    BY <1>3 DEF FinishTask, remoteVars
  <2>4. QED
    BY <2>1, <2>2, <2>3
<1>4. ASSUME NEW async, ShareRoot(e, async)
      PROVE  /\ \E fs \in Seq(Frame) : Send(e, fs) /\ Silent(fs)
             /\ UNCHANGED signal
             /\ \A x \in End, a \in Id : observers'[x][a] = observers[x][a]
  <2>1. /\ UNCHANGED signal
        /\ \E s : observers' = [observers EXCEPT ![e][Root] = s]
    BY <1>4 DEF ShareRoot, remoteVars
  <2>2. \A x \in End, a \in Id : observers'[x][a] = observers[x][a]
    BY <2>1, IdAssumption DEF TypeOK, Addr
  <2>3. \E fs \in Seq(Frame) : Send(e, fs) /\ Silent(fs)
    BY <1>4, ShareRootSends DEF Silent
  <2>4. QED
    BY <2>1, <2>2, <2>3
<1>5. QED
  BY <1>1, <1>2, <1>3, <1>4 DEF HomeStep

\* Everything but a subscribe, a release and a delivery is silent at the remote
\* side too.
LEMMA QuietStepSilent ==
    ASSUME TypeOK, NEW e \in End, NEW a \in Addr, NEW ref \in Id \cup {Nil},
           \/ Connect(e, a) \/ CloneRemote(e, a) \/ DropRemote(e, a)
           \/ CallMethod(e, a, ref)
    PROVE  /\ \E fs \in Seq(Frame) : Send(e, fs) /\ Silent(fs)
           /\ UNCHANGED <<signal, observers>>
<1>1. CASE Connect(e, a) \/ CloneRemote(e, a) \/ DropRemote(e, a)
  <2>1. UNCHANGED <<wire, signal, observers>>
    BY <1>1 DEF Connect, CloneRemote, DropRemote, homeVars
  <2>2. QED
    BY <2>1, SendNothing
<1>2. CASE CallMethod(e, a, ref)
  <2> DEFINE first == a \notin released[e]
             f == Call(a, nextRequest'[e], ref, first)
             fs == <<f>>
  <2>1. Send(e, fs) /\ UNCHANGED <<signal, observers>> /\ nextRequest'[e] \in Nat
    BY <1>2 DEF CallMethod, homeVars, remoteVars, TypeOK
  <2>2. first \in BOOLEAN
    OBVIOUS
  <2> HIDE DEF first
  <2>3. f \in Frame /\ f.kind = "call"
    BY <2>1, <2>2, FrameTypes DEF Call
  <2> HIDE DEF f
  <2>4. fs \in Seq(Frame) /\ Silent(fs)
    BY <2>3 DEF Silent
  <2> HIDE DEF fs
  <2>5. QED
    BY <2>1, <2>4
<1>3. QED
  BY <1>1, <1>2

\* Sending the releases of what it forgets leaves an end with no observers there.
LEMMA ForgetKeepsPaired ==
    ASSUME TypeOK, Paired, NEW e \in End, NEW S \in SUBSET Addr, Forget(e, S),
           UNCHANGED observers, NEW fs \in Seq(Frame), Send(e, fs),
           \A i \in DOMAIN fs : \E a \in S : fs[i] = Release(a),
           \A a \in S : \E i \in DOMAIN fs : fs[i] = Release(a)
    PROVE  Paired'
<1> SUFFICES ASSUME NEW x \in End, NEW a \in Id
             PROVE  Agree(wire'[x], a, Range(observers[Peer(x)][a]), signal'[x][a])
  BY PeerType DEF Paired
<1>1. /\ wire \in [End -> Seq(Frame)] /\ wire' = [wire EXCEPT ![e] = @ \o fs]
      /\ signal \in [End -> [Addr -> Id \cup {Nil}]] /\ a \in Addr
      /\ signal' = [signal EXCEPT ![e] = [b \in Addr |->
                        IF b \in S THEN Nil ELSE signal[e][b]]]
  BY DEF TypeOK, Send, Forget, Addr
<1> DEFINE T == Range(observers[Peer(x)][a])
<1> HIDE DEF T
<1>2. CASE x = e
  <2>1. wire[e] \in Seq(Frame) /\ wire'[e] = wire[e] \o fs
        /\ signal'[e][a] = IF a \in S THEN Nil ELSE signal[e][a]
    BY <1>1
  <2>2. Heard(wire[e] \o fs, a, T) = Heard(fs, a, Heard(wire[e], a, T))
    BY <2>1, HeardConcat
  <2>3. \A i \in DOMAIN fs : fs[i].kind = "release"
    BY DEF Release
  <2>4. CASE a \in S
    <3>1. \E i \in DOMAIN fs : Releases(fs[i], a)
      BY <2>4 DEF Release, Releases
    <3>2. \A i \in DOMAIN fs : ~Subscribes(fs[i], a)
      BY <2>3 DEF Subscribes
    <3>3. Heard(fs, a, Heard(wire[e], a, T)) = {}
      BY <3>1, <3>2, HeardRelease
    <3>4. QED
      BY <1>2, <2>1, <2>2, <2>4, <3>3 DEF Agree, T
  <2>5. CASE a \notin S
    <3>1. \A i \in DOMAIN fs : ~Releases(fs[i], a) /\ ~Subscribes(fs[i], a)
      BY <2>3, <2>5 DEF Release, Releases, Subscribes
    <3>2. Heard(fs, a, Heard(wire[e], a, T)) = Heard(wire[e], a, T)
      BY <3>1, HeardNothing
    <3>3. QED
      BY <1>2, <2>1, <2>2, <2>5, <3>2 DEF Agree, Paired, T
  <2>6. QED
    BY <2>4, <2>5
<1>3. CASE x # e
  BY <1>1, <1>3 DEF Paired
<1>4. QED
  BY <1>2, <1>3

\* The first observe subscribes where nobody was left.
LEMMA ObserveKeepsPaired ==
    ASSUME TypeOK, Paired, NEW e \in End, NEW b \in Addr, NEW o \in Id, Observe(e, b, o)
    PROVE  Paired'
<1> SUFFICES ASSUME NEW x \in End, NEW a \in Id
             PROVE  Agree(wire'[x], a, Range(observers[Peer(x)][a]), signal'[x][a])
  BY PeerType DEF Paired, Observe
<1> DEFINE f == Subscribe(b, o)
           fs == <<f>>
           T == Range(observers[Peer(x)][a])
<1>1. f \in Frame /\ f.target = b /\ f.id = o /\ f.kind = "subscribe"
  BY FrameTypes DEF Subscribe
<1>2. /\ wire \in [End -> Seq(Frame)] /\ wire' = [wire EXCEPT ![e] = @ \o fs]
      /\ signal \in [End -> [Addr -> Id \cup {Nil}]]
      /\ signal' = [signal EXCEPT ![e][b] = o]
      /\ signal[e][b] = Nil /\ o # Nil
  BY IdAssumption DEF TypeOK, Send, Observe
<1> HIDE DEF f, T
<1>3. fs \in Seq(Frame) /\ DOMAIN fs = {1} /\ fs[1] = f
  BY <1>1
<1> HIDE DEF fs
<1>4. CASE x = e
  <2>1. wire[e] \in Seq(Frame) /\ wire'[e] = wire[e] \o fs
        /\ signal'[e][a] = IF a = b THEN o ELSE signal[e][a]
    BY <1>2 DEF Addr
  <2>2. Heard(wire[e] \o fs, a, T) = Heard(fs, a, Heard(wire[e], a, T))
    BY <1>3, <2>1, HeardConcat
  <2>3. CASE a = b
    <3>1. Heard(fs, a, Heard(wire[e], a, T)) = Heard(wire[e], a, T) \cup {o}
      BY <1>1, <2>3, HeardSubscribe DEF Subscribes, fs
    <3>2. Heard(wire[e], a, T) = {}
      <4>1. Agree(wire[e], a, T, signal[e][a])
        BY <1>4 DEF Paired, T
      <4>2. signal[e][a] = Nil
        BY <1>2, <2>3
      <4>3. QED
        BY <4>1, <4>2 DEF Agree
    <3>3. QED
      BY <1>2, <1>4, <2>1, <2>2, <2>3, <3>1, <3>2 DEF Agree, T
  <2>4. CASE a # b
    <3>1. \A i \in DOMAIN fs : ~Releases(fs[i], a) /\ ~Subscribes(fs[i], a)
      BY <1>1, <1>3, <2>4 DEF Releases, Subscribes
    <3>2. Heard(fs, a, Heard(wire[e], a, T)) = Heard(wire[e], a, T)
      BY <3>1, HeardNothing
    <3>3. QED
      BY <1>4, <2>1, <2>2, <2>4, <3>2 DEF Agree, Paired, T
  <2>5. QED
    BY <2>3, <2>4
<1>5. CASE x # e
  BY <1>2, <1>5 DEF Paired
<1>6. QED
  BY <1>4, <1>5

\* What a delivery answers is silent.
LEMMA DeliverAnswers ==
    ASSUME TypeOK, NEW e \in End, Deliver(e)
    PROVE  \E fs \in Seq(Frame) : Receive(e, fs) /\ Silent(fs)
<1> DEFINE f == Next1(e)
<1>1. f \in Frame /\ f.target \in Addr
  BY Next1Type, FrameFields DEF TypeOK, Deliver
<1>2. <<>> \in Seq(Frame) /\ Silent(<<>>)
  BY DEF Silent
<1>3. \A ref \in Id \cup {Nil}, b \in BOOLEAN :
         Respond(e, f, ref, b) \in Seq(Frame) /\ Silent(Respond(e, f, ref, b))
  BY <1>1, RespondType DEF Silent, Respond, Response
<1>4. CASE DeliverSubscribe(e)
  <2> DEFINE fs == <<Notify(f.id, version[e][f.target])>>
  <2>1. f.id \in Id /\ version[e][f.target] \in Nat
    BY <1>1, <1>4, FrameFields DEF DeliverSubscribe, TypeOK
  <2>2. fs \in Seq(Frame) /\ Silent(fs)
    <3>1. Notify(f.id, version[e][f.target]) \in Frame
      BY <2>1, FrameTypes
    <3>2. QED
      BY <3>1 DEF Silent, Notify
  <2>3. Receive(e, fs) \/ Receive(e, <<>>)
    BY <1>4 DEF DeliverSubscribe
  <2> HIDE DEF fs
  <2>4. QED
    BY <1>2, <2>2, <2>3
<1>5. CASE DeliverResponse(e) \/ DeliverRelease(e) \/ QueueRootCall(e)
  BY <1>2, <1>5 DEF DeliverResponse, DeliverRelease, QueueRootCall
<1>6. ASSUME NEW ref \in Id \cup {Nil}, NEW async \in BOOLEAN,
             RejectCall(e) \/ FireSignal(e) \/ HandleCall(e, ref, async)
      PROVE  \E fs \in Seq(Frame) : Receive(e, fs) /\ Silent(fs)
  <2>1. Receive(e, <<>>)
        \/ \E r \in Id \cup {Nil}, b \in BOOLEAN : Receive(e, Respond(e, f, r, b))
    BY <1>6 DEF RejectCall, FireSignal, HandleCall
  <2>2. QED
    BY <1>2, <1>3, <2>1
<1>7. QED
  BY <1>4, <1>5, <1>6 DEF Deliver

\* The members of a longer list.
LEMMA RangeAppend ==
    ASSUME NEW s \in Seq(Id), NEW o \in Id
    PROVE  Range(Append(s, o)) = Range(s) \cup {o}
<1>1. /\ Len(s) \in Nat /\ DOMAIN s = 1 .. Len(s)
      /\ DOMAIN Append(s, o) = 1 .. Len(s) + 1
      /\ \A i \in 1 .. Len(s) : Append(s, o)[i] = s[i]
      /\ Append(s, o)[Len(s) + 1] = o
  BY AppendProperties
<1> DEFINE t == Append(s, o)
<1>2. \A i \in DOMAIN t : i \in DOMAIN s \/ i = Len(s) + 1
  BY <1>1
<1>3. \A i \in DOMAIN s : i \in DOMAIN t /\ t[i] = s[i]
  BY <1>1
<1>4. Len(s) + 1 \in DOMAIN t /\ t[Len(s) + 1] = o
  BY <1>1
<1> HIDE DEF t
<1>5. Range(t) = Range(s) \cup {o}
  BY <1>2, <1>3, <1>4 DEF Range
<1>6. QED
  BY <1>5 DEF t

\* What a delivery does to the observers of an object: what its frame says.
LEMMA DeliverHears ==
    ASSUME FitInv, NEW e \in End, Deliver(e), NEW a \in Id
    PROVE  /\ Range(observers'[e][a])
                 = Heard(<<Next1(e)>>, a, Range(observers[e][a]))
           /\ \A x \in End \ {e} : observers'[x] = observers[x]
<1> DEFINE f == Next1(e)
           S == Range(observers[e][a])
<1>1. /\ TypeOK /\ observers \in [End -> [Addr -> Seq(Id)]]
      /\ f \in Frame /\ Fits(f, homes[Peer(e)], homes[e], minted)
      /\ f.target \in Addr /\ a \in Addr
  BY Next1Fits, FrameFields DEF FitInv, ObserverInv, TypeOK, Addr, Deliver
<1>2. DOMAIN <<f>> = {1} /\ <<f>>[1] = f
  OBVIOUS
<1> HIDE DEF f
<1>3. CASE f.kind = "subscribe"
  <2>1. DeliverSubscribe(e)
    BY <1>3 DEF Deliver, DeliverSubscribe, DeliverResponse, DeliverRelease,
                QueueRootCall, RejectCall, FireSignal, HandleCall, f
  <2>2. CASE f.target = a
    <3>1. homes[e][a] # "absent"
      BY <1>1, <1>3, <2>2 DEF Fits, Known
    <3>2. observers' = [observers EXCEPT ![e][a] = Append(@, f.id)]
      BY <2>1, <2>2, <3>1 DEF DeliverSubscribe, f
    <3>3. /\ observers'[e][a] = Append(observers[e][a], f.id)
          /\ \A x \in End \ {e} : observers'[x] = observers[x]
          /\ observers[e][a] \in Seq(Id)
      BY <1>1, <3>2
    <3>4. Range(observers'[e][a]) = S \cup {f.id}
      <4>1. f.id \in Id
        BY <1>1, <1>3, FrameFields
      <4>2. QED
        BY <3>3, <4>1, RangeAppend
    <3>5. Heard(<<f>>, a, S) = S \cup {f.id}
      BY <1>1, <1>3, <2>2, HeardSubscribe DEF Subscribes
    <3>6. QED
      BY <3>3, <3>4, <3>5 DEF f
  <2>3. CASE f.target # a
    <3>1. \/ UNCHANGED observers
          \/ observers' = [observers EXCEPT ![e][f.target] = Append(@, f.id)]
      BY <2>1 DEF DeliverSubscribe, f
    <3>2. /\ observers'[e][a] = observers[e][a]
          /\ \A x \in End \ {e} : observers'[x] = observers[x]
      BY <1>1, <2>3, <3>1
    <3>3. Heard(<<f>>, a, S) = S
      BY <1>2, <2>3, HeardNothing DEF Subscribes, Releases
    <3>4. QED
      BY <3>2, <3>3 DEF f
  <2>4. QED
    BY <2>2, <2>3
<1>4. CASE f.kind = "release"
  <2>1. DeliverRelease(e)
    BY <1>4 DEF Deliver, DeliverSubscribe, DeliverResponse, DeliverRelease,
                QueueRootCall, RejectCall, FireSignal, HandleCall, f
  <2>2. CASE f.target = a
    <3>1. homes[e][a] # "absent"
      BY <1>1, <1>4, <2>2 DEF Fits, Known
    <3>2. observers' = [observers EXCEPT ![e][a] = <<>>]
      BY <2>1, <2>2, <3>1 DEF DeliverRelease, f
    <3>3. /\ observers'[e][a] = <<>>
          /\ \A x \in End \ {e} : observers'[x] = observers[x]
      BY <1>1, <3>2
    <3>4. Range(observers'[e][a]) = {}
      BY <3>3 DEF Range
    <3>5. Heard(<<f>>, a, S) = {}
      BY <1>2, <1>4, <2>2, HeardRelease DEF Subscribes, Releases
    <3>6. QED
      BY <3>3, <3>4, <3>5 DEF f
  <2>3. CASE f.target # a
    <3>1. \/ UNCHANGED observers
          \/ observers' = [observers EXCEPT ![e][f.target] = <<>>]
      BY <2>1 DEF DeliverRelease, f
    <3>2. /\ observers'[e][a] = observers[e][a]
          /\ \A x \in End \ {e} : observers'[x] = observers[x]
      BY <1>1, <2>3, <3>1
    <3>3. Heard(<<f>>, a, S) = S
      BY <1>2, <2>3, HeardNothing DEF Subscribes, Releases
    <3>4. QED
      BY <3>2, <3>3 DEF f
  <2>4. QED
    BY <2>2, <2>3
<1>5. CASE f.kind # "subscribe" /\ f.kind # "release"
  <2>1. UNCHANGED observers
    BY <1>5 DEF Deliver, DeliverSubscribe, DeliverResponse, DeliverRelease,
                QueueRootCall, RejectCall, FireSignal, HandleCall, homeVars, f
  <2>2. Heard(<<f>>, a, S) = S
    BY <1>2, <1>5, HeardNothing DEF Subscribes, Releases
  <2>3. QED
    BY <2>1, <2>2 DEF f
<1>6. QED
  BY <1>3, <1>4, <1>5

\* The two ends of a delivery.
LEMMA DeliverEnds ==
    ASSUME FitInv, NEW e \in End, Deliver(e)
    PROVE  /\ TypeOK /\ wire \in [End -> Seq(Frame)]
           /\ wire[e] \in Seq(Frame) /\ wire[Peer(e)] \in Seq(Frame)
           /\ wire[Peer(e)] # <<>>
           /\ Peer(e) \in End /\ Peer(e) # e /\ Peer(Peer(e)) = e
           /\ \A y \in End : y = e \/ y = Peer(e)
<1>1. TypeOK /\ wire[Peer(e)] # <<>>
  BY DEF FitInv, ObserverInv, Deliver
<1>2. wire \in [End -> Seq(Frame)]
  BY <1>1 DEF TypeOK
<1>3. /\ Peer(e) \in End /\ Peer(e) # e /\ Peer(Peer(e)) = e
      /\ \A y \in End : y = e \/ y = Peer(e)
  BY EndsAssumption DEF End, Peer
<1>4. wire[e] \in Seq(Frame) /\ wire[Peer(e)] \in Seq(Frame)
  BY <1>2, <1>3
<1>5. QED
  BY <1>1, <1>2, <1>3, <1>4

LEMMA DeliverKeepsPaired ==
    ASSUME FitInv, Paired, NEW e \in End, Deliver(e)
    PROVE  Paired'
<1> SUFFICES ASSUME NEW x \in End, NEW a \in Id
             PROVE  Agree(wire'[x], a, Range(observers'[Peer(x)][a]), signal'[x][a])
  BY DEF Paired
<1>1. /\ TypeOK /\ wire \in [End -> Seq(Frame)] /\ wire[Peer(e)] # <<>>
      /\ Peer(e) \in End /\ Peer(e) # e /\ Peer(Peer(e)) = e
      /\ \A y \in End : y = e \/ y = Peer(e)
  BY DeliverEnds
<1>2. PICK fs \in Seq(Frame) : Receive(e, fs) /\ Silent(fs)
  BY <1>1, DeliverAnswers
<1>3. UNCHANGED signal
  BY DEF Deliver, DeliverSubscribe, DeliverResponse, DeliverRelease,
         QueueRootCall, RejectCall, FireSignal, HandleCall, remoteVars
<1>4. wire'[e] = wire[e] \o fs /\ wire'[Peer(e)] = Tail(wire[Peer(e)])
  BY <1>1, <1>2 DEF Receive
<1>5. CASE x = e
  <2>1. observers'[Peer(e)] = observers[Peer(e)]
    BY <1>1, DeliverHears
  <2>2. wire[e] \in Seq(Frame)
    BY <1>1
  <2>3. \A T : Heard(wire[e] \o fs, a, T) = Heard(wire[e], a, T)
    BY <1>2, <2>2, SilentHeard
  <2>4. QED
    BY <1>3, <1>4, <1>5, <2>1, <2>3 DEF Paired, Agree
<1>6. CASE x = Peer(e)
  <2> DEFINE s == wire[Peer(e)]
             S == Range(observers[e][a])
  <2>1. s \in Seq(Frame) /\ s # <<>> /\ Head(s) = Next1(e)
    BY <1>1 DEF Next1
  <2> HIDE DEF s, S
  <2>2. Heard(s, a, S) = Heard(Tail(s), a, Heard(<<Head(s)>>, a, S))
    BY <2>1, HeardFront
  <2>3. Range(observers'[e][a]) = Heard(<<Next1(e)>>, a, S)
    BY DeliverHears DEF S
  <2>4. Heard(s, a, S) = {signal[x][a]} \ {Nil}
    BY <1>1, <1>6 DEF Paired, Agree, s, S
  <2>5. wire'[x] = Tail(s)
    BY <1>4, <1>6 DEF s
  <2>6. QED
    BY <1>1, <1>3, <1>6, <2>1, <2>2, <2>3, <2>4, <2>5 DEF Agree
<1>7. QED
  BY <1>1, <1>5, <1>6

LEMMA RemoteStepKeepsPaired ==
    ASSUME FitInv, Paired, NEW e \in End, RemoteStep(e)
    PROVE  Paired'
<1>1. TypeOK
  BY DEF FitInv, ObserverInv
<1>2. ASSUME NEW a \in Addr, NEW ref \in Id \cup {Nil},
             \/ Connect(e, a) \/ CloneRemote(e, a) \/ DropRemote(e, a)
             \/ CallMethod(e, a, ref)
      PROVE  Paired'
  <2>1. /\ \E fs \in Seq(Frame) : Send(e, fs) /\ Silent(fs)
        /\ UNCHANGED <<signal, observers>>
    BY <1>1, <1>2, QuietStepSilent
  <2>2. QED
    BY <1>1, <2>1, SilentKeepsPaired
<1>3. ASSUME NEW a \in Addr, Reconnect(e, a)
      PROVE  Paired'
  <2> DEFINE fs == <<Release(a)>>
  <2>1. /\ fs \in Seq(Frame)
        /\ \A i \in DOMAIN fs : \E b \in {a} : fs[i] = Release(b)
        /\ \A b \in {a} : \E i \in DOMAIN fs : fs[i] = Release(b)
    BY FrameTypes
  <2>2. Forget(e, {a}) /\ Send(e, fs) /\ UNCHANGED observers
    BY <1>3 DEF Reconnect
  <2> HIDE DEF fs
  <2>3. QED
    BY <1>1, <2>1, <2>2, ForgetKeepsPaired
<1>4. ASSUME DrainReleases(e)
      PROVE  Paired'
  <2> DEFINE gone == releases[e] \cap projections[e]
  <2>1. PICK fs \in Seq(Frame) :
           /\ Send(e, fs)
           /\ \A i \in DOMAIN fs : \E a \in gone : fs[i] = Release(a)
           /\ \A a \in gone : \E i \in DOMAIN fs : fs[i] = Release(a)
    BY <1>1, <1>4, DrainSends
  <2>2. Forget(e, gone) /\ UNCHANGED observers /\ gone \in SUBSET Addr
    BY <1>1, <1>4 DEF DrainReleases, TypeOK
  <2> HIDE DEF gone
  <2>3. QED
    BY <1>1, <2>1, <2>2, ForgetKeepsPaired
<1>5. ASSUME NEW a \in Addr, NEW o \in Id, Observe(e, a, o)
      PROVE  Paired'
  BY <1>1, <1>5, ObserveKeepsPaired
<1>6. QED
  BY <1>2, <1>3, <1>4, <1>5 DEF RemoteStep

\* The frames that wait for a root say nothing of the objects.
LEMMA PairedObservers ==
    ASSUME FitInv, Paired
    PROVE  ObserverPairing
<1> SUFFICES ASSUME NEW e \in End, NEW a \in Id
             PROVE  ObserversToBe(e, a) = {signal[e][a]} \ {Nil}
  BY DEF ObserverPairing, ObserversAgree
<1> DEFINE q == pendingRoot[Peer(e)]
           s == wire[e]
           S == Range(observers[Peer(e)][a])
<1>1. q \in Seq(Frame) /\ s \in Seq(Frame) /\ Peer(e) \in End
  BY PeerType DEF FitInv, ObserverInv, TypeOK
<1>2. \A i \in DOMAIN q : q[i].target = Root
  BY <1>1 DEF FitInv, Fit, QueuesFit
<1>3. InFlight(e) = q \o s
  BY DEF InFlight
<1>4. Heard(s, a, S) = {signal[e][a]} \ {Nil}
  BY DEF Paired, Agree
<1>5. ObserversToBe(e, a) = Heard(InFlight(e), a, S)
  BY ObserversToBeHeard
<1> HIDE DEF q, s, S
<1>6. Heard(q, a, S) = S
  BY <1>2, HeardNothing, IdAssumption DEF Releases, Subscribes
<1>7. Heard(q \o s, a, S) = Heard(s, a, Heard(q, a, S))
  BY <1>1, HeardConcat
<1>8. QED
  BY <1>3, <1>4, <1>5, <1>6, <1>7

LEMMA PairedAlways == Spec => []Paired
<1>1. Init => Paired
  <2> SUFFICES ASSUME Init, NEW e \in End, NEW a \in Id
               PROVE  Agree(wire[e], a, Range(observers[Peer(e)][a]), signal[e][a])
    BY DEF Paired
  <2>1. wire[e] = <<>> /\ observers[Peer(e)][a] = <<>> /\ signal[e][a] = Nil
    BY PeerType DEF Init, Addr
  <2>2. DOMAIN <<>> = {} /\ Range(<<>>) = {}
    BY DEF Range
  <2>3. Heard(<<>>, a, {}) = {}
    BY <2>2, HeardNothing
  <2>4. QED
    BY <2>1, <2>2, <2>3 DEF Agree
<1>2. FitInv /\ Paired /\ [Next]_vars => Paired'
  <2> SUFFICES ASSUME FitInv, Paired, [Next]_vars PROVE Paired'
    OBVIOUS
  <2>1. CASE UNCHANGED vars
    BY <2>1 DEF Paired, vars, homeVars, remoteVars
  <2>2. ASSUME NEW e \in End, HomeStep(e) PROVE Paired'
    <3>1. TypeOK
      BY DEF FitInv, ObserverInv
    <3>2. QED
      BY <2>2, <3>1, HomeStepSilent, SilentKeepsPaired
  <2>3. QED
    BY <2>1, <2>2, RemoteStepKeepsPaired, DeliverKeepsPaired DEF Next
<1>3. QED
  BY <1>1, <1>2, FitAlways, PTL DEF Spec

(***************************************************************************)
(* In every reachable state, once what is in flight is applied, the home   *)
(* of an object lists the other end's current signal and nothing else:     *)
(* subscribe, release, reconnect and their races never leave it with an    *)
(* observer nobody listens on, or without the one somebody does.           *)
(***************************************************************************)
THEOREM ObserversPaired == Spec => []ObserverPairing
<1>1. FitInv /\ Paired => ObserverPairing
  BY PairedObservers
<1>2. QED
  BY <1>1, FitAlways, PairedAlways, PTL
-----------------------------------------------------------------------------
(***************************************************************************)
(* No notify is lost.  First, whoever listens on a root is heard: the home *)
(* lists its signal, or a subscribe on its way will have it listed.  This  *)
(* holds as long as a root is installed at most once.                      *)
(***************************************************************************)
\* The observers a root has, or will have once it is installed.
Listed(e) == Heard(pendingRoot[e], Root, Range(observers[e][Root]))

RootHeard ==
    \A e \in End : signal[e][Root] # Nil =>
        signal[e][Root] \in Heard(wire[e], Root, Listed(Peer(e)))

\* A step that sends silent frames and loses no listed observer.
LEMMA SilentKeepsHeard ==
    ASSUME TypeOK, RootHeard, NEW e \in End, NEW fs \in Seq(Frame), Send(e, fs),
           Silent(fs), UNCHANGED signal,
           \A x \in End : Listed(x) \subseteq Listed(x)'
    PROVE  RootHeard'
<1> SUFFICES ASSUME NEW x \in End, signal[x][Root] # Nil
             PROVE  signal[x][Root] \in Heard(wire'[x], Root, Listed(Peer(x))')
  BY PeerType DEF RootHeard
<1> DEFINE L == Listed(Peer(x))
           M == Listed(Peer(x))'
<1>1. wire \in [End -> Seq(Frame)] /\ wire' = [wire EXCEPT ![e] = @ \o fs]
      /\ L \subseteq M /\ signal[x][Root] \in Heard(wire[x], Root, L)
  BY PeerType DEF TypeOK, Send, RootHeard
<1> HIDE DEF L, M
<1>2. Heard(wire[x], Root, L) \subseteq Heard(wire[x], Root, M)
  BY <1>1, HeardMonotone
<1>3. Heard(wire'[x], Root, M) = Heard(wire[x], Root, M)
  <2>1. CASE x = e
    <3>1. wire[x] \in Seq(Frame) /\ wire'[x] = wire[x] \o fs
      BY <1>1, <2>1
    <3>2. QED
      BY <3>1, SilentHeard
  <2>2. CASE x # e
    BY <1>1, <2>2
  <2>3. QED
    BY <2>1, <2>2
<1>4. QED
  BY <1>1, <1>2, <1>3 DEF M

\* Installing the root lists whoever waited for it, and until then nobody is
\* listed but who waits.
LEMMA HomeStepKeepsHeard ==
    ASSUME MaxRoots <= 1, FitInv, RootHeard, NEW e \in End, HomeStep(e)
    PROVE  RootHeard'
<1>1. TypeOK
  BY DEF FitInv, ObserverInv
<1>2. \A x \in End : Listed(x) \subseteq Listed(x)'
  <2>1. ASSUME NEW async, ShareRoot(e, async)
        PROVE  \A x \in End : Listed(x) \subseteq Listed(x)'
    <3> DEFINE queue == pendingRoot[e]
    <3>1. homes[e][Root] = "absent"
      <4>1. roots[e] < 1
        <5>1. roots[e] < MaxRoots
          BY <2>1 DEF ShareRoot
        <5>2. roots[e] \in Nat /\ MaxRoots \in Nat
          BY <1>1, BoundsAssumption DEF TypeOK
        <5>3. QED
          BY <5>1, <5>2
      <4>2. QED
        BY <1>1, <4>1 DEF FitInv, Fit, RootsFit, TypeOK
    <3>2. Range(observers[e][Root]) = {}
      BY <3>1 DEF FitInv, Fit, RootsFit, Range
    <3>3. \A i \in DOMAIN queue : queue[i].target = Root
      BY DEF FitInv, Fit, QueuesFit
    <3>4. Listed(e) \subseteq
             {queue[i].id : i \in {j \in DOMAIN queue : queue[j].kind = "subscribe"}}
      BY <3>2 DEF Listed, Heard, Subscribes
    <3>5. Range(observers'[e][Root])
             = {queue[i].id : i \in {j \in DOMAIN queue : queue[j].kind = "subscribe"}}
      BY <1>1, <2>1, ShareRootAnswers
    <3>6. /\ pendingRoot' = [pendingRoot EXCEPT ![e] = <<>>]
          /\ \E s : observers' = [observers EXCEPT ![e][Root] = s]
      BY <2>1 DEF ShareRoot
    <3>7. Listed(e)' = Range(observers'[e][Root])
      <4>1. pendingRoot'[e] = <<>> /\ DOMAIN <<>> = {}
        BY <1>1, <3>6 DEF TypeOK
      <4>2. QED
        BY <4>1, HeardNothing DEF Listed
    <3>8. \A x \in End \ {e} : Listed(x)' = Listed(x)
      BY <1>1, <3>6 DEF TypeOK, Listed
    <3>9. QED
      BY <3>4, <3>5, <3>7, <3>8
  <2>2. CASE ~ \E async : ShareRoot(e, async)
    <3>1. UNCHANGED <<pendingRoot, observers>>
      BY <2>2 DEF HomeStep, Share, DropEntity, Change, FlushNotify, FinishTask
    <3>2. QED
      BY <3>1 DEF Listed
  <2>3. QED
    BY <2>1, <2>2
<1>3. QED
  BY <1>1, <1>2, HomeStepSilent, SilentKeepsHeard

\* Observing subscribes; a signal that is forgotten is none.
LEMMA RemoteStepKeepsHeard ==
    ASSUME FitInv, RootHeard, NEW e \in End, RemoteStep(e)
    PROVE  RootHeard'
<1>1. TypeOK /\ wire \in [End -> Seq(Frame)] /\ Root \in Addr
  BY DEF FitInv, ObserverInv, TypeOK, Addr
<1>2. ASSUME NEW a \in Addr, NEW ref \in Id \cup {Nil},
             \/ Connect(e, a) \/ CloneRemote(e, a) \/ DropRemote(e, a)
             \/ CallMethod(e, a, ref)
      PROVE  RootHeard'
  <2>1. /\ \E fs \in Seq(Frame) : Send(e, fs) /\ Silent(fs)
        /\ UNCHANGED <<signal, observers>>
    BY <1>1, <1>2, QuietStepSilent
  <2>2. UNCHANGED pendingRoot
    BY <1>2 DEF Connect, CloneRemote, DropRemote, CallMethod, homeVars
  <2>3. \A x \in End : Listed(x) \subseteq Listed(x)'
    BY <2>1, <2>2 DEF Listed
  <2>4. QED
    BY <1>1, <2>1, <2>3, SilentKeepsHeard
<1>3. ASSUME NEW S \in SUBSET Addr, Forget(e, S), UNCHANGED <<observers, pendingRoot>>,
             NEW fs \in Seq(Frame), Send(e, fs),
             \A i \in DOMAIN fs : \E a \in S : fs[i] = Release(a)
      PROVE  RootHeard'
  <2> SUFFICES ASSUME NEW x \in End, signal'[x][Root] # Nil
               PROVE  signal'[x][Root] \in Heard(wire'[x], Root, Listed(Peer(x)))
    BY <1>3, PeerType DEF RootHeard, Listed
  <2> DEFINE L == Listed(Peer(x))
  <2>1. /\ signal' = [signal EXCEPT ![e] = [b \in Addr |->
                          IF b \in S THEN Nil ELSE signal[e][b]]]
        /\ signal \in [End -> [Addr -> Id \cup {Nil}]]
        /\ wire' = [wire EXCEPT ![e] = @ \o fs]
    BY <1>1, <1>3 DEF TypeOK, Send, Forget
  <2>2. signal[x][Root] = signal'[x][Root] /\ (x = e => Root \notin S)
    BY <1>1, <2>1
  <2>3. signal[x][Root] \in Heard(wire[x], Root, L)
    BY <2>2 DEF RootHeard
  <2> HIDE DEF L
  <2>4. Heard(wire'[x], Root, L) = Heard(wire[x], Root, L)
    <3>1. CASE x = e
      <4>1. wire[x] \in Seq(Frame) /\ wire'[x] = wire[x] \o fs
        BY <1>1, <2>1, <3>1
      <4>2. Heard(wire[x] \o fs, Root, L) = Heard(fs, Root, Heard(wire[x], Root, L))
        BY <4>1, HeardConcat
      <4>3. \A i \in DOMAIN fs : ~Releases(fs[i], Root) /\ ~Subscribes(fs[i], Root)
        BY <1>3, <2>2, <3>1 DEF Release, Releases, Subscribes
      <4>4. QED
        BY <4>1, <4>2, <4>3, HeardNothing
    <3>2. CASE x # e
      BY <1>1, <2>1, <3>2
    <3>3. QED
      BY <3>1, <3>2
  <2>5. QED
    BY <2>2, <2>3, <2>4 DEF L
<1>4. ASSUME NEW a \in Addr, Reconnect(e, a)
      PROVE  RootHeard'
  <2> DEFINE fs == <<Release(a)>>
  <2>1. fs \in Seq(Frame) /\ \A i \in DOMAIN fs : \E b \in {a} : fs[i] = Release(b)
    BY FrameTypes
  <2>2. Forget(e, {a}) /\ Send(e, fs) /\ UNCHANGED <<observers, pendingRoot>>
    BY <1>4 DEF Reconnect
  <2> HIDE DEF fs
  <2>3. QED
    BY <1>3, <2>1, <2>2
<1>5. ASSUME DrainReleases(e)
      PROVE  RootHeard'
  <2> DEFINE gone == releases[e] \cap projections[e]
  <2>1. PICK fs \in Seq(Frame) :
           /\ Send(e, fs)
           /\ \A i \in DOMAIN fs : \E a \in gone : fs[i] = Release(a)
    BY <1>1, <1>5, DrainSends
  <2>2. /\ Forget(e, gone) /\ UNCHANGED <<observers, pendingRoot>>
        /\ gone \in SUBSET Addr
    BY <1>1, <1>5 DEF DrainReleases, TypeOK
  <2> HIDE DEF gone
  <2>3. QED
    BY <1>3, <2>1, <2>2
<1>6. ASSUME NEW b \in Addr, NEW o \in Id, Observe(e, b, o)
      PROVE  RootHeard'
  <2> SUFFICES ASSUME NEW x \in End, signal'[x][Root] # Nil
               PROVE  signal'[x][Root] \in Heard(wire'[x], Root, Listed(Peer(x)))
    BY <1>6, PeerType DEF RootHeard, Listed, Observe
  <2> DEFINE f == Subscribe(b, o)
             fs == <<f>>
             L == Listed(Peer(x))
  <2>1. f \in Frame /\ f.target = b /\ f.id = o /\ f.kind = "subscribe"
    BY FrameTypes DEF Subscribe
  <2>2. /\ wire' = [wire EXCEPT ![e] = @ \o fs]
        /\ signal' = [signal EXCEPT ![e][b] = o]
        /\ signal \in [End -> [Addr -> Id \cup {Nil}]]
    BY <1>1, <1>6 DEF TypeOK, Send, Observe
  <2> HIDE DEF f
  <2>3. fs \in Seq(Frame) /\ DOMAIN fs = {1} /\ fs[1] = f
    BY <2>1
  <2>4. signal[x][Root] # Nil => signal[x][Root] \in Heard(wire[x], Root, L)
    BY DEF RootHeard
  <2> HIDE DEF L, fs
  <2>5. CASE x = e
    <3>1. wire[x] \in Seq(Frame) /\ wire'[x] = wire[x] \o fs
          /\ signal'[x][Root] = IF b = Root THEN o ELSE signal[x][Root]
      BY <1>1, <2>2, <2>5
    <3>2. Heard(wire[x] \o fs, Root, L) = Heard(fs, Root, Heard(wire[x], Root, L))
      BY <2>3, <3>1, HeardConcat
    <3>3. CASE b = Root
      <4>1. Heard(fs, Root, Heard(wire[x], Root, L)) = Heard(wire[x], Root, L) \cup {o}
        BY <2>1, <3>3, HeardSubscribe DEF Subscribes, fs
      <4>2. QED
        BY <3>1, <3>2, <3>3, <4>1 DEF L
    <3>4. CASE b # Root
      <4>1. \A i \in DOMAIN fs : ~Releases(fs[i], Root) /\ ~Subscribes(fs[i], Root)
        BY <2>1, <2>3, <3>4 DEF Releases, Subscribes
      <4>2. Heard(fs, Root, Heard(wire[x], Root, L)) = Heard(wire[x], Root, L)
        BY <4>1, HeardNothing
      <4>3. QED
        BY <2>4, <3>1, <3>2, <3>4, <4>2 DEF L
    <3>5. QED
      BY <3>3, <3>4
  <2>6. CASE x # e
    BY <1>1, <2>2, <2>4, <2>6 DEF L
  <2>7. QED
    BY <2>5, <2>6
<1>7. QED
  BY <1>2, <1>4, <1>5, <1>6 DEF RemoteStep

\* A delivery applies to a root, or queues for it, what the frame says of it.
LEMMA DeliverLists ==
    ASSUME FitInv, NEW e \in End, Deliver(e)
    PROVE  /\ Heard(<<Next1(e)>>, Root, Listed(e)) \subseteq Listed(e)'
           /\ \A x \in End \ {e} : Listed(x)' = Listed(x)
<1> DEFINE f == Next1(e)
           q == pendingRoot[e]
           S == Range(observers[e][Root])
           g == <<f>>
<1>1. /\ TypeOK /\ observers \in [End -> [Addr -> Seq(Id)]]
      /\ pendingRoot \in [End -> Seq(Frame)] /\ q \in Seq(Frame)
      /\ f \in Frame /\ f.target \in Addr /\ Root \in Addr
      /\ observers[e][Root] \in Seq(Id)
  <2>1. /\ TypeOK /\ observers \in [End -> [Addr -> Seq(Id)]]
        /\ pendingRoot \in [End -> Seq(Frame)]
    BY DEF FitInv, ObserverInv, TypeOK
  <2>2. f \in Frame
    BY Next1Fits DEF Deliver
  <2>3. f.target \in Addr /\ Root \in Addr
    BY <2>2, FrameFields DEF Addr
  <2>4. QED
    BY <2>1, <2>2, <2>3
<1> HIDE DEF f
<1>2. DOMAIN g = {1} /\ g[1] = f /\ g \in Seq(Frame) /\ Append(q, f) = q \o g
  BY <1>1
<1>3. homes[e][Root] # "absent" => q = <<>>
  BY DEF FitInv, Fit, RootsFit
<1>4. Listed(e) = Heard(q, Root, S)
  BY DEF Listed
<1>5. f.kind = "subscribe" => DeliverSubscribe(e)
  BY DEF Deliver, DeliverSubscribe, DeliverResponse, DeliverRelease,
         QueueRootCall, RejectCall, FireSignal, HandleCall, f
<1>6. \/ pendingRoot' = pendingRoot
      \/ pendingRoot' = [pendingRoot EXCEPT ![e] = Append(@, f)] /\ f.target = Root
  BY DEF Deliver, DeliverSubscribe, DeliverResponse, DeliverRelease,
         QueueRootCall, RejectCall, FireSignal, HandleCall, homeVars, f
<1>7. \/ observers' = observers
      \/ /\ observers' = [observers EXCEPT ![e][f.target] = Append(@, f.id)]
         /\ f.kind = "subscribe" /\ homes[e][f.target] # "absent"
      \/ observers' = [observers EXCEPT ![e][f.target] = <<>>] /\ f.kind = "release"
  BY DEF Deliver, DeliverSubscribe, DeliverResponse, DeliverRelease,
         QueueRootCall, RejectCall, FireSignal, HandleCall, homeVars, f
<1>8. \A x \in End \ {e} : Listed(x)' = Listed(x)
  <2>1. \A x \in End \ {e} : observers'[x] = observers[x] /\ pendingRoot'[x] = pendingRoot[x]
    BY <1>1, <1>6, <1>7
  <2>2. QED
    BY <2>1 DEF Listed
<1>9. Heard(q \o g, Root, S) = Heard(g, Root, Listed(e))
  <2> HIDE DEF q, S, g
  <2>1. Heard(q \o g, Root, S) = Heard(g, Root, Heard(q, Root, S))
    BY <1>1, <1>2, HeardConcat
  <2>2. QED
    BY <1>4, <2>1
<1>10. Listed(e)' = Heard(pendingRoot'[e], Root, Range(observers'[e][Root]))
  BY DEF Listed
<1>11. CASE Releases(f, Root)
  <2>1. Heard(g, Root, Listed(e)) = {}
    BY <1>2, <1>11, HeardRelease DEF Releases, Subscribes
  <2>2. QED
    BY <1>8, <2>1 DEF f
<1>12. CASE Subscribes(f, Root)
  <2>1. CASE homes[e][Root] = "absent"
    <3>1. pendingRoot'[e] = Append(q, f) /\ observers' = observers
      BY <1>1, <1>5, <1>12, <2>1 DEF Subscribes, DeliverSubscribe, f
    <3>2. QED
      BY <1>2, <1>8, <1>9, <1>10, <3>1 DEF f
  <2>2. CASE homes[e][Root] # "absent"
    <3>1. /\ pendingRoot' = pendingRoot
          /\ observers' = [observers EXCEPT ![e][Root] = Append(@, f.id)]
      BY <1>1, <1>5, <1>12, <2>2 DEF Subscribes, DeliverSubscribe, f
    <3>2. f.id \in Id /\ observers'[e][Root] = Append(observers[e][Root], f.id)
      BY <1>1, <1>12, <3>1, FrameFields DEF Subscribes
    <3>3. Range(observers'[e][Root]) = S \cup {f.id}
      BY <1>1, <3>2, RangeAppend
    <3>4. pendingRoot'[e] = <<>> /\ q = <<>> /\ DOMAIN <<>> = {}
      BY <1>3, <2>2, <3>1
    <3>5. \A T : Heard(<<>>, Root, T) = T
      BY <3>4, HeardNothing
    <3>6. Heard(g, Root, S) = S \cup {f.id}
      BY <1>1, <1>12, HeardSubscribe
    <3>7. QED
      BY <1>4, <1>8, <1>10, <3>3, <3>4, <3>5, <3>6 DEF f
  <2>3. QED
    BY <2>1, <2>2
<1>13. CASE ~Releases(f, Root) /\ ~Subscribes(f, Root)
  <2>1. Heard(g, Root, Listed(e)) = Listed(e)
    BY <1>2, <1>13, HeardNothing
  <2>2. observers'[e][Root] = observers[e][Root]
    BY <1>1, <1>7, <1>13 DEF Releases, Subscribes
  <2>3. pendingRoot'[e] = q \/ pendingRoot'[e] = q \o g
    BY <1>1, <1>2, <1>6
  <2>4. QED
    BY <1>4, <1>8, <1>9, <1>10, <2>1, <2>2, <2>3 DEF f
<1>14. QED
  BY <1>11, <1>12, <1>13

LEMMA DeliverKeepsHeard ==
    ASSUME FitInv, RootHeard, NEW e \in End, Deliver(e)
    PROVE  RootHeard'
<1> SUFFICES ASSUME NEW x \in End, signal'[x][Root] # Nil
             PROVE  signal'[x][Root] \in Heard(wire'[x], Root, Listed(Peer(x))')
  BY DEF RootHeard
<1>1. /\ TypeOK /\ wire \in [End -> Seq(Frame)] /\ wire[Peer(e)] # <<>>
      /\ Peer(e) \in End /\ Peer(e) # e /\ Peer(Peer(e)) = e
      /\ \A y \in End : y = e \/ y = Peer(e)
  BY DeliverEnds
<1>2. PICK fs \in Seq(Frame) : Receive(e, fs) /\ Silent(fs)
  BY <1>1, DeliverAnswers
<1>3. UNCHANGED signal
  BY DEF Deliver, DeliverSubscribe, DeliverResponse, DeliverRelease,
         QueueRootCall, RejectCall, FireSignal, HandleCall, remoteVars
<1>4. wire'[e] = wire[e] \o fs /\ wire'[Peer(e)] = Tail(wire[Peer(e)])
  BY <1>1, <1>2 DEF Receive
<1>5. signal[x][Root] \in Heard(wire[x], Root, Listed(Peer(x)))
  BY <1>3 DEF RootHeard
<1>6. CASE x = e
  <2>1. Listed(Peer(e))' = Listed(Peer(e))
    BY <1>1, DeliverLists
  <2>2. wire[e] \in Seq(Frame)
    BY <1>1
  <2>3. \A T : Heard(wire[e] \o fs, Root, T) = Heard(wire[e], Root, T)
    BY <1>2, <2>2, SilentHeard
  <2>4. QED
    BY <1>3, <1>4, <1>5, <1>6, <2>1, <2>3
<1>7. CASE x = Peer(e)
  <2> DEFINE s == wire[Peer(e)]
             L == Listed(e)
             M == Listed(e)'
             H == Heard(<<Next1(e)>>, Root, L)
  <2>1. s \in Seq(Frame) /\ s # <<>> /\ Head(s) = Next1(e)
    BY <1>1 DEF Next1
  <2>2. H \subseteq M
    BY DeliverLists
  <2> HIDE DEF s, L, M
  <2>3. Heard(s, Root, L) = Heard(Tail(s), Root, H)
    BY <2>1, HeardFront
  <2> HIDE DEF H
  <2>4. Heard(Tail(s), Root, H) \subseteq Heard(Tail(s), Root, M)
    BY <2>2, HeardMonotone
  <2>5. signal[x][Root] \in Heard(s, Root, L)
    BY <1>1, <1>5, <1>7 DEF s, L
  <2>6. wire'[x] = Tail(s)
    BY <1>4, <1>7 DEF s
  <2>7. QED
    BY <1>1, <1>3, <1>7, <2>3, <2>4, <2>5, <2>6 DEF M
<1>8. QED
  BY <1>1, <1>6, <1>7

-----------------------------------------------------------------------------
(***************************************************************************)
(* Second, an observer that an end listens on is subscribed to one object  *)
(* only: what fires it was sent for that object.                           *)
(***************************************************************************)
SubscribeIn(s, a, o) ==
    \E i \in DOMAIN s : s[i].kind = "subscribe" /\ s[i].target = a /\ s[i].id = o

\* At the home e, o observes a, or a subscribe on its way will make it.
Observes(e, a, o) == \/ o \in Range(observers[e][a])
                     \/ SubscribeIn(pendingRoot[e], a, o)
                     \/ SubscribeIn(wire[Peer(e)], a, o)

OneSubject ==
    \A e \in End, a \in Addr : signal[e][a] # Nil =>
        \A b \in Addr : Observes(Peer(e), b, signal[e][a]) => b = a

\* Observers were drawn.
LEMMA ObservesDrawn ==
    ASSUME FitInv, NEW e \in End, NEW a \in Addr, NEW o, Observes(e, a, o)
    PROVE  o \in minted
  BY PeerType DEF Observes, SubscribeIn, FitInv, Fit, ObserversDrawn, QueuesFit,
                  WiresFit, Fits

\* Sending frames that do not subscribe, and consuming frames, adds none.
LEMMA SubscribeInSent ==
    ASSUME NEW s \in Seq(Frame), NEW fs \in Seq(Frame), NEW a, NEW o,
           SubscribeIn(s \o fs, a, o)
    PROVE  SubscribeIn(s, a, o) \/ SubscribeIn(fs, a, o)
<1>1. PICK i \in DOMAIN (s \o fs) : /\ (s \o fs)[i].kind = "subscribe"
                                    /\ (s \o fs)[i].target = a
                                    /\ (s \o fs)[i].id = o
  BY DEF SubscribeIn
<1>2. \/ i \in DOMAIN s /\ (s \o fs)[i] = s[i]
      \/ \E j \in DOMAIN fs : (s \o fs)[i] = fs[j]
  BY FrameOfConcat
<1>3. QED
  BY <1>1, <1>2 DEF SubscribeIn

LEMMA SubscribeInTail ==
    ASSUME NEW s \in Seq(Frame), s # <<>>, NEW a, NEW o, SubscribeIn(Tail(s), a, o)
    PROVE  SubscribeIn(s, a, o)
<1>1. PICK i \in DOMAIN Tail(s) : /\ Tail(s)[i].kind = "subscribe"
                                  /\ Tail(s)[i].target = a
                                  /\ Tail(s)[i].id = o
  BY DEF SubscribeIn
<1>2. i + 1 \in DOMAIN s /\ Tail(s)[i] = s[i + 1]
  BY FrameOfTail
<1>3. QED
  BY <1>1, <1>2 DEF SubscribeIn

\* No step but Observe makes anyone observe.
NoneAdded ==
    \A e \in End, a \in Addr : \A o : Observes(e, a, o)' => Observes(e, a, o)

LEMMA NoneAddedSubject ==
    ASSUME OneSubject, NoneAdded,
           \A e \in End, a \in Addr : signal'[e][a] \in {signal[e][a], Nil}
    PROVE  OneSubject'
  BY PeerType DEF OneSubject, NoneAdded

\* A step that sends no subscribe.
LEMMA SendAddsNone ==
    ASSUME TypeOK, NEW e \in End, NEW fs \in Seq(Frame), Send(e, fs),
           \A i \in DOMAIN fs : fs[i].kind # "subscribe",
           UNCHANGED <<observers, pendingRoot>>
    PROVE  NoneAdded
<1> SUFFICES ASSUME NEW x \in End, NEW a \in Addr, NEW o, Observes(x, a, o)'
             PROVE  Observes(x, a, o)
  BY DEF NoneAdded
<1>1. wire \in [End -> Seq(Frame)] /\ wire' = [wire EXCEPT ![e] = @ \o fs]
      /\ Peer(x) \in End
  BY PeerType DEF TypeOK, Send
<1>2. ASSUME SubscribeIn(wire'[Peer(x)], a, o)
      PROVE  SubscribeIn(wire[Peer(x)], a, o)
  <2>1. CASE Peer(x) = e
    <3>1. wire'[Peer(x)] = wire[e] \o fs /\ wire[e] \in Seq(Frame)
      BY <1>1, <2>1
    <3>2. SubscribeIn(wire[e], a, o) \/ SubscribeIn(fs, a, o)
      BY <1>2, <3>1, SubscribeInSent
    <3>3. QED
      BY <2>1, <3>2 DEF SubscribeIn
  <2>2. CASE Peer(x) # e
    BY <1>1, <1>2, <2>2
  <2>3. QED
    BY <2>1, <2>2
<1>3. QED
  BY <1>2 DEF Observes

LEMMA HomeStepKeepsSubject ==
    ASSUME FitInv, OneSubject, NEW e \in End, HomeStep(e)
    PROVE  OneSubject'
<1>1. TypeOK
  BY DEF FitInv, ObserverInv
<1>2. UNCHANGED signal
  BY <1>1, HomeStepSilent
<1>3. PICK fs \in Seq(Frame) : Send(e, fs) /\ Silent(fs)
  BY <1>1, HomeStepSilent
<1>4. CASE UNCHANGED <<observers, pendingRoot>>
  BY <1>1, <1>2, <1>3, <1>4, SendAddsNone, NoneAddedSubject DEF Silent
<1>5. ASSUME NEW async, ShareRoot(e, async) PROVE OneSubject'
  <2> DEFINE queue == pendingRoot[e]
  <2>1. /\ pendingRoot' = [pendingRoot EXCEPT ![e] = <<>>]
        /\ \E s : observers' = [observers EXCEPT ![e][Root] = s]
    BY <1>5 DEF ShareRoot
  <2>2. Range(observers'[e][Root])
           = {queue[i].id : i \in {j \in DOMAIN queue : queue[j].kind = "subscribe"}}
    BY <1>1, <1>5, ShareRootAnswers
  <2>3. \A i \in DOMAIN queue : queue[i].target = Root
    BY DEF FitInv, Fit, QueuesFit
  <2>4. ASSUME NEW x \in End, NEW a \in Addr, NEW o, Observes(x, a, o)'
        PROVE  Observes(x, a, o)
    <3>1. ASSUME o \in Range(observers'[x][a]) PROVE Observes(x, a, o)
      <4>1. CASE x = e /\ a = Root
        BY <2>2, <2>3, <3>1, <4>1 DEF Observes, SubscribeIn
      <4>2. CASE ~(x = e /\ a = Root)
        <5>1. observers'[x][a] = observers[x][a]
          BY <1>1, <2>1, <4>2 DEF TypeOK
        <5>2. QED
          BY <3>1, <5>1 DEF Observes
      <4>3. QED
        BY <4>1, <4>2
    <3>2. ASSUME SubscribeIn(pendingRoot'[x], a, o) PROVE Observes(x, a, o)
      <4>1. x # e
        BY <1>1, <2>1, <3>2 DEF SubscribeIn, TypeOK
      <4>2. QED
        BY <1>1, <2>1, <3>2, <4>1 DEF Observes, TypeOK
    <3>3. ASSUME SubscribeIn(wire'[Peer(x)], a, o) PROVE Observes(x, a, o)
      <4>1. wire \in [End -> Seq(Frame)] /\ Peer(x) \in End
            /\ wire' = [wire EXCEPT ![e] = @ \o fs]
        BY <1>1, <1>3, PeerType DEF TypeOK, Send
      <4>2. CASE Peer(x) = e
        <5>1. wire'[Peer(x)] = wire[e] \o fs /\ wire[e] \in Seq(Frame)
          BY <4>1, <4>2
        <5>2. SubscribeIn(wire[e], a, o) \/ SubscribeIn(fs, a, o)
          BY <3>3, <5>1, SubscribeInSent
        <5>3. QED
          BY <1>3, <4>2, <5>2 DEF SubscribeIn, Silent, Observes
      <4>3. CASE Peer(x) # e
        BY <3>3, <4>1, <4>3 DEF Observes
      <4>4. QED
        BY <4>2, <4>3
    <3>4. QED
      BY <2>4, <3>1, <3>2, <3>3 DEF Observes
  <2>5. QED
    BY <1>2, <2>4, NoneAddedSubject DEF NoneAdded
<1>6. QED
  BY <1>4, <1>5 DEF HomeStep, Share, DropEntity, Change, FlushNotify, FinishTask

\* A fresh observer is subscribed to what it was drawn for.
LEMMA ObserveKeepsSubject ==
    ASSUME FitInv, OneSubject, NEW e \in End, NEW a \in Addr, NEW o \in Id,
           Observe(e, a, o)
    PROVE  OneSubject'
<1> DEFINE f == Subscribe(a, o)
           fs == <<f>>
<1>1. /\ TypeOK /\ wire \in [End -> Seq(Frame)]
      /\ wire' = [wire EXCEPT ![e] = @ \o fs]
      /\ signal' = [signal EXCEPT ![e][a] = o]
      /\ signal \in [End -> [Addr -> Id \cup {Nil}]]
      /\ UNCHANGED <<observers, pendingRoot>> /\ o \notin minted
  BY DEF FitInv, ObserverInv, TypeOK, Observe, Send, Mint
<1>2. fs \in Seq(Frame) /\ f.target = a /\ f.id = o
  BY FrameTypes DEF Subscribe
<1> HIDE DEF f
<1>3. ASSUME NEW p \in End, NEW b \in Addr, NEW c, Observes(p, b, c)'
      PROVE  Observes(p, b, c) \/ (b = a /\ c = o /\ p = Peer(e))
  <2>1. ASSUME SubscribeIn(wire'[Peer(p)], b, c)
        PROVE  SubscribeIn(wire[Peer(p)], b, c) \/ (b = a /\ c = o /\ p = Peer(e))
    <3>1. CASE Peer(p) = e
      <4>1. wire'[Peer(p)] = wire[e] \o fs /\ wire[e] \in Seq(Frame)
        BY <1>1, <3>1
      <4>2. SubscribeIn(wire[e], b, c) \/ SubscribeIn(fs, b, c)
        BY <1>2, <2>1, <4>1, SubscribeInSent
      <4>3. p = Peer(e)
        BY <3>1, EndsAssumption DEF Peer, End
      <4>4. SubscribeIn(fs, b, c) => b = a /\ c = o
        BY <1>2 DEF SubscribeIn
      <4>5. QED
        BY <3>1, <4>2, <4>3, <4>4
    <3>2. CASE Peer(p) # e
      BY <1>1, <2>1, <3>2, PeerType
    <3>3. QED
      BY <3>1, <3>2
  <2>2. QED
    BY <1>1, <1>3, <2>1 DEF Observes
<1>4. ASSUME NEW x \in End, NEW b \in Addr, NEW d, d = signal'[x][b], d # Nil,
             NEW c \in Addr, Observes(Peer(x), c, d)'
      PROVE  c = b
  <2>1. Peer(x) \in End
    BY PeerType
  <2>2. CASE x = e /\ b = a
    <3>1. d = o
      BY <1>1, <1>4, <2>2
    <3>2. ~Observes(Peer(x), c, o)
      BY <1>1, <2>1, ObservesDrawn
    <3>3. QED
      BY <1>3, <1>4, <2>1, <2>2, <3>1, <3>2
  <2>3. CASE ~(x = e /\ b = a)
    <3>1. d = signal[x][b]
      BY <1>1, <1>4, <2>3
    <3>2. d \in minted
      BY <1>4, <3>1, SignalHome DEF FitInv
    <3>3. d # o
      BY <1>1, <3>2
    <3>4. Observes(Peer(x), c, d)
      BY <1>3, <1>4, <2>1, <3>3
    <3>5. QED
      BY <1>4, <3>1, <3>4 DEF OneSubject
  <2>4. QED
    BY <2>2, <2>3
<1>5. QED
  BY <1>4 DEF OneSubject

LEMMA RemoteStepKeepsSubject ==
    ASSUME FitInv, OneSubject, NEW e \in End, RemoteStep(e)
    PROVE  OneSubject'
<1>1. TypeOK
  BY DEF FitInv, ObserverInv
<1>2. ASSUME NEW a \in Addr, NEW ref \in Id \cup {Nil},
             \/ Connect(e, a) \/ CloneRemote(e, a) \/ DropRemote(e, a)
             \/ CallMethod(e, a, ref)
      PROVE  OneSubject'
  <2>1. UNCHANGED <<signal, observers, pendingRoot>>
    BY <1>2 DEF Connect, CloneRemote, DropRemote, CallMethod, homeVars, remoteVars
  <2>2. \E fs \in Seq(Frame) : Send(e, fs) /\ Silent(fs)
    BY <1>1, <1>2, QuietStepSilent
  <2>3. NoneAdded
    BY <1>1, <2>1, <2>2, SendAddsNone DEF Silent
  <2>4. QED
    BY <2>1, <2>3, NoneAddedSubject
<1>3. ASSUME NEW S \in SUBSET Addr, Forget(e, S), UNCHANGED <<observers, pendingRoot>>,
             NEW fs \in Seq(Frame), Send(e, fs),
             \A i \in DOMAIN fs : \E a \in S : fs[i] = Release(a)
      PROVE  OneSubject'
  <2>1. \A i \in DOMAIN fs : fs[i].kind # "subscribe"
    BY <1>3 DEF Release
  <2>2. NoneAdded
    BY <1>1, <1>3, <2>1, SendAddsNone
  <2>3. \A x \in End, a \in Addr : signal'[x][a] \in {signal[x][a], Nil}
    BY <1>1, <1>3 DEF Forget, TypeOK
  <2>4. QED
    BY <2>2, <2>3, NoneAddedSubject
<1>4. ASSUME NEW a \in Addr, Reconnect(e, a)
      PROVE  OneSubject'
  <2> DEFINE fs == <<Release(a)>>
  <2>1. fs \in Seq(Frame) /\ \A i \in DOMAIN fs : \E b \in {a} : fs[i] = Release(b)
    BY FrameTypes
  <2>2. Forget(e, {a}) /\ Send(e, fs) /\ UNCHANGED <<observers, pendingRoot>>
    BY <1>4 DEF Reconnect
  <2> HIDE DEF fs
  <2>3. QED
    BY <1>3, <2>1, <2>2
<1>5. ASSUME DrainReleases(e)
      PROVE  OneSubject'
  <2> DEFINE gone == releases[e] \cap projections[e]
  <2>1. PICK fs \in Seq(Frame) :
           /\ Send(e, fs)
           /\ \A i \in DOMAIN fs : \E a \in gone : fs[i] = Release(a)
    BY <1>1, <1>5, DrainSends
  <2>2. /\ Forget(e, gone) /\ UNCHANGED <<observers, pendingRoot>>
        /\ gone \in SUBSET Addr
    BY <1>1, <1>5 DEF DrainReleases, TypeOK
  <2> HIDE DEF gone
  <2>3. QED
    BY <1>3, <2>1, <2>2
<1>6. QED
  BY <1>2, <1>4, <1>5, ObserveKeepsSubject DEF RemoteStep

LEMMA DeliverKeepsSubject ==
    ASSUME FitInv, OneSubject, NEW e \in End, Deliver(e)
    PROVE  OneSubject'
<1> DEFINE f == Next1(e)
           s == wire[Peer(e)]
<1>1. /\ TypeOK /\ wire \in [End -> Seq(Frame)] /\ s \in Seq(Frame) /\ s # <<>>
      /\ Peer(e) \in End /\ Peer(e) # e /\ Peer(Peer(e)) = e
      /\ \A y \in End : y = e \/ y = Peer(e)
      /\ observers \in [End -> [Addr -> Seq(Id)]]
      /\ pendingRoot \in [End -> Seq(Frame)]
  BY DeliverEnds DEF TypeOK
<1>2. PICK fs \in Seq(Frame) : Receive(e, fs) /\ Silent(fs)
  BY <1>1, DeliverAnswers
<1>3. wire'[e] = wire[e] \o fs /\ wire'[Peer(e)] = Tail(s)
  BY <1>1, <1>2 DEF Receive
<1>4. f \in Frame /\ f.target \in Addr /\ f = s[1] /\ 1 \in DOMAIN s
      /\ (f.kind = "subscribe" => f.id \in Id)
  BY <1>1, Next1Type, FrameFields, HeadTailProperties DEF Next1
<1>5. UNCHANGED signal
  BY DEF Deliver, DeliverSubscribe, DeliverResponse, DeliverRelease,
         QueueRootCall, RejectCall, FireSignal, HandleCall, remoteVars
<1> HIDE DEF f, s
<1>6. f.kind = "subscribe" => SubscribeIn(s, f.target, f.id)
  BY <1>4 DEF SubscribeIn
<1>7. \/ pendingRoot' = pendingRoot
      \/ pendingRoot' = [pendingRoot EXCEPT ![e] = Append(@, f)] /\ f.target = Root
  BY DEF Deliver, DeliverSubscribe, DeliverResponse, DeliverRelease,
         QueueRootCall, RejectCall, FireSignal, HandleCall, homeVars, f
<1>8. \/ observers' = observers
      \/ /\ observers' = [observers EXCEPT ![e][f.target] = Append(@, f.id)]
         /\ f.kind = "subscribe"
      \/ observers' = [observers EXCEPT ![e][f.target] = <<>>]
  BY DEF Deliver, DeliverSubscribe, DeliverResponse, DeliverRelease,
         QueueRootCall, RejectCall, FireSignal, HandleCall, homeVars, f
<1>9. ASSUME NEW x \in End, NEW a \in Addr, NEW o, Observes(x, a, o)'
      PROVE  Observes(x, a, o)
  <2>1. ASSUME o \in Range(observers'[x][a]) PROVE Observes(x, a, o)
    <3>1. \/ observers'[x][a] = observers[x][a]
          \/ /\ x = e /\ a = f.target /\ f.kind = "subscribe"
             /\ observers'[x][a] = Append(observers[x][a], f.id)
          \/ observers'[x][a] = <<>>
      <4>1. CASE observers' = observers
        BY <4>1
      <4>2. CASE /\ observers' = [observers EXCEPT ![e][f.target] = Append(@, f.id)]
                 /\ f.kind = "subscribe"
        BY <1>1, <1>4, <4>2
      <4>3. CASE observers' = [observers EXCEPT ![e][f.target] = <<>>]
        BY <1>1, <1>4, <4>3
      <4>4. QED
        BY <1>8, <4>1, <4>2, <4>3
    <3>2. CASE observers'[x][a] = observers[x][a]
      BY <2>1, <3>2 DEF Observes
    <3>3. CASE /\ x = e /\ a = f.target /\ f.kind = "subscribe"
               /\ observers'[x][a] = Append(observers[x][a], f.id)
      <4>1. observers[x][a] \in Seq(Id) /\ f.id \in Id
        BY <1>1, <1>4, <3>3
      <4>2. o \in Range(observers[x][a]) \/ o = f.id
        BY <2>1, <3>3, <4>1, RangeAppend
      <4>3. QED
        BY <1>6, <3>3, <4>2 DEF Observes, s
    <3>4. CASE observers'[x][a] = <<>>
      BY <2>1, <3>4 DEF Range
    <3>5. QED
      BY <3>1, <3>2, <3>3, <3>4
  <2>2. ASSUME SubscribeIn(pendingRoot'[x], a, o) PROVE Observes(x, a, o)
    <3> DEFINE g == <<f>>
    <3>1. g \in Seq(Frame) /\ DOMAIN g = {1} /\ g[1] = f
      BY <1>4
    <3>2. pendingRoot[x] \in Seq(Frame) /\ Append(pendingRoot[x], f) = pendingRoot[x] \o g
      BY <1>1, <1>4, SMTT(20)
    <3>3. \/ pendingRoot'[x] = pendingRoot[x]
          \/ x = e /\ pendingRoot'[x] = pendingRoot[x] \o g
      BY <1>1, <1>7, <3>2
    <3> HIDE DEF g
    <3>4. CASE pendingRoot'[x] = pendingRoot[x]
      BY <2>2, <3>4 DEF Observes
    <3>5. CASE x = e /\ pendingRoot'[x] = pendingRoot[x] \o g
      <4>1. SubscribeIn(pendingRoot[x], a, o) \/ SubscribeIn(g, a, o)
        BY <2>2, <3>1, <3>2, <3>5, SubscribeInSent
      <4>2. SubscribeIn(g, a, o) => SubscribeIn(s, a, o)
        BY <1>4, <3>1 DEF SubscribeIn
      <4>3. QED
        BY <3>5, <4>1, <4>2 DEF Observes, s
    <3>6. QED
      BY <3>3, <3>4, <3>5
  <2>3. ASSUME SubscribeIn(wire'[Peer(x)], a, o) PROVE Observes(x, a, o)
    <3>1. CASE x = e
      <4>1. SubscribeIn(Tail(s), a, o)
        BY <1>3, <2>3, <3>1
      <4>2. SubscribeIn(s, a, o)
        BY <1>1, <4>1, SubscribeInTail DEF s
      <4>3. QED
        BY <3>1, <4>2 DEF Observes, s
    <3>2. CASE x = Peer(e)
      <4>1. SubscribeIn(wire[e] \o fs, a, o) /\ wire[e] \in Seq(Frame)
        BY <1>1, <1>3, <2>3, <3>2
      <4>2. SubscribeIn(wire[e], a, o) \/ SubscribeIn(fs, a, o)
        BY <4>1, SubscribeInSent
      <4>3. QED
        BY <1>1, <1>2, <3>2, <4>2 DEF SubscribeIn, Silent, Observes
    <3>3. QED
      BY <1>1, <3>1, <3>2
  <2>4. QED
    BY <1>9, <2>1, <2>2, <2>3 DEF Observes
<1>10. QED
  BY <1>5, <1>9, NoneAddedSubject DEF NoneAdded
-----------------------------------------------------------------------------
(***************************************************************************)
(* Third, what an observed projection is sure to have been signalled once  *)
(* the frames s have arrived, if it has been signalled x now: it is v when *)
(* x is, or a $notify in s, and nothing after that is another version.     *)
(***************************************************************************)
ToObserver(f, o) == f.kind = "call" /\ f.target = o

WillSee(s, o, x, v) ==
    \/ x = v /\ \A i \in DOMAIN s : ToObserver(s[i], o) => s[i].ver = v
    \/ \E k \in DOMAIN s :
          /\ ToObserver(s[k], o) /\ s[k].ver = v
          /\ \A j \in DOMAIN s : k <= j /\ ToObserver(s[j], o) => s[j].ver = v

\* Frames for others change nothing.
LEMMA WillSeeMore ==
    ASSUME NEW s \in Seq(Frame), NEW fs \in Seq(Frame), NEW o, NEW x, NEW v,
           WillSee(s, o, x, v), \A i \in DOMAIN fs : ~ToObserver(fs[i], o)
    PROVE  WillSee(s \o fs, o, x, v)
<1> DEFINE q == s \o fs
<1>1. \A i \in DOMAIN q : ToObserver(q[i], o) => i \in DOMAIN s /\ q[i] = s[i]
  <2> SUFFICES ASSUME NEW i \in DOMAIN q, ToObserver(q[i], o)
               PROVE  i \in DOMAIN s /\ q[i] = s[i]
    OBVIOUS
  <2>1. \/ i \in DOMAIN s /\ q[i] = s[i]
        \/ \E j \in DOMAIN fs : q[i] = fs[j]
    BY FrameOfConcat
  <2>2. QED
    BY <2>1
<1>2. \A i \in DOMAIN s : i \in DOMAIN q /\ q[i] = s[i]
  BY ConcatProperties
<1> HIDE DEF q
<1>3. WillSee(q, o, x, v)
  BY <1>1, <1>2 DEF WillSee
<1>4. QED
  BY <1>3 DEF q

\* A $notify of v, with no other version behind it.
LEMMA WillSeeSent ==
    ASSUME NEW s \in Seq(Frame), NEW fs \in Seq(Frame), NEW o, NEW x, NEW v,
           NEW k \in DOMAIN fs, ToObserver(fs[k], o),
           \A i \in DOMAIN fs : ToObserver(fs[i], o) => fs[i].ver = v
    PROVE  WillSee(s \o fs, o, x, v)
<1> DEFINE q == s \o fs
           m == Len(s)
<1>1. /\ m \in Nat /\ k \in Nat /\ k > 0 /\ m + k \in DOMAIN q /\ q[m + k] = fs[k]
      /\ \A j \in DOMAIN q : m + k <= j => j - m \in DOMAIN fs /\ q[j] = fs[j - m]
  <2>1. /\ m \in Nat /\ Len(fs) \in Nat /\ DOMAIN fs = 1 .. Len(fs)
        /\ DOMAIN q = 1 .. m + Len(fs)
        /\ \A i \in 1 .. m + Len(fs) : q[i] = IF i <= m THEN s[i] ELSE fs[i - m]
    BY ConcatProperties
  <2> HIDE DEF q, m
  <2>2. QED
    BY <2>1
<1> HIDE DEF q, m
<1>2. WillSee(q, o, x, v)
  BY <1>1 DEF WillSee
<1>3. QED
  BY <1>2 DEF q

\* The oldest frame arrives, and its version is seen if it is for o.
LEMMA WillSeeTail ==
    ASSUME NEW s \in Seq(Frame), s # <<>>, NEW o, NEW x, NEW v, WillSee(s, o, x, v),
           NEW y, y = IF ToObserver(s[1], o) THEN s[1].ver ELSE x
    PROVE  WillSee(Tail(s), o, y, v)
<1> DEFINE t == Tail(s)
<1>1. \A i \in DOMAIN t : i \in Nat /\ i + 1 \in DOMAIN s /\ t[i] = s[i + 1]
  BY FrameOfTail
<1>2. 1 \in DOMAIN s
  BY HeadTailProperties
<1>3. \A i \in DOMAIN s : i \in Nat /\ (i = 1 \/ (i - 1 \in DOMAIN t /\ t[i - 1] = s[i]))
  BY HeadTailProperties
<1> HIDE DEF t
<1>4. CASE x = v /\ \A i \in DOMAIN s : ToObserver(s[i], o) => s[i].ver = v
  BY <1>1, <1>2, <1>4 DEF WillSee, t
<1>5. ASSUME NEW k \in DOMAIN s, ToObserver(s[k], o), s[k].ver = v,
             \A j \in DOMAIN s : k <= j /\ ToObserver(s[j], o) => s[j].ver = v
      PROVE  WillSee(t, o, y, v)
  <2>1. CASE k = 1
    <3>1. y = v
      BY <1>5, <2>1
    <3>2. \A i \in DOMAIN t : ToObserver(t[i], o) => t[i].ver = v
      BY <1>1, <1>5, <2>1
    <3>3. QED
      BY <3>1, <3>2 DEF WillSee
  <2>2. CASE k # 1
    <3>1. k - 1 \in DOMAIN t /\ t[k - 1] = s[k]
      BY <1>3, <2>2
    <3>2. \A j \in DOMAIN t : k - 1 <= j /\ ToObserver(t[j], o) => t[j].ver = v
      BY <1>1, <1>3, <1>5
    <3>3. QED
      BY <1>5, <3>1, <3>2 DEF WillSee
  <2>3. QED
    BY <2>1, <2>2
<1>6. QED
  BY <1>4, <1>5 DEF WillSee, t

\* Both parts of a concatenation are in it.
LEMMA FrameOfParts ==
    ASSUME NEW s \in Seq(Frame), NEW t \in Seq(Frame)
    PROVE  /\ \A i \in DOMAIN s : i \in DOMAIN (s \o t) /\ (s \o t)[i] = s[i]
           /\ \A i \in DOMAIN t : /\ Len(s) + i \in DOMAIN (s \o t)
                                  /\ (s \o t)[Len(s) + i] = t[i]
<1>1. /\ Len(s) \in Nat /\ Len(t) \in Nat
      /\ DOMAIN s = 1 .. Len(s) /\ DOMAIN t = 1 .. Len(t)
      /\ DOMAIN (s \o t) = 1 .. Len(s) + Len(t)
      /\ \A i \in 1 .. Len(s) + Len(t) :
            (s \o t)[i] = IF i <= Len(s) THEN s[i] ELSE t[i - Len(s)]
  BY ConcatProperties
<1>2. QED
  BY <1>1

\* The subscribes of a longer sequence.
LEMMA SubscribeStays ==
    ASSUME NEW s \in Seq(Frame), NEW fs \in Seq(Frame), NEW a, NEW o,
           SubscribeIn(s, a, o)
    PROVE  SubscribeIn(s \o fs, a, o)
<1>1. \A i \in DOMAIN s : i \in DOMAIN (s \o fs) /\ (s \o fs)[i] = s[i]
  BY ConcatProperties
<1>2. QED
  BY <1>1 DEF SubscribeIn
-----------------------------------------------------------------------------
(***************************************************************************)
(* The invariant: an observed projection of a live object will have been   *)
(* signalled its last version, or gpui or a subscribe will see to it.      *)
(***************************************************************************)
Due(e, a) == signal[e][a] # Nil /\ IsShared(Peer(e), a) /\ Alive(Peer(e), a)

Coming(e, a) == \/ SubscribeIn(pendingRoot[Peer(e)], a, signal[e][a])
                \/ SubscribeIn(wire[e], a, signal[e][a])

Assured(e, a) ==
    \/ WillSee(wire[Peer(e)], signal[e][a], seen[e][a], version[Peer(e)][a])
    \/ a \in dirty[Peer(e)]
    \/ Coming(e, a)

NoneLost == \A e \in End, a \in Addr : Due(e, a) => Assured(e, a)

\* Who listens observes, or will.
LEMMA SignalObserves ==
    ASSUME FitInv, Paired, RootHeard, NEW e \in End, NEW a \in Addr,
           signal[e][a] # Nil
    PROVE  signal[e][a] \in Range(observers[Peer(e)][a]) \/ Coming(e, a)
<1> DEFINE o == signal[e][a]
           S == Range(observers[Peer(e)][a])
<1>1. ASSUME NEW s, NEW T, o \in Heard(s, a, T)
      PROVE  o \in T \/ SubscribeIn(s, a, o)
  BY <1>1, HeardMember DEF SubscribeIn, Subscribes
<1>2. CASE a \in Id
  <2>1. o \in Heard(wire[e], a, S)
    BY <1>2 DEF Paired, Agree
  <2>2. QED
    BY <1>1, <2>1 DEF Coming
<1>3. CASE a = Root
  <2>1. o \in Heard(wire[e], a, Listed(Peer(e)))
    BY <1>3 DEF RootHeard
  <2>2. Listed(Peer(e)) = Heard(pendingRoot[Peer(e)], a, S)
    BY <1>3 DEF Listed
  <2> HIDE DEF o, S
  <2>3. o \in Listed(Peer(e)) \/ SubscribeIn(wire[e], a, o)
    BY <1>1, <2>1
  <2>4. o \in Listed(Peer(e)) => o \in S \/ SubscribeIn(pendingRoot[Peer(e)], a, o)
    BY <1>1, <2>2
  <2>5. QED
    BY <2>3, <2>4 DEF Coming, o, S
<1>4. QED
  BY <1>2, <1>3 DEF Addr

\* A step of the end that listens, which does nothing at the home.
LEMMA ObserverSide ==
    ASSUME TypeOK, NEW e \in End, NEW a \in Addr, NEW fs \in Seq(Frame), Send(e, fs),
           signal'[e][a] = signal[e][a], seen'[e][a] = seen[e][a],
           NEW p \in End, p = Peer(e), homes'[p] = homes[p], held'[p] = held[p],
           version'[p] = version[p], dirty'[p] = dirty[p],
           pendingRoot'[p] = pendingRoot[p],
           Due(e, a) => Assured(e, a)
    PROVE  Due(e, a)' => Assured(e, a)'
<1>1. /\ wire[e] \in Seq(Frame) /\ wire'[e] = wire[e] \o fs /\ wire'[p] = wire[p]
  BY PeerType DEF TypeOK, Send
<1>2. Due(e, a)' => Due(e, a)
  BY DEF Due, IsShared, Alive
<1>3. Coming(e, a) => Coming(e, a)'
  BY <1>1, SubscribeStays DEF Coming
<1>4. Assured(e, a) => Assured(e, a)'
  BY <1>1, <1>3 DEF Assured
<1>5. QED
  BY <1>2, <1>4

\* A step of the home that sends the one who listens nothing.
LEMMA HomeSide ==
    ASSUME TypeOK, NEW e \in End, NEW p \in End, p = Peer(e), NEW a \in Addr,
           NEW fs \in Seq(Frame), Send(p, fs),
           signal'[e][a] = signal[e][a], seen'[e][a] = seen[e][a],
           Due(e, a)' => Due(e, a), version'[p][a] = version[p][a],
           a \in dirty[p] => a \in dirty'[p],
           \A i \in DOMAIN fs : ~ToObserver(fs[i], signal[e][a]),
           SubscribeIn(pendingRoot[p], a, signal[e][a])
              => SubscribeIn(pendingRoot'[p], a, signal[e][a]),
           Due(e, a) => Assured(e, a)
    PROVE  Due(e, a)' => Assured(e, a)'
<1>1. wire[p] \in Seq(Frame) /\ wire'[p] = wire[p] \o fs /\ wire'[e] = wire[e]
  BY PeerType DEF TypeOK, Send
<1>2. Coming(e, a) => Coming(e, a)'
  BY <1>1 DEF Coming
<1>3. Assured(e, a) => Assured(e, a)'
  BY <1>1, <1>2, WillSeeMore DEF Assured
<1>4. QED
  BY <1>3

\* A delivery at one end leaves the homes and the signals of the other end alone.
LEMMA DeliverLocal ==
    ASSUME TypeOK, NEW e \in End, Deliver(e), NEW p \in End, p # e
    PROVE  /\ UNCHANGED <<signal, held, version, dirty>>
           /\ homes'[p] = homes[p] /\ pendingRoot'[p] = pendingRoot[p]
           /\ seen'[p] = seen[p]
<1> DEFINE Apart == /\ UNCHANGED <<signal, held, version, dirty>>
                    /\ homes'[p] = homes[p] /\ pendingRoot'[p] = pendingRoot[p]
                    /\ seen'[p] = seen[p]
<1>1. ASSUME DeliverResponse(e) \/ RejectCall(e)
      PROVE  Apart
  BY <1>1 DEF DeliverResponse, RejectCall, homeVars, remoteVars
<1>2. ASSUME DeliverSubscribe(e) \/ QueueRootCall(e)
      PROVE  Apart
  BY <1>2 DEF DeliverSubscribe, QueueRootCall, remoteVars, TypeOK
<1>3. ASSUME DeliverRelease(e)
      PROVE  Apart
  BY <1>3 DEF DeliverRelease, remoteVars, TypeOK
<1>4. ASSUME FireSignal(e)
      PROVE  Apart
  BY <1>4 DEF FireSignal, homeVars, TypeOK
<1>5. ASSUME NEW ref, NEW async, HandleCall(e, ref, async)
      PROVE  Apart
  BY <1>5 DEF HandleCall, remoteVars
<1> HIDE DEF Apart
<1>6. Apart
  BY <1>1, <1>2, <1>3, <1>4, <1>5 DEF Deliver
<1>7. QED
  BY <1>6 DEF Apart

\* A step at one end's homes leaves those of the other end alone.
LEMMA HomeStepLocal ==
    ASSUME TypeOK, NEW p \in End, HomeStep(p), NEW e \in End, e # p
    PROVE  /\ homes'[e] = homes[e] /\ held'[e] = held[e] /\ version'[e] = version[e]
           /\ dirty'[e] = dirty[e] /\ pendingRoot'[e] = pendingRoot[e]
<1> DEFINE Apart == /\ homes'[e] = homes[e] /\ held'[e] = held[e]
                    /\ version'[e] = version[e] /\ dirty'[e] = dirty[e]
                    /\ pendingRoot'[e] = pendingRoot[e]
<1>1. ASSUME NEW a, NEW k, Share(p, a, k)
      PROVE  Apart
  BY <1>1 DEF Share, TypeOK
<1>2. ASSUME NEW async, ShareRoot(p, async)
      PROVE  Apart
  BY <1>2 DEF ShareRoot, TypeOK
<1>3. ASSUME NEW a, DropEntity(p, a) \/ Change(p, a) \/ FlushNotify(p, a)
      PROVE  Apart
  BY <1>3 DEF DropEntity, Change, FlushNotify, TypeOK
<1>4. ASSUME NEW f, NEW ref, FinishTask(p, f, ref)
      PROVE  Apart
  BY <1>4 DEF FinishTask
<1> HIDE DEF Apart
<1>5. Apart
  BY <1>1, <1>2, <1>3, <1>4 DEF HomeStep
<1>6. QED
  BY <1>5 DEF Apart

\* Entities come, change and go at their home, and roots are installed.
LEMMA HomeStepKeepsNone ==
    ASSUME MaxRoots <= 1, FitInv, Paired, RootHeard, OneSubject, NoneLost,
           NEW p \in End, HomeStep(p)
    PROVE  NoneLost'
<1>1. /\ TypeOK /\ Peer(p) \in End /\ Peer(p) # p /\ Peer(Peer(p)) = p
      /\ UNCHANGED signal
  BY EndsAssumption, HomeStepSilent DEF FitInv, ObserverInv, End, Peer
<1>2. UNCHANGED seen
  BY DEF HomeStep, Share, ShareRoot, DropEntity, Change, FlushNotify, FinishTask,
         remoteVars
<1>3. ASSUME NEW a \in Addr
      PROVE  Due(p, a)' => Assured(p, a)'
  <2> DEFINE e == Peer(p)
  <2>1. PICK fs \in Seq(Frame) : Send(p, fs)
    BY <1>1, HomeStepSilent
  <2>2. /\ homes'[e] = homes[e] /\ held'[e] = held[e] /\ version'[e] = version[e]
        /\ dirty'[e] = dirty[e] /\ pendingRoot'[e] = pendingRoot[e]
    BY <1>1, HomeStepLocal
  <2>3. Due(p, a) => Assured(p, a)
    BY DEF NoneLost
  <2>4. QED
    BY <1>1, <1>2, <2>1, <2>2, <2>3, ObserverSide
<1>4. ASSUME NEW e \in End, e = Peer(p), NEW a \in Addr, Due(e, a)'
      PROVE  Assured(e, a)'
  <2> DEFINE o == signal[e][a]
  <2>1. /\ Peer(e) = p /\ o # Nil /\ (Due(e, a) => Assured(e, a))
        /\ IsShared(p, a)' /\ Alive(p, a)'
        /\ signal'[e][a] = signal[e][a] /\ seen'[e][a] = seen[e][a]
    BY <1>1, <1>2, <1>4 DEF Due, NoneLost
  <2>2. o \in Range(observers[p][a]) \/ Coming(e, a)
    BY <2>1, SignalObserves
  <2>3. \A b \in Addr : o \in Range(observers[p][b]) => b = a
    BY <2>1 DEF OneSubject, Observes
  <2>4. ASSUME NEW b \in Id, NEW k, Share(p, b, k)
        PROVE  Assured(e, a)'
    <3>1. a # b
      <4>1. a \in Id => IsShared(p, a)
        BY <2>1, SignalHome DEF FitInv, Fit, RemotesKnown, Known, IsShared
      <4>2. homes[p][b] = "absent"
        BY <2>4 DEF Share, Mint, FitInv, ObserverInv, HomesMinted
      <4>3. QED
        BY <4>1, <4>2 DEF IsShared
    <3>2. Due(e, a)
      BY <1>1, <2>1, <2>4, <3>1 DEF Share, Due, IsShared, Alive, TypeOK
    <3>3. version'[p][a] = version[p][a] /\ UNCHANGED <<dirty, pendingRoot, wire>>
      BY <1>1, <2>4, <3>1 DEF Share, TypeOK
    <3>4. <<>> \in Seq(Frame) /\ Send(p, <<>>)
      BY <1>1, <3>3, SendNothing
    <3>5. \A i \in DOMAIN <<>> : ~ToObserver(<<>>[i], o)
      OBVIOUS
    <3> HIDE DEF o
    <3>6. QED
      BY <1>1, <1>4, <2>1, <3>2, <3>3, <3>4, <3>5, HomeSide DEF o
  <2>5. ASSUME NEW b \in Addr, DropEntity(p, b)
        PROVE  Assured(e, a)'
    <3>1. held'[p] = held[p] \ {b} /\ UNCHANGED homes
      BY <1>1, <2>5 DEF DropEntity, TypeOK
    <3>2. Due(e, a)
      BY <2>1, <3>1 DEF Due, IsShared, Alive
    <3>3. UNCHANGED <<dirty, pendingRoot, wire, version>>
      BY <2>5 DEF DropEntity
    <3>4. QED
      BY <2>1, <3>2, <3>3 DEF Assured, Coming
  <2>6. ASSUME NEW b \in Addr, Change(p, b)
        PROVE  Assured(e, a)'
    <3>1. UNCHANGED <<homes, held, pendingRoot, wire>>
      BY <2>6 DEF Change
    <3>2. dirty'[p] = dirty[p] \cup {b}
      BY <1>1, <2>6 DEF Change, TypeOK
    <3>3. CASE a = b
      BY <2>1, <3>2, <3>3 DEF Assured
    <3>4. CASE a # b
      <4>1. version'[p][a] = version[p][a]
        BY <1>1, <2>6, <3>4 DEF Change, TypeOK
      <4>2. Due(e, a)
        BY <2>1, <3>1 DEF Due, IsShared, Alive
      <4>3. QED
        BY <2>1, <3>1, <3>2, <4>1, <4>2 DEF Assured, Coming
    <3>5. QED
      BY <3>3, <3>4
  <2>7. ASSUME NEW b \in Addr, FlushNotify(p, b)
        PROVE  Assured(e, a)'
    <3> DEFINE fs == IF Alive(p, b) THEN Notifications(p, b) ELSE <<>>
    <3>1. /\ Send(p, fs) /\ fs \in Seq(Frame) /\ dirty'[p] = dirty[p] \ {b}
          /\ UNCHANGED <<homes, held, version, pendingRoot>>
      <4>1. fs \in Seq(Frame)
        BY <1>1, NotificationsType
      <4>2. Send(p, fs) /\ UNCHANGED <<homes, held, version, pendingRoot>>
            /\ dirty' = [dirty EXCEPT ![p] = @ \ {b}]
        BY <2>7 DEF FlushNotify
      <4> HIDE DEF fs
      <4>3. QED
        BY <1>1, <4>1, <4>2 DEF TypeOK
    <3>2. \A i \in DOMAIN fs : /\ i \in DOMAIN observers[p][b]
                               /\ fs[i] = Notify(observers[p][b][i], version[p][b])
      BY DEF Notifications
    <3>a. Alive(p, b) => fs = Notifications(p, b)
      OBVIOUS
    <3> HIDE DEF fs
    <3>3. Due(e, a)
      BY <2>1, <3>1 DEF Due, IsShared, Alive
    <3>4. CASE a # b
      <4>1. \A i \in DOMAIN fs : ~ToObserver(fs[i], o)
        <5> SUFFICES ASSUME NEW i \in DOMAIN fs, ToObserver(fs[i], o) PROVE FALSE
          OBVIOUS
        <5>1. i \in DOMAIN observers[p][b]
              /\ fs[i] = Notify(observers[p][b][i], version[p][b])
          BY <3>2
        <5>2. observers[p][b][i] = o
          BY <5>1 DEF ToObserver, Notify
        <5>3. QED
          BY <2>3, <3>4, <5>1, <5>2 DEF Range
      <4>2. a \in dirty[p] => a \in dirty'[p]
        BY <3>1, <3>4
      <4>3. QED
        BY <1>1, <1>4, <2>1, <3>1, <3>3, <4>1, <4>2, HomeSide
    <3>5. CASE a = b
      <4>1. fs = Notifications(p, a)
        BY <2>1, <3>1, <3>5, <3>a DEF Alive
      <4>2. wire[p] \in Seq(Frame) /\ wire'[p] = wire[p] \o fs /\ wire'[e] = wire[e]
        BY <1>1, <1>4, <3>1 DEF TypeOK, Send
      <4>3. CASE Coming(e, a)
        BY <2>1, <3>1, <4>2, <4>3 DEF Assured, Coming
      <4>4. CASE o \in Range(observers[p][a])
        <5>1. PICK i \in DOMAIN observers[p][a] : observers[p][a][i] = o
          BY <4>4 DEF Range
        <5>2. i \in DOMAIN fs /\ ToObserver(fs[i], o)
          BY <4>1, <5>1 DEF Notifications, ToObserver, Notify
        <5>3. \A j \in DOMAIN fs : ToObserver(fs[j], o) => fs[j].ver = version[p][a]
          <6>1. \A x, v : Notify(x, v).ver = v
            BY DEF Notify
          <6>2. QED
            BY <3>2, <3>5, <6>1
        <5>4. WillSee(wire[p] \o fs, o, seen[e][a], version[p][a])
          BY <3>1, <4>2, <5>2, <5>3, WillSeeSent
        <5>5. QED
          BY <2>1, <3>1, <4>2, <5>4 DEF Assured
      <4>5. QED
        BY <2>2, <4>3, <4>4
    <3>6. QED
      BY <3>4, <3>5
  <2>8. ASSUME NEW f \in tasks[p], NEW ref \in Id \cup {Nil}, FinishTask(p, f, ref)
        PROVE  Assured(e, a)'
    <3> DEFINE fs == Respond(p, f, ref, TRUE)
    <3>1. fs \in Seq(Frame)
      BY <1>1, RespondType DEF TypeOK
    <3>2. /\ Send(p, fs) /\ UNCHANGED <<homes, held, version, dirty, pendingRoot>>
      BY <2>8 DEF FinishTask
    <3>3. \A i \in DOMAIN fs : ~ToObserver(fs[i], o)
      BY DEF ToObserver, Respond, Response
    <3>4. Due(e, a)
      BY <2>1, <3>2 DEF Due, IsShared, Alive
    <3> HIDE DEF fs
    <3>5. QED
      BY <1>1, <1>4, <2>1, <3>1, <3>2, <3>3, <3>4, HomeSide
  <2>9. ASSUME NEW async, ShareRoot(p, async)
        PROVE  Assured(e, a)'
    <3> DEFINE queue == pendingRoot[p]
               v == version'[p][Root]
    <3>1. PICK fs \in Seq(Frame) :
             /\ Send(p, fs)
             /\ \A i \in DOMAIN fs : \E j \in DOMAIN queue, ref \in Payload(p) :
                   fs[i] = RootReply(p, queue[j], ref)
             /\ \A j \in DOMAIN queue : queue[j].kind = "subscribe"
                   => \E i \in DOMAIN fs : fs[i] = RootReply(p, queue[j], Nil)
      BY <1>1, <2>9, ShareRootAnswers
    <3>2. \A j \in DOMAIN queue : queue[j].target = Root
      BY DEF FitInv, Fit, QueuesFit
    <3>3. \A f, ref : /\ f.kind = "subscribe" => RootReply(p, f, ref) = Notify(f.id, v)
                      /\ f.kind # "subscribe" => RootReply(p, f, ref).kind = "response"
      BY DEF RootReply, Response
    <3>4. wire[p] \in Seq(Frame) /\ wire'[p] = wire[p] \o fs /\ wire'[e] = wire[e]
      BY <1>1, <1>4, <3>1 DEF TypeOK, Send
    <3> HIDE DEF v
    <3>5. ASSUME NEW i \in DOMAIN fs, ToObserver(fs[i], o)
          PROVE  fs[i].ver = v /\ a = Root
      <4>1. PICK j \in DOMAIN queue, ref \in Payload(p) :
                    fs[i] = RootReply(p, queue[j], ref)
        BY <3>1
      <4>2. queue[j].kind = "subscribe" /\ fs[i] = Notify(queue[j].id, v)
        BY <3>3, <3>5, <4>1 DEF ToObserver
      <4>3. fs[i].ver = v /\ queue[j].id = o
        BY <3>5, <4>2 DEF ToObserver, Notify
      <4>4. Observes(p, Root, o)
        BY <3>2, <4>2, <4>3 DEF Observes, SubscribeIn
      <4>5. QED
        BY <2>1, <4>3, <4>4 DEF OneSubject, Addr
    <3>6. CASE a # Root
      <4>1. \A i \in DOMAIN fs : ~ToObserver(fs[i], o)
        BY <3>5, <3>6
      <4>2. ~SubscribeIn(pendingRoot[p], a, o)
        BY <3>2, <3>6 DEF SubscribeIn
      <4>3. /\ homes'[p][a] = homes[p][a] /\ version'[p][a] = version[p][a]
            /\ held'[p] = held[p] \cup {Root} /\ dirty'[p] = dirty[p] \ {Root}
        <5>1. /\ homes' = [homes EXCEPT ![p][Root] = "strong"]
              /\ held' = [held EXCEPT ![p] = @ \cup {Root}]
              /\ version' = [version EXCEPT ![p][Root] = @ + 1]
              /\ dirty' = [dirty EXCEPT ![p] = @ \ {Root}]
          BY <2>9 DEF ShareRoot
        <5>2. /\ homes \in [End -> [Addr -> HomeKind]] /\ held \in [End -> SUBSET Addr]
              /\ version \in [End -> [Addr -> Nat]] /\ dirty \in [End -> SUBSET Addr]
          BY <1>1 DEF TypeOK
        <5>3. homes'[p][a] = homes[p][a] /\ version'[p][a] = version[p][a]
          BY <3>6, <5>1, <5>2
        <5>4. QED
          BY <5>1, <5>2, <5>3
      <4>4. Due(e, a)
        BY <2>1, <3>6, <4>3 DEF Due, IsShared, Alive
      <4>5. a \in dirty[p] => a \in dirty'[p]
        BY <3>6, <4>3
      <4>6. QED
        BY <1>1, <1>4, <2>1, <3>1, <4>1, <4>2, <4>3, <4>4, <4>5, HomeSide
    <3>7. CASE a = Root
      <4>1. o \notin Range(observers[p][a])
        <5>1. ~(roots[p] > 0)
          <6>1. roots[p] \in Nat /\ roots[p] < MaxRoots
            BY <1>1, <2>9 DEF ShareRoot, TypeOK
          <6>2. QED
            BY <6>1, BoundsAssumption
        <5>2. homes[p][Root] = "absent"
          BY <5>1 DEF FitInv, Fit, RootsFit
        <5>3. QED
          BY <3>7, <5>2 DEF FitInv, Fit, RootsFit, Range
      <4>2. CASE SubscribeIn(wire[e], a, o)
        BY <2>1, <3>4, <4>2 DEF Assured, Coming
      <4>3. CASE SubscribeIn(queue, a, o)
        <5>1. PICK j \in DOMAIN queue : queue[j].kind = "subscribe" /\ queue[j].id = o
          BY <4>3 DEF SubscribeIn
        <5>2. PICK i \in DOMAIN fs : fs[i] = RootReply(p, queue[j], Nil)
          BY <3>1, <5>1
        <5>3. ToObserver(fs[i], o)
          BY <3>3, <5>1, <5>2 DEF ToObserver, Notify
        <5>4. WillSee(wire[p] \o fs, o, seen[e][a], v)
          BY <3>4, <3>5, <5>3, WillSeeSent
        <5>5. QED
          BY <2>1, <3>4, <3>7, <5>4 DEF Assured, v
      <4>4. QED
        BY <2>1, <2>2, <4>1, <4>2, <4>3 DEF Coming
    <3>8. QED
      BY <3>6, <3>7
  <2>10. QED
    BY <2>4, <2>5, <2>6, <2>7, <2>8, <2>9 DEF HomeStep
<1>5. \A x \in End : x = p \/ x = Peer(p)
  BY DEF End, Peer
<1>6. QED
  BY <1>1, <1>3, <1>4, <1>5 DEF NoneLost

\* Observing, calling and releasing: whoever forgets a projection listens no
\* more, and nobody but a home signals an observer.
LEMMA RemoteStepKeepsNone ==
    ASSUME FitInv, NoneLost, NEW e \in End, RemoteStep(e)
    PROVE  NoneLost'
<1> DEFINE p == Peer(e)
<1>1. /\ TypeOK /\ p \in End /\ p # e /\ Peer(p) = e
      /\ \A x \in End : x = e \/ x = p
  BY EndsAssumption DEF FitInv, ObserverInv, End, Peer
<1>2. UNCHANGED <<observers, held, version, dirty, pendingRoot>>
  BY DEF RemoteStep, Connect, Reconnect, CloneRemote, DropRemote, Observe,
         CallMethod, DrainReleases, homeVars
<1> HIDE DEF p
\* What all of these have in common.
<1>3. ASSUME NEW fs \in Seq(Frame), Send(e, fs),
             \A x \in End, a \in Addr : x # e => homes'[x] = homes[x],
             \A a \in Addr : IsShared(e, a)' => homes'[e][a] = homes[e][a],
             \A a \in Addr : \/ signal'[e][a] = Nil
                             \/ /\ signal'[e][a] = signal[e][a]
                                /\ seen'[e][a] = seen[e][a]
                             \/ SubscribeIn(fs, a, signal'[e][a]),
             signal'[p] = signal[p], seen'[p] = seen[p],
             \A a \in Addr : signal[p][a] # Nil =>
                \A i \in DOMAIN fs : ~ToObserver(fs[i], signal[p][a])
      PROVE  NoneLost'
  <2>1. ASSUME NEW a \in Addr, Due(e, a)' PROVE Assured(e, a)'
    <3>1. signal'[e][a] # Nil
      BY <2>1 DEF Due
    <3>2. CASE signal'[e][a] = signal[e][a] /\ seen'[e][a] = seen[e][a]
      <4>1. homes'[p] = homes[p] /\ p = Peer(e)
        BY <1>1, <1>3 DEF p
      <4>2. Due(e, a) => Assured(e, a)
        BY DEF NoneLost
      <4>3. QED
        BY <1>1, <1>2, <1>3, <2>1, <3>2, <4>1, <4>2, ObserverSide
    <3>3. CASE SubscribeIn(fs, a, signal'[e][a])
      <4> DEFINE o == signal'[e][a]
      <4>1. wire[e] \in Seq(Frame) /\ wire'[e] = wire[e] \o fs
        BY <1>1, <1>3 DEF TypeOK, Send
      <4>2. \A i \in DOMAIN fs :
               \E j \in DOMAIN (wire[e] \o fs) : (wire[e] \o fs)[j] = fs[i]
        <5> SUFFICES ASSUME NEW i \in DOMAIN fs
                     PROVE  \E j \in DOMAIN (wire[e] \o fs) : (wire[e] \o fs)[j] = fs[i]
          OBVIOUS
        <5>1. Len(wire[e]) + i \in DOMAIN (wire[e] \o fs)
              /\ (wire[e] \o fs)[Len(wire[e]) + i] = fs[i]
          BY <4>1, ConcatProperties, SMTT(20)
        <5>2. QED
          BY <5>1
      <4>3. SubscribeIn(wire[e] \o fs, a, o)
        BY <3>3, <4>2 DEF SubscribeIn
      <4>4. QED
        BY <4>1, <4>3 DEF Assured, Coming
    <3>4. QED
      BY <1>3, <3>1, <3>2, <3>3
  <2>2. ASSUME NEW a \in Addr, Due(p, a)' PROVE Assured(p, a)'
    <3>1. signal'[p][a] = signal[p][a] /\ seen'[p][a] = seen[p][a]
      BY <1>3
    <3>2. signal[p][a] # Nil /\ IsShared(e, a)' /\ Alive(e, a)'
      BY <1>1, <2>2, <3>1 DEF Due
    <3>3. Due(p, a)
      BY <1>1, <1>2, <1>3, <3>2 DEF Due, IsShared, Alive
    <3>4. \A i \in DOMAIN fs : ~ToObserver(fs[i], signal[p][a])
      BY <1>3, <3>2
    <3>5. e = Peer(p) /\ (Due(p, a) => Assured(p, a))
      BY <1>1 DEF NoneLost
    <3>6. QED
      BY <1>1, <1>2, <1>3, <2>2, <3>1, <3>3, <3>4, <3>5, HomeSide
  <2>3. QED
    BY <1>1, <2>1, <2>2 DEF NoneLost
<1>4. ASSUME NEW a \in Addr,
             Connect(e, a) \/ CloneRemote(e, a) \/ DropRemote(e, a)
      PROVE  NoneLost'
  <2>1. UNCHANGED <<homes, signal, seen, wire>>
    BY <1>4 DEF Connect, CloneRemote, DropRemote, homeVars
  <2>2. <<>> \in Seq(Frame) /\ Send(e, <<>>)
    BY <1>1, <2>1, SendNothing
  <2>3. DOMAIN <<>> = {}
    OBVIOUS
  <2>4. QED
    BY <1>3, <2>1, <2>2, <2>3
<1>5. ASSUME NEW a \in Addr, NEW ref \in Id \cup {Nil}, CallMethod(e, a, ref)
      PROVE  NoneLost'
  <2> DEFINE first == a \notin released[e]
             f == Call(a, nextRequest'[e], ref, first)
             fs == <<f>>
  <2>1. Send(e, fs) /\ UNCHANGED <<homes, signal, seen>> /\ nextRequest'[e] \in Nat
        /\ a \in projections[e]
    BY <1>1, <1>5, SMTT(20) DEF CallMethod, homeVars, remoteVars, TypeOK
  <2>2. first \in BOOLEAN
    OBVIOUS
  <2> HIDE DEF first
  <2>3. f \in Frame /\ f.target = a
    BY <2>1, <2>2, FrameTypes DEF Call
  <2> HIDE DEF f
  <2>4. fs \in Seq(Frame) /\ \A i \in DOMAIN fs : fs[i].target = a
    BY <2>3
  <2> HIDE DEF fs
  <2>5. ASSUME NEW b \in Addr, signal[p][b] # Nil
        PROVE  signal[p][b] # a
    <3>1. Known(homes[p], a)
      BY <2>1 DEF FitInv, Fit, RemotesKnown, p
    <3>2. signal[p][b] \in Id /\ homes[p][signal[p][b]] = "observer"
      BY <1>1, <2>5, SignalHome DEF FitInv
    <3>3. QED
      BY <3>1, <3>2 DEF Known
  <2>6. QED
    BY <1>3, <2>1, <2>4, <2>5 DEF ToObserver
<1>6. ASSUME NEW S \in SUBSET Addr, Forget(e, S), NEW fs \in Seq(Frame), Send(e, fs),
             \A i \in DOMAIN fs : \E a \in S : fs[i] = Release(a)
      PROVE  NoneLost'
  <2>1. \A i \in DOMAIN fs : fs[i].kind = "release"
    BY <1>6 DEF Release
  <2>2. /\ homes \in [End -> [Addr -> HomeKind]]
        /\ signal \in [End -> [Addr -> Id \cup {Nil}]]
        /\ seen \in [End -> [Addr -> Nat]]
    BY <1>1 DEF TypeOK
  <2>3. /\ homes' = [homes EXCEPT ![e] = [a \in Addr |->
                        IF \E x \in S : a = signal[e][x] THEN "absent" ELSE homes[e][a]]]
        /\ signal' = [signal EXCEPT ![e] = [a \in Addr |->
                        IF a \in S THEN Nil ELSE signal[e][a]]]
        /\ seen' = [seen EXCEPT ![e] = [a \in Addr |->
                        IF a \in S THEN 0 ELSE seen[e][a]]]
    BY <1>6 DEF Forget
  <2>4. /\ \A x \in End, a \in Addr : x # e => homes'[x] = homes[x]
        /\ signal'[p] = signal[p] /\ seen'[p] = seen[p]
    BY <1>1, <2>2, <2>3
  <2>5. \A a \in Addr : \/ signal'[e][a] = Nil
                        \/ /\ signal'[e][a] = signal[e][a]
                           /\ seen'[e][a] = seen[e][a]
    BY <2>2, <2>3
  <2>6. \A a \in Addr : homes'[e][a] = "absent" \/ homes'[e][a] = homes[e][a]
    BY <2>2, <2>3
  <2>7. QED
    BY <1>3, <1>6, <2>1, <2>4, <2>5, <2>6 DEF ToObserver, IsShared
<1>7. ASSUME NEW a \in Addr, Reconnect(e, a)
      PROVE  NoneLost'
  <2> DEFINE fs == <<Release(a)>>
  <2>1. fs \in Seq(Frame) /\ \A i \in DOMAIN fs : \E b \in {a} : fs[i] = Release(b)
    BY FrameTypes
  <2>2. Forget(e, {a}) /\ Send(e, fs)
    BY <1>7 DEF Reconnect
  <2> HIDE DEF fs
  <2>3. QED
    BY <1>6, <2>1, <2>2
<1>8. ASSUME DrainReleases(e)
      PROVE  NoneLost'
  <2> DEFINE gone == releases[e] \cap projections[e]
  <2>1. PICK fs \in Seq(Frame) :
           /\ Send(e, fs)
           /\ \A i \in DOMAIN fs : \E a \in gone : fs[i] = Release(a)
    BY <1>1, <1>8, DrainSends
  <2>2. Forget(e, gone) /\ gone \in SUBSET Addr
    BY <1>1, <1>8 DEF DrainReleases, TypeOK
  <2> HIDE DEF gone
  <2>3. QED
    BY <1>6, <2>1, <2>2
<1>9. ASSUME NEW b \in Addr, NEW o \in Id, Observe(e, b, o)
      PROVE  NoneLost'
  <2> DEFINE f == Subscribe(b, o)
             fs == <<f>>
  <2>1. /\ f \in Frame /\ f.kind = "subscribe" /\ f.target = b /\ f.id = o
    BY FrameTypes DEF Subscribe
  <2>2. /\ Send(e, fs) /\ UNCHANGED seen
        /\ homes' = [homes EXCEPT ![e][o] = "observer"]
        /\ signal' = [signal EXCEPT ![e][b] = o]
    BY <1>9 DEF Observe
  <2> HIDE DEF f
  <2>3. /\ fs \in Seq(Frame) /\ SubscribeIn(fs, b, o)
        /\ \A i \in DOMAIN fs : fs[i].kind = "subscribe"
    BY <2>1 DEF SubscribeIn
  <2> HIDE DEF fs
  <2>4. /\ \A x \in End, a \in Addr : x # e => homes'[x] = homes[x]
        /\ signal'[p] = signal[p] /\ seen'[p] = seen[p]
    BY <1>1, <2>2 DEF TypeOK
  <2>5. \A a \in Addr : homes'[e][a] = "observer" \/ homes'[e][a] = homes[e][a]
    BY <1>1, <2>2 DEF TypeOK, Addr
  <2>6. signal'[e][b] = o /\ \A a \in Addr : a # b => signal'[e][a] = signal[e][a]
    BY <1>1, <2>2 DEF TypeOK
  <2>7. QED
    BY <1>3, <2>2, <2>3, <2>4, <2>5, <2>6 DEF ToObserver, IsShared
<1>10. QED
  BY <1>4, <1>5, <1>7, <1>8, <1>9 DEF RemoteStep

\* What a delivery of f sends: answers, and a $notify to who has just subscribed.
Answers(e, f, fs) ==
    LET note == Notify(f.id, version[e][f.target]) IN
    /\ \A i \in DOMAIN fs : \/ fs[i].kind = "response"
                            \/ f.kind = "subscribe" /\ fs[i] = note
    /\ f.kind = "subscribe" /\ homes[e][f.target] # "absent" => fs = <<note>>

LEMMA DeliverNotifies ==
    ASSUME TypeOK, NEW e \in End, Deliver(e)
    PROVE  \E fs \in Seq(Frame) : Receive(e, fs) /\ Answers(e, Next1(e), fs)
<1> DEFINE f == Next1(e)
           note == Notify(f.id, version[e][f.target])
<1> DEFINE Sends(fs) == /\ fs \in Seq(Frame) /\ Receive(e, fs)
                        /\ \A i \in DOMAIN fs :
                              \/ fs[i].kind = "response"
                              \/ f.kind = "subscribe" /\ fs[i] = note
                        /\ f.kind = "subscribe" /\ homes[e][f.target] # "absent"
                              => fs = <<note>>
<1>1. f \in Frame /\ f.target \in Addr
  BY Next1Type, FrameFields DEF TypeOK, Deliver
<1>2. ASSUME f.kind # "subscribe" \/ homes[e][f.target] = "absent", Receive(e, <<>>)
      PROVE  Sends(<<>>)
  BY <1>2
<1>3. ASSUME DeliverSubscribe(e) PROVE \E fs : Sends(fs)
  <2>1. f.id \in Id /\ version[e][f.target] \in Nat /\ f.kind = "subscribe"
    BY <1>1, <1>3, FrameFields DEF DeliverSubscribe, TypeOK
  <2>2. note \in Frame
    BY <2>1, FrameTypes
  <2>3. CASE homes[e][f.target] # "absent"
    <3>1. Receive(e, <<note>>)
      BY <1>3, <2>3 DEF DeliverSubscribe
    <3>2. Sends(<<note>>)
      BY <2>1, <2>2, <3>1
    <3> HIDE DEF Sends
    <3>3. QED
      BY <3>2
  <2>4. CASE homes[e][f.target] = "absent"
    <3>1. Receive(e, <<>>)
      BY <1>3, <2>4 DEF DeliverSubscribe
    <3> HIDE DEF Sends
    <3>2. QED
      BY <1>2, <2>4, <3>1
  <2>5. QED
    BY <2>3, <2>4
<1>4. ASSUME DeliverResponse(e) \/ DeliverRelease(e) \/ QueueRootCall(e)
      PROVE  \E fs : Sends(fs)
  <2>1. f.kind # "subscribe" /\ Receive(e, <<>>)
    BY <1>4 DEF DeliverResponse, DeliverRelease, QueueRootCall
  <2> HIDE DEF Sends
  <2>2. QED
    BY <1>2, <2>1
<1>5. ASSUME NEW ref \in Id \cup {Nil}, NEW async \in BOOLEAN,
             RejectCall(e) \/ FireSignal(e) \/ HandleCall(e, ref, async)
      PROVE  \E fs : Sends(fs)
  <2>1. f.kind = "call"
    BY <1>5 DEF RejectCall, FireSignal, HandleCall
  <2>2. Receive(e, <<>>)
        \/ \E r \in Id \cup {Nil}, b \in BOOLEAN : Receive(e, Respond(e, f, r, b))
    BY <1>5 DEF RejectCall, FireSignal, HandleCall
  <2>3. ASSUME NEW r \in Id \cup {Nil}, NEW b \in BOOLEAN,
               Receive(e, Respond(e, f, r, b))
        PROVE  Sends(Respond(e, f, r, b))
    <3>1. Respond(e, f, r, b) \in Seq(Frame)
      BY <1>1, RespondType
    <3>2. \A i \in DOMAIN Respond(e, f, r, b) : Respond(e, f, r, b)[i].kind = "response"
      BY DEF Respond, Response
    <3>3. QED
      BY <2>1, <2>3, <3>1, <3>2
  <2> HIDE DEF Sends
  <2>4. QED
    BY <1>2, <2>1, <2>2, <2>3
<1> HIDE DEF Sends
<1>6. \E fs : Sends(fs)
  BY <1>2, <1>3, <1>4, <1>5 DEF Deliver
<1>7. QED
  BY <1>6 DEF Sends, Answers

\* A $notify arrives where it was going; a subscribe is answered with one.
LEMMA DeliverKeepsNone ==
    ASSUME FitInv, OneSubject, NoneLost, NEW e \in End, Deliver(e)
    PROVE  NoneLost'
<1> DEFINE p == Peer(e)
           f == Next1(e)
           s == wire[p]
           note == Notify(f.id, version[e][f.target])
<1>1. /\ TypeOK /\ p \in End /\ p # e /\ Peer(p) = e
      /\ \A x \in End : x = e \/ x = p
      /\ s \in Seq(Frame) /\ s # <<>> /\ wire[e] \in Seq(Frame)
      /\ wire \in [End -> Seq(Frame)] /\ homes \in [End -> [Addr -> HomeKind]]
  BY DeliverEnds DEF TypeOK
<1>2. f \in Frame /\ f.target \in Addr /\ f = s[1] /\ 1 \in DOMAIN s
  BY <1>1, Next1Type, FrameFields, HeadTailProperties DEF Next1
<1>3. PICK fs \in Seq(Frame) : Receive(e, fs) /\ Answers(e, f, fs)
  BY <1>1, DeliverNotifies
<1>4. wire'[e] = wire[e] \o fs /\ wire'[p] = Tail(s)
  BY <1>1, <1>3 DEF Receive
<1>5. /\ UNCHANGED <<signal, held, version, dirty>>
      /\ homes'[p] = homes[p] /\ pendingRoot'[p] = pendingRoot[p]
      /\ seen'[p] = seen[p]
  BY <1>1, DeliverLocal
\* The end that delivers, as an observer.
<1>6. ASSUME NEW a \in Addr, Due(e, a)' PROVE Assured(e, a)'
  <2> DEFINE o == signal[e][a]
             y == seen'[e][a]
  <2>1. o # Nil /\ signal'[e][a] = o /\ Due(e, a)
    BY <1>5, <1>6 DEF Due, IsShared, Alive
  <2>2. Assured(e, a)
    BY <2>1 DEF NoneLost
  <2>3. homes[e][o] = "observer"
    BY <2>1, SignalHome DEF FitInv
  <2>4. y = IF ToObserver(f, o) THEN f.ver ELSE seen[e][a]
    <3>1. CASE FireSignal(e)
      <4>1. /\ f.kind = "call"
            /\ seen' = [seen EXCEPT ![e] = [b \in Addr |->
                           IF signal[e][b] = f.target THEN f.ver ELSE @[b]]]
        BY <3>1 DEF FireSignal
      <4>2. y = IF o = f.target THEN f.ver ELSE seen[e][a]
        BY <1>1, <4>1 DEF TypeOK
      <4>3. QED
        BY <4>1, <4>2 DEF ToObserver
    <3>2. CASE ~FireSignal(e)
      <4>1. UNCHANGED seen
        BY <3>2 DEF Deliver, DeliverSubscribe, DeliverResponse, DeliverRelease,
               QueueRootCall, RejectCall, HandleCall, remoteVars
      <4>2. ~ToObserver(f, o)
        <5> SUFFICES ASSUME f.kind = "call", f.target = o PROVE FALSE
          BY DEF ToObserver
        <5>1. o # Root
          BY <1>1, <2>1, SignalHome, IdAssumption DEF FitInv
        <5>2. QED
          BY <2>3, <3>2, <5>1 DEF Deliver, DeliverSubscribe, DeliverResponse,
             DeliverRelease, QueueRootCall, RejectCall, HandleCall, IsShared
      <4>3. QED
        BY <4>1, <4>2
    <3>3. QED
      BY <3>1, <3>2
  <2> HIDE DEF o, y, s
  <2>5. WillSee(s, o, seen[e][a], version[p][a])
           => WillSee(Tail(s), o, y, version[p][a])
    BY <1>1, <1>2, <2>4, WillSeeTail
  <2>6. Coming(e, a) => Coming(e, a)'
    BY <1>1, <1>4, <1>5, SubscribeStays DEF Coming
  <2>7. QED
    BY <1>4, <1>5, <2>1, <2>2, <2>5, <2>6 DEF Assured, o, y, s
\* The end that delivers, as the home.
<1>7. ASSUME NEW a \in Addr, Due(p, a)' PROVE Assured(p, a)'
  <2> DEFINE o == signal[p][a]
             v == version[e][a]
             x == seen[p][a]
  <2>1. /\ o # Nil /\ signal'[p][a] = o /\ seen'[p][a] = x
        /\ version'[e][a] = v /\ dirty'[e] = dirty[e]
        /\ IsShared(e, a)' /\ Alive(e, a)'
    BY <1>1, <1>5, <1>7 DEF Due
  <2>2. homes'[e][a] = homes[e][a] \/ (homes[e][a] = "strong" /\ homes'[e][a] = "weak")
    <3>1. \/ UNCHANGED homes
          \/ homes' = [homes EXCEPT ![e][f.target] = IF @ = "strong" THEN "weak" ELSE @]
      BY DEF Deliver, DeliverSubscribe, DeliverResponse, DeliverRelease,
             QueueRootCall, RejectCall, FireSignal, HandleCall, homeVars
    <3> HIDE DEF f
    <3>2. QED
      BY <1>1, <1>2, <3>1
  <2>3. IsShared(e, a) /\ Due(p, a)
    BY <1>1, <1>5, <2>1, <2>2 DEF Due, IsShared, Alive
  <2>4. Assured(p, a)
    BY <1>1, <2>3 DEF NoneLost
  <2>5. ASSUME f.kind = "subscribe", f.id = o
        PROVE  f.target = a
    <3>1. Observes(e, f.target, o)
      BY <1>2, <2>5 DEF Observes, SubscribeIn
    <3>2. QED
      BY <1>1, <1>2, <2>1, <3>1 DEF OneSubject
  <2>6. ASSUME NEW i \in DOMAIN fs, ToObserver(fs[i], o)
        PROVE  fs[i].ver = v
    <3>1. f.kind = "subscribe" /\ fs[i] = note
      BY <1>3, <2>6 DEF ToObserver, Answers
    <3>2. f.id = o /\ fs[i].ver = version[e][f.target]
      BY <2>6, <3>1 DEF ToObserver, Notify
    <3>3. QED
      BY <2>5, <3>1, <3>2
  <2>7. CASE \E i \in DOMAIN fs : ToObserver(fs[i], o)
    <3>1. WillSee(wire[e] \o fs, o, x, v)
      BY <1>1, <2>6, <2>7, WillSeeSent
    <3>2. QED
      BY <1>1, <1>4, <2>1, <3>1 DEF Assured
  <2>8. CASE \A i \in DOMAIN fs : ~ToObserver(fs[i], o)
    <3>1. WillSee(wire[e], o, x, v) => WillSee(wire'[e], o, x, v)
      BY <1>1, <1>4, <2>8, WillSeeMore
    <3>2. SubscribeIn(pendingRoot[e], a, o) => SubscribeIn(pendingRoot'[e], a, o)
      <4>1. \/ pendingRoot'[e] = pendingRoot[e]
            \/ pendingRoot'[e] = Append(pendingRoot[e], f)
        BY <1>1 DEF Deliver, DeliverSubscribe, DeliverResponse, DeliverRelease,
           QueueRootCall, RejectCall, FireSignal, HandleCall, homeVars, TypeOK
      <4>2. pendingRoot[e] \in Seq(Frame)
        BY <1>1 DEF TypeOK
      <4> HIDE DEF f
      <4>3. /\ <<f>> \in Seq(Frame)
            /\ Append(pendingRoot[e], f) = pendingRoot[e] \o <<f>>
        BY <1>2, <4>2, SMTT(20)
      <4>4. QED
        BY <4>1, <4>2, <4>3, SubscribeStays
    <3>3. SubscribeIn(s, a, o) => SubscribeIn(Tail(s), a, o)
      <4> SUFFICES ASSUME NEW i \in DOMAIN s, s[i].kind = "subscribe",
                          s[i].target = a, s[i].id = o
                   PROVE  SubscribeIn(Tail(s), a, o)
        BY DEF SubscribeIn
      <4>1. i # 1
        <5> SUFFICES ASSUME i = 1 PROVE FALSE
          OBVIOUS
        <5>1. f.kind = "subscribe" /\ f.target = a /\ f.id = o
          BY <1>2
        <5>2. fs = <<note>> /\ ToObserver(note, o)
          BY <1>3, <2>3, <5>1 DEF Answers, IsShared, ToObserver, Notify
        <5> HIDE DEF note
        <5>3. QED
          BY <2>8, <5>2
      <4>2. i - 1 \in DOMAIN Tail(s) /\ Tail(s)[i - 1] = s[i]
        BY <1>1, <4>1, HeadTailProperties
      <4>3. QED
        BY <4>2 DEF SubscribeIn
    <3>4. QED
      BY <1>1, <1>4, <2>1, <2>4, <3>1, <3>2, <3>3 DEF Assured, Coming
  <2>9. QED
    BY <2>7, <2>8
<1>8. QED
  BY <1>1, <1>6, <1>7 DEF NoneLost
-----------------------------------------------------------------------------
(***************************************************************************)
(* In every reachable state, a live object that the other end observes has *)
(* signalled its last change there, or what will is on its way: the gpui   *)
(* effect, the $notify, or the subscribe it will answer.  The condition is *)
(* needed: a root that is replaced starts without its observers, and what  *)
(* it then notifies reaches nobody.                                        *)
(***************************************************************************)
THEOREM NotifyReaches ==
    ASSUME MaxRoots <= 1
    PROVE  Spec => []NoLostNotify
<1> DEFINE Inv == RootHeard /\ OneSubject /\ NoneLost
           All == FitInv /\ Paired /\ Inv
<1>1. Init => Inv
  BY DEF Init, RootHeard, OneSubject, NoneLost, Due, Addr
<1>2. FitInv /\ Paired /\ Inv /\ [Next]_vars => Inv'
  <2> SUFFICES ASSUME FitInv, Paired, Inv, [Next]_vars PROVE Inv'
    OBVIOUS
  <2>1. CASE UNCHANGED vars
    BY <2>1 DEF vars, homeVars, remoteVars, RootHeard, Listed, OneSubject, Observes,
                NoneLost, Due, IsShared, Alive, Assured, Coming
  <2>2. ASSUME NEW e \in End, HomeStep(e) \/ RemoteStep(e) \/ Deliver(e)
        PROVE  Inv'
    <3>1. RootHeard'
      BY <2>2, HomeStepKeepsHeard, RemoteStepKeepsHeard, DeliverKeepsHeard
    <3>2. OneSubject'
      BY <2>2, HomeStepKeepsSubject, RemoteStepKeepsSubject, DeliverKeepsSubject
    <3>3. NoneLost'
      BY <2>2, HomeStepKeepsNone, RemoteStepKeepsNone, DeliverKeepsNone
    <3>4. QED
      BY <3>1, <3>2, <3>3
  <2>3. QED
    BY <2>1, <2>2 DEF Next
<1>3. FitInv /\ Paired /\ Inv => NoLostNotify
  <2> SUFFICES ASSUME FitInv, NoneLost, NEW e \in End, NEW a \in Addr, Due(e, a)
               PROVE  \/ seen[e][a] = version[Peer(e)][a]
                      \/ a \in dirty[Peer(e)]
                      \/ \E i \in DOMAIN wire[Peer(e)] :
                            wire[Peer(e)][i] = Notify(signal[e][a], version[Peer(e)][a])
                      \/ \E i \in DOMAIN InFlight(e) :
                            InFlight(e)[i] = Subscribe(a, signal[e][a])
    BY DEF NoLostNotify, Due
  <2> DEFINE o == signal[e][a]
             p == Peer(e)
             v == version[p][a]
             q == pendingRoot[p]
             s == wire[e]
  <2>1. /\ p \in End /\ Peer(p) = e /\ o \in Id /\ homes[e][o] = "observer"
        /\ q \in Seq(Frame) /\ s \in Seq(Frame)
    BY EndsAssumption, SignalHome DEF FitInv, ObserverInv, TypeOK, Due, End, Peer
  <2>2. ASSUME NEW i \in DOMAIN wire[p], ToObserver(wire[p][i], o), wire[p][i].ver = v
        PROVE  wire[p][i] = Notify(o, v)
    <3>1. Fits(wire[p][i], homes[p], homes[e], minted)
      BY <2>1 DEF FitInv, Fit, WiresFit
    <3>2. ~Known(homes[e], o)
      BY <2>1 DEF Known
    <3>3. QED
      BY <2>2, <3>1, <3>2 DEF Fits, ToObserver
  <2>3. /\ \A i \in DOMAIN q : i \in DOMAIN (q \o s) /\ (q \o s)[i] = q[i]
        /\ \A i \in DOMAIN s : /\ Len(q) + i \in DOMAIN (q \o s)
                               /\ (q \o s)[Len(q) + i] = s[i]
    BY <2>1, FrameOfParts
  <2>4. /\ \A i \in DOMAIN q : q[i].kind = "subscribe"
               => q[i] = Subscribe(q[i].target, q[i].id)
        /\ \A i \in DOMAIN s : s[i].kind = "subscribe"
               => s[i] = Subscribe(s[i].target, s[i].id)
    BY <2>1 DEF FitInv, Fit, QueuesFit, WiresFit, Fits
  <2>5. Coming(e, a) => \E i \in DOMAIN (q \o s) : (q \o s)[i] = Subscribe(a, o)
    <3>1. ASSUME SubscribeIn(q, a, o)
          PROVE  \E i \in DOMAIN (q \o s) : (q \o s)[i] = Subscribe(a, o)
      <4>1. PICK i \in DOMAIN q : q[i].kind = "subscribe" /\ q[i].target = a /\ q[i].id = o
        BY <3>1 DEF SubscribeIn
      <4>2. i \in DOMAIN (q \o s) /\ (q \o s)[i] = Subscribe(a, o)
        BY <2>3, <2>4, <4>1
      <4>3. QED
        BY <4>2
    <3>2. ASSUME SubscribeIn(s, a, o)
          PROVE  \E i \in DOMAIN (q \o s) : (q \o s)[i] = Subscribe(a, o)
      <4>1. PICK i \in DOMAIN s : s[i].kind = "subscribe" /\ s[i].target = a /\ s[i].id = o
        BY <3>2 DEF SubscribeIn
      <4>2. Len(q) + i \in DOMAIN (q \o s) /\ (q \o s)[Len(q) + i] = Subscribe(a, o)
        BY <2>3, <2>4, <4>1
      <4>3. QED
        BY <4>2
    <3>3. QED
      BY <3>1, <3>2 DEF Coming
  <2>6. Assured(e, a)
    BY DEF NoneLost
  <2>7. QED
    BY <2>2, <2>5, <2>6 DEF Assured, WillSee, InFlight
<1>4. Spec => []FitInv /\ []Paired
  BY FitAlways, PairedAlways
<1>5. QED
  BY <1>1, <1>2, <1>3, <1>4, PTL DEF Spec
=============================================================================
