--------------------------- MODULE RegistryProofs ---------------------------
(***************************************************************************)
(* Proofs about Registry, for any set of ids and any bounds.               *)
(***************************************************************************)
EXTENDS Registry, FiniteSetTheorems, SequenceTheorems, TLAPS

-----------------------------------------------------------------------------
(***************************************************************************)
(* Frames and the wire.                                                    *)
(***************************************************************************)
\* The frame constructors build frames.
LEMMA FrameTypes ==
    /\ \A a \in Addr, r \in Nat, ref \in Id \cup {Nil}, b \in BOOLEAN :
          Call(a, r, ref, b) \in Frame
    /\ \A o \in Id, v \in Nat : Notify(o, v) \in Frame
    /\ \A f \in Frame, ref \in Id \cup {Nil}, b \in BOOLEAN :
          Response(f, ref, b) \in Frame
    /\ \A a \in Addr, o \in Id : Subscribe(a, o) \in Frame
    /\ \A a \in Addr : Release(a) \in Frame
  BY IdAssumption DEF Frame, Call, Notify, Response, Subscribe, Release, Addr

\* The fields of a frame.
LEMMA FrameFields ==
    ASSUME NEW f \in Frame
    PROVE  /\ f.target \in Addr /\ f.request \in Nat /\ f.id \in Id \cup {Nil}
           /\ f.ok \in BOOLEAN /\ f.ver \in Nat
           /\ f.kind = "subscribe" => f.id \in Id
  BY DEF Frame

\* A function on 1 .. n is a sequence.
LEMMA FunctionIsSeq ==
    ASSUME NEW n \in Nat, NEW S, NEW f \in [1 .. n -> S]
    PROVE  f \in Seq(S)
  BY SeqDef

\* Updating one cell of a table keeps its type.
LEMMA TableUpdate ==
    ASSUME NEW X, NEW Y, NEW V, NEW t \in [X -> [Y -> V]],
           NEW x \in X, NEW y \in Y, NEW v \in V
    PROVE  [t EXCEPT ![x][y] = v] \in [X -> [Y -> V]]
  OBVIOUS

\* The other end is an end, and not this one.
LEMMA PeerType ==
    ASSUME NEW e \in End
    PROVE  Peer(e) \in End /\ Peer(e) # e
  BY EndsAssumption DEF End, Peer

\* Sending frames keeps the wires sequences of frames.
LEMMA SendType ==
    ASSUME wire \in [End -> Seq(Frame)], NEW e \in End,
           NEW fs \in Seq(Frame), Send(e, fs)
    PROVE  wire' \in [End -> Seq(Frame)]
  BY DEF Send

\* So does receiving one and answering it.
LEMMA ReceiveType ==
    ASSUME wire \in [End -> Seq(Frame)], NEW e \in End, wire[Peer(e)] # <<>>,
           NEW fs \in Seq(Frame), Receive(e, fs)
    PROVE  wire' \in [End -> Seq(Frame)]
<1>1. Peer(e) \in End
  BY PeerType
<1>2. Tail(wire[Peer(e)]) \in Seq(Frame)
  BY <1>1, HeadTailProperties
<1>3. wire[e] \o fs \in Seq(Frame)
  BY ConcatProperties
<1>4. QED
  BY <1>1, <1>2, <1>3, PeerType DEF Receive

\* The frame being delivered is a frame.
LEMMA Next1Type ==
    ASSUME wire \in [End -> Seq(Frame)], NEW e \in End, wire[Peer(e)] # <<>>
    PROVE  Next1(e) \in Frame
  BY PeerType, HeadTailProperties DEF Next1

\* The answer to a call is a sequence of frames.
LEMMA RespondType ==
    ASSUME NEW e, NEW f \in Frame, NEW ref \in Id \cup {Nil}, NEW b \in BOOLEAN
    PROVE  Respond(e, f, ref, b) \in Seq(Frame)
  BY FrameTypes DEF Respond

\* An enumeration of positions is a sequence of positions.
LEMMA InOrderType ==
    ASSUME NEW n \in Nat, NEW K \in SUBSET (1 .. n), NEW p \in InOrder(K)
    PROVE  /\ Cardinality(K) \in Nat
           /\ p \in [1 .. Cardinality(K) -> K]
<1>1. IsFiniteSet(1 .. n)
  BY FS_Interval
<1>2. IsFiniteSet(K)
  BY <1>1, FS_Subset
<1>3. QED
  BY <1>2, FS_CardinalityType DEF InOrder

\* It reaches every one, and each once.
Enumerates(p, K) ==
    /\ Cardinality(K) \in Nat /\ p \in [1 .. Cardinality(K) -> K]
    /\ DOMAIN p = 1 .. Cardinality(K)
    /\ \A k \in K : \E i \in DOMAIN p : p[i] = k
    /\ \A i, j \in DOMAIN p : p[i] = p[j] => i = j

LEMMA InOrderOnto ==
    ASSUME NEW n \in Nat
    PROVE  \A K \in SUBSET (1 .. n) : \A p \in InOrder(K) : Enumerates(p, K)
<1> TAKE K \in SUBSET (1 .. n)
<1> TAKE p \in InOrder(K)
<1> DEFINE c == Cardinality(K)
<1>1. c \in Nat /\ p \in [1 .. c -> K]
  BY InOrderType
<1>2. \A i, j \in DOMAIN p : i < j => p[i] < p[j]
  BY DEF InOrder
<1>3. \A i \in 1 .. c : p[i] \in Nat
  <2>1. \A k \in K : k \in Nat
    OBVIOUS
  <2> HIDE DEF c
  <2>2. QED
    BY <1>1, <2>1
<1>4. \A i, j \in 1 .. c : p[i] = p[j] => i = j
  <2> SUFFICES ASSUME NEW i \in 1 .. c, NEW j \in 1 .. c, p[i] = p[j], i # j
               PROVE  FALSE
    OBVIOUS
  <2>1. i < j \/ j < i
    BY <1>1
  <2>2. p[i] < p[j] \/ p[j] < p[i]
    BY <1>1, <1>2, <2>1
  <2>3. QED
    BY <1>3, <2>2
<1>5. p \in Injection(1 .. c, K)
  BY <1>1, <1>4 DEF Injection, IsInjective
<1>6. Cardinality(1 .. c) = c
  BY <1>1, FS_Interval
<1>7. p \in Surjection(1 .. c, K)
  <2>1. IsFiniteSet(K)
    <3>1. IsFiniteSet(1 .. n)
      BY FS_Interval
    <3>2. QED
      BY <3>1, FS_Subset
  <2>2. QED
    BY <1>5, <1>6, <2>1, FS_Injection
<1>8. QED
  BY <1>1, <1>4, <1>7 DEF Surjection, Enumerates
-----------------------------------------------------------------------------
(***************************************************************************)
(* Type correctness, action by action.                                     *)
(***************************************************************************)
LEMMA InitType == Init => TypeOK
  BY DEF Init, TypeOK, HomeKind, Addr

\* Forgetting projections keeps the types of what it touches.
LEMMA ForgetType ==
    ASSUME TypeOK, NEW e \in End, NEW S \in SUBSET Addr, Forget(e, S)
    PROVE  /\ homes' \in [End -> [Addr -> HomeKind]]
           /\ signal' \in [End -> [Addr -> Id \cup {Nil}]]
           /\ seen' \in [End -> [Addr -> Nat]]
           /\ released' \in [End -> SUBSET Addr]
<1>1. homes' \in [End -> [Addr -> HomeKind]]
  BY DEF TypeOK, Forget, HomeKind
<1>2. signal' \in [End -> [Addr -> Id \cup {Nil}]]
  BY DEF TypeOK, Forget
<1>3. seen' \in [End -> [Addr -> Nat]]
  BY DEF TypeOK, Forget
<1>4. released' \in [End -> SUBSET Addr]
  BY DEF TypeOK, Forget
<1>5. QED
  BY <1>1, <1>2, <1>3, <1>4

LEMMA ShareType ==
    ASSUME TypeOK, NEW e \in End, NEW a \in Id, NEW k \in BOOLEAN, Share(e, a, k)
    PROVE  TypeOK'
  BY DEF TypeOK, Share, Mint, remoteVars, callVars, HomeKind, Addr

LEMMA DropEntityType ==
    ASSUME TypeOK, NEW e \in End, NEW a \in Addr, DropEntity(e, a)
    PROVE  TypeOK'
  BY DEF TypeOK, DropEntity, remoteVars, callVars

LEMMA ChangeType ==
    ASSUME TypeOK, NEW e \in End, NEW a \in Addr, Change(e, a)
    PROVE  TypeOK'
<1>1. version' \in [End -> [Addr -> Nat]] /\ dirty' \in [End -> SUBSET Addr]
  BY DEF TypeOK, Change
<1>2. UNCHANGED <<homes, observers, held, roots, pendingRoot, tasks, remoteVars,
                  callVars, wire, minted>>
  BY DEF Change
<1>3. QED
  BY <1>1, <1>2 DEF TypeOK, remoteVars, callVars

\* What notify_observers sends.
LEMMA NotificationsType ==
    ASSUME TypeOK, NEW e \in End, NEW a \in Addr
    PROVE  Notifications(e, a) \in Seq(Frame)
<1>1. observers[e][a] \in Seq(Id) /\ version[e][a] \in Nat
  BY DEF TypeOK
<1>2. \A i \in DOMAIN observers[e][a] : observers[e][a][i] \in Id
  BY <1>1
<1>3. \A i \in DOMAIN observers[e][a] :
          Notify(observers[e][a][i], version[e][a]) \in Frame
  BY <1>1, <1>2, FrameTypes
<1>4. DOMAIN observers[e][a] = 1 .. Len(observers[e][a])
      /\ Len(observers[e][a]) \in Nat
  BY <1>1
<1>5. QED
  BY <1>3, <1>4, IsASeq DEF Notifications

LEMMA FlushNotifyType ==
    ASSUME TypeOK, NEW e \in End, NEW a \in Addr, FlushNotify(e, a)
    PROVE  TypeOK'
<1>1. Notifications(e, a) \in Seq(Frame)
  BY NotificationsType
<1>2. wire' \in [End -> Seq(Frame)]
  <2>1. wire \in [End -> Seq(Frame)]
    BY DEF TypeOK
  <2>2. (IF Alive(e, a) THEN Notifications(e, a) ELSE <<>>) \in Seq(Frame)
    BY <1>1
  <2>3. QED
    BY <2>1, <2>2, SendType DEF FlushNotify
<1>3. QED
  BY <1>2 DEF TypeOK, FlushNotify, remoteVars, callVars

LEMMA CloneRemoteType ==
    ASSUME TypeOK, NEW e \in End, NEW a \in Addr, CloneRemote(e, a)
    PROVE  TypeOK'
<1>1. remotes' \in [End -> [Addr -> Nat]]
  BY DEF TypeOK, CloneRemote
<1>2. UNCHANGED <<homeVars, projections, signal, seen, releases, released,
                  callVars, wire, minted>>
  BY DEF CloneRemote
<1>3. QED
  BY <1>1, <1>2 DEF TypeOK, homeVars, callVars

LEMMA ConnectType ==
    ASSUME TypeOK, NEW e \in End, NEW a \in Addr, Connect(e, a)
    PROVE  TypeOK'
  BY DEF TypeOK, Connect, homeVars, callVars

LEMMA ReconnectType ==
    ASSUME TypeOK, NEW e \in End, NEW a \in Addr, Reconnect(e, a)
    PROVE  TypeOK'
<1>1. wire' \in [End -> Seq(Frame)]
  <2>1. <<Release(a)>> \in Seq(Frame)
    BY FrameTypes
  <2>2. QED
    BY <2>1, SendType DEF TypeOK, Reconnect
<1>2. Forget(e, {a})
  BY DEF Reconnect
<1>3. QED
  BY <1>1, <1>2, ForgetType DEF TypeOK, Reconnect, callVars

LEMMA DropRemoteType ==
    ASSUME TypeOK, NEW e \in End, NEW a \in Addr, DropRemote(e, a)
    PROVE  TypeOK'
<1>1. remotes' \in [End -> [Addr -> Nat]]
  BY DEF TypeOK, DropRemote
<1>2. releases' \in [End -> SUBSET Addr]
  BY DEF TypeOK, DropRemote
<1>3. QED
  BY <1>1, <1>2 DEF TypeOK, DropRemote, homeVars, callVars

LEMMA DrainReleasesType ==
    ASSUME TypeOK, NEW e \in End, DrainReleases(e)
    PROVE  TypeOK'
<1> DEFINE gone == releases[e] \cap projections[e]
           n == Cardinality(gone)
<1>1. gone \in SUBSET Addr
  BY DEF TypeOK
<1>2. n \in Nat
  <2>1. IsFiniteSet(Addr)
    BY IdAssumption, FS_AddElement DEF Addr
  <2>2. IsFiniteSet(gone)
    BY <1>1, <2>1, FS_Subset
  <2>3. QED
    BY <2>2, FS_CardinalityType
<1>3. wire' \in [End -> Seq(Frame)]
  <2>1. PICK order \in Bijection(1 .. n, gone) :
            Send(e, [i \in 1 .. n |-> Release(order[i])])
    BY DEF DrainReleases
  <2>2. \A i \in 1 .. n : order[i] \in Addr
    BY <1>1, <2>1 DEF Bijection, Injection
  <2>3. \A i \in 1 .. n : Release(order[i]) \in Frame
    BY <2>2, FrameTypes
  <2>4. [i \in 1 .. n |-> Release(order[i])] \in [1 .. n -> Frame]
    BY <2>3
  <2>5. [i \in 1 .. n |-> Release(order[i])] \in Seq(Frame)
    BY <1>2, <2>4, FunctionIsSeq
  <2>6. QED
    BY <2>1, <2>5, SendType DEF TypeOK
<1>4. Forget(e, gone)
  BY DEF DrainReleases
<1>5. /\ homes' \in [End -> [Addr -> HomeKind]]
      /\ signal' \in [End -> [Addr -> Id \cup {Nil}]]
      /\ seen' \in [End -> [Addr -> Nat]]
      /\ released' \in [End -> SUBSET Addr]
  BY <1>1, <1>4, ForgetType
<1>6. releases' \in [End -> SUBSET Addr] /\ projections' \in [End -> SUBSET Addr]
  BY DEF TypeOK, DrainReleases
<1>7. QED
  BY <1>3, <1>5, <1>6 DEF TypeOK, DrainReleases, callVars

\* What a drained queue sends: the releases of its projections, each once.
LEMMA DrainSends ==
    ASSUME TypeOK, NEW e \in End, DrainReleases(e)
    PROVE  \E fs \in Seq(Frame) :
              /\ Send(e, fs)
              /\ \A i \in DOMAIN fs : \E a \in releases[e] \cap projections[e] :
                    fs[i] = Release(a)
              /\ \A a \in releases[e] \cap projections[e] :
                    \E i \in DOMAIN fs : fs[i] = Release(a)
<1> DEFINE gone == releases[e] \cap projections[e]
           n == Cardinality(gone)
<1>1. gone \in SUBSET Addr
  BY DEF TypeOK
<1>2. n \in Nat
  <2>1. IsFiniteSet(Addr)
    BY IdAssumption, FS_AddElement DEF Addr
  <2>2. IsFiniteSet(gone)
    BY <1>1, <2>1, FS_Subset
  <2>3. QED
    BY <2>2, FS_CardinalityType
<1>3. PICK order \in Bijection(1 .. n, gone) :
         Send(e, [i \in 1 .. n |-> Release(order[i])])
  BY DEF DrainReleases
<1> DEFINE fs == [i \in 1 .. n |-> Release(order[i])]
<1> HIDE DEF gone, n
<1>4. /\ \A i \in 1 .. n : order[i] \in gone
      /\ \A a \in gone : \E i \in 1 .. n : order[i] = a
  BY <1>3 DEF Bijection, Injection, Surjection
<1>5. fs \in Seq(Frame)
  <2>1. fs \in [1 .. n -> Frame]
    BY <1>1, <1>4, FrameTypes
  <2>2. QED
    BY <1>2, <2>1, FunctionIsSeq
<1>6. /\ \A i \in DOMAIN fs : \E a \in gone : fs[i] = Release(a)
      /\ \A a \in gone : \E i \in DOMAIN fs : fs[i] = Release(a)
  BY <1>4
<1> HIDE DEF fs
<1>7. QED
  BY <1>3, <1>5, <1>6 DEF fs, gone

LEMMA ObserveType ==
    ASSUME TypeOK, NEW e \in End, NEW a \in Addr, NEW o \in Id, Observe(e, a, o)
    PROVE  TypeOK'
<1>1. wire' \in [End -> Seq(Frame)]
  <2>1. <<Subscribe(a, o)>> \in Seq(Frame)
    BY FrameTypes
  <2>2. QED
    BY <2>1, SendType DEF TypeOK, Observe
<1>2. homes' \in [End -> [Addr -> HomeKind]]
  BY DEF TypeOK, Observe, HomeKind
<1>3. QED
  BY <1>1, <1>2 DEF TypeOK, Observe, Mint, callVars

LEMMA CallMethodType ==
    ASSUME TypeOK, NEW e \in End, NEW a \in Addr, NEW ref \in Id \cup {Nil},
           CallMethod(e, a, ref)
    PROVE  TypeOK'
<1>1. nextRequest' \in [End -> Nat] /\ pending' \in [End -> SUBSET Nat]
  BY DEF TypeOK, CallMethod
<1>2. wire' \in [End -> Seq(Frame)]
  <2>1. Call(a, nextRequest'[e], ref, a \notin released[e]) \in Frame
    BY <1>1, FrameTypes
  <2>2. <<Call(a, nextRequest'[e], ref, a \notin released[e])>> \in Seq(Frame)
    BY <2>1
  <2>3. QED
    BY <2>2, SendType DEF TypeOK, CallMethod
<1>3. QED
  BY <1>1, <1>2 DEF TypeOK, CallMethod, homeVars, remoteVars

LEMMA FinishTaskType ==
    ASSUME TypeOK, NEW e \in End, NEW f \in tasks[e], NEW ref \in Id \cup {Nil},
           FinishTask(e, f, ref)
    PROVE  TypeOK'
<1>1. f \in Frame
  BY DEF TypeOK
<1>2. Respond(e, f, ref, TRUE) \in Seq(Frame)
  BY <1>1, RespondType
<1>3. wire' \in [End -> Seq(Frame)]
  BY <1>2, SendType DEF TypeOK, FinishTask
<1>4. QED
  BY <1>3 DEF TypeOK, FinishTask, remoteVars, callVars

\* What share_root sends at once: responses and initial notifies.
LEMMA ShareRootSends ==
    ASSUME TypeOK, NEW e \in End, NEW async, ShareRoot(e, async)
    PROVE  \E fs \in Seq(Frame) :
              /\ Send(e, fs)
              /\ \A i \in DOMAIN fs :
                    \/ fs[i].kind = "response"
                    \/ fs[i].kind = "call" /\ fs[i].request = 0 /\ ~fs[i].ok
<1> DEFINE queue == pendingRoot[e]
           Subs == {i \in DOMAIN queue : queue[i].kind = "subscribe"}
           Calls == {queue[i] : i \in DOMAIN queue \ Subs}
           Ready == Subs \cup {i \in DOMAIN queue : queue[i] \in Calls \ async}
<1>1. /\ Len(queue) \in Nat
      /\ DOMAIN queue = 1 .. Len(queue)
      /\ \A i \in 1 .. Len(queue) : queue[i] \in Frame
  BY DEF TypeOK
<1>2. version'[e][Root] \in Nat
  <2>1. version' = [version EXCEPT ![e][Root] = @ + 1]
    BY DEF ShareRoot
  <2>2. version \in [End -> [Addr -> Nat]] /\ Root \in Addr
    BY DEF TypeOK, Addr
  <2>3. QED
    BY <2>1, <2>2
<1>3. PICK p \in InOrder(Ready) : \E h \in [DOMAIN p -> Payload(e)] :
         Send(e, [i \in DOMAIN p |-> RootReply(e, queue[p[i]], h[i])])
  BY DEF ShareRoot
<1> PICK answer \in [DOMAIN p -> Payload(e)] :
         Send(e, [i \in DOMAIN p |-> RootReply(e, queue[p[i]], answer[i])])
  BY <1>3
<1>4. Ready \in SUBSET (1 .. Len(queue))
  BY <1>1
<1>5. /\ Cardinality(Ready) \in Nat
      /\ p \in [1 .. Cardinality(Ready) -> Ready]
  BY <1>1, <1>3, <1>4, InOrderType
<1>6. \A f \in Frame, ref \in Id \cup {Nil} : RootReply(e, f, ref) \in Frame
  BY <1>2, FrameTypes, FrameFields DEF RootReply, Addr
<1>7. \A f \in Frame, ref \in Id \cup {Nil} :
          LET g == RootReply(e, f, ref)
          IN  \/ g.kind = "response"
              \/ g.kind = "call" /\ g.request = 0 /\ ~g.ok
  BY DEF RootReply, Response, Notify
<1> DEFINE fs == [i \in DOMAIN p |-> RootReply(e, queue[p[i]], answer[i])]
<1>8. /\ DOMAIN p = 1 .. Cardinality(Ready)
      /\ \A i \in DOMAIN p : queue[p[i]] \in Frame /\ answer[i] \in Id \cup {Nil}
  BY <1>1, <1>4, <1>5 DEF Payload
<1>9. fs \in Seq(Frame)
  <2>1. fs \in [1 .. Cardinality(Ready) -> Frame]
    BY <1>6, <1>8
  <2>2. QED
    BY <1>5, <2>1, FunctionIsSeq
<1>10. \A i \in DOMAIN fs : \/ fs[i].kind = "response"
                            \/ fs[i].kind = "call" /\ fs[i].request = 0 /\ ~fs[i].ok
  BY <1>7, <1>8
<1>11. Send(e, fs)
  BY <1>3
<1>12. QED
  BY <1>9, <1>10, <1>11

LEMMA ShareRootType ==
    ASSUME TypeOK, NEW e \in End, NEW async, ShareRoot(e, async)
    PROVE  TypeOK'
<1> DEFINE queue == pendingRoot[e]
           Subs == {i \in DOMAIN queue : queue[i].kind = "subscribe"}
           Calls == {queue[i] : i \in DOMAIN queue \ Subs}
<1>1. /\ queue \in Seq(Frame)
      /\ Len(queue) \in Nat
      /\ DOMAIN queue = 1 .. Len(queue)
      /\ \A i \in 1 .. Len(queue) : queue[i] \in Frame
  BY DEF TypeOK
<1>2. Calls \subseteq Frame /\ async \subseteq Calls
  BY <1>1 DEF ShareRoot
<1>3. version' \in [End -> [Addr -> Nat]]
  <2>1. version' = [version EXCEPT ![e][Root] = @ + 1]
    BY DEF ShareRoot
  <2>2. version \in [End -> [Addr -> Nat]] /\ Root \in Addr
    BY DEF TypeOK, Addr
  <2>3. QED
    BY <2>1, <2>2
<1>4. observers' \in [End -> [Addr -> Seq(Id)]]
  <2>1. PICK p \in InOrder(Subs) :
           observers' = [observers EXCEPT ![e][Root] =
                                [i \in DOMAIN p |-> queue[p[i]].id]]
    BY DEF ShareRoot
  <2>2. Subs \in SUBSET (1 .. Len(queue))
    BY <1>1
  <2>3. /\ Cardinality(Subs) \in Nat
        /\ p \in [1 .. Cardinality(Subs) -> Subs]
    BY <1>1, <2>1, <2>2, InOrderType
  <2>4. \A i \in 1 .. Cardinality(Subs) : queue[p[i]].id \in Id
    BY <1>1, <2>3, FrameFields
  <2>5. [i \in 1 .. Cardinality(Subs) |-> queue[p[i]].id] \in Seq(Id)
    BY <2>3, <2>4, FunctionIsSeq
  <2>6. DOMAIN p = 1 .. Cardinality(Subs)
    BY <2>3
  <2>7. QED
    BY <2>1, <2>5, <2>6 DEF TypeOK, Addr
<1>5. wire' \in [End -> Seq(Frame)]
  BY ShareRootSends, SendType DEF TypeOK
<1>6. refs' \in [End -> SUBSET Id]
  <2>1. ({f.id : f \in Calls} \ {Nil}) \subseteq Id
    BY <1>2, FrameFields
  <2>2. QED
    BY <2>1 DEF TypeOK, ShareRoot
<1>7. tasks' \in [End -> SUBSET Frame]
  BY <1>2 DEF TypeOK, ShareRoot
<1>8. pendingRoot' \in [End -> Seq(Frame)]
  <2>1. pendingRoot' = [pendingRoot EXCEPT ![e] = <<>>]
    BY DEF ShareRoot
  <2>2. pendingRoot \in [End -> Seq(Frame)] /\ <<>> \in Seq(Frame)
    BY DEF TypeOK
  <2>3. QED
    BY <2>1, <2>2
<1>9. /\ homes' = [homes EXCEPT ![e][Root] = "strong"]
      /\ held' = [held EXCEPT ![e] = @ \cup {Root}]
      /\ dirty' = [dirty EXCEPT ![e] = @ \ {Root}]
      /\ roots' = [roots EXCEPT ![e] = @ + 1]
      /\ UNCHANGED <<remoteVars, nextRequest, pending, minted>>
  BY DEF ShareRoot
<1>10. /\ homes' \in [End -> [Addr -> HomeKind]]
       /\ held' \in [End -> SUBSET Addr]
       /\ dirty' \in [End -> SUBSET Addr]
       /\ roots' \in [End -> Nat]
  <2>1. /\ homes \in [End -> [Addr -> HomeKind]] /\ "strong" \in HomeKind
        /\ held \in [End -> SUBSET Addr] /\ Root \in Addr
        /\ dirty \in [End -> SUBSET Addr]
        /\ roots \in [End -> Nat]
    BY DEF TypeOK, HomeKind, Addr
  <2>2. QED
    BY <1>9, <2>1
<1>11. QED
  BY <1>3, <1>4, <1>5, <1>6, <1>7, <1>8, <1>9, <1>10 DEF TypeOK, remoteVars

LEMMA DeliverType ==
    ASSUME TypeOK, NEW e \in End, Deliver(e)
    PROVE  TypeOK'
<1> DEFINE f == Next1(e)
<1>1. f \in Frame /\ wire[Peer(e)] # <<>>
  BY Next1Type DEF TypeOK, Deliver
<1>2. /\ f.target \in Addr /\ f.request \in Nat /\ f.id \in Id \cup {Nil}
      /\ f.ver \in Nat /\ (f.kind = "subscribe" => f.id \in Id)
  BY <1>1, FrameFields
<1>3. \A fs \in Seq(Frame) : Receive(e, fs) => wire' \in [End -> Seq(Frame)]
  BY <1>1, ReceiveType DEF TypeOK
<1>4. <<>> \in Seq(Frame)
  OBVIOUS
<1>5. ASSUME DeliverResponse(e) PROVE TypeOK'
  <2>1. wire' \in [End -> Seq(Frame)]
    BY <1>3, <1>4, <1>5 DEF DeliverResponse
  <2>2. QED
    BY <1>2, <1>5, <2>1 DEF TypeOK, DeliverResponse, homeVars, remoteVars
<1>6. ASSUME DeliverSubscribe(e) PROVE TypeOK'
  <2>1. wire' \in [End -> Seq(Frame)]
    <3>1. version[e][f.target] \in Nat /\ f.id \in Id
      BY <1>2, <1>6 DEF TypeOK, DeliverSubscribe
    <3>2. <<Notify(f.id, version[e][f.target])>> \in Seq(Frame)
      BY <3>1, FrameTypes
    <3>3. QED
      BY <1>3, <1>4, <1>6, <3>2 DEF DeliverSubscribe
  <2>2. observers' \in [End -> [Addr -> Seq(Id)]]
    <3>1. Append(observers[e][f.target], f.id) \in Seq(Id)
      BY <1>2, <1>6 DEF TypeOK, DeliverSubscribe
    <3>2. \/ UNCHANGED observers
          \/ observers' = [observers EXCEPT ![e][f.target] = Append(@, f.id)]
      BY <1>6 DEF DeliverSubscribe
    <3>3. observers \in [End -> [Addr -> Seq(Id)]]
      BY DEF TypeOK
    <3>4. [observers EXCEPT ![e][f.target] = Append(@, f.id)]
             \in [End -> [Addr -> Seq(Id)]]
      BY <1>2, <3>1, <3>3, TableUpdate
    <3>5. QED
      BY <3>2, <3>3, <3>4
  <2>3. pendingRoot' \in [End -> Seq(Frame)]
    <3>1. Append(pendingRoot[e], f) \in Seq(Frame)
      BY <1>1 DEF TypeOK
    <3>2. \/ UNCHANGED pendingRoot
          \/ pendingRoot' = [pendingRoot EXCEPT ![e] = Append(@, f)]
      BY <1>6 DEF DeliverSubscribe
    <3>3. QED
      BY <3>1, <3>2 DEF TypeOK
  <2>4. QED
    BY <1>6, <2>1, <2>2, <2>3 DEF TypeOK, DeliverSubscribe, remoteVars, callVars
<1>7. ASSUME DeliverRelease(e) PROVE TypeOK'
  <2>1. wire' \in [End -> Seq(Frame)]
    BY <1>3, <1>4, <1>7 DEF DeliverRelease
  <2>2. homes' \in [End -> [Addr -> HomeKind]]
    <3>1. \/ UNCHANGED homes
          \/ homes' = [homes EXCEPT ![e][f.target] =
                          IF @ = "strong" THEN "weak" ELSE @]
      BY <1>7 DEF DeliverRelease
    <3>2. homes \in [End -> [Addr -> HomeKind]] /\ "weak" \in HomeKind
      BY DEF TypeOK, HomeKind
    <3>3. QED
      BY <1>2, <3>1, <3>2
  <2>3. observers' \in [End -> [Addr -> Seq(Id)]]
    <3>1. \/ UNCHANGED observers
          \/ observers' = [observers EXCEPT ![e][f.target] = <<>>]
      BY <1>7 DEF DeliverRelease
    <3>2. observers \in [End -> [Addr -> Seq(Id)]] /\ <<>> \in Seq(Id)
      BY DEF TypeOK
    <3>3. [observers EXCEPT ![e][f.target] = <<>>] \in [End -> [Addr -> Seq(Id)]]
      BY <1>2, <3>2, TableUpdate
    <3>4. QED
      BY <3>1, <3>2, <3>3
  <2>4. QED
    BY <1>7, <2>1, <2>2, <2>3 DEF TypeOK, DeliverRelease, remoteVars, callVars
<1>8. ASSUME QueueRootCall(e) PROVE TypeOK'
  <2>1. wire' \in [End -> Seq(Frame)]
    BY <1>3, <1>4, <1>8 DEF QueueRootCall
  <2>2. pendingRoot' \in [End -> Seq(Frame)]
    BY <1>1, <1>8 DEF TypeOK, QueueRootCall
  <2>3. QED
    BY <1>8, <2>1, <2>2 DEF TypeOK, QueueRootCall, remoteVars, callVars
<1>9. ASSUME RejectCall(e) PROVE TypeOK'
  <2>1. Respond(e, f, Nil, FALSE) \in Seq(Frame)
    BY <1>1, RespondType
  <2>2. wire' \in [End -> Seq(Frame)]
    BY <1>3, <1>9, <2>1 DEF RejectCall
  <2>3. QED
    BY <1>9, <2>2 DEF TypeOK, RejectCall, homeVars, remoteVars, callVars
<1>10. ASSUME FireSignal(e) PROVE TypeOK'
  <2>1. Respond(e, f, Nil, TRUE) \in Seq(Frame)
    BY <1>1, RespondType
  <2>2. wire' \in [End -> Seq(Frame)]
    BY <1>3, <1>10, <2>1 DEF FireSignal
  <2>3. seen' \in [End -> [Addr -> Nat]]
    BY <1>2, <1>10 DEF TypeOK, FireSignal
  <2>4. QED
    BY <1>10, <2>2, <2>3 DEF TypeOK, FireSignal, homeVars, callVars
<1>11. ASSUME NEW ref \in Id \cup {Nil}, NEW async \in BOOLEAN,
              HandleCall(e, ref, async)
       PROVE  TypeOK'
  <2>1. Respond(e, f, ref, TRUE) \in Seq(Frame)
    BY <1>1, RespondType
  <2>2. wire' \in [End -> Seq(Frame)]
    BY <1>3, <1>4, <1>11, <2>1 DEF HandleCall
  <2>3. refs' \in [End -> SUBSET Id]
    BY <1>2, <1>11 DEF TypeOK, HandleCall
  <2>4. tasks' \in [End -> SUBSET Frame]
    <3>1. UNCHANGED tasks \/ tasks' = [tasks EXCEPT ![e] = @ \cup {f}]
      BY <1>11 DEF HandleCall
    <3>2. tasks \in [End -> SUBSET Frame]
      BY DEF TypeOK
    <3>3. QED
      BY <1>1, <3>1, <3>2
  <2>5. QED
    BY <1>11, <2>2, <2>3, <2>4 DEF TypeOK, HandleCall, remoteVars
<1>12. QED
  BY <1>5, <1>6, <1>7, <1>8, <1>9, <1>10, <1>11 DEF Deliver
-----------------------------------------------------------------------------
(***************************************************************************)
(* The registry's state has its type in every reachable state.             *)
(***************************************************************************)
LEMMA StepType == TypeOK /\ [Next]_vars => TypeOK'
<1> SUFFICES ASSUME TypeOK, [Next]_vars PROVE TypeOK'
  OBVIOUS
<1>1. ASSUME NEW e \in End, HomeStep(e) PROVE TypeOK'
  BY <1>1, ShareType, ShareRootType, DropEntityType, ChangeType,
     FlushNotifyType, FinishTaskType DEF HomeStep
<1>2. ASSUME NEW e \in End, RemoteStep(e) PROVE TypeOK'
  BY <1>2, ConnectType, ReconnectType, CloneRemoteType, DropRemoteType,
     ObserveType, CallMethodType, DrainReleasesType DEF RemoteStep
<1>3. CASE UNCHANGED vars
  BY <1>3 DEF TypeOK, vars, homeVars, remoteVars, callVars
<1>4. QED
  BY <1>1, <1>2, <1>3, DeliverType DEF Next

THEOREM TypeCorrect == Spec => []TypeOK
<1>1. Init => TypeOK
  BY InitType
<1>2. TypeOK /\ [Next]_vars => TypeOK'
  BY StepType
<1>3. QED
  BY <1>1, <1>2, PTL DEF Spec
-----------------------------------------------------------------------------
(***************************************************************************)
(* The release queue.  Only the remote side of an end touches it, so every *)
(* other step leaves the three variables alone.                            *)
(***************************************************************************)
guardVars == <<projections, remotes, releases>>

LEMMA OtherStepsKeepGuards ==
    ASSUME NEW e \in End, HomeStep(e) \/ Deliver(e)
    PROVE  UNCHANGED guardVars
<1>1. ASSUME HomeStep(e) PROVE UNCHANGED guardVars
  BY <1>1 DEF HomeStep, Share, ShareRoot, DropEntity, Change, FlushNotify,
              FinishTask, remoteVars, guardVars
<1>2. ASSUME Deliver(e) PROVE UNCHANGED guardVars
  BY <1>2 DEF Deliver, DeliverResponse, DeliverSubscribe, DeliverRelease,
              QueueRootCall, RejectCall, FireSignal, HandleCall, remoteVars,
              guardVars
<1>3. QED
  BY <1>1, <1>2

\* It suffices to look at the end that steps, one address at a time.
LEMMA QueueExactAt ==
    ASSUME ReleaseQueueExact, NEW e \in End,
           \A d \in End \ {e} : /\ projections'[d] = projections[d]
                                /\ remotes'[d] = remotes[d]
                                /\ releases'[d] = releases[d],
           projections'[e] \subseteq Addr, releases'[e] \subseteq Addr,
           \A b \in Addr :
              /\ b \in releases'[e] <=> b \in projections'[e] /\ remotes'[e][b] = 0
              /\ remotes'[e][b] > 0 => b \in projections'[e]
    PROVE  ReleaseQueueExact'
<1>1. releases'[e] = {a \in projections'[e] : remotes'[e][a] = 0}
  OBVIOUS
<1>2. QED
  BY <1>1 DEF ReleaseQueueExact

LEMMA RemoteStepKeepsQueueExact ==
    ASSUME TypeOK, ReleaseQueueExact, NEW e \in End, RemoteStep(e)
    PROVE  ReleaseQueueExact'
<1>1. /\ projections \in [End -> SUBSET Addr]
      /\ remotes \in [End -> [Addr -> Nat]]
      /\ releases \in [End -> SUBSET Addr]
  BY DEF TypeOK
<1>2. \A b \in Addr :
         /\ b \in releases[e] <=> b \in projections[e] /\ remotes[e][b] = 0
         /\ remotes[e][b] > 0 => b \in projections[e]
  BY <1>1 DEF ReleaseQueueExact
<1>3. ASSUME NEW a \in Addr, Connect(e, a) PROVE ReleaseQueueExact'
  <2>1. /\ projections' = [projections EXCEPT ![e] = @ \cup {a}]
        /\ remotes' = [remotes EXCEPT ![e][a] = 1]
        /\ releases' = releases /\ a \notin projections[e]
    BY <1>3 DEF Connect
  <2>2. QED
    BY <1>1, <1>2, <2>1, QueueExactAt
<1>4. ASSUME NEW a \in Addr, Reconnect(e, a) PROVE ReleaseQueueExact'
  <2>1. /\ projections' = projections /\ a \in projections[e]
        /\ remotes' = [remotes EXCEPT ![e][a] = 1]
        /\ releases' = [releases EXCEPT ![e] = @ \ {a}]
    BY <1>4 DEF Reconnect
  <2>2. QED
    BY <1>1, <1>2, <2>1, QueueExactAt
<1>5. ASSUME NEW a \in Addr, CloneRemote(e, a) PROVE ReleaseQueueExact'
  <2>1. /\ projections' = projections /\ releases' = releases
        /\ remotes' = [remotes EXCEPT ![e][a] = @ + 1]
        /\ remotes[e][a] >= 1
    BY <1>1, <1>5, BoundsAssumption DEF CloneRemote
  <2>2. QED
    BY <1>1, <1>2, <2>1, QueueExactAt
<1>6. ASSUME NEW a \in Addr, DropRemote(e, a) PROVE ReleaseQueueExact'
  <2>1. /\ projections' = projections
        /\ remotes' = [remotes EXCEPT ![e][a] = @ - 1]
        /\ remotes[e][a] > 0
    BY <1>6 DEF DropRemote
  <2>2. CASE remotes[e][a] = 1
    <3>1. releases' = [releases EXCEPT ![e] = @ \cup {a}]
      BY <1>6, <2>2 DEF DropRemote
    <3>2. QED
      BY <1>1, <1>2, <2>1, <2>2, <3>1, QueueExactAt
  <2>3. CASE remotes[e][a] # 1
    <3>1. releases' = releases
      BY <1>6, <2>3 DEF DropRemote
    <3>2. QED
      BY <1>1, <1>2, <2>1, <2>3, <3>1, QueueExactAt
  <2>4. QED
    BY <2>2, <2>3
<1>7. ASSUME NEW a \in Addr, NEW o \in Id, Observe(e, a, o)
      PROVE  ReleaseQueueExact'
  BY <1>7 DEF Observe, ReleaseQueueExact
<1>8. ASSUME NEW a \in Addr, NEW ref \in Id \cup {Nil}, CallMethod(e, a, ref)
      PROVE  ReleaseQueueExact'
  BY <1>8 DEF CallMethod, remoteVars, ReleaseQueueExact
<1>9. ASSUME DrainReleases(e) PROVE ReleaseQueueExact'
  <2>1. /\ projections' = [projections EXCEPT
                             ![e] = @ \ (releases[e] \cap projections[e])]
        /\ releases' = [releases EXCEPT ![e] = {}]
        /\ remotes' = remotes
    BY <1>9 DEF DrainReleases
  <2>2. QED
    BY <1>1, <1>2, <2>1, QueueExactAt
<1>10. QED
  BY <1>3, <1>4, <1>5, <1>6, <1>7, <1>8, <1>9 DEF RemoteStep

(***************************************************************************)
(* In every reachable state the release queue of an end names exactly its  *)
(* dead projections, so no pump ever cuts off a live Remote.               *)
(***************************************************************************)
THEOREM QueueExact == Spec => []ReleaseQueueExact
<1>1. Init => ReleaseQueueExact
  BY DEF Init, ReleaseQueueExact
<1>2. TypeOK /\ ReleaseQueueExact /\ [Next]_vars => ReleaseQueueExact'
  <2> SUFFICES ASSUME TypeOK, ReleaseQueueExact, [Next]_vars
               PROVE  ReleaseQueueExact'
    OBVIOUS
  <2>1. UNCHANGED guardVars => ReleaseQueueExact'
    BY DEF ReleaseQueueExact, guardVars
  <2>2. UNCHANGED vars => UNCHANGED guardVars
    BY DEF vars, remoteVars, guardVars
  <2>3. QED
    BY <2>1, <2>2, OtherStepsKeepGuards, RemoteStepKeepsQueueExact DEF Next
<1>3. QED
  BY <1>1, <1>2, TypeCorrect, PTL DEF Spec
-----------------------------------------------------------------------------
(***************************************************************************)
(* The observer homes.  What makes the invariant inductive is that every   *)
(* id in use was minted: a fresh observer id collides with nothing.        *)
(***************************************************************************)
HomesMinted == \A e \in End : \A a \in Id : homes[e][a] # "absent" => a \in minted

ObserverInv == TypeOK /\ HomesMinted /\ ObserverHomesExact

\* Forgetting projections forgets their observer homes and no other.
LEMMA ForgetKeepsObserverHomes ==
    ASSUME ObserverInv, NEW e \in End, NEW S \in SUBSET projections[e],
           Forget(e, S), UNCHANGED minted,
           \/ projections' = [projections EXCEPT ![e] = @ \ S]
           \/ UNCHANGED projections
    PROVE  HomesMinted' /\ ObserverHomesExact'
<1>1. S \in SUBSET Addr
  BY DEF ObserverInv, TypeOK
<1>2. /\ \A d \in End \ {e} : homes'[d] = homes[d] /\ signal'[d] = signal[d]
                               /\ projections'[d] = projections[d]
      /\ \A a \in Addr : signal'[e][a] = IF a \in S THEN Nil ELSE signal[e][a]
      /\ \A a \in Addr : homes'[e][a] =
            IF \E x \in S : a = signal[e][x] THEN "absent" ELSE homes[e][a]
      /\ projections'[e] = projections[e] \ S \/ projections'[e] = projections[e]
  BY <1>1 DEF ObserverInv, TypeOK, Forget
<1>3. HomesMinted'
  BY <1>2 DEF ObserverInv, HomesMinted, Addr
<1>4. ASSUME NEW d \in End \ {e}
      PROVE  /\ {o \in Id : homes'[d][o] = "observer"}
                  = {signal'[d][a] : a \in projections'[d]} \ {Nil}
             /\ \A a \in Addr \ projections'[d] : signal'[d][a] = Nil
             /\ \A a, b \in Addr : signal'[d][a] = signal'[d][b] /\ a # b
                                    => signal'[d][a] = Nil
  BY <1>2, <1>4 DEF ObserverInv, ObserverHomesExact
<1>5. /\ \A a \in Addr \ projections'[e] : signal'[e][a] = Nil
      /\ \A a, b \in Addr : signal'[e][a] = signal'[e][b] /\ a # b
                             => signal'[e][a] = Nil
  BY <1>2 DEF ObserverInv, ObserverHomesExact
<1>6. {o \in Id : homes'[e][o] = "observer"}
         = {signal'[e][a] : a \in projections'[e]} \ {Nil}
  <2>1. ASSUME NEW o \in Id, homes'[e][o] = "observer"
        PROVE  o \in {signal'[e][a] : a \in projections'[e]} \ {Nil}
    <3>1. homes[e][o] = "observer" /\ ~ \E x \in S : o = signal[e][x]
      BY <1>2, <2>1 DEF Addr
    <3>2. PICK a \in projections[e] : o = signal[e][a]
      BY <3>1 DEF ObserverInv, ObserverHomesExact
    <3>3. a \in Addr /\ a \notin S /\ a \in projections'[e] /\ o # Nil
      BY <1>2, <3>1, <3>2, IdAssumption DEF ObserverInv, TypeOK
    <3>4. QED
      BY <1>2, <3>2, <3>3
  <2>2. ASSUME NEW a \in projections'[e], signal'[e][a] # Nil
        PROVE  signal'[e][a] \in Id /\ homes'[e][signal'[e][a]] = "observer"
    <3>1. a \in projections[e] /\ a \in Addr
      BY <1>2 DEF ObserverInv, TypeOK
    <3>2. a \notin S /\ signal'[e][a] = signal[e][a]
      BY <1>2, <2>2, <3>1
    <3>3. signal[e][a] \in Id /\ homes[e][signal[e][a]] = "observer"
      BY <2>2, <3>1, <3>2 DEF ObserverInv, TypeOK, ObserverHomesExact
    <3>4. \A x \in S : signal[e][x] # signal[e][a]
      BY <1>1, <2>2, <3>1, <3>2 DEF ObserverInv, ObserverHomesExact
    <3>5. QED
      BY <1>2, <3>2, <3>3, <3>4 DEF Addr
  <2>3. QED
    BY <2>1, <2>2
<1>7. QED
  BY <1>3, <1>4, <1>5, <1>6 DEF ObserverHomesExact

LEMMA ObserveKeepsObserverHomes ==
    ASSUME ObserverInv, NEW e \in End, NEW a \in Addr, NEW o \in Id,
           Observe(e, a, o)
    PROVE  HomesMinted' /\ ObserverHomesExact'
<1>1. /\ homes' = [homes EXCEPT ![e][o] = "observer"]
      /\ signal' = [signal EXCEPT ![e][a] = o]
      /\ projections' = projections /\ minted' = minted \cup {o}
      /\ o \notin minted /\ a \in projections[e] /\ signal[e][a] = Nil
  BY DEF Observe, Mint
<1>2. o # Nil /\ o \in Addr
  BY IdAssumption DEF Addr
<1>3. \A x \in Addr : signal[e][x] # o
  <2> SUFFICES ASSUME NEW x \in Addr, signal[e][x] = o PROVE FALSE
    OBVIOUS
  <2>1. x \in projections[e]
    BY <1>2 DEF ObserverInv, ObserverHomesExact
  <2>2. homes[e][o] = "observer"
    BY <1>2, <2>1 DEF ObserverInv, ObserverHomesExact
  <2>3. QED
    BY <1>1, <2>2 DEF ObserverInv, HomesMinted
<1>4. HomesMinted'
  BY <1>1, <1>2 DEF ObserverInv, TypeOK, HomesMinted, Addr
<1>5. /\ \A d \in End \ {e} : homes'[d] = homes[d] /\ signal'[d] = signal[d]
      /\ \A x \in Addr : signal'[e][x] = IF x = a THEN o ELSE signal[e][x]
      /\ \A x \in Addr : homes'[e][x] = IF x = o THEN "observer" ELSE homes[e][x]
  BY <1>1, <1>2 DEF ObserverInv, TypeOK
<1>6. {x \in Id : homes'[e][x] = "observer"}
         = {signal'[e][x] : x \in projections'[e]} \ {Nil}
  <2>1. \A x \in Id : homes'[e][x] = "observer"
                       <=> x = o \/ homes[e][x] = "observer"
    BY <1>5 DEF Addr
  <2>2. \A x \in projections[e] : x \in Addr
    BY DEF ObserverInv, TypeOK
  <2>3. {signal'[e][x] : x \in projections'[e]} \ {Nil}
           = ({signal[e][x] : x \in projections[e]} \ {Nil}) \cup {o}
    BY <1>1, <1>2, <1>5, <2>2
  <2>4. {x \in Id : homes[e][x] = "observer"}
           = {signal[e][x] : x \in projections[e]} \ {Nil}
    BY DEF ObserverInv, ObserverHomesExact
  <2>5. {x \in Id : homes'[e][x] = "observer"}
           = {x \in Id : homes[e][x] = "observer"} \cup {o}
    BY <2>1
  <2>6. QED
    BY <2>3, <2>4, <2>5
<1>7. QED
  BY <1>1, <1>3, <1>4, <1>5, <1>6 DEF ObserverInv, ObserverHomesExact

\* Homes that are and stay no observers may change under it.
LEMMA HomesChange ==
    ASSUME ObserverInv, UNCHANGED <<projections, signal>>,
           minted \subseteq minted',
           \A d \in End : \A o \in Id :
              \/ homes'[d][o] = homes[d][o]
              \/ /\ homes[d][o] # "observer" /\ homes'[d][o] # "observer"
                 /\ o \in minted'
    PROVE  HomesMinted' /\ ObserverHomesExact'
<1>1. HomesMinted'
  BY DEF ObserverInv, HomesMinted
<1>2. \A d \in End : {o \in Id : homes'[d][o] = "observer"}
                       = {o \in Id : homes[d][o] = "observer"}
  OBVIOUS
<1>3. QED
  BY <1>1, <1>2 DEF ObserverInv, ObserverHomesExact

\* The steps of user code and gpui at the home.
LEMMA HomeStepKeepsObserverHomes ==
    ASSUME ObserverInv, NEW e \in End, HomeStep(e)
    PROVE  HomesMinted' /\ ObserverHomesExact'
<1>1. homes \in [End -> [Addr -> HomeKind]] /\ Root \notin Id
  BY IdAssumption DEF ObserverInv, TypeOK
<1>2. ASSUME NEW a \in Id, NEW k \in BOOLEAN, Share(e, a, k)
      PROVE  HomesMinted' /\ ObserverHomesExact'
  <2>1. /\ homes' = [homes EXCEPT ![e][a] = IF k THEN "strong" ELSE "owned"]
        /\ a \notin minted /\ minted' = minted \cup {a}
        /\ UNCHANGED <<projections, signal>>
    BY <1>2 DEF Share, Mint, remoteVars
  <2>2. homes[e][a] # "observer"
    BY <2>1 DEF ObserverInv, HomesMinted
  <2>3. QED
    BY <1>1, <2>1, <2>2, HomesChange
<1>3. ASSUME NEW async, ShareRoot(e, async)
      PROVE  HomesMinted' /\ ObserverHomesExact'
  <2>1. /\ homes' = [homes EXCEPT ![e][Root] = "strong"]
        /\ UNCHANGED <<projections, signal, minted>>
    BY <1>3 DEF ShareRoot, remoteVars
  <2>2. QED
    BY <1>1, <2>1, HomesChange
<1>4. ASSUME NEW a \in Addr, DropEntity(e, a) \/ Change(e, a) \/ FlushNotify(e, a)
      PROVE  HomesMinted' /\ ObserverHomesExact'
  <2>1. UNCHANGED <<homes, projections, signal, minted>>
    BY <1>4 DEF DropEntity, Change, FlushNotify, remoteVars
  <2>2. QED
    BY <2>1, HomesChange
<1>5. ASSUME NEW f \in tasks[e], NEW ref \in Id \cup {Nil}, FinishTask(e, f, ref)
      PROVE  HomesMinted' /\ ObserverHomesExact'
  <2>1. UNCHANGED <<homes, projections, signal, minted>>
    BY <1>5 DEF FinishTask, remoteVars
  <2>2. QED
    BY <2>1, HomesChange
<1>6. QED
  BY <1>2, <1>3, <1>4, <1>5 DEF HomeStep

\* The steps of the holders of Remotes.
LEMMA RemoteStepKeepsObserverHomes ==
    ASSUME ObserverInv, NEW e \in End, RemoteStep(e)
    PROVE  HomesMinted' /\ ObserverHomesExact'
<1>1. ASSUME NEW a \in Addr, Connect(e, a)
      PROVE  HomesMinted' /\ ObserverHomesExact'
  <2>1. /\ a \notin projections[e]
        /\ projections' = [projections EXCEPT ![e] = @ \cup {a}]
        /\ UNCHANGED <<homes, signal, minted>>
    BY <1>1 DEF Connect, homeVars
  <2>2. signal[e][a] = Nil
    BY <2>1 DEF ObserverInv, ObserverHomesExact
  <2>3. \A d \in End : {signal[d][x] : x \in projections'[d]} \ {Nil}
                          = {signal[d][x] : x \in projections[d]} \ {Nil}
    BY <2>1, <2>2, SMTT(20) DEF ObserverInv, TypeOK
  <2>4. \A d \in End : projections[d] \subseteq projections'[d]
    BY <2>1 DEF ObserverInv, TypeOK
  <2>5. QED
    BY <2>1, <2>3, <2>4 DEF ObserverInv, HomesMinted, ObserverHomesExact
<1>2. ASSUME NEW a \in Addr, Reconnect(e, a)
      PROVE  HomesMinted' /\ ObserverHomesExact'
  <2>1. /\ Forget(e, {a}) /\ {a} \in SUBSET projections[e]
        /\ UNCHANGED <<projections, minted>>
    BY <1>2 DEF Reconnect
  <2>2. QED
    BY <2>1, ForgetKeepsObserverHomes
<1>3. ASSUME DrainReleases(e) PROVE HomesMinted' /\ ObserverHomesExact'
  <2> DEFINE gone == releases[e] \cap projections[e]
  <2>1. /\ Forget(e, gone) /\ gone \in SUBSET projections[e]
        /\ projections' = [projections EXCEPT ![e] = @ \ gone]
        /\ UNCHANGED minted
    BY <1>3 DEF DrainReleases
  <2>2. QED
    BY <2>1, ForgetKeepsObserverHomes
<1>4. ASSUME NEW a \in Addr, CloneRemote(e, a) \/ DropRemote(e, a)
      PROVE  HomesMinted' /\ ObserverHomesExact'
  <2>1. UNCHANGED <<homes, projections, signal, minted>>
    BY <1>4 DEF CloneRemote, DropRemote, homeVars
  <2>2. QED
    BY <2>1, HomesChange
<1>5. ASSUME NEW a \in Addr, NEW ref \in Id \cup {Nil}, CallMethod(e, a, ref)
      PROVE  HomesMinted' /\ ObserverHomesExact'
  <2>1. UNCHANGED <<homes, projections, signal, minted>>
    BY <1>5 DEF CallMethod, homeVars, remoteVars
  <2>2. QED
    BY <2>1, HomesChange
<1>6. QED
  BY <1>1, <1>2, <1>3, <1>4, <1>5, ObserveKeepsObserverHomes DEF RemoteStep

\* Delivery: only a release changes a home, and it leaves observers alone.
LEMMA DeliverKeepsObserverHomes ==
    ASSUME ObserverInv, NEW e \in End, Deliver(e)
    PROVE  HomesMinted' /\ ObserverHomesExact'
<1>1. CASE DeliverRelease(e)
  <2>1. /\ \/ UNCHANGED homes
           \/ homes' = [homes EXCEPT ![e][Next1(e).target] =
                           IF @ = "strong" THEN "weak" ELSE @]
        /\ UNCHANGED <<projections, signal, minted>>
    BY <1>1 DEF DeliverRelease, remoteVars
  <2>2. homes \in [End -> [Addr -> HomeKind]]
    BY DEF ObserverInv, TypeOK
  <2> DEFINE t == Next1(e).target
  <2>3. \A d \in End : \A o \in Id :
           \/ homes'[d][o] = homes[d][o]
           \/ homes[d][o] = "strong" /\ homes'[d][o] = "weak"
    <3>1. CASE UNCHANGED homes
      BY <3>1
    <3>2. CASE homes' = [homes EXCEPT ![e][t] = IF homes[e][t] = "strong"
                                                THEN "weak" ELSE homes[e][t]]
      <4>1. t \in Addr
        BY Next1Type, FrameFields DEF ObserverInv, TypeOK, Deliver
      <4> HIDE DEF t
      <4>2. QED
        BY <2>2, <3>2, <4>1 DEF Addr
    <3>3. QED
      BY <2>1, <3>1, <3>2
  <2>4. QED
    BY <2>1, <2>3, HomesChange DEF ObserverInv, HomesMinted
<1>2. CASE ~DeliverRelease(e)
  <2>1. UNCHANGED <<homes, projections, signal, minted>>
    BY <1>2 DEF Deliver, DeliverResponse, DeliverSubscribe, QueueRootCall,
                RejectCall, FireSignal, HandleCall, homeVars, remoteVars
  <2>2. QED
    BY <2>1, HomesChange
<1>3. QED
  BY <1>1, <1>2

(***************************************************************************)
(* In every reachable state the observer homes of an end are exactly the   *)
(* signals of its projections: none leaks, none is removed early.          *)
(***************************************************************************)
THEOREM ObserverHomes == Spec => []ObserverHomesExact
<1>1. Init => ObserverInv
  BY InitType DEF Init, ObserverInv, HomesMinted, ObserverHomesExact, Addr
<1>2. ObserverInv /\ [Next]_vars => ObserverInv'
  <2> SUFFICES ASSUME ObserverInv, [Next]_vars PROVE ObserverInv'
    OBVIOUS
  <2>1. TypeOK'
    BY StepType DEF ObserverInv
  <2>2. CASE UNCHANGED vars
    BY <2>1, <2>2 DEF ObserverInv, HomesMinted, ObserverHomesExact, vars,
                      homeVars, remoteVars
  <2>3. CASE Next
    BY <2>1, <2>3, HomeStepKeepsObserverHomes, RemoteStepKeepsObserverHomes,
       DeliverKeepsObserverHomes DEF Next, ObserverInv
  <2>4. QED
    BY <2>2, <2>3
<1>3. ObserverInv => ObserverHomesExact
  BY DEF ObserverInv
<1>4. QED
  BY <1>1, <1>2, <1>3, PTL DEF Spec
-----------------------------------------------------------------------------
(***************************************************************************)
(* Proofs about calls, for any set of ids and any bounds: a call finds its *)
(* entity (CallsFind), no request is lost, run twice or answered twice     *)
(* (RequestsKept), the registry implements Receipts (ReceiptsKept), and    *)
(* calls to one target start in the order they were made                   *)
(* (CallsStartInOrder).                                                    *)
(***************************************************************************)

\* A call whose sender had never released its target.
FirstCall(f) == f.kind = "call" /\ f.ok

\* The frames s to an end whose homes are h, from an end that has released the
\* addresses in rel: releases are of what was released, none has a first call
\* to the same address behind it, and a first call's home is not weak; a home
\* is weak only after a release.
Tame(s, rel, h) ==
    /\ \A i \in DOMAIN s : s[i].kind = "release" => s[i].target \in rel
    /\ \A i, j \in DOMAIN s :
          i < j /\ s[i].kind = "release" /\ FirstCall(s[j]) => s[i].target # s[j].target
    /\ \A i \in DOMAIN s :
          FirstCall(s[i]) /\ s[i].target # Root => h[s[i].target] # "weak"
    /\ \A a \in Id : h[a] = "weak" => a \in rel

WiresTame == \A e \in End : Tame(wire[e], released[e], homes[Peer(e)])

\* Frames may be appended if they are no first calls and the releases among
\* them are recorded, or if they are no releases and the first calls among
\* them go to addresses never released.
LEMMA TameAppend ==
    ASSUME NEW s \in Seq(Frame), NEW fs \in Seq(Frame), NEW rel, NEW rel2,
           NEW h, NEW h2, Tame(s, rel, h), rel \subseteq rel2,
           \A a \in Id : h2[a] = "weak" => h[a] = "weak",
           \A i \in DOMAIN fs : fs[i].kind = "release" => fs[i].target \in rel2,
           \/ \A i \in DOMAIN fs : ~FirstCall(fs[i])
           \/ \A i \in DOMAIN fs : /\ fs[i].kind # "release"
                                   /\ FirstCall(fs[i]) => fs[i].target \notin rel
    PROVE  Tame(s \o fs, rel2, h2)
<1> DEFINE t == s \o fs
           m == Len(s)
           n == Len(fs)
<1>1. /\ m \in Nat /\ n \in Nat /\ DOMAIN s = 1 .. m /\ DOMAIN fs = 1 .. n
      /\ DOMAIN t = 1 .. m + n
      /\ \A i \in 1 .. m : t[i] = s[i]
      /\ \A i \in m + 1 .. m + n : i - m \in 1 .. n /\ t[i] = fs[i - m]
  BY ConcatProperties
<1>2. \A i \in DOMAIN t : \/ i \in DOMAIN s /\ t[i] = s[i]
                          \/ i > m /\ i - m \in DOMAIN fs /\ t[i] = fs[i - m]
  BY <1>1
<1>3. \A i \in DOMAIN s : s[i].target \in Addr
  BY <1>1 DEF Frame
<1>4. \A i \in DOMAIN fs : fs[i].target \in Addr
  BY <1>1 DEF Frame
<1> HIDE DEF t, m, n
<1>5. \A i \in DOMAIN t : t[i].kind = "release" => t[i].target \in rel2
  BY <1>2 DEF Tame
<1>6. ASSUME NEW i \in DOMAIN t, NEW j \in DOMAIN t,
             i < j, t[i].kind = "release", FirstCall(t[j])
      PROVE  t[i].target # t[j].target
  <2>1. CASE j \in DOMAIN s /\ t[j] = s[j]
    <3>1. i \in DOMAIN s /\ t[i] = s[i]
      BY <1>1, <1>6, <2>1
    <3>2. QED
      BY <1>6, <2>1, <3>1 DEF Tame
  <2>2. CASE j > m /\ j - m \in DOMAIN fs /\ t[j] = fs[j - m]
    <3>1. \A k \in DOMAIN fs : fs[k].kind # "release"
      BY <1>6, <2>2
    <3>2. fs[j - m].target \notin rel
      BY <1>6, <2>2, <3>1
    <3>3. i \in DOMAIN s /\ t[i] = s[i]
      BY <1>2, <1>6, <3>1
    <3>4. t[i].target \in rel
      BY <1>6, <3>3 DEF Tame
    <3>5. QED
      BY <2>2, <3>2, <3>4
  <2>3. QED
    BY <1>2, <2>1, <2>2
<1>7. ASSUME NEW i \in DOMAIN t, FirstCall(t[i]), t[i].target # Root
      PROVE  h2[t[i].target] # "weak"
  <2>1. t[i].target \in Id
    BY <1>2, <1>3, <1>4, <1>7 DEF Addr
  <2>2. h[t[i].target] # "weak"
    BY <1>2, <1>7, <2>1 DEF Tame
  <2>3. QED
    BY <2>1, <2>2
<1>8. \A a \in Id : h2[a] = "weak" => a \in rel2
  BY DEF Tame
<1>9. QED
  BY <1>5, <1>6, <1>7, <1>8 DEF Tame, t

\* The frame in front may go.
LEMMA TameTail ==
    ASSUME NEW s \in Seq(Frame), s # <<>>, NEW rel, NEW rel2, NEW h, NEW h2,
           Tame(s, rel, h), rel \subseteq rel2,
           \A a \in Id : h2[a] = "weak" => h[a] = "weak"
    PROVE  Tame(Tail(s), rel2, h2)
<1>1. /\ Len(s) \in Nat /\ DOMAIN s = 1 .. Len(s)
      /\ DOMAIN Tail(s) = 1 .. Len(s) - 1
      /\ \A i \in 1 .. Len(s) - 1 : Tail(s)[i] = s[i + 1] /\ i + 1 \in 1 .. Len(s)
  BY HeadTailProperties
<1>2. \A i \in DOMAIN s : s[i].target \in Addr
  BY <1>1 DEF Frame
<1>3. \A i \in DOMAIN Tail(s) : i + 1 \in DOMAIN s /\ Tail(s)[i] = s[i + 1]
  BY <1>1
<1>4. \A i, j \in DOMAIN Tail(s) : i < j => i + 1 < j + 1
  BY <1>1
<1>5. \A i \in DOMAIN s : FirstCall(s[i]) /\ s[i].target # Root
                             => h2[s[i].target] # "weak"
  BY <1>2 DEF Tame, Addr
<1>6. QED
  BY <1>3, <1>4, <1>5 DEF Tame

\* When the frame in front is a release, the home it names may weaken.
LEMMA TameWeaken ==
    ASSUME NEW s \in Seq(Frame), s # <<>>, NEW rel, NEW h, NEW h2,
           Tame(s, rel, h), Head(s).kind = "release",
           \A a \in Id : h2[a] = "weak" => h[a] = "weak" \/ a = Head(s).target
    PROVE  Tame(Tail(s), rel, h2)
<1>1. /\ Len(s) \in Nat /\ DOMAIN s = 1 .. Len(s) /\ 1 \in DOMAIN s
      /\ Head(s) = s[1]
      /\ DOMAIN Tail(s) = 1 .. Len(s) - 1
      /\ \A i \in 1 .. Len(s) - 1 : Tail(s)[i] = s[i + 1] /\ i + 1 \in 1 .. Len(s)
  BY HeadTailProperties
<1>2. \A i \in DOMAIN s : s[i].target \in Addr
  BY <1>1 DEF Frame
<1>3. \A i \in DOMAIN Tail(s) :
         i + 1 \in DOMAIN s /\ 1 < i + 1 /\ Tail(s)[i] = s[i + 1]
  BY <1>1
<1>4. \A i, j \in DOMAIN Tail(s) : i < j => i + 1 < j + 1
  BY <1>1
<1>5. ASSUME NEW i \in DOMAIN s, 1 < i, FirstCall(s[i]), s[i].target # Root
      PROVE  h2[s[i].target] # "weak"
  <2>1. s[i].target # Head(s).target
    BY <1>1, <1>5 DEF Tame
  <2>2. QED
    BY <1>2, <1>5, <2>1 DEF Tame, Addr
<1>6. \A a \in Id : h2[a] = "weak" => a \in rel
  BY <1>1 DEF Tame
<1>7. QED
  BY <1>3, <1>4, <1>5, <1>6 DEF Tame
-----------------------------------------------------------------------------
\* Nothing weakens, and nothing is forgotten to have been released.
NothingWeakens ==
    /\ \A x \in End : released[x] \subseteq released'[x]
    /\ \A x \in End : \A a \in Id : homes'[x][a] = "weak" => homes[x][a] = "weak"

\* A step that sends nothing.
LEMMA StillKeepsTame ==
    ASSUME TypeOK, WiresTame, NothingWeakens, UNCHANGED wire
    PROVE  WiresTame'
<1> SUFFICES ASSUME NEW x \in End
             PROVE  Tame(wire[x], released'[x], homes'[Peer(x)])
  BY DEF WiresTame
<1>1. wire[x] \in Seq(Frame) /\ Peer(x) \in End
  BY PeerType DEF TypeOK
<1>2. wire[x] \o <<>> = wire[x]
  BY <1>1
<1>3. Tame(wire[x] \o <<>>, released'[x], homes'[Peer(x)])
  <2>1. <<>> \in Seq(Frame) /\ DOMAIN <<>> = {}
    OBVIOUS
  <2>2. QED
    BY <1>1, <2>1, TameAppend, ZenonT(30) DEF WiresTame, NothingWeakens
<1>4. QED
  BY <1>2, <1>3

\* A step that sends frames.
LEMMA SendKeepsTame ==
    ASSUME TypeOK, WiresTame, NothingWeakens, NEW e \in End,
           NEW fs \in Seq(Frame), Send(e, fs),
           \A i \in DOMAIN fs : fs[i].kind = "release" => fs[i].target \in released'[e],
           \/ \A i \in DOMAIN fs : ~FirstCall(fs[i])
           \/ \A i \in DOMAIN fs :
                 /\ fs[i].kind # "release"
                 /\ FirstCall(fs[i]) => fs[i].target \notin released[e]
    PROVE  WiresTame'
<1> SUFFICES ASSUME NEW x \in End
             PROVE  Tame(wire'[x], released'[x], homes'[Peer(x)])
  BY DEF WiresTame
<1>1. wire[x] \in Seq(Frame) /\ Peer(x) \in End /\ wire \in [End -> Seq(Frame)]
  BY PeerType DEF TypeOK
<1>2. CASE x = e
  <2>1. wire'[x] = wire[x] \o fs
    BY <1>1, <1>2 DEF Send
  <2>2. Tame(wire[x] \o fs, released'[x], homes'[Peer(x)])
    BY <1>1, <1>2, TameAppend, SMTT(20) DEF WiresTame, NothingWeakens
  <2>3. QED
    BY <2>1, <2>2
<1>3. CASE x # e
  <2>1. wire'[x] = wire[x] \o <<>>
    BY <1>1, <1>3 DEF Send
  <2>2. <<>> \in Seq(Frame) /\ DOMAIN <<>> = {}
    OBVIOUS
  <2>3. /\ Tame(wire[x], released[x], homes[Peer(x)])
        /\ released[x] \subseteq released'[x]
        /\ \A a \in Id : homes'[Peer(x)][a] = "weak" => homes[Peer(x)][a] = "weak"
    BY <1>1 DEF WiresTame, NothingWeakens
  <2>4. Tame(wire[x] \o <<>>, released'[x], homes'[Peer(x)])
    BY <1>1, <2>2, <2>3, TameAppend
  <2>5. QED
    BY <2>1, <2>4
<1>4. QED
  BY <1>2, <1>3

\* A step that consumes a frame and answers it.
LEMMA ReceiveKeepsTame ==
    ASSUME TypeOK, WiresTame, NothingWeakens, NEW e \in End, wire[Peer(e)] # <<>>,
           NEW fs \in Seq(Frame), Receive(e, fs),
           \A i \in DOMAIN fs : fs[i].kind # "release" /\ ~FirstCall(fs[i])
    PROVE  WiresTame'
<1> SUFFICES ASSUME NEW x \in End
             PROVE  Tame(wire'[x], released'[x], homes'[Peer(x)])
  BY DEF WiresTame
<1>1. /\ wire[x] \in Seq(Frame) /\ Peer(x) \in End /\ wire \in [End -> Seq(Frame)]
      /\ Peer(e) \in End /\ Peer(e) # e
  BY PeerType DEF TypeOK
<1>2. CASE x = e
  <2>1. wire'[x] = wire[x] \o fs
    BY <1>1, <1>2 DEF Receive
  <2>2. /\ Tame(wire[x], released[x], homes[Peer(x)])
        /\ released[x] \subseteq released'[x]
        /\ \A a \in Id : homes'[Peer(x)][a] = "weak" => homes[Peer(x)][a] = "weak"
    BY <1>1 DEF WiresTame, NothingWeakens
  <2>3. Tame(wire[x] \o fs, released'[x], homes'[Peer(x)])
    BY <1>1, <2>2, TameAppend
  <2>4. QED
    BY <2>1, <2>3
<1>3. CASE x # e
  <2>1. x = Peer(e)
    BY <1>3 DEF Peer, End
  <2>2. wire'[x] = Tail(wire[x])
    BY <1>1, <1>3, <2>1 DEF Receive
  <2>3. /\ Tame(wire[x], released[x], homes[Peer(x)]) /\ wire[x] # <<>>
        /\ released[x] \subseteq released'[x]
        /\ \A a \in Id : homes'[Peer(x)][a] = "weak" => homes[Peer(x)][a] = "weak"
    BY <1>1, <2>1 DEF WiresTame, NothingWeakens
  <2>5. Tame(Tail(wire[x]), released'[x], homes'[Peer(x)])
    BY <1>1, <2>3, TameTail
  <2>6. QED
    BY <2>2, <2>5
<1>4. QED
  BY <1>2, <1>3
-----------------------------------------------------------------------------
\* Answers are no releases and no first calls.
LEMMA RespondMild ==
    ASSUME NEW e, NEW f, NEW ref, NEW b, NEW i \in DOMAIN Respond(e, f, ref, b)
    PROVE  /\ Respond(e, f, ref, b)[i].kind # "release"
           /\ ~FirstCall(Respond(e, f, ref, b)[i])
  BY DEF Respond, Response, FirstCall

-----------------------------------------------------------------------------
\* Homes send responses and notifies only, and sharing weakens nothing.
LEMMA HomeStepKeepsTame ==
    ASSUME TypeOK, WiresTame, NEW e \in End, HomeStep(e)
    PROVE  WiresTame'
<1>1. homes \in [End -> [Addr -> HomeKind]] /\ Root \notin Id
  BY IdAssumption DEF TypeOK
<1>2. ASSUME NEW a \in Id, NEW k \in BOOLEAN, Share(e, a, k)
      PROVE  WiresTame'
  <2>1. NothingWeakens
    BY <1>1, <1>2 DEF Share, remoteVars, NothingWeakens, Addr
  <2>2. QED
    BY <1>2, <2>1, StillKeepsTame DEF Share
<1>3. ASSUME NEW a \in Addr, DropEntity(e, a) \/ Change(e, a)
      PROVE  WiresTame'
  <2>1. UNCHANGED <<homes, released, wire>>
    BY <1>3 DEF DropEntity, Change, remoteVars
  <2>2. QED
    BY <2>1, StillKeepsTame DEF NothingWeakens
<1>4. ASSUME NEW a \in Addr, FlushNotify(e, a)
      PROVE  WiresTame'
  <2> DEFINE fs == IF Alive(e, a) THEN Notifications(e, a) ELSE <<>>
  <2>1. fs \in Seq(Frame)
    BY NotificationsType
  <2>2. \A i \in DOMAIN fs : fs[i].kind # "release" /\ ~FirstCall(fs[i])
    BY DEF Notifications, Notify, FirstCall
  <2>3. Send(e, fs) /\ NothingWeakens
    BY <1>4 DEF FlushNotify, remoteVars, NothingWeakens
  <2> HIDE DEF fs
  <2>4. QED
    BY <2>1, <2>2, <2>3, SendKeepsTame
<1>5. ASSUME NEW f \in tasks[e], NEW ref \in Id \cup {Nil}, FinishTask(e, f, ref)
      PROVE  WiresTame'
  <2>1. Respond(e, f, ref, TRUE) \in Seq(Frame)
    BY RespondType DEF TypeOK
  <2>2. NothingWeakens
    BY <1>5 DEF FinishTask, remoteVars, NothingWeakens
  <2>3. QED
    BY <1>5, <2>1, <2>2, RespondMild, SendKeepsTame DEF FinishTask
<1>6. ASSUME NEW async, ShareRoot(e, async)
      PROVE  WiresTame'
  <2>1. PICK fs \in Seq(Frame) :
           /\ Send(e, fs)
           /\ \A i \in DOMAIN fs : fs[i].kind # "release" /\ ~FirstCall(fs[i])
    BY <1>6, ShareRootSends DEF FirstCall
  <2>2. homes' = [homes EXCEPT ![e][Root] = "strong"] /\ UNCHANGED released
    BY <1>6 DEF ShareRoot, remoteVars
  <2>3. NothingWeakens
    BY <1>1, <2>2 DEF NothingWeakens, Addr
  <2>4. QED
    BY <2>1, <2>3, SendKeepsTame
<1>7. QED
  BY <1>2, <1>3, <1>4, <1>5, <1>6 DEF HomeStep

\* Forgetting records what it releases.
LEMMA ForgetWeakensNothing ==
    ASSUME TypeOK, NEW e \in End, NEW S \in SUBSET Addr, Forget(e, S)
    PROVE  NothingWeakens /\ S \subseteq released'[e]
<1>1. /\ homes \in [End -> [Addr -> HomeKind]]
      /\ released \in [End -> SUBSET Addr]
  BY DEF TypeOK
<1>2. released' = [released EXCEPT ![e] = @ \cup S]
  BY DEF Forget
<1>3. \A x \in End : \A a \in Id : homes'[x][a] \in {homes[x][a], "absent"}
  BY <1>1 DEF Forget, Addr
<1>4. QED
  BY <1>1, <1>2, <1>3 DEF NothingWeakens

\* Holders of Remotes record a release as they send it, and a call is a first
\* call only if they never released its target.
LEMMA RemoteStepKeepsTame ==
    ASSUME TypeOK, WiresTame, NEW e \in End, RemoteStep(e)
    PROVE  WiresTame'
<1>1. ASSUME NEW a \in Addr, Connect(e, a) \/ CloneRemote(e, a) \/ DropRemote(e, a)
      PROVE  WiresTame'
  <2>1. UNCHANGED <<homes, released, wire>>
    BY <1>1 DEF Connect, CloneRemote, DropRemote, homeVars
  <2>2. QED
    BY <2>1, StillKeepsTame DEF NothingWeakens
<1>2. ASSUME NEW a \in Addr, Reconnect(e, a)
      PROVE  WiresTame'
  <2> DEFINE fs == <<Release(a)>>
  <2>1. fs \in Seq(Frame) /\ DOMAIN fs = {1} /\ fs[1] = Release(a)
    BY FrameTypes
  <2>2. NothingWeakens /\ a \in released'[e]
    BY <1>2, ForgetWeakensNothing DEF Reconnect
  <2>3. \A i \in DOMAIN fs : fs[i].target \in released'[e] /\ ~FirstCall(fs[i])
    BY <2>1, <2>2 DEF Release, FirstCall
  <2>4. Send(e, fs)
    BY <1>2 DEF Reconnect
  <2> HIDE DEF fs
  <2>5. QED
    BY <2>1, <2>2, <2>3, <2>4, SendKeepsTame
<1>3. ASSUME DrainReleases(e)
      PROVE  WiresTame'
  <2> DEFINE gone == releases[e] \cap projections[e]
             n == Cardinality(gone)
  <2>1. gone \in SUBSET Addr
    BY DEF TypeOK
  <2>2. n \in Nat
    <3>1. IsFiniteSet(Addr)
      BY IdAssumption, FS_AddElement DEF Addr
    <3>2. IsFiniteSet(gone)
      BY <2>1, <3>1, FS_Subset
    <3>3. QED
      BY <3>2, FS_CardinalityType
  <2>3. PICK order \in Bijection(1 .. n, gone) :
           Send(e, [i \in 1 .. n |-> Release(order[i])])
    BY <1>3 DEF DrainReleases
  <2> DEFINE fs == [i \in 1 .. n |-> Release(order[i])]
  <2>4. \A i \in 1 .. n : order[i] \in gone /\ order[i] \in Addr
    BY <2>1, <2>3 DEF Bijection, Injection
  <2>5. fs \in Seq(Frame)
    <3>1. fs \in [1 .. n -> Frame]
      BY <2>4, FrameTypes
    <3>2. QED
      BY <2>2, <3>1, FunctionIsSeq
  <2>6. NothingWeakens /\ gone \subseteq released'[e]
    BY <1>3, <2>1, ForgetWeakensNothing DEF DrainReleases
  <2>7. \A i \in DOMAIN fs : fs[i].target \in released'[e] /\ ~FirstCall(fs[i])
    BY <2>4, <2>6 DEF Release, FirstCall
  <2> HIDE DEF fs
  <2>8. QED
    BY <2>3, <2>5, <2>6, <2>7, SendKeepsTame DEF fs
<1>4. ASSUME NEW a \in Addr, NEW o \in Id, Observe(e, a, o)
      PROVE  WiresTame'
  <2> DEFINE fs == <<Subscribe(a, o)>>
  <2>1. fs \in Seq(Frame) /\ DOMAIN fs = {1} /\ fs[1] = Subscribe(a, o)
    BY FrameTypes
  <2>2. \A i \in DOMAIN fs : fs[i].kind # "release" /\ ~FirstCall(fs[i])
    BY <2>1 DEF Subscribe, FirstCall
  <2>3. homes' = [homes EXCEPT ![e][o] = "observer"] /\ UNCHANGED released
    BY <1>4 DEF Observe
  <2>4. homes \in [End -> [Addr -> HomeKind]]
    BY DEF TypeOK
  <2>5. NothingWeakens
    BY <2>3, <2>4 DEF NothingWeakens, Addr
  <2>6. Send(e, fs)
    BY <1>4 DEF Observe
  <2> HIDE DEF fs
  <2>7. QED
    BY <2>1, <2>2, <2>5, <2>6, SendKeepsTame
<1>5. ASSUME NEW a \in Addr, NEW ref \in Id \cup {Nil}, CallMethod(e, a, ref)
      PROVE  WiresTame'
  <2> DEFINE first == a \notin released[e]
             f == Call(a, nextRequest'[e], ref, first)
             fs == <<f>>
  <2>1. nextRequest'[e] \in Nat
    BY <1>5 DEF CallMethod, TypeOK
  <2>2. fs \in Seq(Frame) /\ DOMAIN fs = {1} /\ fs[1] = f
    <3>1. first \in BOOLEAN
      OBVIOUS
    <3> HIDE DEF first
    <3>2. f \in Frame
      BY <2>1, <3>1, FrameTypes
    <3> HIDE DEF f
    <3>3. QED
      BY <3>2
  <2>3. f.kind # "release" /\ (FirstCall(f) => f.target \notin released[e])
    BY DEF Call, FirstCall
  <2>4. Send(e, fs) /\ UNCHANGED <<homes, released>>
    BY <1>5 DEF CallMethod, homeVars, remoteVars
  <2> HIDE DEF f, fs, first
  <2>5. NothingWeakens
    BY <2>4 DEF NothingWeakens
  <2>6. QED
    BY <2>2, <2>3, <2>4, <2>5, SendKeepsTame
<1>6. QED
  BY <1>1, <1>2, <1>3, <1>4, <1>5 DEF RemoteStep

\* A release in front is the one frame that can weaken a home.
LEMMA DeliverReleaseKeepsTame ==
    ASSUME TypeOK, WiresTame, NEW e \in End, wire[Peer(e)] # <<>>, DeliverRelease(e)
    PROVE  WiresTame'
<1> DEFINE p == Peer(e)
           f == Next1(e)
<1>1. /\ p \in End /\ p # e /\ Peer(p) = e /\ Peer(e) = p
      /\ \A x \in End : x = e \/ x = p
      /\ wire \in [End -> Seq(Frame)] /\ wire[p] # <<>>
      /\ homes \in [End -> [Addr -> HomeKind]]
      /\ f \in Frame /\ f = Head(wire[p])
  BY PeerType, Next1Type, EndsAssumption DEF End, Peer, TypeOK, Next1
<1>2. f.kind = "release" /\ f.target \in Addr
  BY <1>1, FrameFields DEF DeliverRelease
<1>3. /\ \/ UNCHANGED homes
         \/ homes' = [homes EXCEPT ![e][f.target] = IF @ = "strong" THEN "weak" ELSE @]
      /\ UNCHANGED released
      /\ Receive(e, <<>>)
  BY DEF DeliverRelease, remoteVars
<1> HIDE DEF f, p
<1>4. /\ \A a \in Id : homes'[e][a] = "weak" => homes[e][a] = "weak" \/ a = f.target
      /\ homes'[p] = homes[p]
  BY <1>1, <1>2, <1>3 DEF Addr
<1>5. wire'[p] = Tail(wire[p]) /\ wire'[e] = wire[e]
  BY <1>1, <1>3 DEF Receive
<1>6. Tame(wire'[p], released'[p], homes'[e])
  <2>1. Tame(wire[p], released[p], homes[e]) /\ wire[p] \in Seq(Frame)
    BY <1>1 DEF WiresTame
  <2>2. Tame(Tail(wire[p]), released[p], homes'[e])
    BY <1>1, <1>2, <1>4, <2>1, TameWeaken
  <2>3. QED
    BY <1>3, <1>5, <2>2
<1>7. Tame(wire'[e], released'[e], homes'[p])
  BY <1>1, <1>3, <1>4, <1>5 DEF WiresTame
<1>8. QED
  BY <1>1, <1>6, <1>7 DEF WiresTame

\* Delivering anything else weakens nothing, and answers are mild.
LEMMA DeliverKeepsTame ==
    ASSUME TypeOK, WiresTame, NEW e \in End, Deliver(e)
    PROVE  WiresTame'
<1> DEFINE f == Next1(e)
<1>1. f \in Frame /\ wire[Peer(e)] # <<>>
  BY Next1Type DEF TypeOK, Deliver
<1>2. CASE DeliverRelease(e)
  BY <1>1, <1>2, DeliverReleaseKeepsTame
<1>3. CASE ~DeliverRelease(e)
  <2>1. UNCHANGED <<homes, released>>
    BY <1>3 DEF Deliver, DeliverResponse, DeliverSubscribe, QueueRootCall,
                RejectCall, FireSignal, HandleCall, homeVars, remoteVars
  <2>2. \E fs \in Seq(Frame) :
           /\ Receive(e, fs)
           /\ \A i \in DOMAIN fs : fs[i].kind # "release" /\ ~FirstCall(fs[i])
    <3>1. <<>> \in Seq(Frame) /\ DOMAIN <<>> = {}
      OBVIOUS
    <3>2. \A ref \in Id \cup {Nil}, b \in BOOLEAN :
             /\ Respond(e, f, ref, b) \in Seq(Frame)
             /\ \A i \in DOMAIN Respond(e, f, ref, b) :
                   /\ Respond(e, f, ref, b)[i].kind # "release"
                   /\ ~FirstCall(Respond(e, f, ref, b)[i])
      BY <1>1, RespondType, RespondMild
    <3>3. CASE DeliverSubscribe(e)
      <4> DEFINE fs == <<Notify(f.id, version[e][f.target])>>
      <4>1. f.id \in Id /\ version[e][f.target] \in Nat
        BY <1>1, <3>3, FrameFields DEF DeliverSubscribe, TypeOK
      <4>2. fs \in Seq(Frame) /\ DOMAIN fs = {1}
        BY <4>1, FrameTypes
      <4>3. fs[1].kind # "release" /\ ~FirstCall(fs[1])
        BY DEF Notify, FirstCall
      <4>4. Receive(e, fs) \/ Receive(e, <<>>)
        BY <3>3 DEF DeliverSubscribe
      <4> HIDE DEF fs
      <4>5. QED
        BY <3>1, <4>2, <4>3, <4>4
    <3>4. CASE DeliverResponse(e) \/ QueueRootCall(e)
      BY <3>1, <3>4 DEF DeliverResponse, QueueRootCall
    <3>5. CASE RejectCall(e)
      BY <3>2, <3>5 DEF RejectCall
    <3>6. CASE FireSignal(e)
      BY <3>2, <3>6 DEF FireSignal
    <3>7. ASSUME NEW ref \in Id \cup {Nil}, NEW async \in BOOLEAN,
                 HandleCall(e, ref, async)
          PROVE  \E fs \in Seq(Frame) :
                    /\ Receive(e, fs)
                    /\ \A i \in DOMAIN fs : fs[i].kind # "release" /\ ~FirstCall(fs[i])
      <4>1. Receive(e, <<>>) \/ Receive(e, Respond(e, f, ref, TRUE))
        BY <3>7 DEF HandleCall
      <4>2. QED
        BY <3>1, <3>2, <4>1
    <3>8. QED
      BY <1>3, <3>3, <3>4, <3>5, <3>6, <3>7 DEF Deliver
  <2>3. QED
    BY <1>1, <2>1, <2>2, ReceiveKeepsTame DEF NothingWeakens
<1>4. QED
  BY <1>2, <1>3

(***************************************************************************)
(* In every reachable state a call made before its sender ever released    *)
(* the object will find it: sharing keeps the entity until the last Remote *)
(* drops, and the release cannot overtake the call.                        *)
(***************************************************************************)
THEOREM CallsFind == Spec => []CallsFindEntity
<1>1. Init => WiresTame
  <2>1. DOMAIN <<>> = {}
    OBVIOUS
  <2>2. QED
    BY <2>1, PeerType DEF Init, WiresTame, Tame, Addr
<1>2. TypeOK /\ WiresTame /\ [Next]_vars => WiresTame'
  <2> SUFFICES ASSUME TypeOK, WiresTame, [Next]_vars
               PROVE  WiresTame'
    OBVIOUS
  <2>1. CASE UNCHANGED vars
    BY <2>1, StillKeepsTame DEF vars, homeVars, remoteVars, NothingWeakens
  <2>2. QED
    BY <2>1, HomeStepKeepsTame, RemoteStepKeepsTame, DeliverKeepsTame DEF Next
<1>3. WiresTame => CallsFindEntity
  BY DEF WiresTame, Tame, FirstCall, CallsFindEntity
<1>4. QED
  BY <1>1, <1>2, <1>3, TypeCorrect, PTL DEF Spec
-----------------------------------------------------------------------------
(***************************************************************************)
(* Where the requests are.                                                 *)
(***************************************************************************)
\* The positions in s of the frames of one kind that carry request r.
At(s, kind, r) == {j \in DOMAIN s : s[j].kind = kind /\ s[j].request = r}

Lone(X) == \E x : X = {x}

\* What an append adds, and what consuming a frame takes.
LEMMA AtConcat ==
    ASSUME NEW s \in Seq(Frame), NEW fs \in Seq(Frame), NEW k, NEW r
    PROVE  /\ At(fs, k, r) = {} => At(s \o fs, k, r) = At(s, k, r)
           /\ At(s, k, r) = {} /\ Lone(At(fs, k, r)) => Lone(At(s \o fs, k, r))
           /\ At(s, k, r) = {} /\ At(fs, k, r) = {} => At(s \o fs, k, r) = {}
<1> DEFINE t == s \o fs
           m == Len(s)
<1>1. /\ m \in Nat /\ DOMAIN s = 1 .. m /\ DOMAIN fs = 1 .. Len(fs) /\ Len(fs) \in Nat
      /\ DOMAIN t = 1 .. m + Len(fs)
      /\ \A i \in 1 .. m + Len(fs) : t[i] = IF i <= m THEN s[i] ELSE fs[i - m]
  BY ConcatProperties
<1> HIDE DEF t, m
<1>2. \A i \in DOMAIN t : \/ i \in DOMAIN s /\ t[i] = s[i]
                          \/ i - m \in DOMAIN fs /\ t[i] = fs[i - m] /\ i = m + (i - m)
  BY <1>1
<1>3. /\ \A i \in DOMAIN s : i \in DOMAIN t /\ t[i] = s[i]
      /\ \A i \in DOMAIN fs : m + i \in DOMAIN t /\ t[m + i] = fs[i]
  BY <1>1, SMTT(20)
<1>4. At(t, k, r) = At(s, k, r) \cup {m + i : i \in At(fs, k, r)}
  BY <1>2, <1>3 DEF At
<1>5. ASSUME At(s, k, r) = {}, NEW x, At(fs, k, r) = {x}
      PROVE  At(t, k, r) = {m + x}
  BY <1>4, <1>5
<1>6. QED
  BY <1>4, <1>5 DEF Lone, t

LEMMA AtTail ==
    ASSUME NEW s \in Seq(Frame), s # <<>>, NEW k, NEW r
    PROVE  /\ At(s, k, r) = {} => At(Tail(s), k, r) = {} /\ 1 \notin At(s, k, r)
           /\ Lone(At(s, k, r)) /\ 1 \in At(s, k, r) => At(Tail(s), k, r) = {}
           /\ Lone(At(s, k, r)) /\ 1 \notin At(s, k, r) => Lone(At(Tail(s), k, r))
<1> DEFINE t == Tail(s)
<1>1. /\ 1 \in DOMAIN s
      /\ \A i \in DOMAIN t : i \in Nat /\ i > 0 /\ i + 1 \in DOMAIN s /\ t[i] = s[i + 1]
      /\ \A i \in DOMAIN s : i \in Nat /\ (i = 1 \/ (i - 1 \in DOMAIN t /\ t[i - 1] = s[i]))
  BY HeadTailProperties
<1> HIDE DEF t
<1>2. \A i \in At(t, k, r) : i + 1 \in At(s, k, r) /\ i + 1 # 1 /\ i = (i + 1) - 1
  BY <1>1 DEF At
<1>3. \A i \in At(s, k, r) : i = 1 \/ i - 1 \in At(t, k, r)
  BY <1>1 DEF At
<1>4. ASSUME NEW x, At(s, k, r) = {x}, 1 \notin At(s, k, r)
      PROVE  At(t, k, r) = {x - 1}
  BY <1>2, <1>3, <1>4
<1>5. ASSUME NEW x, At(s, k, r) = {x}, 1 \in At(s, k, r)
      PROVE  At(t, k, r) = {}
  BY <1>2, <1>5
<1>6. QED
  BY <1>2, <1>4, <1>5 DEF Lone, t

\* A single frame.
LEMMA AtOne ==
    ASSUME NEW f, NEW k, NEW r
    PROVE  /\ f.kind = k /\ f.request = r => Lone(At(<<f>>, k, r))
           /\ ~(f.kind = k /\ f.request = r) => At(<<f>>, k, r) = {}
           /\ At(<<>>, k, r) = {}
<1>1. DOMAIN <<f>> = {1} /\ <<f>>[1] = f /\ DOMAIN <<>> = {}
  OBVIOUS
<1>2. f.kind = k /\ f.request = r => At(<<f>>, k, r) = {1}
  BY <1>1 DEF At
<1>3. QED
  BY <1>1, <1>2 DEF At, Lone
-----------------------------------------------------------------------------
(***************************************************************************)
(* Request r of the end e: waiting for the other end's root, on the wire,  *)
(* with a running handler, answered; and the stage of Receipts it is in.   *)
(***************************************************************************)
Parked(e, r) == At(pendingRoot[Peer(e)], "call", r)
Sent(e, r) == At(wire[e], "call", r)
Running(e, r) == {g \in tasks[Peer(e)] : g.request = r}
Answered(e, r) == At(wire[Peer(e)], "response", r)

Stage == {"idle", "queued", "running", "answered", "settled"}

\* Exactly one place, or none when the request is not open.
StageIs(e, r, st) ==
    /\ r \in pending[e] <=> st \in {"queued", "running", "answered"}
    /\ r > nextRequest[e] <=> st = "idle"
    /\ IF st = "queued"
       THEN \/ Lone(Parked(e, r)) /\ Sent(e, r) = {}
            \/ Parked(e, r) = {} /\ Lone(Sent(e, r))
       ELSE Parked(e, r) = {} /\ Sent(e, r) = {}
    /\ IF st = "running" THEN Lone(Running(e, r)) ELSE Running(e, r) = {}
    /\ IF st = "answered" THEN Lone(Answered(e, r)) ELSE Answered(e, r) = {}

Staged == \A e \in End : \A r \in Nat \ {0} : \E st \in Stage : StageIs(e, r, st)

\* Only calls and subscribes wait for a root.
RootQueues == \A e \in End : \A i \in DOMAIN pendingRoot[e] :
                 pendingRoot[e][i].kind \in {"call", "subscribe"}

StageInv == TypeOK /\ RootQueues /\ Staged

\* A step leaves request r of e in its stage or advances it by one.
Moves(e, r) ==
    \A st \in Stage : StageIs(e, r, st) =>
        \E st2 \in Stage : /\ StageIs(e, r, st2)'
                           /\ st2 = st \/ <<st, st2>> \in R!Advance

\* The numbers of requests, and whether r is open, as they were.
SameBooks(e, r) == /\ r \in pending'[e] <=> r \in pending[e]
                   /\ r > nextRequest'[e] <=> r > nextRequest[e]

\* No place of r empties or fills.
LEMMA PlacesStay ==
    ASSUME NEW e, NEW r, SameBooks(e, r),
           Parked(e, r) = {} => Parked(e, r)' = {},
           Lone(Parked(e, r)) => Lone(Parked(e, r)'),
           Sent(e, r) = {} => Sent(e, r)' = {},
           Lone(Sent(e, r)) => Lone(Sent(e, r)'),
           Running(e, r) = {} => Running(e, r)' = {},
           Lone(Running(e, r)) => Lone(Running(e, r)'),
           Answered(e, r) = {} => Answered(e, r)' = {},
           Lone(Answered(e, r)) => Lone(Answered(e, r)')
    PROVE  Moves(e, r)
  BY DEF Moves, StageIs, SameBooks

\* There are two ends.
LEMMA OtherEnd ==
    ASSUME NEW e \in End, NEW x \in End
    PROVE  /\ Peer(e) \in End /\ Peer(e) # e /\ Peer(Peer(e)) = e
           /\ x = e \/ x = Peer(e)
  BY EndsAssumption DEF End, Peer

\* Frames sent that carry no call of r by e and no answer to it.
LEMMA SendMovesNothing ==
    ASSUME TypeOK, NEW e \in End, NEW r, NEW x \in End, NEW fs \in Seq(Frame),
           Send(x, fs), SameBooks(e, r),
           x = e => At(fs, "call", r) = {}, x # e => At(fs, "response", r) = {},
           Parked(e, r)' = Parked(e, r), Running(e, r)' = Running(e, r)
    PROVE  Moves(e, r)
<1> DEFINE p == Peer(e)
<1>1. /\ wire \in [End -> Seq(Frame)] /\ wire' = [wire EXCEPT ![x] = @ \o fs]
      /\ p \in End /\ p # e /\ (x = e \/ x = p)
      /\ wire[e] \in Seq(Frame) /\ wire[p] \in Seq(Frame)
  BY OtherEnd DEF TypeOK, Send
<1>2. CASE x = e
  <2>1. wire'[e] = wire[e] \o fs /\ wire'[p] = wire[p]
    BY <1>1, <1>2
  <2>2. Sent(e, r)' = Sent(e, r)
    BY <1>1, <1>2, <2>1, AtConcat DEF Sent
  <2>3. Answered(e, r)' = Answered(e, r)
    BY <2>1 DEF Answered
  <2>4. QED
    BY <2>2, <2>3, PlacesStay
<1>3. CASE x = p
  <2>1. wire'[p] = wire[p] \o fs /\ wire'[e] = wire[e]
    BY <1>1, <1>3
  <2>2. Answered(e, r)' = Answered(e, r)
    BY <1>1, <1>3, <2>1, AtConcat DEF Answered
  <2>3. Sent(e, r)' = Sent(e, r)
    BY <2>1 DEF Sent
  <2>4. QED
    BY <2>2, <2>3, PlacesStay
<1>4. QED
  BY <1>1, <1>2, <1>3

\* A handler resolves: its request is answered.
LEMMA FinishTaskMoves ==
    ASSUME StageInv, NEW e \in End, NEW r \in Nat \ {0}, NEW x \in End,
           NEW f \in tasks[x], NEW ref \in Id \cup {Nil}, FinishTask(x, f, ref)
    PROVE  Moves(e, r)
<1> DEFINE fs == Respond(x, f, ref, TRUE)
<1>1. /\ TypeOK /\ f \in Frame /\ fs \in Seq(Frame) /\ Send(x, fs)
      /\ tasks' = [tasks EXCEPT ![x] = @ \ {f}] /\ tasks \in [End -> SUBSET Frame]
      /\ UNCHANGED <<pendingRoot, pending, nextRequest>>
      /\ Peer(e) \in End /\ Peer(e) # e /\ (x = e \/ x = Peer(e))
  BY RespondType, OtherEnd DEF StageInv, FinishTask, callVars, TypeOK
<1>2. /\ At(fs, "call", r) = {}
      /\ f.request = r => Lone(At(fs, "response", r))
      /\ f.request # r => At(fs, "response", r) = {}
  BY AtOne DEF Respond, Response
<1>3. SameBooks(e, r) /\ Parked(e, r)' = Parked(e, r)
  BY <1>1 DEF SameBooks, Parked
<1> HIDE DEF fs
<1>4. CASE x = e \/ f.request # r
  <2>1. Running(e, r)' = Running(e, r)
    BY <1>1, <1>4 DEF Running
  <2>2. QED
    BY <1>1, <1>2, <1>3, <1>4, <2>1, SendMovesNothing
<1>5. CASE x = Peer(e) /\ f.request = r
  <2>1. f \in Running(e, r) /\ Running(e, r)' = Running(e, r) \ {f}
    BY <1>1, <1>5 DEF Running
  <2>2. /\ wire[x] \in Seq(Frame) /\ wire'[x] = wire[x] \o fs /\ wire'[e] = wire[e]
    BY <1>1, <1>5 DEF TypeOK, Send
  <2>3. Sent(e, r)' = Sent(e, r)
    BY <2>2 DEF Sent
  <2>4. Answered(e, r) = {} => Lone(Answered(e, r)')
    BY <1>1, <1>2, <1>5, <2>2, AtConcat DEF Answered
  <2>5. ASSUME NEW st \in Stage, StageIs(e, r, st)
        PROVE  st = "running" /\ StageIs(e, r, "answered")'
    <3>1. st = "running" /\ Lone(Running(e, r)) /\ Answered(e, r) = {}
      BY <2>1, <2>5 DEF StageIs
    <3>2. Running(e, r)' = {}
      BY <2>1, <3>1 DEF Lone
    <3>3. QED
      BY <1>3, <2>3, <2>4, <2>5, <3>1, <3>2 DEF StageIs, SameBooks
  <2>6. QED
    BY <2>5 DEF Moves, Stage, R!Advance
<1>6. QED
  BY <1>1, <1>4, <1>5

\* A call is the next request, and queued.
LEMMA CallMethodMoves ==
    ASSUME StageInv, NEW e \in End, NEW r \in Nat \ {0}, NEW x \in End,
           NEW a \in Addr, NEW ref \in Id \cup {Nil}, CallMethod(x, a, ref)
    PROVE  Moves(e, r)
<1> DEFINE first == a \notin released[x]
           n == nextRequest'[x]
           f == Call(a, n, ref, first)
           fs == <<f>>
<1>1. /\ TypeOK /\ nextRequest \in [End -> Nat] /\ pending \in [End -> SUBSET Nat]
      /\ nextRequest' = [nextRequest EXCEPT ![x] = @ + 1] /\ n = nextRequest[x] + 1
      /\ pending' = [pending EXCEPT ![x] = @ \cup {n}] /\ n \in Nat
      /\ UNCHANGED <<pendingRoot, tasks>> /\ Send(x, fs)
      /\ Peer(e) \in End /\ Peer(e) # e /\ (x = e \/ x = Peer(e))
  <2>1. /\ TypeOK /\ nextRequest \in [End -> Nat] /\ pending \in [End -> SUBSET Nat]
        /\ nextRequest' = [nextRequest EXCEPT ![x] = @ + 1]
        /\ pending' = [pending EXCEPT ![x] = @ \cup {n}]
        /\ UNCHANGED <<pendingRoot, tasks>> /\ Send(x, fs)
    BY DEF StageInv, CallMethod, homeVars, TypeOK
  <2>2. n = nextRequest[x] + 1 /\ n \in Nat
    BY <2>1
  <2>3. QED
    BY <2>1, <2>2, OtherEnd
<1>2. first \in BOOLEAN
  OBVIOUS
<1> HIDE DEF first, n
<1>3. f \in Frame /\ f.kind = "call" /\ f.request = n
  BY <1>1, <1>2, FrameTypes DEF Call
<1> HIDE DEF f
<1>4. /\ fs \in Seq(Frame)
      /\ At(fs, "response", r) = {}
      /\ n # r => At(fs, "call", r) = {}
      /\ n = r => Lone(At(fs, "call", r))
  BY <1>3, AtOne
<1> HIDE DEF fs
<1>5. Parked(e, r)' = Parked(e, r) /\ Running(e, r)' = Running(e, r)
  BY <1>1 DEF Parked, Running
<1>6. CASE x # e \/ n # r
  <2>1. SameBooks(e, r)
    BY <1>1, <1>6 DEF SameBooks
  <2>2. QED
    BY <1>1, <1>4, <1>5, <1>6, <2>1, SendMovesNothing
<1>7. CASE x = e /\ n = r
  <2>1. /\ wire[e] \in Seq(Frame) /\ wire'[e] = wire[e] \o fs
        /\ wire'[Peer(e)] = wire[Peer(e)]
    BY <1>1, <1>7 DEF TypeOK, Send
  <2>2. Answered(e, r)' = Answered(e, r)
    BY <2>1 DEF Answered
  <2>3. Sent(e, r) = {} => Lone(Sent(e, r)')
    BY <1>4, <1>7, <2>1, AtConcat DEF Sent
  <2>4. r > nextRequest[e] /\ ~(r > nextRequest'[e]) /\ r \in pending'[e]
    BY <1>1, <1>7
  <2>5. ASSUME NEW st \in Stage, StageIs(e, r, st)
        PROVE  st = "idle" /\ StageIs(e, r, "queued")'
    BY <1>5, <2>2, <2>3, <2>4, <2>5 DEF StageIs
  <2>6. QED
    BY <2>5 DEF Moves, Stage, R!Advance
<1>8. QED
  BY <1>1, <1>6, <1>7

\* A step of the remote side moves no other request.
LEMMA RemoteStepMoves ==
    ASSUME StageInv, NEW e \in End, NEW r \in Nat \ {0}, NEW x \in End, RemoteStep(x)
    PROVE  Moves(e, r)
<1>1. TypeOK
  BY DEF StageInv
<1>2. ASSUME NEW fs \in Seq(Frame), Send(x, fs),
             \A i \in DOMAIN fs : fs[i].kind \in {"subscribe", "release"},
             UNCHANGED <<pendingRoot, tasks, pending, nextRequest>>
      PROVE  Moves(e, r)
  <2>1. At(fs, "call", r) = {} /\ At(fs, "response", r) = {}
    BY <1>2 DEF At
  <2>2. SameBooks(e, r) /\ Parked(e, r)' = Parked(e, r) /\ Running(e, r)' = Running(e, r)
    BY <1>2 DEF SameBooks, Parked, Running
  <2>3. QED
    BY <1>1, <1>2, <2>1, <2>2, SendMovesNothing
<1>3. ASSUME NEW a \in Addr, Connect(x, a) \/ CloneRemote(x, a) \/ DropRemote(x, a)
      PROVE  Moves(e, r)
  <2>1. UNCHANGED <<pendingRoot, tasks, pending, nextRequest, wire>>
    BY <1>3 DEF Connect, CloneRemote, DropRemote, homeVars, callVars
  <2> DEFINE fs == <<>>
  <2>2. wire[x] \in Seq(Frame) /\ wire \in [End -> Seq(Frame)]
    BY <1>1 DEF TypeOK
  <2>3. /\ fs \in Seq(Frame) /\ wire[x] \o fs = wire[x]
        /\ \A i \in DOMAIN fs : fs[i].kind \in {"subscribe", "release"}
    BY <2>2
  <2> HIDE DEF fs
  <2>4. Send(x, fs)
    BY <2>1, <2>2, <2>3 DEF Send
  <2>5. QED
    BY <1>2, <2>1, <2>3, <2>4
<1>4. ASSUME NEW a \in Addr, Reconnect(x, a)
      PROVE  Moves(e, r)
  <2> DEFINE f == Release(a)
             fs == <<f>>
  <2>1. f \in Frame /\ f.kind = "release"
    BY FrameTypes DEF Release
  <2>2. Send(x, fs) /\ UNCHANGED <<pendingRoot, tasks, pending, nextRequest>>
    BY <1>4 DEF Reconnect, callVars
  <2> HIDE DEF f
  <2>3. fs \in Seq(Frame) /\ \A i \in DOMAIN fs : fs[i].kind = "release"
    BY <2>1
  <2> HIDE DEF fs
  <2>4. QED
    BY <1>2, <2>2, <2>3
<1>5. ASSUME DrainReleases(x)
      PROVE  Moves(e, r)
  <2>1. PICK fs \in Seq(Frame) :
           /\ Send(x, fs)
           /\ \A i \in DOMAIN fs : \E a \in releases[x] \cap projections[x] :
                 fs[i] = Release(a)
    BY <1>1, <1>5, DrainSends
  <2>2. \A i \in DOMAIN fs : fs[i].kind = "release"
    BY <2>1 DEF Release
  <2>3. UNCHANGED <<pendingRoot, tasks, pending, nextRequest>>
    BY <1>5 DEF DrainReleases, callVars
  <2>4. QED
    BY <1>2, <2>1, <2>2, <2>3
<1>6. ASSUME NEW a \in Addr, NEW o \in Id, Observe(x, a, o)
      PROVE  Moves(e, r)
  <2> DEFINE f == Subscribe(a, o)
             fs == <<f>>
  <2>1. f \in Frame /\ f.kind = "subscribe"
    BY FrameTypes DEF Subscribe
  <2>2. Send(x, fs) /\ UNCHANGED <<pendingRoot, tasks, pending, nextRequest>>
    BY <1>6 DEF Observe, callVars
  <2> HIDE DEF f
  <2>3. fs \in Seq(Frame) /\ \A i \in DOMAIN fs : fs[i].kind = "subscribe"
    BY <2>1
  <2> HIDE DEF fs
  <2>4. QED
    BY <1>2, <2>2, <2>3
<1>7. QED
  BY <1>3, <1>4, <1>5, <1>6, CallMethodMoves DEF RemoteStep

\* Installing the root answers the calls that waited for it, but hands those
\* with asynchronous handlers to their tasks.
LEMMA ShareRootMoves ==
    ASSUME StageInv, NEW e \in End, NEW r \in Nat \ {0}, NEW x \in End,
           NEW async, ShareRoot(x, async)
    PROVE  Moves(e, r)
<1> DEFINE queue == pendingRoot[x]
           Subs == {i \in DOMAIN queue : queue[i].kind = "subscribe"}
           Calls == {queue[i] : i \in DOMAIN queue \ Subs}
           Ready == Subs \cup {i \in DOMAIN queue : queue[i] \in Calls \ async}
<1>1. /\ TypeOK /\ Len(queue) \in Nat /\ DOMAIN queue = 1 .. Len(queue)
      /\ \A i \in DOMAIN queue : queue[i] \in Frame
      /\ Ready \in SUBSET (1 .. Len(queue)) /\ async \subseteq Calls
      /\ pendingRoot' = [pendingRoot EXCEPT ![x] = <<>>]
      /\ tasks' = [tasks EXCEPT ![x] = @ \cup async]
      /\ UNCHANGED <<pending, nextRequest>>
  <2>1. TypeOK /\ queue \in Seq(Frame)
    BY DEF StageInv, TypeOK
  <2>2. /\ Len(queue) \in Nat /\ DOMAIN queue = 1 .. Len(queue)
        /\ \A i \in DOMAIN queue : queue[i] \in Frame
    BY <2>1
  <2>3. Ready \in SUBSET (1 .. Len(queue))
    BY <2>2
  <2>4. /\ async \subseteq Calls
        /\ pendingRoot' = [pendingRoot EXCEPT ![x] = <<>>]
        /\ tasks' = [tasks EXCEPT ![x] = @ \cup async]
        /\ UNCHANGED <<pending, nextRequest>>
    BY DEF ShareRoot
  <2>5. QED
    BY <2>1, <2>2, <2>3, <2>4
<1>2. /\ pendingRoot \in [End -> Seq(Frame)] /\ tasks \in [End -> SUBSET Frame]
      /\ Peer(e) \in End /\ Peer(e) # e /\ (x = e \/ x = Peer(e))
  BY <1>1, OtherEnd DEF TypeOK
<1>3. \A i \in DOMAIN queue : i \in Subs \/ queue[i].kind = "call"
  BY DEF StageInv, RootQueues
<1>4. PICK p \in InOrder(Ready) : \E h \in [DOMAIN p -> Payload(x)] :
         Send(x, [i \in DOMAIN p |-> RootReply(x, queue[p[i]], h[i])])
  BY DEF ShareRoot
<1> PICK answer \in [DOMAIN p -> Payload(x)] :
         Send(x, [i \in DOMAIN p |-> RootReply(x, queue[p[i]], answer[i])])
  BY <1>4
<1> HIDE DEF Ready
<1>5. /\ Cardinality(Ready) \in Nat /\ p \in [1 .. Cardinality(Ready) -> Ready]
      /\ DOMAIN p = 1 .. Cardinality(Ready)
      /\ \A k \in Ready : \E i \in DOMAIN p : p[i] = k
      /\ \A i, j \in DOMAIN p : p[i] = p[j] => i = j
  <2>1. Enumerates(p, Ready)
    BY <1>1, <1>4, InOrderOnto
  <2>2. QED
    BY <2>1 DEF Enumerates
<1> DEFINE fs == [i \in DOMAIN p |-> RootReply(x, queue[p[i]], answer[i])]
<1>6. \A i \in DOMAIN queue, ref \in Id \cup {Nil} :
         /\ RootReply(x, queue[i], ref) \in Frame
         /\ i \in Subs => /\ RootReply(x, queue[i], ref).kind = "call"
                          /\ RootReply(x, queue[i], ref).request = 0
         /\ i \notin Subs => /\ RootReply(x, queue[i], ref).kind = "response"
                             /\ RootReply(x, queue[i], ref).request = queue[i].request
  <2>1. version'[x][Root] \in Nat
    <3>1. TypeOK'
      BY <1>1, ShareRootType
    <3>2. QED
      BY <3>1 DEF TypeOK, Addr
  <2>2. \A f \in Frame, ref \in Id \cup {Nil} : RootReply(x, f, ref) \in Frame
    BY <2>1, FrameTypes, FrameFields DEF RootReply, Addr
  <2>3. QED
    BY <1>1, <2>2 DEF RootReply, Response, Notify
<1>7. \A i \in DOMAIN p : /\ p[i] \in Ready /\ p[i] \in DOMAIN queue
                           /\ answer[i] \in Id \cup {Nil}
  <2>1. \A i \in DOMAIN p : p[i] \in Ready
    BY <1>5
  <2>2. \A k \in Ready : k \in DOMAIN queue
    BY <1>1
  <2>3. QED
    BY <2>1, <2>2 DEF Payload
<1>8. /\ fs \in Seq(Frame) /\ Send(x, fs) /\ DOMAIN fs = DOMAIN p
      /\ \A i \in DOMAIN p : fs[i] = RootReply(x, queue[p[i]], answer[i])
  <2>1. fs \in [1 .. Cardinality(Ready) -> Frame]
    BY <1>5, <1>6, <1>7
  <2>2. QED
    BY <1>4, <1>5, <2>1, FunctionIsSeq
<1> HIDE DEF fs
<1>9. At(fs, "call", r) = {}
  BY <1>6, <1>7, <1>8 DEF At
<1>10. SameBooks(e, r)
  BY <1>1 DEF SameBooks
<1>11. CASE x = e
  <2>1. Parked(e, r)' = Parked(e, r) /\ Running(e, r)' = Running(e, r)
    BY <1>1, <1>2, <1>11 DEF Parked, Running
  <2>2. QED
    BY <1>1, <1>8, <1>9, <1>10, <1>11, <2>1, SendMovesNothing
<1>12. CASE x = Peer(e)
  <2> DEFINE W == Parked(e, r)
  <2>1. /\ W = {j \in DOMAIN queue : j \notin Subs /\ queue[j].request = r}
        /\ Parked(e, r)' = {}
    <3>1. pendingRoot'[x] = <<>> /\ DOMAIN <<>> = {}
      BY <1>1, <1>2
    <3>2. QED
      BY <1>3, <1>12, <3>1 DEF Parked, At
  <2>2. Running(e, r)' = Running(e, r) \cup {g \in async : g.request = r}
    BY <1>1, <1>2, <1>12 DEF Running
  <2>3. /\ wire[x] \in Seq(Frame) /\ wire'[x] = wire[x] \o fs /\ wire'[e] = wire[e]
    BY <1>1, <1>2, <1>8, <1>12 DEF TypeOK, Send
  <2>4. Sent(e, r)' = Sent(e, r)
    BY <2>3 DEF Sent
  <2>5. \A g \in async : g.request = r => \E j \in W : g = queue[j]
    BY <1>1, <2>1
  <2>6. \A i \in At(fs, "response", r) :
           /\ i \in DOMAIN p /\ p[i] \in W /\ queue[p[i]] \notin async
    <3> SUFFICES ASSUME NEW i \in At(fs, "response", r)
                 PROVE  i \in DOMAIN p /\ p[i] \in W /\ queue[p[i]] \notin async
      OBVIOUS
    <3>1. /\ i \in DOMAIN p /\ fs[i] = RootReply(x, queue[p[i]], answer[i])
          /\ p[i] \in Ready /\ answer[i] \in Id \cup {Nil}
          /\ p[i] \in DOMAIN queue /\ fs[i].kind = "response" /\ fs[i].request = r
      BY <1>7, <1>8 DEF At
    <3>2. p[i] \notin Subs /\ queue[p[i]].request = r
      BY <1>6, <3>1
    <3>3. QED
      BY <2>1, <3>1, <3>2 DEF Ready
  <2>7. \A j \in W : queue[j] \in async \/ \E i \in At(fs, "response", r) : p[i] = j
    <3> SUFFICES ASSUME NEW j \in W, queue[j] \notin async
                 PROVE  \E i \in At(fs, "response", r) : p[i] = j
      OBVIOUS
    <3>1. j \in DOMAIN queue /\ j \notin Subs /\ queue[j].request = r
      BY <2>1
    <3>2. j \in Ready
      BY <3>1 DEF Ready
    <3>3. PICK i \in DOMAIN p : p[i] = j
      BY <1>5, <3>2
    <3>4. /\ fs[i].kind = "response"
          /\ fs[i].request = r
      <4>1. answer[i] \in Id \cup {Nil} /\ fs[i] = RootReply(x, queue[j], answer[i])
        BY <1>7, <1>8, <3>3
      <4>2. QED
        BY <1>6, <3>1, <4>1
    <3>5. QED
      BY <1>8, <3>3, <3>4 DEF At
  <2> HIDE DEF W
  <2>8. CASE W = {}
    <3>1. {g \in async : g.request = r} = {} /\ At(fs, "response", r) = {}
      BY <2>5, <2>6, <2>8
    <3>2. Running(e, r)' = Running(e, r) /\ Parked(e, r)' = Parked(e, r)
      BY <2>1, <2>2, <2>8, <3>1 DEF W
    <3>3. QED
      BY <1>1, <1>8, <1>9, <1>10, <1>12, <3>1, <3>2, SendMovesNothing
  <2>9. ASSUME NEW w, W = {w}
        PROVE  Moves(e, r)
    <3>1. ASSUME NEW st \in Stage, StageIs(e, r, st)
          PROVE  /\ st = "queued" /\ Sent(e, r) = {} /\ Running(e, r) = {}
                 /\ Answered(e, r) = {}
      BY <2>9, <3>1 DEF StageIs, W, Lone
    <3>2. CASE queue[w] \in async
      <4>1. At(fs, "response", r) = {}
        BY <2>6, <2>9, <3>2
      <4>2. queue[w].request = r
        BY <2>1, <2>9 DEF W
      <4>3. {g \in async : g.request = r} = {queue[w]}
        BY <2>5, <2>9, <3>2, <4>2
      <4>4. Answered(e, r)' = Answered(e, r)
        BY <1>8, <1>12, <2>3, <4>1, AtConcat DEF Answered
      <4>5. ASSUME NEW st \in Stage, StageIs(e, r, st)
            PROVE  st = "queued" /\ StageIs(e, r, "running")'
        BY <1>10, <2>1, <2>2, <2>4, <3>1, <4>3, <4>4, <4>5 DEF StageIs, SameBooks, Lone
      <4>6. QED
        BY <4>5 DEF Moves, Stage, R!Advance
    <3>3. CASE queue[w] \notin async
      <4>1. {g \in async : g.request = r} = {}
        BY <2>5, <2>9, <3>3
      <4>2. Lone(At(fs, "response", r))
        <5>1. PICK i \in At(fs, "response", r) : p[i] = w
          BY <2>7, <2>9, <3>3
        <5>2. \A j \in At(fs, "response", r) : j = i
          BY <1>5, <2>6, <2>9, <5>1
        <5>3. At(fs, "response", r) = {i}
          BY <5>1, <5>2
        <5>4. QED
          BY <5>3 DEF Lone
      <4>3. Answered(e, r) = {} => Lone(Answered(e, r)')
        BY <1>8, <1>12, <2>3, <4>2, AtConcat DEF Answered
      <4>4. ASSUME NEW st \in Stage, StageIs(e, r, st)
            PROVE  st = "queued" /\ StageIs(e, r, "answered")'
        BY <1>10, <2>1, <2>2, <2>4, <3>1, <4>1, <4>3, <4>4 DEF StageIs, SameBooks
      <4>5. QED
        BY <4>4 DEF Moves, Stage, R!Advance
    <3>4. QED
      BY <3>2, <3>3
  <2>10. CASE ~(W = {}) /\ ~Lone(W)
    BY <2>10 DEF Moves, StageIs, W, Lone
  <2>11. QED
    BY <2>8, <2>9, <2>10 DEF Lone
<1>13. QED
  BY <1>2, <1>11, <1>12

\* A step that touches neither frames, tasks nor numbers moves nothing.
LEMMA StillMoves ==
    ASSUME NEW e, NEW r, UNCHANGED <<pendingRoot, tasks, pending, nextRequest, wire>>
    PROVE  Moves(e, r)
<1>1. /\ SameBooks(e, r) /\ Parked(e, r)' = Parked(e, r) /\ Sent(e, r)' = Sent(e, r)
      /\ Running(e, r)' = Running(e, r) /\ Answered(e, r)' = Answered(e, r)
  BY DEF SameBooks, Parked, Sent, Running, Answered
<1>2. QED
  BY <1>1, PlacesStay

LEMMA HomeStepMoves ==
    ASSUME StageInv, NEW e \in End, NEW r \in Nat \ {0}, NEW x \in End, HomeStep(x)
    PROVE  Moves(e, r)
<1>1. TypeOK
  BY DEF StageInv
<1>2. ASSUME NEW a \in Id, NEW keepAlive, Share(x, a, keepAlive)
      PROVE  Moves(e, r)
  BY <1>2, StillMoves DEF Share, callVars
<1>3. ASSUME NEW a \in Addr, DropEntity(x, a) \/ Change(x, a)
      PROVE  Moves(e, r)
  BY <1>3, StillMoves DEF DropEntity, Change, callVars
<1>4. ASSUME NEW a \in Addr, FlushNotify(x, a)
      PROVE  Moves(e, r)
  <2> DEFINE fs == IF Alive(x, a) THEN Notifications(x, a) ELSE <<>>
  <2>1. fs \in Seq(Frame)
    BY <1>1, <1>4, NotificationsType
  <2>2. \A i \in DOMAIN fs : fs[i].kind = "call" /\ fs[i].request = 0
    BY DEF Notifications, Notify
  <2>3. Send(x, fs) /\ UNCHANGED <<pendingRoot, tasks, pending, nextRequest>>
    BY <1>4 DEF FlushNotify, callVars
  <2> HIDE DEF fs
  <2>4. At(fs, "call", r) = {} /\ At(fs, "response", r) = {}
    BY <2>2 DEF At
  <2>5. SameBooks(e, r) /\ Parked(e, r)' = Parked(e, r) /\ Running(e, r)' = Running(e, r)
    BY <2>3 DEF SameBooks, Parked, Running
  <2>6. QED
    BY <1>1, <2>1, <2>3, <2>4, <2>5, SendMovesNothing
<1>5. QED
  BY <1>2, <1>3, <1>4, ShareRootMoves, FinishTaskMoves DEF HomeStep

\* What a delivery answers, queues, starts and settles.
Delivers(x, reply) ==
    LET f == Next1(x)
        p == Peer(x) IN
    /\ reply \in Seq(Frame) /\ Receive(x, reply)
    /\ \A r \in Nat \ {0} : At(reply, "call", r) = {}
    /\ UNCHANGED <<nextRequest, pendingRoot[p], tasks[p], pending[p]>>
    /\ \/ pending'[x] = pending[x]
       \/ f.kind = "response" /\ pending'[x] = pending[x] \ {f.request}
    /\ f.kind = "response" => pending'[x] = pending[x] \ {f.request}
    /\ \/ /\ f.kind # "call" /\ UNCHANGED tasks[x]
          /\ \/ UNCHANGED pendingRoot[x]
             \/ f.kind = "subscribe" /\ pendingRoot'[x] = Append(pendingRoot[x], f)
          /\ \A r \in Nat \ {0} : At(reply, "response", r) = {}
       \/ /\ f.kind = "call" /\ UNCHANGED tasks[x] /\ reply = <<>>
          /\ pendingRoot'[x] = Append(pendingRoot[x], f)
       \/ /\ f.kind = "call" /\ tasks'[x] = tasks[x] \cup {f} /\ reply = <<>>
          /\ UNCHANGED pendingRoot[x]
       \/ /\ f.kind = "call" /\ UNCHANGED <<tasks[x], pendingRoot[x]>>
          /\ \E ref, ok : reply = Respond(x, f, ref, ok)

LEMMA DeliverDoes ==
    ASSUME StageInv, NEW x \in End, Deliver(x)
    PROVE  wire[Peer(x)] # <<>> /\ \E reply : Delivers(x, reply)
<1> DEFINE f == Next1(x)
<1>1. /\ TypeOK /\ wire[Peer(x)] # <<>> /\ f \in Frame /\ Peer(x) \in End /\ Peer(x) # x
      /\ pendingRoot \in [End -> Seq(Frame)] /\ tasks \in [End -> SUBSET Frame]
      /\ pending \in [End -> SUBSET Nat] /\ version[x] \in [Addr -> Nat]
  BY Next1Type, PeerType DEF StageInv, TypeOK, Deliver
<1>2. /\ <<>> \in Seq(Frame)
      /\ \A r : At(<<>>, "call", r) = {} /\ At(<<>>, "response", r) = {}
  <2>1. DOMAIN <<>> = {}
    OBVIOUS
  <2>2. \A k, r : At(<<>>, k, r) = {}
    BY <2>1 DEF At
  <2>3. <<>> \in Seq(Frame)
    OBVIOUS
  <2>4. QED
    BY <2>2, <2>3
<1> HIDE DEF f
<1>3. ASSUME DeliverResponse(x)
      PROVE  Delivers(x, <<>>)
  <2>1. /\ f.kind = "response" /\ Receive(x, <<>>)
        /\ pending' = [pending EXCEPT ![x] = @ \ {f.request}]
        /\ UNCHANGED <<nextRequest, pendingRoot, tasks>>
    BY <1>3 DEF DeliverResponse, homeVars, f
  <2>2. QED
    BY <1>1, <1>2, <2>1 DEF Delivers, f
<1>4. ASSUME DeliverSubscribe(x)
      PROVE  \E reply : Delivers(x, reply)
  <2>1. /\ f.kind = "subscribe" /\ UNCHANGED <<nextRequest, pending, tasks>>
    BY <1>4 DEF DeliverSubscribe, callVars, f
  <2>2. CASE homes[x][f.target] # "absent"
    <3> DEFINE n == Notify(f.id, version[x][f.target])
    <3>1. Receive(x, <<n>>) /\ UNCHANGED pendingRoot
      BY <1>4, <2>2 DEF DeliverSubscribe, f
    <3>2. n \in Frame
      BY <1>1, <2>1, FrameFields, FrameTypes
    <3>3. n.kind = "call" /\ n.request = 0
      BY DEF Notify
    <3> HIDE DEF n
    <3>4. /\ <<n>> \in Seq(Frame)
          /\ \A r \in Nat \ {0} : At(<<n>>, "call", r) = {} /\ At(<<n>>, "response", r) = {}
      BY <3>2, <3>3, AtOne
    <3>5. Delivers(x, <<n>>)
      BY <2>1, <3>1, <3>4 DEF Delivers, f
    <3>6. QED
      BY <3>5
  <2>3. CASE homes[x][f.target] = "absent"
    <3>1. /\ Receive(x, <<>>)
          /\ \/ pendingRoot' = pendingRoot
             \/ pendingRoot' = [pendingRoot EXCEPT ![x] = Append(@, f)]
      BY <1>4, <2>3 DEF DeliverSubscribe, f
    <3>2. Delivers(x, <<>>)
      BY <1>1, <1>2, <2>1, <3>1 DEF Delivers, f
    <3>3. QED
      BY <3>2
  <2>4. QED
    BY <2>2, <2>3
<1>5. ASSUME DeliverRelease(x)
      PROVE  Delivers(x, <<>>)
  <2>1. /\ f.kind = "release" /\ Receive(x, <<>>)
        /\ UNCHANGED <<pending, nextRequest, pendingRoot, tasks>>
    BY <1>5 DEF DeliverRelease, callVars, f
  <2>2. QED
    BY <1>2, <2>1 DEF Delivers, f
<1>6. ASSUME QueueRootCall(x)
      PROVE  Delivers(x, <<>>)
  <2>1. /\ f.kind = "call" /\ Receive(x, <<>>)
        /\ pendingRoot' = [pendingRoot EXCEPT ![x] = Append(@, f)]
        /\ UNCHANGED <<pending, nextRequest, tasks>>
    BY <1>6 DEF QueueRootCall, callVars, f
  <2>2. QED
    BY <1>1, <1>2, <2>1 DEF Delivers, f
<1>7. ASSUME NEW ref \in Id \cup {Nil}, NEW ok \in BOOLEAN, f.kind = "call",
             Receive(x, Respond(x, f, ref, ok)),
             UNCHANGED <<pending, nextRequest, pendingRoot, tasks>>
      PROVE  \E reply : Delivers(x, reply)
  <2> DEFINE reply == Respond(x, f, ref, ok)
  <2>1. reply \in Seq(Frame)
    BY <1>1, RespondType
  <2>2. \A r \in Nat \ {0} : At(reply, "call", r) = {}
    BY AtOne DEF Respond, Response
  <2>3. Receive(x, reply) /\ \E ref1, ok1 : reply = Respond(x, f, ref1, ok1)
    BY <1>7
  <2> HIDE DEF reply
  <2>4. Delivers(x, reply)
    BY <1>7, <2>1, <2>2, <2>3 DEF Delivers, f
  <2>5. QED
    BY <2>4
<1>8. ASSUME RejectCall(x) \/ FireSignal(x)
      PROVE  \E reply : Delivers(x, reply)
  <2>1. /\ f.kind = "call" /\ UNCHANGED <<pending, nextRequest, pendingRoot, tasks>>
        /\ \/ Receive(x, Respond(x, f, Nil, TRUE))
           \/ Receive(x, Respond(x, f, Nil, FALSE))
    BY <1>8 DEF RejectCall, FireSignal, homeVars, callVars, f
  <2>2. QED
    BY <1>7, <2>1
<1>9. ASSUME NEW ref \in Id \cup {Nil}, NEW async \in BOOLEAN, HandleCall(x, ref, async)
      PROVE  \E reply : Delivers(x, reply)
  <2>1. f.kind = "call" /\ UNCHANGED <<pending, nextRequest, pendingRoot>>
    BY <1>9 DEF HandleCall, f
  <2>2. CASE async
    <3>1. tasks' = [tasks EXCEPT ![x] = @ \cup {f}] /\ Receive(x, <<>>)
      BY <1>9, <2>2 DEF HandleCall, f
    <3>2. Delivers(x, <<>>)
      BY <1>1, <1>2, <2>1, <3>1 DEF Delivers, f
    <3>3. QED
      BY <3>2
  <2>3. CASE ~async
    <3>1. Receive(x, Respond(x, f, ref, TRUE)) /\ UNCHANGED tasks
      BY <1>9, <2>3 DEF HandleCall, f
    <3>2. QED
      BY <1>7, <2>1, <3>1
  <2>4. QED
    BY <2>2, <2>3
<1>10. QED
  BY <1>1, <1>3, <1>4, <1>5, <1>6, <1>8, <1>9 DEF Deliver

\* An answer settles its request.
LEMMA DeliverSettles ==
    ASSUME StageInv, NEW e \in End, NEW r \in Nat \ {0}, Deliver(e)
    PROVE  Moves(e, r)
<1> DEFINE p == Peer(e)
           f == Next1(e)
<1>1. PICK reply : Delivers(e, reply)
  BY DeliverDoes
<1>2. /\ wire[p] # <<>> /\ wire \in [End -> Seq(Frame)] /\ p \in End /\ p # e
      /\ wire' = [wire EXCEPT ![p] = Tail(@), ![e] = @ \o reply]
      /\ reply \in Seq(Frame) /\ At(reply, "call", r) = {} /\ f = Head(wire[p])
      /\ UNCHANGED <<nextRequest, pendingRoot[p], tasks[p]>>
  BY <1>1, DeliverDoes, OtherEnd DEF StageInv, TypeOK, Delivers, Receive, Next1
<1>3. /\ wire'[p] = Tail(wire[p]) /\ wire'[e] = wire[e] \o reply
      /\ wire[e] \in Seq(Frame) /\ wire[p] \in Seq(Frame)
  BY <1>2
<1>4. Parked(e, r)' = Parked(e, r) /\ Running(e, r)' = Running(e, r)
  BY <1>2 DEF Parked, Running
<1>5. Sent(e, r)' = Sent(e, r)
  BY <1>2, <1>3, AtConcat DEF Sent
<1>6. 1 \in Answered(e, r) <=> f.kind = "response" /\ f.request = r
  BY <1>2, <1>3 DEF Answered, At
<1>7. CASE 1 \in Answered(e, r)
  <2>1. pending'[e] = pending[e] \ {r}
    BY <1>1, <1>6, <1>7 DEF Delivers
  <2>2. Lone(Answered(e, r)) => Answered(e, r)' = {}
    BY <1>2, <1>3, <1>7, AtTail DEF Answered
  <2>3. ASSUME NEW st \in Stage, StageIs(e, r, st)
        PROVE  st = "answered" /\ StageIs(e, r, "settled")'
    <3>1. st = "answered"
      BY <1>7, <2>3 DEF StageIs
    <3>2. QED
      BY <1>2, <1>4, <1>5, <2>1, <2>2, <2>3, <3>1 DEF StageIs
  <2>4. QED
    BY <2>3 DEF Moves, Stage, R!Advance
<1>8. CASE 1 \notin Answered(e, r)
  <2>1. SameBooks(e, r)
    BY <1>1, <1>2, <1>6, <1>8 DEF Delivers, SameBooks
  <2>2. /\ Answered(e, r) = {} => Answered(e, r)' = {}
        /\ Lone(Answered(e, r)) => Lone(Answered(e, r)')
    BY <1>2, <1>3, <1>8, AtTail DEF Answered
  <2>3. QED
    BY <1>4, <1>5, <2>1, <2>2, PlacesStay
<1>9. QED
  BY <1>7, <1>8

\* A call arrives: it waits for the root, starts a handler, or is answered.
LEMMA DeliverStarts ==
    ASSUME StageInv, NEW e \in End, NEW r \in Nat \ {0}, Deliver(Peer(e))
    PROVE  Moves(e, r)
<1> DEFINE p == Peer(e)
           f == Next1(p)
<1>1. p \in End /\ p # e /\ Peer(p) = e
  BY OtherEnd
<1>2. PICK reply : Delivers(p, reply)
  BY <1>1, DeliverDoes
<1>3. /\ wire[e] # <<>> /\ wire \in [End -> Seq(Frame)]
      /\ pendingRoot[p] \in Seq(Frame) /\ f = Head(wire[e]) /\ f \in Frame
      /\ wire' = [wire EXCEPT ![e] = Tail(@), ![p] = @ \o reply]
      /\ reply \in Seq(Frame)
      /\ UNCHANGED <<nextRequest, pending[e]>>
  BY <1>1, <1>2, DeliverDoes, Next1Type DEF StageInv, TypeOK, Delivers, Receive, Next1
<1>4. /\ wire'[e] = Tail(wire[e]) /\ wire'[p] = wire[p] \o reply
      /\ wire[e] \in Seq(Frame) /\ wire[p] \in Seq(Frame)
  BY <1>1, <1>3
<1>5. SameBooks(e, r)
  BY <1>3 DEF SameBooks
<1>6. 1 \in Sent(e, r) <=> f.kind = "call" /\ f.request = r
  BY <1>3, <1>4 DEF Sent, At
<1> HIDE DEF f
<1>7. /\ 1 \notin Sent(e, r) => At(<<f>>, "call", r) = {}
      /\ 1 \in Sent(e, r) => Lone(At(<<f>>, "call", r))
  BY <1>6, AtOne
<1>8. <<f>> \in Seq(Frame) /\ Append(pendingRoot[p], f) = pendingRoot[p] \o <<f>>
  <2>1. f \in Frame
    BY <1>3
  <2>2. <<f>> \in Seq(Frame)
    BY <2>1
  <2>3. QED
    BY <1>3, <2>1, <2>2, AppendIsConcat
<1>9. /\ pendingRoot'[p] = pendingRoot[p] => Parked(e, r)' = Parked(e, r)
      /\ tasks'[p] = tasks[p] => Running(e, r)' = Running(e, r)
      /\ At(reply, "response", r) = {} => Answered(e, r)' = Answered(e, r)
      /\ reply = <<>> => At(reply, "response", r) = {}
      /\ Answered(e, r) = {} /\ Lone(At(reply, "response", r)) => Lone(Answered(e, r)')
  <2> DEFINE w == wire[p]
  <2> HIDE DEF w
  <2>1. /\ w \in Seq(Frame) /\ Answered(e, r) = At(w, "response", r)
        /\ Answered(e, r)' = At(w \o reply, "response", r)
    BY <1>4 DEF Answered, w
  <2>2. /\ At(reply, "response", r) = {} => Answered(e, r)' = Answered(e, r)
        /\ Answered(e, r) = {} /\ Lone(At(reply, "response", r)) => Lone(Answered(e, r)')
    BY <1>3, <2>1, AtConcat
  <2>3. reply = <<>> => At(reply, "response", r) = {}
    BY AtOne
  <2>4. QED
    BY <2>1, <2>2, <2>3 DEF Parked, Running
<1>10. pendingRoot'[p] = Append(pendingRoot[p], f) =>
         /\ 1 \notin Sent(e, r) => Parked(e, r)' = Parked(e, r)
         /\ 1 \in Sent(e, r) /\ Parked(e, r) = {} => Lone(Parked(e, r)')
  <2> DEFINE q == pendingRoot[p]
  <2> HIDE DEF q
  <2> SUFFICES ASSUME pendingRoot'[p] = q \o <<f>>
               PROVE  /\ 1 \notin Sent(e, r) => Parked(e, r)' = Parked(e, r)
                      /\ 1 \in Sent(e, r) /\ Parked(e, r) = {} => Lone(Parked(e, r)')
    BY <1>8 DEF q
  <2>1. /\ q \in Seq(Frame) /\ Parked(e, r) = At(q, "call", r)
        /\ Parked(e, r)' = At(q \o <<f>>, "call", r)
    BY <1>3 DEF Parked, q
  <2> DEFINE fs == <<f>>
  <2>2. /\ fs \in Seq(Frame)
        /\ 1 \notin Sent(e, r) => At(fs, "call", r) = {}
        /\ 1 \in Sent(e, r) => Lone(At(fs, "call", r))
        /\ Parked(e, r)' = At(q \o fs, "call", r)
    BY <1>7, <1>8, <2>1
  <2> HIDE DEF fs
  <2>3. QED
    BY <2>1, <2>2, AtConcat
<1>11. CASE 1 \notin Sent(e, r)
  <2>1. /\ Sent(e, r) = {} => Sent(e, r)' = {}
        /\ Lone(Sent(e, r)) => Lone(Sent(e, r)')
    BY <1>3, <1>4, <1>11, AtTail DEF Sent
  <2>2. Parked(e, r)' = Parked(e, r)
    BY <1>2, <1>9, <1>10, <1>11 DEF Delivers, f
  <2>3. Running(e, r)' = Running(e, r)
    <3>1. CASE f.kind = "call" /\ tasks'[p] = tasks[p] \cup {f}
      <4>1. f.request # r
        BY <1>6, <1>11, <3>1
      <4>2. QED
        BY <3>1, <4>1 DEF Running
    <3>2. CASE tasks'[p] = tasks[p]
      BY <1>9, <3>2
    <3>3. QED
      BY <1>2, <3>1, <3>2 DEF Delivers, f
  <2>4. At(reply, "response", r) = {}
    <3>1. ASSUME f.kind = "call", NEW ref, NEW ok, reply = Respond(p, f, ref, ok)
          PROVE  At(reply, "response", r) = {}
      <4>1. f.request # r
        BY <1>6, <1>11, <3>1
      <4>2. QED
        BY <3>1, <4>1, AtOne DEF Respond, Response
    <3>2. QED
      BY <1>2, <1>9, <3>1 DEF Delivers, f
  <2>5. QED
    BY <1>5, <1>9, <2>1, <2>2, <2>3, <2>4, PlacesStay
<1>12. CASE 1 \in Sent(e, r)
  <2>1. f.kind = "call" /\ f.request = r /\ r # 0
    BY <1>6, <1>12
  <2>2. Lone(Sent(e, r)) => Sent(e, r)' = {}
    BY <1>3, <1>4, <1>12, AtTail DEF Sent
  <2>3. ASSUME NEW st \in Stage, StageIs(e, r, st)
        PROVE  /\ st = "queued" /\ Parked(e, r) = {} /\ Sent(e, r)' = {}
               /\ Running(e, r) = {} /\ Answered(e, r) = {}
               /\ r \in pending'[e] /\ ~(r > nextRequest'[e])
    BY <1>5, <1>12, <2>2, <2>3 DEF StageIs, SameBooks, Lone
  <2>4. CASE UNCHANGED tasks[p] /\ reply = <<>> /\ pendingRoot'[p] = Append(pendingRoot[p], f)
    <3>1. ASSUME NEW st \in Stage, StageIs(e, r, st)
          PROVE  st = "queued" /\ StageIs(e, r, "queued")'
      BY <1>9, <1>10, <1>12, <2>3, <2>4, <3>1 DEF StageIs
    <3>2. QED
      BY <3>1 DEF Moves
  <2>5. CASE tasks'[p] = tasks[p] \cup {f} /\ reply = <<>> /\ UNCHANGED pendingRoot[p]
    <3>1. Running(e, r) = {} => Running(e, r)' = {f}
      BY <2>1, <2>5 DEF Running
    <3>2. ASSUME NEW st \in Stage, StageIs(e, r, st)
          PROVE  st = "queued" /\ StageIs(e, r, "running")'
      BY <1>9, <2>3, <2>5, <3>1, <3>2 DEF StageIs, Lone
    <3>3. QED
      BY <3>2 DEF Moves, Stage, R!Advance
  <2>6. ASSUME UNCHANGED <<tasks[p], pendingRoot[p]>>, NEW ref, NEW ok,
               reply = Respond(p, f, ref, ok)
        PROVE  Moves(e, r)
    <3>1. Lone(At(reply, "response", r))
      BY <2>1, <2>6, AtOne DEF Respond, Response
    <3>2. ASSUME NEW st \in Stage, StageIs(e, r, st)
          PROVE  st = "queued" /\ StageIs(e, r, "answered")'
      BY <1>9, <2>3, <2>6, <3>1, <3>2 DEF StageIs
    <3>3. QED
      BY <3>2 DEF Moves, Stage, R!Advance
  <2>7. QED
    BY <1>2, <2>1, <2>4, <2>5, <2>6 DEF Delivers, f
<1>13. QED
  BY <1>11, <1>12

\* Every step leaves every request where it is or advances it.
LEMMA StepMoves ==
    ASSUME StageInv, [Next]_vars, NEW e \in End, NEW r \in Nat \ {0}
    PROVE  Moves(e, r)
<1>1. CASE UNCHANGED vars
  BY <1>1, StillMoves DEF vars, homeVars, callVars
<1>2. ASSUME NEW x \in End, Deliver(x)
      PROVE  Moves(e, r)
  BY <1>2, OtherEnd, DeliverSettles, DeliverStarts
<1>3. QED
  BY <1>1, <1>2, HomeStepMoves, RemoteStepMoves DEF Next

\* A step queues only calls and subscribes for a root.
LEMMA StepQueues ==
    ASSUME StageInv, [Next]_vars
    PROVE  RootQueues'
<1>1. pendingRoot \in [End -> Seq(Frame)]
  BY DEF StageInv, TypeOK
<1>2. CASE UNCHANGED pendingRoot
  BY <1>2 DEF StageInv, RootQueues
<1>3. ASSUME NEW x \in End, pendingRoot' = [pendingRoot EXCEPT ![x] = <<>>]
      PROVE  RootQueues'
  <2>1. DOMAIN <<>> = {}
    OBVIOUS
  <2>2. QED
    BY <1>1, <1>3, <2>1 DEF StageInv, RootQueues
<1>4. ASSUME NEW x \in End, Deliver(x)
      PROVE  RootQueues'
  <2>1. PICK reply : Delivers(x, reply)
    BY <1>4, DeliverDoes
  <2>2. /\ Next1(x) \in Frame /\ pendingRoot[x] \in Seq(Frame)
        /\ \A e \in End : e # x => pendingRoot'[e] = pendingRoot[e]
    <3>1. Next1(x) \in Frame
      BY <1>4, Next1Type DEF StageInv, TypeOK, Deliver
    <3>2. \A e \in End : e # x => e = Peer(x)
      BY OtherEnd
    <3>3. QED
      BY <1>1, <2>1, <3>1, <3>2 DEF Delivers
  <2>3. ASSUME Next1(x).kind \in {"call", "subscribe"},
               pendingRoot'[x] = Append(pendingRoot[x], Next1(x))
        PROVE  RootQueues'
    <3> DEFINE f == Next1(x)
               q == pendingRoot[x]
    <3> HIDE DEF f, q
    <3>1. f \in Frame /\ q \in Seq(Frame) /\ pendingRoot'[x] = Append(q, f)
      BY <2>2, <2>3 DEF f, q
    <3>2. \A i \in DOMAIN Append(q, f) : \/ i \in DOMAIN q /\ Append(q, f)[i] = q[i]
                                         \/ Append(q, f)[i] = f
      BY <3>1
    <3>3. \A i \in DOMAIN q : q[i].kind \in {"call", "subscribe"}
      BY DEF StageInv, RootQueues, q
    <3>4. \A i \in DOMAIN pendingRoot'[x] : pendingRoot'[x][i].kind \in {"call", "subscribe"}
      BY <2>3, <3>1, <3>2, <3>3 DEF f
    <3>5. QED
      BY <2>2, <3>4 DEF StageInv, RootQueues
  <2>4. CASE pendingRoot'[x] = pendingRoot[x]
    <3>1. \A e \in End : pendingRoot'[e] = pendingRoot[e]
      BY <2>2, <2>4
    <3>2. QED
      BY <3>1 DEF StageInv, RootQueues
  <2>5. QED
    BY <2>1, <2>3, <2>4 DEF Delivers
<1>5. ASSUME NEW x \in End, HomeStep(x)
      PROVE  RootQueues'
  <2>1. ASSUME NEW async, ShareRoot(x, async)
        PROVE  pendingRoot' = [pendingRoot EXCEPT ![x] = <<>>]
    BY <2>1 DEF ShareRoot
  <2>2. QED
    BY <1>2, <1>3, <1>5, <2>1
       DEF HomeStep, Share, DropEntity, Change, FlushNotify, FinishTask
<1>6. ASSUME NEW x \in End, RemoteStep(x)
      PROVE  UNCHANGED pendingRoot
  BY <1>6 DEF RemoteStep, Connect, Reconnect, CloneRemote, DropRemote, Observe,
              CallMethod, DrainReleases, homeVars
<1>7. QED
  BY <1>2, <1>4, <1>5, <1>6 DEF Next, vars, homeVars

LEMMA StageInit == Init => StageInv
<1> SUFFICES ASSUME Init PROVE StageInv
  OBVIOUS
<1>1. TypeOK
  BY InitType
<1>2. DOMAIN <<>> = {}
  OBVIOUS
<1>3. \A e \in End : /\ pendingRoot[e] = <<>> /\ wire[e] = <<>> /\ tasks[e] = {}
                     /\ pending[e] = {} /\ nextRequest[e] = 0
  BY DEF Init
<1>4. ASSUME NEW e \in End, NEW r \in Nat \ {0}
      PROVE  StageIs(e, r, "idle")
  <2>1. Peer(e) \in End
    BY PeerType
  <2>2. /\ Parked(e, r) = {} /\ Sent(e, r) = {} /\ Answered(e, r) = {}
        /\ Running(e, r) = {}
    BY <1>2, <1>3, <2>1 DEF Parked, Sent, Answered, Running, At
  <2>3. QED
    BY <1>3, <2>2 DEF StageIs
<1>5. RootQueues
  BY <1>2, <1>3 DEF RootQueues
<1>6. QED
  BY <1>1, <1>4, <1>5 DEF StageInv, Staged, Stage

LEMMA StepKeepsStages == StageInv /\ [Next]_vars => StageInv'
<1> SUFFICES ASSUME StageInv, [Next]_vars PROVE StageInv'
  OBVIOUS
<1>1. TypeOK'
  BY StepType DEF StageInv
<1>2. ASSUME NEW e \in End, NEW r \in Nat \ {0}
      PROVE  \E st \in Stage : StageIs(e, r, st)'
  BY StepMoves DEF StageInv, Staged, Moves
<1>3. Staged'
  BY <1>2 DEF Staged, Stage
<1>4. QED
  BY <1>1, <1>3, StepQueues DEF StageInv

LEMMA StagedAlways == Spec => []StageInv
  BY StepKeepsStages, StageInit, PTL DEF Spec

\* The stage of a request says where it is, and that it is nowhere else.
LEMMA StagePlaces ==
    ASSUME TypeOK, NEW e \in End, NEW r \in Nat \ {0}, NEW st \in Stage,
           StageIs(e, r, st)
    PROVE  /\ st = "queued" => \E z : CallPlaces(e, r) = {<<"call", z>>}
           /\ st = "running" => \E z : CallPlaces(e, r) = {<<"task", z>>}
           /\ st = "answered" => \E z : CallPlaces(e, r) = {<<"response", z>>}
           /\ st \in {"idle", "settled"} => CallPlaces(e, r) = {}
<1> DEFINE C == At(InFlight(e), "call", r)
           T == Running(e, r)
           A == Answered(e, r)
<1>1. /\ IF st = "queued" THEN Lone(C) ELSE C = {}
      /\ IF st = "running" THEN Lone(T) ELSE T = {}
      /\ IF st = "answered" THEN Lone(A) ELSE A = {}
  <2>1. Peer(e) \in End
    BY PeerType
  <2>2. pendingRoot[Peer(e)] \in Seq(Frame) /\ wire[e] \in Seq(Frame)
    BY <2>1 DEF TypeOK
  <2>3. /\ Sent(e, r) = {} => C = Parked(e, r)
        /\ Parked(e, r) = {} /\ Lone(Sent(e, r)) => Lone(C)
        /\ Parked(e, r) = {} /\ Sent(e, r) = {} => C = {}
    BY <2>2, AtConcat DEF InFlight, Parked, Sent
  <2> HIDE DEF C, T, A
  <2>4. QED
    BY <2>3 DEF StageIs, T, A
<1>2. CallPlaces(e, r) = {<<"call", i>> : i \in C} \cup {<<"task", i>> : i \in T}
                            \cup {<<"response", i>> : i \in A}
  BY DEF CallPlaces, At, Running, Answered
<1> HIDE DEF C, T, A
<1>3. CASE st = "queued"
  BY <1>1, <1>2, <1>3 DEF Lone
<1>4. CASE st = "running"
  BY <1>1, <1>2, <1>4 DEF Lone
<1>5. CASE st = "answered"
  BY <1>1, <1>2, <1>5 DEF Lone
<1>6. CASE st \in {"idle", "settled"}
  BY <1>1, <1>2, <1>6
<1>7. QED
  BY <1>3, <1>4, <1>5, <1>6 DEF Stage

\* Every call with an open receipt is queued, or with its handler, or answered,
\* in one place; a settled one is nowhere: whatever is queued for a root,
\* spawned, rejected or released meanwhile, no request of either end is lost,
\* run twice or answered twice.
THEOREM RequestsKept == Spec => []RequestsAccounted
<1>1. StageInv => RequestsAccounted
  <2> SUFFICES ASSUME StageInv, NEW e \in End, NEW r \in 1 .. nextRequest[e]
               PROVE  Cardinality(CallPlaces(e, r)) = IF r \in pending[e] THEN 1 ELSE 0
    BY DEF RequestsAccounted
  <2>1. TypeOK /\ r \in Nat \ {0} /\ r <= nextRequest[e] /\ nextRequest[e] \in Nat
    BY DEF StageInv, TypeOK
  <2>2. PICK st \in Stage : StageIs(e, r, st)
    BY <2>1 DEF StageInv, Staged
  <2>3. st # "idle" /\ (r \in pending[e] <=> st # "settled")
    BY <2>1, <2>2 DEF StageIs, Stage
  <2>4. CASE st = "settled"
    BY <2>1, <2>2, <2>3, <2>4, StagePlaces, FS_EmptySet
  <2>5. CASE st # "settled"
    <3>1. \E x : CallPlaces(e, r) = {x}
      BY <2>1, <2>2, <2>3, <2>5, StagePlaces DEF Stage
    <3>2. QED
      BY <2>3, <2>5, <3>1, FS_Singleton
  <2>6. QED
    BY <2>4, <2>5
<1>2. QED
  BY <1>1, StagedAlways, PTL

\* The stage that the refinement mapping reads off a request.
LEMMA StageRead ==
    ASSUME TypeOK, NEW e \in End, NEW r \in Nat \ {0}, NEW st \in Stage,
           StageIs(e, r, st)
    PROVE  StageOf(e, r) = st
<1>0. /\ st = "queued" => \E z : CallPlaces(e, r) = {<<"call", z>>}
      /\ st = "running" => \E z : CallPlaces(e, r) = {<<"task", z>>}
      /\ st = "answered" => \E z : CallPlaces(e, r) = {<<"response", z>>}
  <2>1. TypeOK /\ e \in End /\ r \in Nat \ {0} /\ st \in Stage /\ StageIs(e, r, st)
    OBVIOUS
  <2>2. CASE st = "queued"
    BY <2>1, <2>2, StagePlaces
  <2>3. CASE st = "running"
    BY <2>1, <2>3, StagePlaces
  <2>4. CASE st = "answered"
    BY <2>1, <2>4, StagePlaces
  <2>5. QED
    BY <2>2, <2>3, <2>4
<1> DEFINE kinds == {x[1] : x \in CallPlaces(e, r)}
<1>1. /\ st = "queued" => kinds = {"call"}
      /\ st = "running" => kinds = {"task"}
      /\ st = "answered" => kinds = {"response"}
  <2>1. ASSUME NEW k, NEW z, CallPlaces(e, r) = {<<k, z>>}
        PROVE  kinds = {k}
    <3>1. kinds = {<<k, z>>[1]}
      BY <2>1
    <3>2. QED
      BY <3>1
  <2> HIDE DEF kinds
  <2>2. QED
    BY <1>0, <2>1, Zenon
<1>2. /\ nextRequest[e] \in Nat
      /\ r > nextRequest[e] <=> st = "idle"
      /\ r \in pending[e] <=> st \in {"queued", "running", "answered"}
  BY DEF StageIs, TypeOK
<1>3. StageOf(e, r) =
         CASE r > nextRequest[e] -> "idle"
           [] r <= nextRequest[e] /\ r \notin pending[e] -> "settled"
           [] r \in pending[e] /\ kinds = {"call"} -> "queued"
           [] r \in pending[e] /\ kinds = {"task"} -> "running"
           [] r \in pending[e] /\ kinds = {"response"} -> "answered"
           [] OTHER -> "lost"
  BY DEF StageOf
<1> HIDE DEF kinds
<1>4. kinds = {"call"} => kinds # {"task"} /\ kinds # {"response"}
  OBVIOUS
<1>5. kinds = {"task"} => kinds # {"response"}
  OBVIOUS
<1>6. CASE st = "idle"
  BY <1>2, <1>3, <1>6
<1>7. CASE st = "settled"
  BY <1>2, <1>3, <1>7
<1>8. CASE st = "queued"
  BY <1>1, <1>2, <1>3, <1>4, <1>8
<1>9. CASE st = "running"
  BY <1>1, <1>2, <1>3, <1>4, <1>5, <1>9
<1>10. CASE st = "answered"
  BY <1>1, <1>2, <1>3, <1>4, <1>5, <1>10
<1>11. QED
  BY <1>6, <1>7, <1>8, <1>9, <1>10 DEF Stage

LEMMA StageReadNext ==
    ASSUME NEW e \in End, NEW r \in Nat \ {0}, NEW st \in Stage
    PROVE  (TypeOK /\ StageIs(e, r, st) => StageOf(e, r) = st)'
<1>1. TypeOK /\ StageIs(e, r, st) => StageOf(e, r) = st
  BY StageRead
<1>2. QED
  BY <1>1, PTL

\* The registry keeps the promise of a Receipt to both ends: whatever happens
\* at them and on the wires, each call moves forward through the stages of
\* Receipts, one at a time, and never back or out of them.
THEOREM ReceiptsKept == Spec => ReceiptsSpec
<1> DEFINE stage == [e \in End |-> [r \in 1 .. MaxRequests |-> StageOf(e, r)]]
<1>1. ASSUME Init
      PROVE  R!Init
  <2>1. StageInv /\ \A e \in End : nextRequest[e] = 0
    BY <1>1, StageInit DEF Init
  <2>2. ASSUME NEW e \in End, NEW r \in 1 .. MaxRequests
        PROVE  StageOf(e, r) = "idle"
    <3>1. TypeOK /\ r \in Nat \ {0} /\ r > nextRequest[e]
      BY <2>1, BoundsAssumption DEF StageInv
    <3>2. PICK st \in Stage : StageIs(e, r, st)
      BY <2>1, <3>1 DEF StageInv, Staged
    <3>3. st = "idle"
      BY <3>1, <3>2 DEF StageIs
    <3>4. QED
      BY <3>1, <3>2, <3>3, StageRead
  <2>3. QED
    BY <2>2 DEF R!Init
<1>2. ASSUME StageInv, StageInv', [Next]_vars
      PROVE  R!Next
  <2>1. ASSUME NEW e \in End, NEW r \in 1 .. MaxRequests
        PROVE  \/ StageOf(e, r)' = StageOf(e, r)
               \/ <<StageOf(e, r), StageOf(e, r)'>> \in R!Advance
    <3>1. TypeOK /\ TypeOK' /\ r \in Nat \ {0}
      BY <1>2, BoundsAssumption DEF StageInv
    <3>2. PICK st \in Stage : StageIs(e, r, st)
      BY <1>2, <3>1 DEF StageInv, Staged
    <3>3. Moves(e, r)
      BY <1>2, <3>1, StepMoves
    <3>4. PICK st2 \in Stage : /\ StageIs(e, r, st2)'
                               /\ st2 = st \/ <<st, st2>> \in R!Advance
      BY <3>2, <3>3 DEF Moves
    <3>5. StageOf(e, r) = st
      BY <3>1, <3>2, StageRead
    <3>6. StageOf(e, r)' = st2
      BY <3>1, <3>4, StageReadNext
    <3>7. QED
      BY <3>4, <3>5, <3>6
  <2>2. QED
    BY <2>1 DEF R!Next
<1>3. QED
  BY <1>1, <1>2, StagedAlways, PTL DEF Spec, ReceiptsSpec, R!Spec
-----------------------------------------------------------------------------
(***************************************************************************)
(* The order of the calls in flight.                                       *)
(***************************************************************************)
\* A call that some end made: no $notify.
Asks(f) == f.kind = "call" /\ f.request > 0

\* The calls in s are in the order of their requests, none above n.
Sorted(s, n) ==
    /\ \A i, j \in DOMAIN s : i < j /\ Asks(s[i]) /\ Asks(s[j])
                              => s[i].request <= s[j].request
    /\ \A i \in DOMAIN s : Asks(s[i]) => s[i].request <= n

\* The calls in s were made before those in t.
Before(s, t) == \A i \in DOMAIN s, j \in DOMAIN t :
                   Asks(s[i]) /\ Asks(t[j]) => s[i].request <= t[j].request

\* A queue is for the root, and only until there is one.
QueueFirst ==
    \A e \in End : /\ \A i \in DOMAIN pendingRoot[e] : pendingRoot[e][i].target = Root
                   /\ homes[e][Root] # "absent" => pendingRoot[e] = <<>>

\* The calls of e are in order in the queue of the other end, on the wire, and
\* from the one to the other.
InOrderAt(e) == /\ Sorted(pendingRoot[Peer(e)], nextRequest[e])
                /\ Sorted(wire[e], nextRequest[e])
                /\ Before(pendingRoot[Peer(e)], wire[e])

OrderInv == StageInv /\ QueueFirst /\ \A e \in End : InOrderAt(e)

\* What a sequence with some frames more, or one fewer, holds.
LEMMA ConcatAt ==
    ASSUME NEW s \in Seq(Frame), NEW t \in Seq(Frame)
    PROVE  /\ \A i \in DOMAIN s : i \in DOMAIN (s \o t) /\ (s \o t)[i] = s[i]
           /\ \A i \in DOMAIN (s \o t) :
                 \/ i \in DOMAIN s /\ (s \o t)[i] = s[i]
                 \/ \E j \in DOMAIN t : i = Len(s) + j /\ (s \o t)[i] = t[j]
           /\ \A j \in DOMAIN t : Len(s) + j \in DOMAIN (s \o t) /\ (s \o t)[Len(s) + j] = t[j]
           /\ Len(s) \in Nat
           /\ \A i \in DOMAIN s : i \in Nat /\ i <= Len(s)
           /\ \A i \in DOMAIN t : i \in Nat /\ i > 0
<1>1. /\ Len(s) \in Nat /\ DOMAIN s = 1 .. Len(s) /\ DOMAIN t = 1 .. Len(t) /\ Len(t) \in Nat
      /\ DOMAIN (s \o t) = 1 .. Len(s) + Len(t)
      /\ \A i \in 1 .. Len(s) + Len(t) :
            (s \o t)[i] = IF i <= Len(s) THEN s[i] ELSE t[i - Len(s)]
  BY ConcatProperties
<1> DEFINE u == s \o t
           m == Len(s)
           k == Len(t)
<1> HIDE DEF u, m, k
<1>2. /\ m \in Nat /\ k \in Nat /\ DOMAIN s = 1 .. m /\ DOMAIN t = 1 .. k
      /\ DOMAIN u = 1 .. m + k
      /\ \A i \in 1 .. m + k : u[i] = IF i <= m THEN s[i] ELSE t[i - m]
  BY <1>1 DEF u, m, k
<1>3. \A i \in DOMAIN u : \/ i \in DOMAIN s /\ u[i] = s[i]
                          \/ i - m \in DOMAIN t /\ i = m + (i - m) /\ u[i] = t[i - m]
  BY <1>2, SMTT(20)
<1>4. \A j \in DOMAIN t : m + j \in DOMAIN u /\ u[m + j] = t[j]
  BY <1>2, SMTT(20)
<1>5. QED
  BY <1>2, <1>3, <1>4 DEF u, m, k

LEMMA TailAt ==
    ASSUME NEW s \in Seq(Frame), s # <<>>
    PROVE  /\ 1 \in DOMAIN s /\ Head(s) = s[1] /\ Head(s) \in Frame /\ Tail(s) \in Seq(Frame)
           /\ \A i \in DOMAIN Tail(s) : i \in Nat /\ i > 0 /\ i + 1 \in DOMAIN s /\ Tail(s)[i] = s[i + 1]
           /\ \A i \in DOMAIN s : i \in Nat /\ (i = 1 \/ (i - 1 \in DOMAIN Tail(s) /\ Tail(s)[i - 1] = s[i]))
  BY HeadTailProperties

\* Frames that are no calls change nothing.
LEMMA SortedQuiet ==
    ASSUME NEW s \in Seq(Frame), NEW n \in Nat, NEW fs \in Seq(Frame),
           \A i \in DOMAIN fs : ~Asks(fs[i]), NEW q
    PROVE  /\ Sorted(s, n) => Sorted(s \o fs, n)
           /\ Before(q, s) => Before(q, s \o fs)
<1> DEFINE u == s \o fs
<1>1. \A i \in DOMAIN u : Asks(u[i]) => i \in DOMAIN s /\ u[i] = s[i]
  BY ConcatAt
<1> HIDE DEF u
<1>2. QED
  BY <1>1 DEF Sorted, Before, u

\* A call made now is the last.
LEMMA SortedCall ==
    ASSUME NEW s \in Seq(Frame), NEW n \in Nat, NEW f \in Frame, f.request = n + 1,
           Sorted(s, n), NEW q \in Seq(Frame), Sorted(q, n), Before(q, s)
    PROVE  Sorted(s \o <<f>>, n + 1) /\ Sorted(q, n + 1) /\ Before(q, s \o <<f>>)
<1> DEFINE fs == <<f>>
           u == s \o fs
<1>1. fs \in Seq(Frame) /\ DOMAIN fs = {1} /\ fs[1] = f
  OBVIOUS
<1> HIDE DEF fs
<1>2. /\ Len(s) \in Nat /\ \A i \in DOMAIN s : i \in Nat /\ i <= Len(s)
      /\ \A i \in DOMAIN u : \/ i \in DOMAIN s /\ u[i] = s[i]
                             \/ i = Len(s) + 1 /\ u[i] = f
  BY <1>1, ConcatAt, SMTT(20)
<1>3. /\ \A i \in DOMAIN s : s[i] \in Frame /\ s[i].request \in Nat
      /\ \A i \in DOMAIN q : q[i] \in Frame /\ q[i].request \in Nat
      /\ \A i \in DOMAIN s : Asks(s[i]) => s[i].request <= n
      /\ \A i \in DOMAIN q : Asks(q[i]) => q[i].request <= n
  BY FrameFields DEF Sorted
<1> HIDE DEF u
<1>4. \A i \in DOMAIN u : Asks(u[i]) => u[i].request <= n + 1
  BY <1>2, <1>3
<1>5. ASSUME NEW i \in DOMAIN u, NEW j \in DOMAIN u, i < j, Asks(u[i]), Asks(u[j])
      PROVE  u[i].request <= u[j].request
  <2>1. i \in DOMAIN s /\ u[i] = s[i]
    BY <1>2, <1>5
  <2>2. CASE j \in DOMAIN s /\ u[j] = s[j]
    BY <1>5, <2>1, <2>2 DEF Sorted
  <2>3. CASE u[j] = f
    BY <1>3, <1>5, <2>1, <2>3
  <2>4. QED
    BY <1>2, <2>2, <2>3
<1>6. Before(q, u)
  <2> SUFFICES ASSUME NEW i \in DOMAIN q, NEW j \in DOMAIN u, Asks(q[i]), Asks(u[j])
               PROVE  q[i].request <= u[j].request
    BY DEF Before
  <2>1. CASE j \in DOMAIN s /\ u[j] = s[j]
    BY <2>1 DEF Before
  <2>2. CASE u[j] = f
    BY <1>3, <2>2
  <2>3. QED
    BY <1>2, <2>1, <2>2
<1>7. Sorted(q, n + 1)
  BY <1>3 DEF Sorted
<1>8. QED
  BY <1>1, <1>4, <1>5, <1>6, <1>7 DEF Sorted, u, fs

\* What leaves the head of s leaves the rest in order, and may join the queue q.
LEMMA SortedMove ==
    ASSUME NEW s \in Seq(Frame), s # <<>>, NEW n \in Nat, Sorted(s, n),
           NEW q \in Seq(Frame), Sorted(q, n), Before(q, s)
    PROVE  /\ Sorted(Tail(s), n) /\ Before(q, Tail(s))
           /\ Sorted(Append(q, Head(s)), n) /\ Before(Append(q, Head(s)), Tail(s))
<1> DEFINE f == Head(s)
           t == Tail(s)
           fs == <<f>>
           u == q \o fs
<1>1. /\ 1 \in DOMAIN s /\ f = s[1] /\ f \in Frame
      /\ \A i \in DOMAIN t : i \in Nat /\ i > 0 /\ i + 1 \in DOMAIN s /\ t[i] = s[i + 1]
  BY TailAt
<1>2. fs \in Seq(Frame) /\ DOMAIN fs = {1} /\ fs[1] = f /\ Append(q, f) = u
  BY <1>1, AppendIsConcat
<1> HIDE DEF f, t, fs
<1>3. /\ Len(q) \in Nat /\ \A i \in DOMAIN q : i \in Nat /\ i <= Len(q)
      /\ \A i \in DOMAIN u : \/ i \in DOMAIN q /\ u[i] = q[i]
                             \/ i = Len(q) + 1 /\ u[i] = f
  BY <1>2, ConcatAt
<1> HIDE DEF u
<1>4. Sorted(t, n) /\ Before(q, t)
  <2>1. \A i, j \in DOMAIN t : i < j => i + 1 < j + 1
    BY <1>1
  <2>2. QED
    BY <1>1, <2>1 DEF Sorted, Before
<1>5. Sorted(u, n)
  <2>1. \A i \in DOMAIN u : Asks(u[i]) => u[i].request <= n
    BY <1>1, <1>3 DEF Sorted
  <2>2. ASSUME NEW i \in DOMAIN u, NEW j \in DOMAIN u, i < j, Asks(u[i]), Asks(u[j])
        PROVE  u[i].request <= u[j].request
    <3>1. i \in DOMAIN q /\ u[i] = q[i]
      BY <1>3, <2>2
    <3>2. CASE j \in DOMAIN q /\ u[j] = q[j]
      BY <2>2, <3>1, <3>2 DEF Sorted
    <3>3. CASE u[j] = f
      BY <1>1, <2>2, <3>1, <3>3 DEF Before
    <3>4. QED
      BY <1>3, <3>2, <3>3
  <2>3. QED
    BY <2>1, <2>2 DEF Sorted
<1>6. Before(u, t)
  <2> SUFFICES ASSUME NEW i \in DOMAIN u, NEW j \in DOMAIN t, Asks(u[i]), Asks(t[j])
               PROVE  u[i].request <= t[j].request
    BY DEF Before
  <2>1. CASE i \in DOMAIN q /\ u[i] = q[i]
    BY <1>4, <2>1 DEF Before
  <2>2. CASE u[i] = f
    <3>1. 1 < j + 1 /\ j + 1 \in DOMAIN s /\ t[j] = s[j + 1] /\ 1 \in DOMAIN s /\ f = s[1]
      BY <1>1
    <3>2. QED
      BY <2>2, <3>1 DEF Sorted
  <2>3. QED
    BY <1>3, <2>1, <2>2
<1>7. QED
  BY <1>2, <1>4, <1>5, <1>6 DEF f, t

\* How a step moves the calls that e has in flight: it adds to them, answers
\* the whole queue, moves the oldest frame from the wire into the queue, or
\* takes it off the wire, past the queue only if it is no call to a root.
Grows(e) ==
    /\ UNCHANGED pendingRoot[Peer(e)]
    /\ \E fs \in Seq(Frame) :
          /\ wire'[e] = wire[e] \o fs
          /\ \/ nextRequest'[e] = nextRequest[e] /\ \A i \in DOMAIN fs : ~Asks(fs[i])
             \/ \E f \in Frame : /\ fs = <<f>> /\ f.request = nextRequest[e] + 1
                                 /\ nextRequest'[e] = nextRequest[e] + 1

Empties(e) == /\ pendingRoot'[Peer(e)] = <<>>
              /\ UNCHANGED <<wire[e], nextRequest[e]>>

Queues(e) == /\ wire[e] # <<>> /\ wire'[e] = Tail(wire[e])
             /\ pendingRoot'[Peer(e)] = Append(pendingRoot[Peer(e)], Head(wire[e]))
             /\ UNCHANGED nextRequest[e]

Takes(e) == /\ wire[e] # <<>> /\ wire'[e] = Tail(wire[e])
            /\ UNCHANGED <<pendingRoot[Peer(e)], nextRequest[e]>>
            /\ \/ Head(wire[e]).kind # "call"
               \/ Head(wire[e]).target # Root
               \/ pendingRoot[Peer(e)] = <<>>

Flows(e) == Grows(e) \/ Empties(e) \/ Queues(e) \/ Takes(e)

LEMMA FlowKeepsOrder ==
    ASSUME TypeOK, NEW e \in End, InOrderAt(e), Flows(e)
    PROVE  InOrderAt(e)'
<1> DEFINE q == pendingRoot[Peer(e)]
           s == wire[e]
           n == nextRequest[e]
<1>1. q \in Seq(Frame) /\ s \in Seq(Frame) /\ n \in Nat
  BY PeerType DEF TypeOK
<1>2. Sorted(q, n) /\ Sorted(s, n) /\ Before(q, s)
  BY DEF InOrderAt
<1>3. ASSUME NEW q2, NEW s2, NEW n2, Sorted(q2, n2), Sorted(s2, n2), Before(q2, s2),
             pendingRoot'[Peer(e)] = q2, wire'[e] = s2, nextRequest'[e] = n2
      PROVE  InOrderAt(e)'
  BY <1>3 DEF InOrderAt
<1> HIDE DEF q, s, n
<1>4. CASE Grows(e)
  <2>1. PICK fs \in Seq(Frame) :
           /\ pendingRoot'[Peer(e)] = q /\ wire'[e] = s \o fs
           /\ \/ nextRequest'[e] = n /\ \A i \in DOMAIN fs : ~Asks(fs[i])
              \/ \E f \in Frame : /\ fs = <<f>> /\ f.request = n + 1
                                  /\ nextRequest'[e] = n + 1
    BY <1>4 DEF Grows, q, s, n
  <2>2. CASE nextRequest'[e] = n /\ \A i \in DOMAIN fs : ~Asks(fs[i])
    <3>1. Sorted(s \o fs, n) /\ Before(q, s \o fs)
      BY <1>1, <1>2, <2>2, SortedQuiet
    <3>2. QED
      BY <1>2, <1>3, <2>1, <2>2, <3>1
  <2>3. ASSUME NEW f \in Frame, fs = <<f>>, f.request = n + 1, nextRequest'[e] = n + 1
        PROVE  InOrderAt(e)'
    <3>1. Sorted(s \o <<f>>, n + 1) /\ Sorted(q, n + 1) /\ Before(q, s \o <<f>>)
      BY <1>1, <1>2, <2>3, SortedCall
    <3>2. wire'[e] = s \o <<f>>
      BY <2>1, <2>3
    <3>3. QED
      BY <1>3, <2>1, <2>3, <3>1, <3>2
  <2>4. QED
    BY <2>1, <2>2, <2>3
<1>5. CASE Empties(e)
  <2>1. DOMAIN <<>> = {}
    OBVIOUS
  <2>2. Sorted(<<>>, n) /\ Before(<<>>, s)
    BY <2>1 DEF Sorted, Before
  <2>3. pendingRoot'[Peer(e)] = <<>> /\ wire'[e] = s /\ nextRequest'[e] = n
    BY <1>5 DEF Empties, s, n
  <2>4. QED
    BY <1>2, <1>3, <2>2, <2>3
<1>6. CASE Queues(e) \/ Takes(e)
  <2>1. /\ s # <<>> /\ wire'[e] = Tail(s) /\ nextRequest'[e] = n
        /\ pendingRoot'[Peer(e)] \in {q, Append(q, Head(s))}
    BY <1>6 DEF Queues, Takes, q, s, n
  <2>2. /\ Sorted(Tail(s), n) /\ Before(q, Tail(s))
        /\ Sorted(Append(q, Head(s)), n) /\ Before(Append(q, Head(s)), Tail(s))
    BY <1>1, <1>2, <2>1, SortedMove
  <2>3. QED
    BY <1>2, <1>3, <2>1, <2>2
<1>7. QED
  BY <1>4, <1>5, <1>6 DEF Flows

\* Sending no call, or nothing at all, grows what is in flight.
LEMMA QuietGrows ==
    ASSUME TypeOK, NEW e \in End, NEW x \in End, NEW fs \in Seq(Frame), Send(x, fs),
           \A i \in DOMAIN fs : ~Asks(fs[i]), UNCHANGED <<nextRequest, pendingRoot[Peer(e)]>>
    PROVE  Grows(e)
<1>1. wire \in [End -> Seq(Frame)] /\ wire' = [wire EXCEPT ![x] = @ \o fs]
  BY DEF TypeOK, Send
<1>2. CASE x = e
  BY <1>1, <1>2 DEF Grows
<1>3. CASE x # e
  <2> DEFINE none == <<>>
             s == wire[e]
  <2> HIDE DEF s
  <2>1. /\ s \in Seq(Frame) /\ none \in Seq(Frame) /\ wire'[e] = s /\ s \o none = s
        /\ \A i \in DOMAIN none : ~Asks(none[i])
    BY <1>1, <1>3 DEF s
  <2> HIDE DEF none
  <2>2. QED
    BY <2>1 DEF Grows, s
<1>4. QED
  BY <1>2, <1>3

LEMMA StillGrows ==
    ASSUME TypeOK, NEW e \in End, UNCHANGED <<wire, nextRequest, pendingRoot>>
    PROVE  Grows(e)
<1> DEFINE none == <<>>
           s == wire[e]
<1> HIDE DEF s
<1>1. /\ s \in Seq(Frame) /\ none \in Seq(Frame) /\ s \o none = s
      /\ \A i \in DOMAIN none : ~Asks(none[i])
  BY DEF TypeOK, s
<1> HIDE DEF none
<1>2. QED
  BY <1>1 DEF Grows, s

LEMMA HomeStepFlows ==
    ASSUME StageInv, NEW e \in End, NEW x \in End, HomeStep(x)
    PROVE  Flows(e)
<1>1. TypeOK
  BY DEF StageInv
<1>2. ASSUME NEW a, NEW keepAlive, Share(x, a, keepAlive) \/ DropEntity(x, a) \/ Change(x, a)
      PROVE  Flows(e)
  <2>1. UNCHANGED <<wire, nextRequest, pendingRoot>>
    BY <1>2 DEF Share, DropEntity, Change, callVars
  <2>2. QED
    BY <1>1, <2>1, StillGrows DEF Flows
<1>3. ASSUME NEW a \in Addr, FlushNotify(x, a)
      PROVE  Flows(e)
  <2> DEFINE fs == IF Alive(x, a) THEN Notifications(x, a) ELSE <<>>
  <2>1. fs \in Seq(Frame)
    BY <1>1, NotificationsType
  <2>2. \A i \in DOMAIN fs : ~Asks(fs[i])
    BY DEF Notifications, Notify, Asks
  <2>3. Send(x, fs) /\ UNCHANGED <<nextRequest, pendingRoot>>
    BY <1>3 DEF FlushNotify, callVars
  <2> HIDE DEF fs
  <2>4. QED
    BY <1>1, <2>1, <2>2, <2>3, QuietGrows DEF Flows
<1>4. ASSUME NEW f \in tasks[x], NEW ref \in Id \cup {Nil}, FinishTask(x, f, ref)
      PROVE  Flows(e)
  <2> DEFINE fs == Respond(x, f, ref, TRUE)
  <2>1. fs \in Seq(Frame)
    BY <1>1, RespondType DEF TypeOK
  <2>2. \A i \in DOMAIN fs : ~Asks(fs[i])
    BY DEF Respond, Response, Asks
  <2>3. Send(x, fs) /\ UNCHANGED <<nextRequest, pendingRoot>>
    BY <1>4 DEF FinishTask, callVars
  <2> HIDE DEF fs
  <2>4. QED
    BY <1>1, <2>1, <2>2, <2>3, QuietGrows DEF Flows
<1>5. ASSUME NEW async, ShareRoot(x, async)
      PROVE  Flows(e)
  <2>1. PICK fs \in Seq(Frame) :
           /\ Send(x, fs)
           /\ \A i \in DOMAIN fs : \/ fs[i].kind = "response"
                                   \/ fs[i].kind = "call" /\ fs[i].request = 0 /\ ~fs[i].ok
    BY <1>1, <1>5, ShareRootSends
  <2>2. \A i \in DOMAIN fs : ~Asks(fs[i])
    BY <2>1 DEF Asks
  <2>3. /\ pendingRoot' = [pendingRoot EXCEPT ![x] = <<>>] /\ UNCHANGED nextRequest
        /\ pendingRoot \in [End -> Seq(Frame)] /\ wire \in [End -> Seq(Frame)]
        /\ Peer(e) \in End /\ Peer(e) # e /\ (x = e \/ x = Peer(e))
    BY <1>1, <1>5, OtherEnd DEF ShareRoot, TypeOK
  <2>4. CASE x = e
    BY <1>1, <2>1, <2>2, <2>3, <2>4, QuietGrows DEF Flows
  <2>5. CASE x = Peer(e)
    <3>1. pendingRoot'[Peer(e)] = <<>> /\ wire'[e] = wire[e]
      BY <2>1, <2>3, <2>5 DEF Send
    <3>2. QED
      BY <2>3, <3>1 DEF Flows, Empties
  <2>6. QED
    BY <2>3, <2>4, <2>5
<1>6. QED
  BY <1>2, <1>3, <1>4, <1>5 DEF HomeStep

LEMMA RemoteStepFlows ==
    ASSUME StageInv, NEW e \in End, NEW x \in End, RemoteStep(x)
    PROVE  Flows(e)
<1>1. TypeOK
  BY DEF StageInv
<1>2. ASSUME NEW a, Connect(x, a) \/ CloneRemote(x, a) \/ DropRemote(x, a)
      PROVE  Flows(e)
  <2>1. UNCHANGED <<wire, nextRequest, pendingRoot>>
    BY <1>2 DEF Connect, CloneRemote, DropRemote, homeVars, callVars
  <2>2. QED
    BY <1>1, <2>1, StillGrows DEF Flows
<1>3. ASSUME NEW f \in Frame, Send(x, <<f>>), f.kind # "call",
             UNCHANGED <<nextRequest, pendingRoot>>
      PROVE  Flows(e)
  <2> DEFINE fs == <<f>>
  <2>1. fs \in Seq(Frame) /\ (\A i \in DOMAIN fs : ~Asks(fs[i])) /\ Send(x, fs)
    BY <1>3 DEF Asks
  <2> HIDE DEF fs
  <2>2. QED
    BY <1>1, <1>3, <2>1, QuietGrows DEF Flows
<1>4. ASSUME NEW a \in Addr, Reconnect(x, a)
      PROVE  Flows(e)
  <2>1. Release(a) \in Frame /\ Release(a).kind # "call"
    BY FrameTypes DEF Release
  <2>2. Send(x, <<Release(a)>>) /\ UNCHANGED <<nextRequest, pendingRoot>>
    BY <1>4 DEF Reconnect, callVars
  <2>3. QED
    BY <1>3, <2>1, <2>2
<1>5. ASSUME DrainReleases(x)
      PROVE  Flows(e)
  <2>1. PICK fs \in Seq(Frame) :
           /\ Send(x, fs)
           /\ \A i \in DOMAIN fs : \E a \in releases[x] \cap projections[x] : fs[i] = Release(a)
    BY <1>1, <1>5, DrainSends
  <2>2. \A i \in DOMAIN fs : ~Asks(fs[i])
    BY <2>1 DEF Release, Asks
  <2>3. UNCHANGED <<nextRequest, pendingRoot>>
    BY <1>5 DEF DrainReleases, callVars
  <2>4. QED
    BY <1>1, <2>1, <2>2, <2>3, QuietGrows DEF Flows
<1>6. ASSUME NEW a \in Addr, NEW o \in Id, Observe(x, a, o)
      PROVE  Flows(e)
  <2>1. Subscribe(a, o) \in Frame /\ Subscribe(a, o).kind # "call"
    BY FrameTypes DEF Subscribe
  <2>2. Send(x, <<Subscribe(a, o)>>) /\ UNCHANGED <<nextRequest, pendingRoot>>
    BY <1>6 DEF Observe, callVars
  <2>3. QED
    BY <1>3, <2>1, <2>2
<1>7. ASSUME NEW a \in Addr, NEW ref \in Id \cup {Nil}, CallMethod(x, a, ref)
      PROVE  Flows(e)
  <2> DEFINE first == a \notin released[x]
             n == nextRequest'[x]
             f == Call(a, n, ref, first)
             fs == <<f>>
  <2>1. /\ n = nextRequest[x] + 1 /\ n \in Nat /\ UNCHANGED pendingRoot /\ Send(x, fs)
        /\ nextRequest' = [nextRequest EXCEPT ![x] = @ + 1]
        /\ nextRequest \in [End -> Nat]
        /\ wire \in [End -> Seq(Frame)] /\ wire[e] \in Seq(Frame)
        /\ wire' = [wire EXCEPT ![x] = @ \o fs]
    <3>1. /\ nextRequest' = [nextRequest EXCEPT ![x] = @ + 1] /\ Send(x, fs)
          /\ nextRequest \in [End -> Nat] /\ UNCHANGED pendingRoot
      BY <1>1, <1>7 DEF CallMethod, homeVars, TypeOK
    <3>2. n = nextRequest[x] + 1 /\ n \in Nat
      BY <3>1
    <3>3. wire \in [End -> Seq(Frame)]
      BY <1>1 DEF TypeOK
    <3>4. QED
      BY <3>1, <3>2, <3>3 DEF Send
  <2>2. first \in BOOLEAN
    OBVIOUS
  <2> HIDE DEF first, n
  <2>3. f \in Frame /\ f.request = n
    BY <2>1, <2>2, FrameTypes DEF Call
  <2> HIDE DEF f
  <2>4. fs \in Seq(Frame) /\ fs = <<f>>
    BY <2>3
  <2> HIDE DEF fs
  <2>5. CASE x = e
    <3>1. wire'[e] = wire[e] \o fs /\ nextRequest'[e] = nextRequest[e] + 1
      BY <2>1, <2>5
    <3>2. QED
      BY <2>1, <2>3, <2>4, <2>5, <3>1 DEF Flows, Grows
  <2>6. CASE x # e
    <3> DEFINE none == <<>>
               s == wire[e]
    <3> HIDE DEF s
    <3>1. /\ s \in Seq(Frame) /\ none \in Seq(Frame) /\ s \o none = s
          /\ wire'[e] = s /\ nextRequest'[e] = nextRequest[e]
          /\ \A i \in DOMAIN none : ~Asks(none[i])
      BY <2>1, <2>6 DEF s
    <3> HIDE DEF none
    <3>2. QED
      BY <2>1, <3>1 DEF Flows, Grows, s
  <2>7. QED
    BY <2>5, <2>6
<1>8. QED
  BY <1>2, <1>4, <1>5, <1>6, <1>7 DEF RemoteStep

\* A call to a root not yet installed can only be queued.
LEMMA RootCallWaits ==
    ASSUME NEW x \in End, Deliver(x), homes[x][Root] = "absent",
           Next1(x).kind = "call", Next1(x).target = Root
    PROVE  QueueRootCall(x)
  BY DEF Deliver, DeliverResponse, DeliverSubscribe, DeliverRelease, RejectCall, FireSignal,
         HandleCall, IsShared

LEMMA DeliverFlows ==
    ASSUME OrderInv, NEW e \in End, NEW x \in End, Deliver(x)
    PROVE  Flows(e)
<1>1. /\ StageInv /\ wire \in [End -> Seq(Frame)] /\ pendingRoot \in [End -> Seq(Frame)]
      /\ Peer(e) \in End /\ Peer(e) # e /\ Peer(Peer(e)) = e /\ (x = e \/ x = Peer(e))
  BY OtherEnd DEF OrderInv, StageInv, TypeOK
<1>2. PICK reply : Delivers(x, reply)
  BY <1>1, DeliverDoes
<1>3. /\ wire[Peer(x)] # <<>> /\ reply \in Seq(Frame) /\ UNCHANGED nextRequest
      /\ wire' = [wire EXCEPT ![Peer(x)] = Tail(@), ![x] = @ \o reply]
  BY <1>1, <1>2, DeliverDoes DEF Delivers, Receive
<1>4. CASE x = e
  <2>1. \A i \in DOMAIN reply : ~Asks(reply[i])
    <3>1. \A i \in DOMAIN reply : reply[i].request \in Nat
      BY <1>3, FrameFields
    <3>2. QED
      BY <1>2, <3>1 DEF Delivers, Asks, At
  <2>2. wire'[e] = wire[e] \o reply /\ UNCHANGED pendingRoot[Peer(e)]
    BY <1>1, <1>2, <1>3, <1>4 DEF Delivers
  <2>3. QED
    BY <1>3, <2>1, <2>2 DEF Flows, Grows
<1>5. CASE x = Peer(e)
  <2> DEFINE f == Next1(x)
  <2>1. f = Head(wire[e]) /\ wire[e] # <<>> /\ wire'[e] = Tail(wire[e])
    BY <1>1, <1>3, <1>5 DEF Next1
  <2>2. CASE pendingRoot'[x] = Append(pendingRoot[x], f)
    BY <1>3, <1>5, <2>1, <2>2 DEF Flows, Queues
  <2>3. CASE pendingRoot'[x] = pendingRoot[x]
    <3>1. CASE QueueRootCall(x)
      <4>1. pendingRoot'[x] = Append(pendingRoot[x], f)
        BY <1>1, <3>1 DEF QueueRootCall
      <4>2. QED
        BY <2>2, <4>1
    <3>2. CASE ~QueueRootCall(x)
      <4>1. f.kind # "call" \/ f.target # Root \/ homes[x][Root] # "absent"
        BY <3>2, RootCallWaits
      <4>2. f.kind # "call" \/ f.target # Root \/ pendingRoot[x] = <<>>
        BY <4>1 DEF OrderInv, QueueFirst
      <4>3. QED
        BY <1>3, <1>5, <2>1, <2>3, <4>2 DEF Flows, Takes
    <3>3. QED
      BY <3>1, <3>2
  <2>4. QED
    BY <1>2, <2>2, <2>3 DEF Delivers
<1>6. QED
  BY <1>1, <1>4, <1>5

LEMMA StepFlows ==
    ASSUME OrderInv, [Next]_vars, NEW e \in End
    PROVE  Flows(e)
<1>1. CASE UNCHANGED vars
  BY <1>1, StillGrows DEF OrderInv, StageInv, vars, homeVars, callVars, Flows
<1>2. QED
  BY <1>1, HomeStepFlows, RemoteStepFlows, DeliverFlows DEF OrderInv, Next

\* Nothing queues for a root that is there.
LEMMA StepQueueFirst ==
    ASSUME OrderInv, [Next]_vars
    PROVE  QueueFirst'
<1>1. /\ QueueFirst /\ Root \notin Id /\ Nil # Root
      /\ pendingRoot \in [End -> Seq(Frame)] /\ homes \in [End -> [Addr -> HomeKind]]
      /\ Root \in Addr
  BY IdAssumption DEF OrderInv, StageInv, TypeOK, Addr
<1>2. ASSUME UNCHANGED pendingRoot,
             \A e \in End : homes[e][Root] = "absent" => homes'[e][Root] = "absent"
      PROVE  QueueFirst'
  BY <1>1, <1>2 DEF QueueFirst
<1>3. ASSUME NEW x \in End, NEW S, Forget(x, S), UNCHANGED pendingRoot
      PROVE  QueueFirst'
  BY <1>1, <1>2, <1>3 DEF Forget
<1>4. ASSUME NEW x \in End, HomeStep(x)
      PROVE  QueueFirst'
  <2>1. ASSUME NEW a \in Id, NEW keepAlive, Share(x, a, keepAlive)
        PROVE  QueueFirst'
    BY <1>1, <1>2, <2>1 DEF Share
  <2>2. ASSUME NEW async, ShareRoot(x, async)
        PROVE  QueueFirst'
    <3>1. /\ pendingRoot' = [pendingRoot EXCEPT ![x] = <<>>]
          /\ homes' = [homes EXCEPT ![x][Root] = "strong"]
      BY <2>2 DEF ShareRoot
    <3>2. \A e \in End : e # x => /\ pendingRoot'[e] = pendingRoot[e]
                                  /\ homes'[e] = homes[e]
      BY <1>1, <3>1
    <3>3. pendingRoot'[x] = <<>> /\ DOMAIN <<>> = {}
      BY <1>1, <3>1
    <3>4. QED
      BY <1>1, <3>2, <3>3 DEF QueueFirst
  <2>3. ASSUME NEW a, DropEntity(x, a) \/ Change(x, a) \/ FlushNotify(x, a)
        PROVE  QueueFirst'
    BY <1>2, <2>3 DEF DropEntity, Change, FlushNotify
  <2>4. ASSUME NEW f, NEW ref, FinishTask(x, f, ref)
        PROVE  QueueFirst'
    BY <1>2, <2>4 DEF FinishTask
  <2>5. QED
    BY <1>4, <2>1, <2>2, <2>3, <2>4 DEF HomeStep
<1>5. ASSUME NEW x \in End, RemoteStep(x)
      PROVE  QueueFirst'
  <2>1. ASSUME NEW a, NEW ref, \/ Connect(x, a) \/ CloneRemote(x, a) \/ DropRemote(x, a)
                               \/ CallMethod(x, a, ref)
        PROVE  QueueFirst'
    BY <1>2, <2>1 DEF Connect, CloneRemote, DropRemote, CallMethod, homeVars
  <2>2. ASSUME NEW a, Reconnect(x, a)
        PROVE  QueueFirst'
    BY <1>3, <2>2 DEF Reconnect
  <2>3. ASSUME DrainReleases(x)
        PROVE  QueueFirst'
    BY <1>3, <2>3 DEF DrainReleases
  <2>4. ASSUME NEW a, NEW o \in Id, Observe(x, a, o)
        PROVE  QueueFirst'
    BY <1>1, <1>2, <2>4 DEF Observe
  <2>5. QED
    BY <1>5, <2>1, <2>2, <2>3, <2>4 DEF RemoteStep
<1>6. ASSUME NEW x \in End, Deliver(x)
      PROVE  QueueFirst'
  <2> DEFINE f == Next1(x)
  <2>1. f \in Frame
    BY <1>6, Next1Type DEF OrderInv, StageInv, TypeOK, Deliver
  <2>2. ASSUME pendingRoot' = [pendingRoot EXCEPT ![x] = Append(@, f)], UNCHANGED homes,
               f.target = Root, homes[x][Root] = "absent"
        PROVE  QueueFirst'
    <3> DEFINE q == pendingRoot[x]
    <3> HIDE DEF q, f
    <3>1. q \in Seq(Frame) /\ \A i \in DOMAIN q : q[i].target = Root
      BY <1>1 DEF QueueFirst, q
    <3>2. \A i \in DOMAIN Append(q, f) : \/ i \in DOMAIN q /\ Append(q, f)[i] = q[i]
                                         \/ Append(q, f)[i] = f
      BY <2>1, <3>1
    <3>3. /\ pendingRoot'[x] = Append(q, f)
          /\ \A e \in End : e # x => pendingRoot'[e] = pendingRoot[e]
      BY <1>1, <2>2 DEF q
    <3>4. \A i \in DOMAIN pendingRoot'[x] : pendingRoot'[x][i].target = Root
      BY <2>2, <3>1, <3>2, <3>3
    <3>5. QED
      BY <1>1, <2>2, <3>3, <3>4 DEF QueueFirst
  <2>3. ASSUME UNCHANGED <<pendingRoot, homes>>
        PROVE  QueueFirst'
    BY <1>2, <2>3
  <2>4. CASE DeliverRelease(x)
    <3>1. /\ UNCHANGED pendingRoot
          /\ \/ UNCHANGED homes
             \/ /\ homes[x][f.target] # "absent"
                /\ homes' = [homes EXCEPT ![x][f.target] = IF @ = "strong" THEN "weak" ELSE @]
      BY <2>4 DEF DeliverRelease
    <3> HIDE DEF f
    <3>2. \A e \in End : homes[e][Root] = "absent" => homes'[e][Root] = "absent"
      <4>1. homes \in [End -> [Addr -> HomeKind]] /\ f.target \in Addr
        BY <2>1, FrameFields DEF OrderInv, StageInv, TypeOK
      <4>2. CASE UNCHANGED homes
        BY <4>2
      <4>3. CASE /\ homes[x][f.target] # "absent"
                 /\ homes' = [homes EXCEPT ![x][f.target] = IF @ = "strong" THEN "weak" ELSE @]
        <5>1. ASSUME NEW e \in End, homes[e][Root] = "absent"
              PROVE  homes'[e][Root] = homes[e][Root]
          BY <4>1, <4>3, <5>1 DEF Addr
        <5>2. QED
          BY <5>1
      <4>4. QED
        BY <3>1, <4>2, <4>3
    <3>3. QED
      BY <1>2, <3>1, <3>2
  <2>5. CASE DeliverSubscribe(x)
    <3>1. /\ UNCHANGED homes
          /\ \/ UNCHANGED pendingRoot
             \/ /\ pendingRoot' = [pendingRoot EXCEPT ![x] = Append(@, f)]
                /\ homes[x][f.target] = "absent" /\ f.target = Root
      BY <2>5 DEF DeliverSubscribe
    <3>2. QED
      BY <2>2, <2>3, <3>1
  <2>6. CASE QueueRootCall(x)
    BY <2>2, <2>6 DEF QueueRootCall
  <2>7. ASSUME NEW ref, NEW async, \/ DeliverResponse(x) \/ RejectCall(x) \/ FireSignal(x)
                                   \/ HandleCall(x, ref, async)
        PROVE  QueueFirst'
    BY <2>3, <2>7 DEF DeliverResponse, RejectCall, FireSignal, HandleCall, homeVars
  <2>8. QED
    BY <1>6, <2>4, <2>5, <2>6, <2>7 DEF Deliver
<1>7. CASE UNCHANGED vars
  BY <1>2, <1>7 DEF vars, homeVars
<1>8. QED
  BY <1>4, <1>5, <1>6, <1>7 DEF Next

LEMMA OrderAlways == Spec => []OrderInv
<1>1. Init => OrderInv
  <2> SUFFICES ASSUME Init PROVE OrderInv
    OBVIOUS
  <2>1. \A e \in End : Peer(e) \in End /\ pendingRoot[e] = <<>> /\ wire[e] = <<>>
    BY PeerType DEF Init
  <2>2. DOMAIN <<>> = {}
    OBVIOUS
  <2>3. QED
    BY <2>1, <2>2, StageInit DEF OrderInv, QueueFirst, InOrderAt, Sorted, Before
<1>2. OrderInv /\ [Next]_vars => OrderInv'
  <2> SUFFICES ASSUME OrderInv, [Next]_vars PROVE OrderInv'
    OBVIOUS
  <2>1. StageInv'
    BY StepKeepsStages DEF OrderInv
  <2>2. \A e \in End : InOrderAt(e)'
    BY StepFlows, FlowKeepsOrder DEF OrderInv, StageInv
  <2>3. QED
    BY <2>1, <2>2, StepQueueFirst DEF OrderInv
<1>3. QED
  BY <1>1, <1>2, PTL DEF Spec

\* The calls among the frames of a sequence.
CallsIn(s) == {f \in Range(s) : Asks(f)}

LEMMA CallsOfConcat ==
    ASSUME NEW s \in Seq(Frame), NEW t \in Seq(Frame)
    PROVE  CallsIn(s \o t) = CallsIn(s) \cup CallsIn(t)
<1> DEFINE u == s \o t
<1>1. /\ \A i \in DOMAIN s : \E j \in DOMAIN u : u[j] = s[i]
      /\ \A i \in DOMAIN t : \E j \in DOMAIN u : u[j] = t[i]
      /\ \A i \in DOMAIN u : \/ \E j \in DOMAIN s : u[i] = s[j]
                             \/ \E j \in DOMAIN t : u[i] = t[j]
  <2> DEFINE m == Len(s)
  <2>1. /\ \A i \in DOMAIN s : i \in DOMAIN u /\ u[i] = s[i]
        /\ \A j \in DOMAIN t : m + j \in DOMAIN u /\ u[m + j] = t[j]
        /\ \A i \in DOMAIN u : \/ i \in DOMAIN s /\ u[i] = s[i]
                               \/ \E j \in DOMAIN t : u[i] = t[j]
    BY ConcatAt
  <2> HIDE DEF u, m
  <2>2. QED
    BY <2>1
<1> HIDE DEF u
<1>2. CallsIn(u) = CallsIn(s) \cup CallsIn(t)
  BY <1>1 DEF CallsIn, Range
<1>3. QED
  BY <1>2 DEF u

\* A call leaves only ahead of the calls to its target that stay.
LEMMA FlowInOrder ==
    ASSUME OrderInv, TypeOK', NEW e \in End, Flows(e),
           NEW f \in CallsIn(InFlight(e)), f \notin CallsIn(InFlight(e))',
           NEW g \in CallsIn(InFlight(e))', f.target = g.target
    PROVE  f.request <= g.request
<1> DEFINE q == pendingRoot[Peer(e)]
           s == wire[e]
           q2 == pendingRoot'[Peer(e)]
           s2 == wire'[e]
           n == nextRequest[e]
<1>1. /\ q \in Seq(Frame) /\ s \in Seq(Frame) /\ q2 \in Seq(Frame) /\ s2 \in Seq(Frame)
      /\ Sorted(s, n) /\ Before(q, s) /\ \A i \in DOMAIN q : q[i].target = Root
  BY PeerType DEF OrderInv, StageInv, TypeOK, InOrderAt, QueueFirst
<1>2. /\ f \in CallsIn(q) \cup CallsIn(s) /\ Asks(f)
      /\ f \notin CallsIn(q2) \cup CallsIn(s2)
      /\ g \in CallsIn(q2) \cup CallsIn(s2) /\ Asks(g)
  <2>1. /\ InFlight(e) = q \o s /\ InFlight(e)' = q2 \o s2
        /\ CallsIn(InFlight(e))' = CallsIn(q2 \o s2)
    BY DEF InFlight, CallsIn, Asks
  <2> HIDE DEF q, s, q2, s2
  <2>2. CallsIn(q \o s) = CallsIn(q) \cup CallsIn(s)
    BY <1>1, CallsOfConcat
  <2>3. CallsIn(q2 \o s2) = CallsIn(q2) \cup CallsIn(s2)
    BY <1>1, CallsOfConcat
  <2>4. \A t : \A h \in CallsIn(t) : Asks(h)
    BY DEF CallsIn
  <2>5. QED
    BY <2>1, <2>2, <2>3, <2>4
<1>3. CASE Grows(e)
  <2>1. PICK fs \in Seq(Frame) : s2 = s \o fs /\ q2 = q
    BY <1>3 DEF Grows
  <2> HIDE DEF q, s, q2, s2
  <2>2. CallsIn(s2) = CallsIn(s) \cup CallsIn(fs)
    BY <1>1, <2>1, CallsOfConcat
  <2>3. QED
    BY <1>2, <2>1, <2>2
<1>4. CASE Empties(e)
  <2>1. q2 = <<>> /\ s2 = s
    BY <1>4 DEF Empties
  <2>2. DOMAIN <<>> = {}
    OBVIOUS
  <2> HIDE DEF q, s, q2, s2
  <2>3. CallsIn(q2) = {}
    BY <2>1, <2>2 DEF CallsIn, Range
  <2>4. f \in CallsIn(q) /\ g \in CallsIn(s)
    BY <1>2, <2>1, <2>3
  <2>5. QED
    BY <1>1, <2>4 DEF CallsIn, Range, Before
<1>5. CASE Queues(e) \/ Takes(e)
  <2>1. /\ s # <<>> /\ s2 = Tail(s) /\ (q2 = q \/ q2 = Append(q, Head(s)))
        /\ q2 = q => Head(s).kind # "call" \/ Head(s).target # Root \/ q = <<>>
    <3>1. CASE Takes(e)
      <4>1. q2 = q /\ s2 = Tail(s) /\ s # <<>>
        BY <3>1 DEF Takes
      <4>2. Head(s).kind # "call" \/ Head(s).target # Root \/ q = <<>>
        BY <3>1 DEF Takes
      <4>3. QED
        BY <4>1, <4>2
    <3>2. CASE Queues(e)
      <4>1. q2 = Append(q, Head(s)) /\ s2 = Tail(s) /\ s # <<>>
        BY <3>2 DEF Queues
      <4>2. Head(s) \in Frame
        BY <1>1, <4>1, TailAt
      <4> HIDE DEF q, s, q2, s2
      <4>3. q2 # q
        BY <1>1, <4>1, <4>2, AppendProperties
      <4>4. QED
        BY <4>1, <4>3
    <3>3. QED
      BY <1>5, <3>1, <3>2
  <2> HIDE DEF q, s, q2, s2
  <2> DEFINE h == Head(s)
             t == Tail(s)
  <2>2. /\ 1 \in DOMAIN s /\ h = s[1] /\ h \in Frame
        /\ \A i \in DOMAIN t : i \in Nat /\ i > 0 /\ i + 1 \in DOMAIN s /\ t[i] = s[i + 1]
        /\ \A i \in DOMAIN s : i \in Nat /\ (i = 1 \/ (i - 1 \in DOMAIN t /\ t[i - 1] = s[i]))
    BY <1>1, <2>1, TailAt
  <2> HIDE DEF h, t
  <2>3. CallsIn(s) \subseteq {h} \cup CallsIn(t)
    BY <2>2 DEF CallsIn, Range
  <2>4. CASE q2 = Append(q, h)
    <3>1. \A i \in DOMAIN q : i \in DOMAIN q2 /\ q2[i] = q[i]
      BY <1>1, <2>2, <2>4, AppendProperties
    <3>2. \E i \in DOMAIN q2 : q2[i] = h
      BY <1>1, <2>2, <2>4, AppendProperties
    <3>3. CallsIn(q) \subseteq CallsIn(q2) /\ (Asks(h) => h \in CallsIn(q2))
      BY <3>1, <3>2 DEF CallsIn, Range
    <3>4. QED
      BY <1>2, <2>1, <2>3, <3>3 DEF t
  <2>5. CASE q2 = q
    <3>1. f = h /\ s2 = t
      BY <1>2, <2>1, <2>3, <2>5 DEF t
    <3>2. f.kind = "call" /\ (f.target # Root \/ q = <<>>)
      BY <1>2, <2>1, <2>5, <3>1 DEF h, Asks
    <3>3. CASE g \in CallsIn(q)
      <4>1. PICK i \in DOMAIN q : q[i] = g
        BY <3>3 DEF CallsIn, Range
      <4>2. g.target = Root
        BY <1>1, <4>1
      <4>3. q # <<>>
        <5>1. DOMAIN <<>> = {}
          OBVIOUS
        <5>2. QED
          BY <4>1, <5>1
      <4>4. QED
        BY <3>2, <4>2, <4>3
    <3>4. CASE g \in CallsIn(t)
      <4>1. PICK i \in DOMAIN t : t[i] = g
        BY <3>4 DEF CallsIn, Range
      <4>2. 1 < i + 1 /\ i + 1 \in DOMAIN s /\ s[i + 1] = g /\ s[1] = f
        BY <2>2, <3>1, <4>1
      <4>3. QED
        BY <1>1, <1>2, <2>2, <4>2 DEF Sorted
    <3>5. QED
      BY <1>2, <2>5, <3>1, <3>3, <3>4
  <2>6. QED
    BY <2>1, <2>4, <2>5 DEF h
<1>6. QED
  BY <1>3, <1>4, <1>5 DEF Flows

\* Calls to one target start in the order they were made, whatever waits for a
\* root, is dropped, or is released meanwhile: the queue for a root and the wire
\* are both in order, and no call to a root overtakes the queue.
THEOREM CallsStartInOrder == Spec => CallsInOrder
<1>1. OrderInv /\ TypeOK' /\ [Next]_vars =>
         \A e \in End : \A f \in CallsIn(InFlight(e)) \ CallsIn(InFlight(e))',
                           g \in CallsIn(InFlight(e))' :
            f.target = g.target => f.request <= g.request
  <2> SUFFICES ASSUME OrderInv, TypeOK', [Next]_vars, NEW e \in End,
                      NEW f \in CallsIn(InFlight(e)) \ CallsIn(InFlight(e))',
                      NEW g \in CallsIn(InFlight(e))', f.target = g.target
               PROVE  f.request <= g.request
    OBVIOUS
  <2>1. Flows(e)
    BY StepFlows
  <2>2. QED
    BY <2>1, FlowInOrder
<1>2. OrderInv /\ TypeOK' /\ [Next]_vars =>
         [\A e \in End :
             LET Waiting == {f \in Range(InFlight(e)) : f.kind = "call" /\ f.request > 0}
             IN  \A f \in Waiting \ Waiting', g \in Waiting' :
                    f.target = g.target => f.request <= g.request]_vars
  BY <1>1 DEF CallsIn, Asks
<1>3. QED
  BY <1>2, OrderAlways, TypeCorrect, PTL DEF Spec, CallsInOrder
=============================================================================
