---------------------------- MODULE MirrorProofs ----------------------------
(***************************************************************************)
(* The safety properties of Mirror, for any number of changes.             *)
(***************************************************************************)
EXTENDS Mirror, FiniteSetTheorems, TLAPS

Frame == {"subscribe", "fetch"}

Typed ==
    /\ plugin \in {"runs", "stopped", "failed"} /\ open \in Int
    /\ version \in Version
    /\ changed \in BOOLEAN /\ subscribed \in BOOLEAN /\ signalled \in BOOLEAN
    /\ fetching \in BOOLEAN /\ dirty \in BOOLEAN /\ alive \in BOOLEAN /\ failed \in BOOLEAN
    /\ requests \in Seq(Frame)
    /\ replies \in Seq(Answer \cup {Notify})
    /\ handling \in Seq(Version)
    /\ receipts \in Seq(Answer)

Has(s, x) == \E i \in DOMAIN s : s[i] = x

\* A home without the mirror's signal will hear of it.
SubscribeSent == plugin = "runs" /\ ~subscribed => Has(requests, "subscribe")

\* Something other than a fetch in flight will tell the mirror of a change.
News == changed \/ signalled \/ dirty \/ Has(requests, "subscribe") \/ Has(replies, Notify)

\* A fetch that reads, or has read, an old state is not the mirror's last one.
OldAnswer ==
    \E v \in Version \ {version} : Has(handling, v) \/ Has(replies, v) \/ Has(receipts, v)
OldIsNews == alive /\ plugin = "runs" /\ OldAnswer => News

Count(s, S) == Cardinality(Positions(s, S))

\* What is left of a home whose plugin stopped: answers that still arrive, each
\* at an open receipt, until fail_pending has run.
Gone ==
    plugin # "runs" =>
        /\ requests = <<>> /\ handling = <<>> /\ ~changed
        /\ Count(replies, Answer) <= open
        /\ plugin = "failed" => replies = <<>>

Inv == Typed /\ SubscribeSent /\ Gone /\ OneFetch /\ OldIsNews /\ NewsOnItsWay

-----------------------------------------------------------------------------
(***************************************************************************)
(* What the operations on sequences do to their elements and counts.       *)
(***************************************************************************)
LEMMA HasAppend ==
    ASSUME NEW T, NEW s \in Seq(T), NEW x, NEW y \in T
    PROVE  Has(Append(s, y), x) <=> Has(s, x) \/ x = y
  <1>1. /\ DOMAIN s = 1 .. Len(s) /\ Len(s) \in Nat
        /\ DOMAIN Append(s, y) = 1 .. Len(s) + 1
        /\ Append(s, y)[Len(s) + 1] = y
        /\ \A i \in 1 .. Len(s) : Append(s, y)[i] = s[i]
    OBVIOUS
  <1>2. ASSUME Has(Append(s, y), x) PROVE Has(s, x) \/ x = y
    <2>1. PICK i \in 1 .. Len(s) + 1 : Append(s, y)[i] = x
      BY <1>1, <1>2 DEF Has
    <2>2. i = Len(s) + 1 \/ i \in 1 .. Len(s)
      BY <1>1
    <2> QED BY <1>1, <2>1, <2>2 DEF Has
  <1>3. ASSUME Has(s, x) PROVE Has(Append(s, y), x)
    <2>1. PICK i \in 1 .. Len(s) : s[i] = x
      BY <1>1, <1>3 DEF Has
    <2>2. i \in 1 .. Len(s) + 1
      BY <1>1
    <2> QED BY <1>1, <2>1, <2>2 DEF Has
  <1>4. ASSUME x = y PROVE Has(Append(s, y), x)
    <2>1. Len(s) + 1 \in 1 .. Len(s) + 1
      BY <1>1
    <2> QED BY <1>1, <1>4, <2>1 DEF Has
  <1> QED BY <1>2, <1>3, <1>4

LEMMA HasTail ==
    ASSUME NEW T, NEW s \in Seq(T), s # <<>>, NEW x
    PROVE  Has(s, x) <=> Has(Tail(s), x) \/ x = Head(s)
  <1>1. /\ DOMAIN s = 1 .. Len(s) /\ Len(s) \in Nat \ {0}
        /\ DOMAIN Tail(s) = 1 .. Len(s) - 1
        /\ Head(s) = s[1]
        /\ \A i \in 1 .. Len(s) - 1 : Tail(s)[i] = s[i + 1]
    OBVIOUS
  <1>2. ASSUME Has(s, x) PROVE Has(Tail(s), x) \/ x = Head(s)
    <2>1. PICK i \in 1 .. Len(s) : s[i] = x
      BY <1>1, <1>2 DEF Has
    <2>2. CASE i = 1
      BY <1>1, <2>1, <2>2
    <2>3. CASE i # 1
      <3>1. i - 1 \in 1 .. Len(s) - 1 /\ (i - 1) + 1 = i
        BY <1>1, <2>3
      <3> QED BY <1>1, <2>1, <3>1 DEF Has
    <2> QED BY <2>2, <2>3
  <1>3. ASSUME Has(Tail(s), x) PROVE Has(s, x)
    <2>1. PICK i \in 1 .. Len(s) - 1 : Tail(s)[i] = x
      BY <1>1, <1>3 DEF Has
    <2>2. i + 1 \in 1 .. Len(s)
      BY <1>1
    <2> QED BY <1>1, <2>1, <2>2 DEF Has
  <1>4. ASSUME x = Head(s) PROVE Has(s, x)
    BY <1>1, <1>4 DEF Has
  <1> QED BY <1>2, <1>3, <1>4

LEMMA Concat ==
    ASSUME NEW T, NEW a \in Seq(T), NEW b \in Seq(T)
    PROVE  /\ a \o b \in Seq(T) /\ Len(a \o b) = Len(a) + Len(b)
           /\ \A i \in 1 .. Len(a) : (a \o b)[i] = a[i]
           /\ \A i \in 1 .. Len(b) : (a \o b)[Len(a) + i] = b[i]
  OBVIOUS

LEMMA ConcatRight ==
    ASSUME NEW T, NEW a \in Seq(T), NEW b \in Seq(T), NEW j \in 1 .. Len(b)
    PROVE  (a \o b)[Len(a) + j] = b[j]
  OBVIOUS

\* The elements left when one is removed.
LEMMA HasRemoveAt ==
    ASSUME NEW T, NEW s \in Seq(T), NEW n \in DOMAIN s, NEW x
    PROVE  /\ RemoveAt(s, n) \in Seq(T)
           /\ Len(RemoveAt(s, n)) = Len(s) - 1
           /\ Has(s, x) <=> Has(RemoveAt(s, n), x) \/ x = s[n]
  <1> DEFINE r == RemoveAt(s, n)
  <1>1. DOMAIN s = 1 .. Len(s) /\ Len(s) \in Nat /\ n \in 1 .. Len(s)
    OBVIOUS
  <1>2. /\ r \in Seq(T) /\ Len(r) = Len(s) - 1
        /\ \A i \in 1 .. Len(r) : r[i] = IF i < n THEN s[i] ELSE s[i + 1]
    <2> DEFINE a == SubSeq(s, 1, n - 1)
               b == SubSeq(s, n + 1, Len(s))
    <2>1. a \in Seq(T) /\ Len(a) = n - 1 /\ \A i \in 1 .. n - 1 : a[i] = s[i]
      BY <1>1
    <2>2. /\ b \in Seq(T) /\ Len(b) = Len(s) - n
          /\ \A i \in 1 .. Len(s) - n : b[i] = s[i + n]
      BY <1>1, SMTT(20)
    <2>3. r = a \o b
      BY DEF RemoveAt
    <2> HIDE DEF a, b, r
    <2>4. r \in Seq(T) /\ Len(r) = Len(s) - 1
      <3>1. r \in Seq(T) /\ Len(r) = Len(a) + Len(b)
        <4>1. a \in Seq(T) /\ b \in Seq(T)
          BY <2>1, <2>2
        <4>2. a \o b \in Seq(T) /\ Len(a \o b) = Len(a) + Len(b)
          BY <4>1, Concat, Zenon
        <4> QED BY <2>3, <4>2
      <3> QED BY <3>1, <1>1, <2>1, <2>2
    <2>5. ASSUME NEW i \in 1 .. Len(r) PROVE r[i] = IF i < n THEN s[i] ELSE s[i + 1]
      <3>1. CASE i < n
        <4>1. i \in 1 .. Len(a)
          BY <1>1, <2>1, <3>1
        <4>2. r[i] = a[i]
          <5>1. a \in Seq(T) /\ b \in Seq(T)
            BY <2>1, <2>2
          <5>2. (a \o b)[i] = a[i]
            BY <4>1, <5>1, Concat, Zenon
          <5> QED BY <2>3, <5>2
        <4> QED BY <4>1, <4>2, <2>1, <3>1
      <3>2. CASE ~(i < n)
        <4> DEFINE j == i - Len(a)
        <4>0. i \in Nat /\ n \in Nat /\ Len(s) \in Nat /\ i <= Len(s) - 1
          BY <1>1, <2>4
        <4>1. j \in 1 .. Len(b) /\ Len(a) + j = i /\ j + n = i + 1
          BY <4>0, <2>1, <2>2, <3>2, SMTT(20)
        <4> HIDE DEF j
        <4>2. r[Len(a) + j] = b[j]
          <5>1. a \in Seq(T) /\ b \in Seq(T)
            BY <2>1, <2>2
          <5>2. (a \o b)[Len(a) + j] = b[j]
            BY <4>1, <5>1, ConcatRight
          <5> QED BY <2>3, <5>2
        <4>3. b[j] = s[j + n]
          BY <4>1, <2>2
        <4> QED BY <4>1, <4>2, <4>3, <3>2
      <3> QED BY <3>1, <3>2
    <2> QED BY <2>4, <2>5
  <1> HIDE DEF r
  <1>3. DOMAIN r = 1 .. Len(r)
    BY <1>2
  <1>4. ASSUME Has(s, x) PROVE Has(r, x) \/ x = s[n]
    <2>1. PICK i \in 1 .. Len(s) : s[i] = x
      BY <1>1, <1>4 DEF Has
    <2>2. CASE i < n
      <3>1. i \in 1 .. Len(r)
        BY <1>1, <1>2, <2>2
      <3> QED BY <1>2, <1>3, <2>1, <2>2, <3>1 DEF Has
    <2>3. CASE i > n
      <3>1. i - 1 \in 1 .. Len(r) /\ ~(i - 1 < n) /\ (i - 1) + 1 = i
        BY <1>1, <1>2, <2>3
      <3>2. r[i - 1] = x
        BY <1>2, <2>1, <3>1
      <3> QED BY <1>3, <3>1, <3>2 DEF Has
    <2>4. CASE i = n
      BY <2>1, <2>4
    <2> QED BY <1>1, <2>2, <2>3, <2>4
  <1>5. ASSUME Has(r, x) PROVE Has(s, x)
    <2>1. PICK i \in 1 .. Len(r) : r[i] = x
      BY <1>3, <1>5 DEF Has
    <2>2. i \in 1 .. Len(s) /\ i + 1 \in 1 .. Len(s)
      BY <1>1, <1>2
    <2> QED BY <1>1, <1>2, <2>1, <2>2 DEF Has
  <1>6. Has(s, s[n])
    BY <1>1 DEF Has
  <1> QED BY <1>2, <1>4, <1>5, <1>6 DEF r

\* The first elements of a sequence.
LEMMA Prefix ==
    ASSUME NEW T, NEW s \in Seq(T), NEW n \in 0 .. Len(s)
    PROVE  /\ SubSeq(s, 1, n) \in Seq(T) /\ Len(SubSeq(s, 1, n)) = n
           /\ \A i \in 1 .. n : SubSeq(s, 1, n)[i] = s[i]
  OBVIOUS

\* The receipts that fail_pending fails.
LEMMA Errors ==
    ASSUME NEW n \in Int
    PROVE  /\ [i \in 1 .. n |-> Error] \in Seq(Answer)
           /\ n \in Nat => Len([i \in 1 .. n |-> Error]) = n
  <1>1. CASE n \in Nat
    BY <1>1 DEF Answer
  <1>2. CASE n \notin Nat
    <2>1. 1 .. n = {}
      BY <1>2
    <2> QED BY <1>2, <2>1
  <1> QED BY <1>1, <1>2

LEMMA CountType ==
    ASSUME NEW T, NEW s \in Seq(T), NEW S
    PROVE  /\ IsFiniteSet(Positions(s, S)) /\ Count(s, S) \in Nat
           /\ Count(s, S) = 0 => \A x \in S : ~Has(s, x)
  <1>1. IsFiniteSet(1 .. Len(s))
    BY FS_Interval
  <1>2. Positions(s, S) \in SUBSET (1 .. Len(s))
    BY DEF Positions
  <1>3. IsFiniteSet(Positions(s, S))
    BY <1>1, <1>2, FS_Subset
  <1>4. Count(s, S) = 0 => Positions(s, S) = {}
    BY <1>3, FS_EmptySet DEF Count
  <1> QED BY <1>3, <1>4, FS_CardinalityType DEF Count, Positions, Has

LEMMA CountPrefix ==
    ASSUME NEW T, NEW s \in Seq(T), NEW n \in 0 .. Len(s), NEW S
    PROVE  Count(SubSeq(s, 1, n), S) <= Count(s, S)
  <1> DEFINE p == SubSeq(s, 1, n)
  <1>1. /\ Len(s) \in Nat /\ DOMAIN s = 1 .. Len(s) /\ DOMAIN p = 1 .. n
        /\ \A i \in 1 .. n : p[i] = s[i] /\ i \in 1 .. Len(s)
    BY Prefix
  <1>2. Positions(p, S) \subseteq Positions(s, S)
    BY <1>1 DEF Positions
  <1> QED BY <1>2, CountType, FS_Subset DEF Count

LEMMA CountAppend ==
    ASSUME NEW T, NEW s \in Seq(T), NEW x \in T, NEW S
    PROVE  Count(Append(s, x), S) = Count(s, S) + (IF x \in S THEN 1 ELSE 0)
  <1>1. /\ DOMAIN s = 1 .. Len(s) /\ Len(s) \in Nat
        /\ DOMAIN Append(s, x) = 1 .. Len(s) + 1
        /\ Append(s, x)[Len(s) + 1] = x
        /\ \A i \in 1 .. Len(s) : Append(s, x)[i] = s[i]
    OBVIOUS
  <1>2. \A i : i \in 1 .. Len(s) + 1 <=> i \in 1 .. Len(s) \/ i = Len(s) + 1
    BY <1>1
  <1>3. CASE x \in S
    <2>1. Positions(Append(s, x), S) = Positions(s, S) \cup {Len(s) + 1}
      BY <1>1, <1>2, <1>3 DEF Positions
    <2>2. Len(s) + 1 \notin Positions(s, S)
      BY <1>1 DEF Positions
    <2> QED BY <1>3, <2>1, <2>2, CountType, FS_AddElement DEF Count
  <1>4. CASE x \notin S
    <2>1. Positions(Append(s, x), S) = Positions(s, S)
      BY <1>1, <1>2, <1>4 DEF Positions
    <2> QED BY <1>4, <2>1, CountType DEF Count
  <1> QED BY <1>3, <1>4

LEMMA CountTail ==
    ASSUME NEW T, NEW s \in Seq(T), s # <<>>, NEW S
    PROVE  Count(s, S) = Count(Tail(s), S) + (IF Head(s) \in S THEN 1 ELSE 0)
  <1> DEFINE P == Positions(s, S) \ {1}
             Q == Positions(Tail(s), S)
             shift == [i \in Q |-> i + 1]
  <1>1. /\ DOMAIN s = 1 .. Len(s) /\ Len(s) \in Nat \ {0}
        /\ DOMAIN Tail(s) = 1 .. Len(s) - 1
        /\ Head(s) = s[1] /\ Tail(s) \in Seq(T)
        /\ \A i \in 1 .. Len(s) - 1 : Tail(s)[i] = s[i + 1]
    OBVIOUS
  <1>2. \A i \in Q : i \in Nat /\ i + 1 \in P
    <2>1. ASSUME NEW i \in Q PROVE i \in Nat /\ i + 1 \in P
      <3>1. i \in 1 .. Len(s) - 1 /\ Tail(s)[i] \in S
        BY <1>1 DEF Positions
      <3>2. i + 1 \in 1 .. Len(s) /\ s[i + 1] \in S /\ i + 1 # 1
        BY <1>1, <3>1
      <3> QED BY <1>1, <3>1, <3>2 DEF Positions
    <2> QED BY <2>1
  <1>3. \A j \in P : \E i \in Q : i + 1 = j
    <2>1. ASSUME NEW j \in P PROVE \E i \in Q : i + 1 = j
      <3>1. j \in 1 .. Len(s) /\ s[j] \in S /\ j # 1
        BY <1>1 DEF Positions
      <3>2. j - 1 \in 1 .. Len(s) - 1 /\ (j - 1) + 1 = j
        BY <1>1, <3>1
      <3>3. j - 1 \in Q
        BY <1>1, <3>1, <3>2 DEF Positions
      <3> QED BY <3>2, <3>3
    <2> QED BY <2>1
  <1> HIDE DEF P, Q
  <1>4. shift \in Bijection(Q, P)
    <2>1. shift \in [Q -> P]
      BY <1>2
    <2>2. \A i, j \in Q : shift[i] = shift[j] => i = j
      BY <1>2
    <2>3. \A j \in P : \E i \in Q : shift[i] = j
      BY <1>3
    <2> HIDE DEF shift
    <2> QED BY <2>1, <2>2, <2>3 DEF Bijection, Injection, Surjection, IsInjective
  <1>5. IsFiniteSet(Q) /\ Cardinality(Q) = Count(Tail(s), S)
    BY <1>1, CountType DEF Count, Q
  <1>6. Cardinality(P) = Count(Tail(s), S)
    BY <1>4, <1>5, FS_Bijection DEF ExistsBijection
  <1>7. /\ IsFiniteSet(Positions(s, S)) /\ Count(s, S) \in Nat
    BY CountType
  <1>8. 1 \in Positions(s, S) <=> Head(s) \in S
    BY <1>1 DEF Positions
  <1>9. Cardinality(P) = IF Head(s) \in S THEN Count(s, S) - 1 ELSE Count(s, S)
    BY <1>7, <1>8, FS_RemoveElement DEF Count, P
  <1> QED BY <1>6, <1>7, <1>9

-----------------------------------------------------------------------------
(***************************************************************************)
(* The invariant, in terms of Has and Count.                               *)
(***************************************************************************)
Told == \/ changed \/ signalled \/ dirty \/ failed
        \/ Has(requests, "subscribe") \/ Has(requests, "fetch")
        \/ Has(handling, version)
        \/ Has(replies, Notify) \/ Has(replies, Error) \/ Has(replies, version)
        \/ Has(receipts, Error) \/ Has(receipts, version)

LEMMA NewsIsTold ==
    NewsOnItsWay <=> (alive /\ plugin = "runs" /\ latest # version => Told)
  BY DEF NewsOnItsWay, Told, Has

Waits == open + Len(receipts)

InFlight == Count(requests, {"fetch"}) + Len(handling) + Count(replies, Answer)

LEMMA FetchesCount ==
    OneFetch <=> /\ alive => Waits = IF fetching THEN 1 ELSE 0
                 /\ plugin = "runs" => open = InFlight
  BY DEF OneFetch, Owed, Waits, InFlight, Count

LEMMA Values ==
    /\ Version \subseteq Nat /\ 0 \in Version
    /\ Notify \notin Answer /\ Error \notin Version /\ Error \in Answer
    /\ \A v \in Version : v # Notify
  BY BoundAssumption, DistinctAssumption DEF Version, Answer

\* The four places of a fetch in flight, and none of them without one.
LEMMA InFlightType ==
    ASSUME Typed
    PROVE  /\ Count(requests, {"fetch"}) \in Nat /\ Len(handling) \in Nat
           /\ Count(replies, Answer) \in Nat /\ Len(receipts) \in Nat
           /\ Len(handling) = 0 /\ Count(replies, Answer) = 0 /\ Len(receipts) = 0
                 => ~OldAnswer
  <1>1. /\ requests \in Seq(Frame) /\ replies \in Seq(Answer \cup {Notify})
        /\ handling \in Seq(Version) /\ receipts \in Seq(Answer)
    BY DEF Typed
  <1>2. Count(requests, {"fetch"}) \in Nat
    BY <1>1, CountType
  <1>3. /\ Count(replies, Answer) \in Nat
        /\ Count(replies, Answer) = 0 => \A x \in Answer : ~Has(replies, x)
    BY <1>1, CountType
  <1>4. /\ Len(handling) \in Nat /\ Len(receipts) \in Nat
        /\ Len(handling) = 0 => \A x : ~Has(handling, x)
        /\ Len(receipts) = 0 => \A x : ~Has(receipts, x)
    BY <1>1 DEF Has
  <1> QED BY <1>2, <1>3, <1>4 DEF OldAnswer, Answer

LEMMA NextInv ==
    ASSUME Typed', SubscribeSent', Gone',
           alive' => Waits' = IF fetching' THEN 1 ELSE 0,
           plugin' = "runs" => open' = InFlight',
           alive' /\ plugin' = "runs" /\ OldAnswer' => News',
           alive' /\ plugin' = "runs" /\ latest' # version' => Told'
    PROVE  Inv'
  <1>1. (OneFetch <=> /\ alive => Waits = IF fetching THEN 1 ELSE 0
                      /\ plugin = "runs" => open = InFlight)'
    BY FetchesCount, PTL
  <1>2. (NewsOnItsWay <=> (alive /\ plugin = "runs" /\ latest # version => Told))'
    BY NewsIsTold, PTL
  <1> QED BY <1>1, <1>2 DEF Inv, OldIsNews

LEMMA InitInv == Init => Inv
  <1> SUFFICES ASSUME Init PROVE Inv
    OBVIOUS
  <1>1. Typed
    <2>1. <<"subscribe", "fetch">> \in Seq(Frame) /\ <<"fetch">> \in Seq(Frame)
      BY DEF Frame
    <2>2. requests \in Seq(Frame)
      BY <2>1 DEF Init
    <2>3. <<>> \in Seq(Answer \cup {Notify}) /\ <<>> \in Seq(Version) /\ <<>> \in Seq(Answer)
      OBVIOUS
    <2>4. open \in Int /\ plugin \in {"runs", "stopped", "failed"}
      BY DEF Init
    <2> QED BY <2>2, <2>3, <2>4, Values DEF Init, Typed
  <1>2. SubscribeSent
    <2>1. requests = <<"subscribe", "fetch">> => Has(requests, "subscribe")
      BY DEF Has
    <2> QED BY <2>1 DEF Init, SubscribeSent
  <1>3. Count(requests, {"fetch"}) = 1
    <2>1. Count(<<>>, {"fetch"}) = 0 /\ Count(<<>>, Answer) = 0
      <3>1. Positions(<<>>, {"fetch"}) = {} /\ Positions(<<>>, Answer) = {}
        BY DEF Positions
      <3> QED BY <3>1, FS_EmptySet DEF Count
    <2>2. <<>> \in Seq(Frame) /\ <<"subscribe">> \in Seq(Frame)
      BY DEF Frame
    <2>3. Count(<<"fetch">>, {"fetch"}) = 1
      <3>1. Append(<<>>, "fetch") = <<"fetch">> /\ "fetch" \in Frame
        BY DEF Frame
      <3>2. ASSUME NEW e \in Seq(Frame)
            PROVE  Count(Append(e, "fetch"), {"fetch"}) = Count(e, {"fetch"}) + 1
        <4>1. Count(Append(e, "fetch"), {"fetch"})
                 = Count(e, {"fetch"}) + (IF "fetch" \in {"fetch"} THEN 1 ELSE 0)
          BY <3>1, CountAppend
        <4> QED BY <4>1
      <3>3. Count(Append(<<>>, "fetch"), {"fetch"}) = Count(<<>>, {"fetch"}) + 1
        BY <2>2, <3>2
      <3> QED BY <2>1, <3>1, <3>3
    <2>4. Count(<<"subscribe", "fetch">>, {"fetch"}) = 1
      <3>1. /\ <<"subscribe", "fetch">> \in Seq(Frame) /\ <<"subscribe", "fetch">> # <<>>
            /\ Head(<<"subscribe", "fetch">>) = "subscribe"
            /\ Tail(<<"subscribe", "fetch">>) = <<"fetch">>
        BY DEF Frame
      <3>2. Count(<<"subscribe", "fetch">>, {"fetch"}) = Count(<<"fetch">>, {"fetch"}) + 0
        BY <3>1, CountTail
      <3> QED BY <2>3, <3>2
    <2> QED BY <2>3, <2>4 DEF Init
  <1>4. Count(replies, Answer) = 0
    <2>1. Positions(replies, Answer) = {}
      BY DEF Init, Positions
    <2> QED BY <2>1, FS_EmptySet DEF Count
  <1>5. InFlight = 1
    BY <1>3, <1>4 DEF InFlight, Init
  <1>6. OneFetch
    BY <1>5, FetchesCount DEF Init, Waits
  <1>7. OldIsNews
    BY <1>1, <1>4, InFlightType DEF Init, OldIsNews
  <1>8. Has(requests, "fetch")
    BY DEF Init, Has
  <1>9. Gone
    BY DEF Init, Gone
  <1> QED BY <1>1, <1>2, <1>6, <1>7, <1>8, <1>9, NewsIsTold DEF Inv, Told

-----------------------------------------------------------------------------
(***************************************************************************)
(* Every action preserves the invariant.                                   *)
(***************************************************************************)
LEMMA InvParts ==
    ASSUME Inv
    PROVE  /\ Typed /\ SubscribeSent /\ Gone /\ open \in Nat
           /\ alive => Waits = IF fetching THEN 1 ELSE 0
           /\ plugin = "runs" => open = InFlight
           /\ alive /\ plugin = "runs" /\ OldAnswer => News
           /\ alive /\ plugin = "runs" /\ latest # version => Told
  <1>1. /\ Typed /\ SubscribeSent /\ Gone
        /\ alive => Waits = IF fetching THEN 1 ELSE 0
        /\ plugin = "runs" => open = InFlight
        /\ alive /\ plugin = "runs" /\ OldAnswer => News
        /\ alive /\ plugin = "runs" /\ latest # version => Told
    BY FetchesCount, NewsIsTold DEF Inv, OldIsNews
  <1>2. open \in Int /\ InFlight \in Nat /\ Count(replies, Answer) \in Nat
    BY <1>1, InFlightType DEF Typed, InFlight
  <1>3. plugin # "runs" => Count(replies, Answer) <= open
    BY <1>1 DEF Gone
  <1> QED BY <1>1, <1>2, <1>3

LEMMA TypedSeqs ==
    ASSUME Typed
    PROVE  /\ requests \in Seq(Frame) /\ replies \in Seq(Answer \cup {Notify})
           /\ handling \in Seq(Version) /\ receipts \in Seq(Answer)
           /\ version \in Version /\ alive \in BOOLEAN /\ fetching \in BOOLEAN
           /\ dirty \in BOOLEAN /\ open \in Int
  BY DEF Typed

LEMMA SeqSteps ==
    ASSUME NEW T, NEW s \in Seq(T)
    PROVE  /\ \A x \in T : Append(s, x) \in Seq(T) /\ Len(Append(s, x)) = Len(s) + 1
           /\ s # <<>> => Tail(s) \in Seq(T) /\ Head(s) \in T
  OBVIOUS

LEMMA RefreshTyped ==
    ASSUME Typed, NEW busy \in BOOLEAN, Refresh(busy)
    PROVE  /\ fetching' \in BOOLEAN /\ dirty' \in BOOLEAN
           /\ requests' \in Seq(Frame) /\ open' \in Int
  <1>1. requests \in Seq(Frame) /\ "fetch" \in Frame /\ open \in Int
    BY DEF Typed, Frame
  <1>2. Append(requests, "fetch") \in Seq(Frame)
    BY <1>1, SeqSteps
  <1>3. requests' \in Seq(Frame)
    BY <1>1, <1>2 DEF Refresh, Fetch
  <1>4. open' \in Int
    BY <1>1 DEF Refresh, Fetch
  <1>5. fetching' \in BOOLEAN /\ dirty' \in BOOLEAN
    BY DEF Refresh
  <1> QED BY <1>3, <1>4, <1>5

LEMMA NextTyped == Typed /\ [Next]_vars => Typed'
  <1> SUFFICES ASSUME Typed, [Next]_vars PROVE Typed'
    OBVIOUS
  <1> USE DEF home, wires, mirror
  <1>a. Answer \subseteq Answer \cup {Notify} /\ Notify \in Answer \cup {Notify}
    OBVIOUS
  <1>b. \A a \in Answer \cup {Notify} : Append(replies, a) \in Seq(Answer \cup {Notify})
    BY TypedSeqs, SeqSteps
  <1>c. replies # <<>> => /\ Tail(replies) \in Seq(Answer \cup {Notify})
                          /\ Head(replies) \in Answer \cup {Notify}
    BY TypedSeqs, SeqSteps
  <1>d. requests # <<>> => Tail(requests) \in Seq(Frame)
    BY TypedSeqs, SeqSteps
  <1>1. CASE Change
    <2>1. version + 1 \in Version
      BY <1>1, BoundAssumption DEF Change, Typed, Version
    <2> QED BY <1>1, <2>1 DEF Change, Typed
  <1>2. CASE FlushChange
    <2>1. replies' \in Seq(Answer \cup {Notify})
      BY <1>2, <1>a, <1>b, TypedSeqs DEF FlushChange
    <2> QED BY <1>2, <2>1 DEF FlushChange, Typed
  <1>3. CASE HandleSubscribe
    <2>1. replies' \in Seq(Answer \cup {Notify}) /\ requests' \in Seq(Frame)
      BY <1>3, <1>a, <1>b, <1>d DEF HandleSubscribe
    <2> QED BY <1>3, <2>1 DEF HandleSubscribe, Typed
  <1>4. CASE HandleFetch
    <2>1. requests' \in Seq(Frame)
      BY <1>4, <1>d DEF HandleFetch
    <2>2. CASE /\ \E answer \in {version, Error} : replies' = Append(replies, answer)
               /\ UNCHANGED handling
      <3>1. version \in Answer /\ Error \in Answer
        BY TypedSeqs DEF Answer
      <3>2. replies' \in Seq(Answer \cup {Notify})
        BY <2>2, <1>b, <3>1
      <3> QED BY <1>4, <2>1, <2>2, <3>2 DEF HandleFetch, Typed
    <2>3. CASE handling' = Append(handling, version) /\ UNCHANGED replies
      <3>1. handling' \in Seq(Version)
        BY <2>3, TypedSeqs, SeqSteps
      <3> QED BY <1>4, <2>1, <2>3, <3>1 DEF HandleFetch, Typed
    <2> QED BY <1>4, <2>2, <2>3 DEF HandleFetch
  <1>5. CASE FinishFetch
    <2>1. PICK i \in DOMAIN handling :
              /\ handling' = RemoveAt(handling, i)
              /\ \E answer \in (handling[i] .. version) \cup {Error} :
                     replies' = Append(replies, answer)
      BY <1>5 DEF FinishFetch
    <2>2. handling' \in Seq(Version)
      BY <2>1, TypedSeqs, HasRemoveAt
    <2>3. handling[i] \in Version
      BY TypedSeqs
    <2>4. (handling[i] .. version) \cup {Error} \subseteq Answer
      BY <2>3, TypedSeqs, BoundAssumption DEF Answer, Version
    <2>5. replies' \in Seq(Answer \cup {Notify})
      BY <2>1, <2>4, <1>b
    <2> QED BY <1>5, <2>2, <2>5 DEF FinishFetch, Typed
  <1>6. CASE Deliver
    <2>1. replies' \in Seq(Answer \cup {Notify}) /\ Head(replies) \in Answer \cup {Notify}
      BY <1>6, <1>c DEF Deliver
    <2>2. receipts' \in Seq(Answer) /\ signalled' \in BOOLEAN /\ open' \in Int
      <3>1. CASE Head(replies) = Notify
        BY <1>6, <3>1 DEF Deliver, Typed
      <3>2. CASE Head(replies) # Notify
        <4>1. /\ receipts' = Append(receipts, Head(replies)) /\ signalled' = signalled
              /\ open' = open - 1
          BY <1>6, <3>2 DEF Deliver
        <4>2. Head(replies) \in Answer
          BY <2>1, <3>2
        <4>3. receipts' \in Seq(Answer)
          BY <4>1, <4>2, TypedSeqs, SeqSteps
        <4> QED BY <4>1, <4>3 DEF Typed
      <3> QED BY <3>1, <3>2
    <2> QED BY <1>6, <2>1, <2>2 DEF Deliver, Typed
  <1>7. CASE FlushSignal
    <2>1. /\ fetching' \in BOOLEAN /\ dirty' \in BOOLEAN
          /\ requests' \in Seq(Frame) /\ open' \in Int
      <3>1. CASE alive
        BY <1>7, <3>1, TypedSeqs, RefreshTyped DEF FlushSignal
      <3>2. CASE ~alive
        BY <1>7, <3>2, TypedSeqs DEF FlushSignal
      <3> QED BY <3>1, <3>2
    <2> QED BY <1>7, <2>1 DEF FlushSignal, Typed
  <1>8. CASE Settle
    <2>1. PICK i \in DOMAIN receipts :
              /\ receipts' = RemoveAt(receipts, i)
              /\ IF alive
                 THEN /\ failed' = (receipts[i] = Error)
                      /\ latest' = IF receipts[i] = Error THEN latest ELSE receipts[i]
                      /\ IF dirty
                         THEN Refresh(FALSE)
                         ELSE fetching' = FALSE /\ UNCHANGED <<dirty, open, requests>>
                 ELSE UNCHANGED <<latest, fetching, dirty, failed, open, requests>>
      BY <1>8 DEF Settle
    <2>2. receipts' \in Seq(Answer)
      BY <2>1, TypedSeqs, HasRemoveAt
    <2>3. /\ fetching' \in BOOLEAN /\ dirty' \in BOOLEAN
          /\ requests' \in Seq(Frame) /\ open' \in Int
      <3>1. CASE alive /\ dirty
        BY <2>1, <3>1, RefreshTyped
      <3>2. CASE ~(alive /\ dirty)
        BY <2>1, <3>2, TypedSeqs
      <3> QED BY <3>1, <3>2
    <2>4. failed' \in BOOLEAN
      BY <2>1 DEF Typed
    <2> QED BY <1>8, <2>2, <2>3, <2>4 DEF Settle, Typed
  <1>9. CASE DropMirror
    BY <1>9 DEF DropMirror, Typed
  <1>10. CASE Stop
    <2>1. PICK n \in 0 .. Len(replies) : replies' = SubSeq(replies, 1, n)
      BY <1>10 DEF Stop
    <2>2. replies' \in Seq(Answer \cup {Notify})
      BY <2>1, TypedSeqs, Prefix
    <2>3. <<>> \in Seq(Frame) /\ <<>> \in Seq(Version)
      OBVIOUS
    <2> QED BY <1>10, <2>2, <2>3 DEF Stop, Typed
  <1>11. CASE FailPending
    <2>1. [i \in 1 .. open |-> Error] \in Seq(Answer)
      BY TypedSeqs, Errors
    <2>2. receipts' \in Seq(Answer)
      BY <1>11, <2>1, TypedSeqs, Concat DEF FailPending
    <2>3. open' = 0 /\ plugin' = "failed"
      BY <1>11 DEF FailPending
    <2> QED BY <1>11, <2>2, <2>3 DEF FailPending, Typed
  <1>12. CASE UNCHANGED vars
    BY <1>12 DEF vars, Typed
  <1> QED BY <1>1, <1>2, <1>3, <1>4, <1>5, <1>6, <1>7, <1>8, <1>9, <1>10, <1>11, <1>12
          DEF Next

\* A step of the home, which leaves the mirror and its receipts alone.
LEMMA HomeStepInv ==
    ASSUME Inv, Typed', plugin = "runs", UNCHANGED <<plugin, mirror>>,
           SubscribeSent', InFlight' = InFlight,
           alive' /\ OldAnswer' => News', alive' /\ latest' # version' => Told'
    PROVE  Inv'
  <1>1. Gone'
    BY DEF Gone
  <1>2. (alive' => Waits' = IF fetching' THEN 1 ELSE 0) /\ open' = InFlight'
    BY InvParts DEF Waits, mirror
  <1> QED BY <1>1, <1>2, NextInv

LEMMA ChangeInv ==
    ASSUME Inv, Typed', Change
    PROVE  Inv'
  <1> USE DEF Change, home, wires, mirror
  <1>1. SubscribeSent' /\ News' /\ Told'
    BY InvParts DEF SubscribeSent, News, Told
  <1>2. InFlight' = InFlight
    BY DEF InFlight
  <1> QED BY <1>1, <1>2, HomeStepInv

LEMMA FlushChangeInv ==
    ASSUME Inv, Typed', FlushChange
    PROVE  Inv'
  <1> USE DEF FlushChange, home, wires, mirror
  <1>0. plugin = "runs"
    BY InvParts DEF Gone
  <1>1. replies \in Seq(Answer \cup {Notify}) /\ Notify \in Answer \cup {Notify}
    BY InvParts, TypedSeqs
  <1>2. News' /\ Told'
    <2>1. CASE subscribed
      <3>1. Has(replies', Notify)
        BY <1>1, <2>1, HasAppend
      <3> QED BY <3>1 DEF News, Told
    <2>2. CASE ~subscribed
      BY <1>0, <2>2, InvParts DEF SubscribeSent, News, Told
    <2> QED BY <2>1, <2>2
  <1>3. Count(replies', Answer) = Count(replies, Answer)
    <2>1. Count(Append(replies, Notify), Answer) = Count(replies, Answer) + 0
      BY <1>1, CountAppend, Values
    <2>2. Count(replies, Answer) \in Nat
      BY InvParts, InFlightType
    <2> QED BY <2>1, <2>2
  <1>4. InFlight' = InFlight
    BY <1>3 DEF InFlight
  <1>5. SubscribeSent'
    BY <1>0, InvParts DEF SubscribeSent
  <1> QED BY <1>0, <1>2, <1>4, <1>5, HomeStepInv

LEMMA HandleSubscribeInv ==
    ASSUME Inv, Typed', HandleSubscribe
    PROVE  Inv'
  <1> USE DEF HandleSubscribe, home, wires, mirror
  <1>0. plugin = "runs"
    BY InvParts DEF Gone
  <1>1. /\ replies \in Seq(Answer \cup {Notify}) /\ Notify \in Answer \cup {Notify}
        /\ requests \in Seq(Frame) /\ requests # <<>>
    BY InvParts, TypedSeqs
  <1>2. News' /\ Told'
    <2>1. Has(replies', Notify)
      BY <1>1, HasAppend
    <2> QED BY <2>1 DEF News, Told
  <1>3. Count(replies', Answer) = Count(replies, Answer) + 0
    BY <1>1, CountAppend, Values
  <1>4. Count(requests, {"fetch"}) = Count(requests', {"fetch"}) + 0
    <2>1. Head(requests) \notin {"fetch"}
      OBVIOUS
    <2> QED BY <1>1, <2>1, CountTail
  <1>5. /\ Count(replies, Answer) \in Nat /\ Count(requests, {"fetch"}) \in Nat
        /\ Count(requests', {"fetch"}) \in Nat
    BY <1>1, InvParts, InFlightType, CountType, SeqSteps
  <1>6. InFlight' = InFlight
    BY <1>3, <1>4, <1>5 DEF InFlight
  <1>7. SubscribeSent'
    BY DEF SubscribeSent
  <1> QED BY <1>0, <1>2, <1>6, <1>7, HomeStepInv

LEMMA HandleFetchInv ==
    ASSUME Inv, Typed', HandleFetch
    PROVE  Inv'
  <1> USE DEF HandleFetch, home, wires, mirror
  <1>0. plugin = "runs"
    BY InvParts DEF Gone
  <1>1. /\ requests \in Seq(Frame) /\ requests # <<>> /\ version \in Version
        /\ replies \in Seq(Answer \cup {Notify}) /\ handling \in Seq(Version)
    BY InvParts, TypedSeqs
  <1>2. Has(requests', "subscribe") <=> Has(requests, "subscribe")
    BY <1>1, HasTail
  <1>3. SubscribeSent'
    BY <1>0, <1>2, InvParts DEF SubscribeSent
  <1>4. Count(requests, {"fetch"}) = Count(requests', {"fetch"}) + 1
    BY <1>1, CountTail
  <1>5. /\ Count(requests', {"fetch"}) \in Nat /\ Count(replies, Answer) \in Nat
        /\ Len(handling) \in Nat
    BY <1>1, InvParts, InFlightType, CountType, SeqSteps
  <1>6. CASE /\ \E answer \in {version, Error} : replies' = Append(replies, answer)
             /\ UNCHANGED handling
    <2>1. PICK answer \in {version, Error} : replies' = Append(replies, answer)
      BY <1>6
    <2>2. answer \in Answer /\ answer \in Answer \cup {Notify}
      BY <1>1 DEF Answer
    <2>3. \A x : Has(replies', x) <=> Has(replies, x) \/ x = answer
      BY <1>1, <2>1, <2>2, HasAppend
    <2>4. Told'
      BY <2>1, <2>3 DEF Told
    <2>5. OldAnswer' => OldAnswer
      BY <1>6, <2>1, <2>3, Values DEF OldAnswer
    <2>6. News => News'
      BY <1>2, <2>3 DEF News
    <2>7. Count(replies', Answer) = Count(replies, Answer) + 1
      BY <1>1, <2>1, <2>2, CountAppend
    <2>8. InFlight' = InFlight
      BY <1>4, <1>5, <1>6, <2>7 DEF InFlight
    <2> QED BY <1>0, <1>3, <2>4, <2>5, <2>6, <2>8, InvParts, HomeStepInv
  <1>7. CASE handling' = Append(handling, version) /\ UNCHANGED replies
    <2>1. \A x : Has(handling', x) <=> Has(handling, x) \/ x = version
      BY <1>1, <1>7, HasAppend
    <2>2. Told'
      BY <2>1 DEF Told
    <2>3. OldAnswer' => OldAnswer
      BY <1>7, <2>1 DEF OldAnswer
    <2>4. News => News'
      BY <1>2, <1>7 DEF News
    <2>5. Len(handling') = Len(handling) + 1
      BY <1>1, <1>7, SeqSteps
    <2>6. InFlight' = InFlight
      BY <1>4, <1>5, <1>7, <2>5 DEF InFlight
    <2> QED BY <1>0, <1>3, <2>2, <2>3, <2>4, <2>6, InvParts, HomeStepInv
  <1> QED BY <1>6, <1>7

LEMMA FinishFetchInv ==
    ASSUME Inv, Typed', FinishFetch
    PROVE  Inv'
  <1> USE DEF FinishFetch, home, wires, mirror
  <1>0. plugin = "runs"
    BY InvParts DEF Gone
  <1>1. /\ replies \in Seq(Answer \cup {Notify}) /\ handling \in Seq(Version)
        /\ version \in Version /\ Len(handling) \in Nat
    BY InvParts, TypedSeqs
  <1>2. PICK i \in DOMAIN handling :
            /\ handling' = RemoveAt(handling, i)
            /\ \E answer \in (handling[i] .. version) \cup {Error} :
                   replies' = Append(replies, answer)
    OBVIOUS
  <1>3. PICK answer \in (handling[i] .. version) \cup {Error} :
            replies' = Append(replies, answer)
    BY <1>2
  <1>4. handling[i] \in Version
    BY <1>1
  <1>5. answer \in Answer /\ answer \in Answer \cup {Notify}
    BY <1>1, <1>3, <1>4, BoundAssumption DEF Answer, Version
  <1>6. \A x : Has(replies', x) <=> Has(replies, x) \/ x = answer
    BY <1>1, <1>3, <1>5, HasAppend
  <1>7. /\ Len(handling') = Len(handling) - 1
        /\ \A x : Has(handling, x) <=> Has(handling', x) \/ x = handling[i]
    BY <1>1, <1>2, HasRemoveAt
  <1>8. answer \in Version \ {version} => handling[i] # version
    BY <1>1, <1>3, <1>4, BoundAssumption, DistinctAssumption DEF Version
  <1>9. OldAnswer' => OldAnswer
    <2>1. ASSUME NEW v \in Version \ {version},
                 Has(handling', v) \/ Has(replies', v) \/ Has(receipts, v)
          PROVE  OldAnswer
      <3>1. CASE v = answer
        <4>1. handling[i] \in Version \ {version} /\ Has(handling, handling[i])
          BY <1>4, <1>7, <1>8, <3>1
        <4> QED BY <4>1 DEF OldAnswer
      <3>2. CASE v # answer
        BY <1>6, <1>7, <2>1, <3>2 DEF OldAnswer
      <3> QED BY <3>1, <3>2
    <2> QED BY <2>1 DEF OldAnswer
  <1>10. News => News'
    BY <1>6 DEF News
  <1>11. Told => Told'
    <2>1. handling[i] = version => answer = version \/ answer = Error
      BY <1>1, <1>3, <1>4, BoundAssumption DEF Version
    <2> QED BY <1>6, <1>7, <2>1 DEF Told
  <1>12. Count(replies', Answer) = Count(replies, Answer) + 1
    BY <1>1, <1>3, <1>5, CountAppend
  <1>13. /\ Count(requests, {"fetch"}) \in Nat /\ Count(replies, Answer) \in Nat
    BY InvParts, InFlightType
  <1>14. InFlight' = InFlight
    BY <1>1, <1>7, <1>12, <1>13 DEF InFlight
  <1>15. SubscribeSent'
    BY <1>0, InvParts DEF SubscribeSent
  <1> QED BY <1>0, <1>9, <1>10, <1>11, <1>14, <1>15, InvParts, HomeStepInv

LEMMA DeliverInv ==
    ASSUME Inv, Typed', Deliver
    PROVE  Inv'
  <1> USE DEF Deliver, home, wires, mirror
  <1>1. /\ replies \in Seq(Answer \cup {Notify}) /\ replies # <<>>
        /\ receipts \in Seq(Answer) /\ Len(receipts) \in Nat
        /\ Head(replies) \in Answer \cup {Notify}
    BY InvParts, TypedSeqs, SeqSteps
  <1>2. \A x : Has(replies, x) <=> Has(replies', x) \/ x = Head(replies)
    BY <1>1, HasTail
  <1>3. Count(replies, Answer)
           = Count(replies', Answer) + (IF Head(replies) \in Answer THEN 1 ELSE 0)
    BY <1>1, CountTail
  <1>4. /\ Count(requests, {"fetch"}) \in Nat /\ Count(replies', Answer) \in Nat
        /\ Len(handling) \in Nat
    BY <1>1, InvParts, InFlightType, CountType, SeqSteps
  <1>5. SubscribeSent'
    BY InvParts DEF SubscribeSent
  <1>6. CASE Head(replies) = Notify
    <2>1. News' /\ Told'
      BY <1>6 DEF News, Told
    <2>2. Count(replies', Answer) = Count(replies, Answer)
      BY <1>3, <1>4, <1>6, Values
    <2>3. InFlight' = InFlight /\ Waits' = Waits /\ open' = open
      BY <1>6, <2>2 DEF InFlight, Waits
    <2>4. Gone'
      BY <1>1, <2>2, <2>3, InvParts DEF Gone
    <2> QED BY <1>5, <2>1, <2>3, <2>4, InvParts, NextInv
  <1>7. CASE Head(replies) # Notify
    <2>1. Head(replies) \in Answer
      BY <1>1, <1>7
    <2>2. receipts' = Append(receipts, Head(replies))
      BY <1>7
    <2>3. /\ Len(receipts') = Len(receipts) + 1
          /\ \A x : Has(receipts', x) <=> Has(receipts, x) \/ x = Head(replies)
      BY <1>1, <2>1, <2>2, HasAppend, SeqSteps
    <2>4. OldAnswer' => OldAnswer
      BY <1>2, <2>3 DEF OldAnswer
    <2>5. News => News'
      BY <1>2, <1>7 DEF News
    <2>6. Told => Told'
      BY <1>2, <1>7, <2>3 DEF Told
    <2>7. open' = open - 1 /\ Count(replies, Answer) = Count(replies', Answer) + 1
      BY <1>3, <1>7, <2>1
    <2>8. open \in Nat
      BY InvParts
    <2>9. Waits' = Waits /\ (open = InFlight => open' = InFlight')
      <3>1. Waits' = Waits
        BY <1>1, <2>3, <2>7, <2>8 DEF Waits
      <3>2. Count(replies', Answer) = Count(replies, Answer) - 1
        BY <1>4, <2>7
      <3>3. InFlight' = InFlight - 1
        BY <1>4, <2>7, <3>2 DEF InFlight
      <3> QED BY <2>7, <3>1, <3>3
    <2>10. Gone'
      BY <1>1, <1>4, <2>7, <2>8, InvParts DEF Gone
    <2> QED BY <1>5, <2>4, <2>5, <2>6, <2>9, <2>10, InvParts, NextInv
  <1> QED BY <1>6, <1>7

\* Without an open receipt, the home of a running plugin has nothing to answer.
LEMMA NoFetch ==
    ASSUME Typed, open = 0, open = InFlight
    PROVE  /\ Count(requests, {"fetch"}) = 0 /\ Len(handling) = 0
           /\ Count(replies, Answer) = 0
           /\ Len(receipts) = 0 => ~OldAnswer
  <1>1. /\ Count(requests, {"fetch"}) \in Nat /\ Len(handling) \in Nat
        /\ Count(replies, Answer) \in Nat
    BY InFlightType
  <1>2. /\ Count(requests, {"fetch"}) = 0 /\ Len(handling) = 0
        /\ Count(replies, Answer) = 0
    BY <1>1 DEF InFlight
  <1> QED BY <1>2, InFlightType

\* A live mirror without a fetch starts one.
LEMMA FetchInv ==
    ASSUME Inv, Typed', alive, open = 0, Fetch, fetching' = TRUE, Len(receipts') = 0,
           UNCHANGED <<plugin, home, replies, alive>>,
           ~OldAnswer' \/ plugin # "runs"
    PROVE  Inv'
  <1>1. /\ requests \in Seq(Frame) /\ "fetch" \in Frame /\ open' = 1
    BY InvParts, TypedSeqs DEF Fetch, Frame
  <1>2. Waits' = IF fetching' THEN 1 ELSE 0
    BY <1>1 DEF Waits
  <1>3. CASE plugin = "runs"
    <2>1. requests' = Append(requests, "fetch")
      BY <1>3 DEF Fetch
    <2>2. \A x : Has(requests', x) <=> Has(requests, x) \/ x = "fetch"
      BY <1>1, <2>1, HasAppend
    <2>3. Told' /\ SubscribeSent'
      BY <2>2, InvParts DEF Told, SubscribeSent, home
    <2>4. Count(requests', {"fetch"}) = Count(requests, {"fetch"}) + 1
      BY <1>1, <2>1, CountAppend
    <2>5. Count(requests, {"fetch"}) = 0 /\ Len(handling) = 0 /\ Count(replies, Answer) = 0
      BY <1>3, InvParts, NoFetch
    <2>6. InFlight' = 1
      BY <2>4, <2>5 DEF InFlight, home
    <2>7. Gone'
      BY <1>3 DEF Gone
    <2> QED BY <1>1, <1>2, <1>3, <2>3, <2>6, <2>7, NextInv
  <1>4. CASE plugin # "runs"
    <2>1. requests' = requests /\ plugin' = plugin
      BY <1>4 DEF Fetch
    <2>2. Count(replies, Answer) <= open /\ Count(replies, Answer) \in Nat
      BY <1>4, InvParts, InFlightType DEF Gone
    <2>3. Gone'
      BY <1>1, <1>4, <2>1, <2>2, InvParts DEF Gone, home
    <2>4. SubscribeSent'
      BY <1>4, <2>1 DEF SubscribeSent
    <2> QED BY <1>2, <1>4, <2>1, <2>3, <2>4, NextInv
  <1> QED BY <1>3, <1>4

LEMMA FlushSignalInv ==
    ASSUME Inv, Typed', FlushSignal
    PROVE  Inv'
  <1> USE DEF FlushSignal, home, wires, mirror
  <1>1. requests \in Seq(Frame) /\ "fetch" \in Frame /\ fetching \in BOOLEAN
    BY InvParts, TypedSeqs DEF Frame
  <1>2. CASE ~alive
    <2>1. UNCHANGED <<requests, open>>
      BY <1>2
    <2>2. SubscribeSent' /\ Gone' /\ InFlight' = InFlight
      BY <2>1, InvParts DEF SubscribeSent, Gone, InFlight
    <2> QED BY <1>2, <2>1, <2>2, InvParts, NextInv
  <1>3. CASE alive /\ fetching
    <2>1. dirty' = TRUE /\ fetching' = TRUE /\ UNCHANGED <<requests, open>>
      BY <1>3 DEF Refresh
    <2>2. SubscribeSent' /\ Gone' /\ News' /\ Told'
      BY <2>1, InvParts DEF SubscribeSent, Gone, News, Told
    <2>3. InFlight' = InFlight /\ Waits' = Waits
      BY <2>1 DEF InFlight, Waits
    <2> QED BY <1>3, <2>1, <2>2, <2>3, InvParts, NextInv
  <1>4. CASE alive /\ ~fetching
    <2>1. fetching' = TRUE /\ Fetch
      BY <1>4 DEF Refresh
    <2>2. open = 0 /\ Len(receipts) = 0
      <3>1. open \in Nat /\ Len(receipts) \in Nat /\ open + Len(receipts) = 0
        BY <1>4, InvParts, InFlightType DEF Waits
      <3> QED BY <3>1
    <2>3. ~OldAnswer' \/ plugin # "runs"
      <3>1. plugin = "runs" => ~OldAnswer
        BY <2>2, InvParts, NoFetch
      <3> QED BY <3>1 DEF OldAnswer
    <2> QED BY <1>1, <1>4, <2>1, <2>2, <2>3, FetchInv
  <1> QED BY <1>1, <1>2, <1>3, <1>4

LEMMA SettleInv ==
    ASSUME Inv, Typed', Settle
    PROVE  Inv'
  <1> USE DEF Settle, home, wires, mirror
  <1>1. /\ dirty \in BOOLEAN /\ receipts \in Seq(Answer)
    BY InvParts, TypedSeqs
  <1>2. CASE ~alive
    <2>1. ~alive' /\ UNCHANGED <<plugin, home, requests, open, replies>>
      BY <1>2
    <2>2. SubscribeSent' /\ Gone' /\ InFlight' = InFlight
      BY <2>1, InvParts DEF SubscribeSent, Gone, InFlight
    <2> QED BY <2>1, <2>2, InvParts, NextInv
  <1>3. CASE alive
    <2>1. PICK i \in DOMAIN receipts :
              /\ receipts' = RemoveAt(receipts, i)
              /\ failed' = (receipts[i] = Error)
              /\ latest' = IF receipts[i] = Error THEN latest ELSE receipts[i]
              /\ IF dirty
                 THEN Refresh(FALSE)
                 ELSE fetching' = FALSE /\ UNCHANGED <<dirty, open, requests>>
      BY <1>3
    <2>2. receipts[i] \in Answer /\ Len(receipts) \in Nat /\ Len(receipts) # 0
      BY <1>1
    <2>3. /\ receipts' \in Seq(Answer) /\ Len(receipts') = Len(receipts) - 1
          /\ Has(receipts, receipts[i])
      BY <1>1, <2>1, HasRemoveAt
    <2>4. open = 0 /\ Len(receipts') = 0
      <3>1. open \in Nat /\ (open + Len(receipts) = 0 \/ open + Len(receipts) = 1)
        BY <1>3, InvParts DEF Waits
      <3> QED BY <2>2, <2>3, <3>1
    <2>5. ~OldAnswer' \/ plugin # "runs"
      <3> SUFFICES ASSUME plugin = "runs" PROVE ~OldAnswer'
        OBVIOUS
      <3>1. Len(handling) = 0 /\ Count(replies, Answer) = 0
        BY <2>4, InvParts, NoFetch
      <3>2. \A x : ~Has(receipts', x)
        BY <2>3, <2>4 DEF Has
      <3>3. \A x : ~Has(handling, x)
        BY <3>1, InvParts, TypedSeqs DEF Has
      <3>4. \A x \in Answer : ~Has(replies, x)
        BY <3>1, InvParts, TypedSeqs, CountType
      <3> QED BY <3>2, <3>3, <3>4 DEF OldAnswer, Answer
    <2>6. CASE dirty
      <3>1. fetching' = TRUE /\ Fetch
        BY <2>1, <2>6 DEF Refresh
      <3> QED BY <1>3, <2>4, <2>5, <3>1, FetchInv
    <2>7. CASE ~dirty
      <3>1. fetching' = FALSE /\ UNCHANGED <<dirty, open, requests>>
        BY <2>1, <2>7
      <3>2. Waits' = 0
        BY <2>4, <3>1 DEF Waits
      <3>3. SubscribeSent' /\ Gone' /\ InFlight' = InFlight
        BY <3>1, InvParts DEF SubscribeSent, Gone, InFlight
      <3>4. plugin # "runs" \/ Told' \/ latest' = version'
        <4>1. CASE receipts[i] = Error
          BY <2>1, <4>1 DEF Told
        <4>2. CASE receipts[i] # Error /\ receipts[i] # version
          <5>1. receipts[i] \in Version \ {version}
            BY <2>2, <4>2 DEF Answer
          <5>2. OldAnswer
            BY <2>3, <5>1 DEF OldAnswer
          <5>3. plugin = "runs" => News
            BY <1>3, <5>2, InvParts
          <5> QED BY <2>7, <3>1, <4>2, <5>3 DEF News, Told
        <4>3. CASE receipts[i] # Error /\ receipts[i] = version
          BY <2>1, <4>3
        <4> QED BY <4>1, <4>2, <4>3
      <3> QED BY <2>5, <3>1, <3>2, <3>3, <3>4, InvParts, NextInv
    <2> QED BY <1>1, <2>6, <2>7
  <1> QED BY <1>2, <1>3

\* The home and all it has to send go; what stays on its way has its receipt.
LEMMA StopInv ==
    ASSUME Inv, Typed', Stop
    PROVE  Inv'
  <1> USE DEF Stop, home, wires, mirror
  <1>1. PICK n \in 0 .. Len(replies) : replies' = SubSeq(replies, 1, n)
    OBVIOUS
  <1>2. Count(replies', Answer) <= Count(replies, Answer)
    BY <1>1, InvParts, TypedSeqs, CountPrefix
  <1>3. /\ Count(requests, {"fetch"}) \in Nat /\ Len(handling) \in Nat
        /\ Count(replies, Answer) \in Nat /\ Count(replies', Answer) \in Nat
    <2>1. replies' \in Seq(Answer \cup {Notify})
      BY DEF Typed
    <2> QED BY <2>1, InvParts, InFlightType, CountType
  <1>4. Count(replies', Answer) <= open'
    BY <1>2, <1>3, InvParts DEF InFlight
  <1>5. Gone'
    BY <1>4 DEF Gone
  <1>6. SubscribeSent' /\ Waits' = Waits
    BY DEF SubscribeSent, Waits
  <1> QED BY <1>5, <1>6, InvParts, NextInv

\* Every open receipt becomes one that its task picks up.
LEMMA FailPendingInv ==
    ASSUME Inv, Typed', FailPending
    PROVE  Inv'
  <1> USE DEF FailPending, home, wires, mirror
  <1> DEFINE errors == [i \in 1 .. open |-> Error]
  <1>1. open \in Nat /\ errors \in Seq(Answer) /\ Len(errors) = open
    <2>1. open \in Nat /\ open \in Int
      BY InvParts
    <2> QED BY <2>1, Errors
  <1>2. receipts' = receipts \o errors /\ receipts \in Seq(Answer) /\ Len(receipts) \in Nat
    BY InvParts, TypedSeqs
  <1> HIDE DEF errors
  <1>3. Len(receipts') = Len(receipts) + open
    BY <1>1, <1>2, Concat
  <1>4. Waits' = Waits
    BY <1>1, <1>2, <1>3 DEF Waits
  <1>5. Count(replies', Answer) = 0
    <2>1. Positions(replies', Answer) = {}
      BY DEF Positions
    <2> QED BY <2>1, FS_EmptySet DEF Count
  <1>6. Gone'
    BY <1>5, InvParts DEF Gone
  <1>7. SubscribeSent'
    BY DEF SubscribeSent
  <1> QED BY <1>4, <1>6, <1>7, InvParts, NextInv

LEMMA StepInv == Inv /\ [Next]_vars => Inv'
  <1> SUFFICES ASSUME Inv, [Next]_vars PROVE Inv'
    OBVIOUS
  <1>1. Typed'
    BY NextTyped, InvParts
  <1>2. CASE DropMirror
    <2>1. ~alive' /\ UNCHANGED <<plugin, home, wires, open>>
      BY <1>2 DEF DropMirror
    <2>2. SubscribeSent' /\ Gone' /\ InFlight' = InFlight
      BY <2>1, InvParts DEF SubscribeSent, Gone, InFlight, home, wires
    <2> QED BY <1>1, <2>1, <2>2, InvParts, NextInv
  <1>3. CASE UNCHANGED vars
    BY <1>3 DEF Inv, Typed, SubscribeSent, Gone, Count, OneFetch, Owed, OldIsNews, OldAnswer,
                News, NewsOnItsWay, Has, vars, home, wires, mirror
  <1> QED BY <1>1, <1>2, <1>3, ChangeInv, FlushChangeInv, HandleSubscribeInv, HandleFetchInv,
             FinishFetchInv, DeliverInv, FlushSignalInv, SettleInv, StopInv, FailPendingInv
          DEF Next

-----------------------------------------------------------------------------
LEMMA InvHolds == Spec => []Inv
  BY InitInv, StepInv, PTL DEF Spec

\* "coalescing bursts into one in-flight call": a live mirror has one fetch
\* somewhere between its request and the task that picks the answer up when it
\* says it is fetching, and none when it does not, for any number of changes.
THEOREM OneFetchAlways == Spec => []OneFetch
  <1>1. Inv => OneFetch
    BY DEF Inv
  <1> QED BY <1>1, InvHolds, PTL

\* A live mirror that is behind its object always has something under way that
\* tells it so, unless its last fetch failed, for any number of changes.
THEOREM NeverBehindUnaware == Spec => []NewsOnItsWay
  <1>1. Inv => NewsOnItsWay
    BY DEF Inv
  <1> QED BY <1>1, InvHolds, PTL

=============================================================================
