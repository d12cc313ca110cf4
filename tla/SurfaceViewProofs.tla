------------------------- MODULE SurfaceViewProofs -------------------------
(***************************************************************************)
(* Proofs about SurfaceView, for any views and ids of the surface, and any *)
(* bounds: the attached window gets the size of the slot, it is the one    *)
(* that the platform pumps, and a window closes once, when the host let go *)
(* of its view.                                                            *)
(*                                                                         *)
(* The module first has what it needs about sequences, then the types,     *)
(* then where a view may be (StageInv) and in which order views attach     *)
(* (OrderInv), and last the sizes.                                         *)
(***************************************************************************)
EXTENDS SurfaceView, FiniteSetTheorems, SequenceTheorems, WellFoundedInduction, TLAPS

-----------------------------------------------------------------------------
(***************************************************************************)
(* Sequences: their members, and the order of these by a rank.             *)
(***************************************************************************)
LEMMA MembersOf ==
    ASSUME NEW X, NEW s \in Seq(X)
    PROVE  /\ Range(s) \subseteq X
           /\ \A x : x \in Range(s) <=> \E i \in DOMAIN s : s[i] = x
  BY DEF Range

LEMMA MembersAppend ==
    ASSUME NEW X, NEW s \in Seq(X), NEW x \in X
    PROVE  /\ Append(s, x) \in Seq(X) /\ Range(Append(s, x)) = Range(s) \cup {x}
           /\ DOMAIN Append(s, x) = 1 .. Len(s) + 1 /\ Append(s, x)[Len(s) + 1] = x
           /\ \A i \in 1 .. Len(s) : Append(s, x)[i] = s[i]
<1>1. /\ Append(s, x) \in Seq(X) /\ Len(s) \in Nat /\ DOMAIN s = 1 .. Len(s)
      /\ DOMAIN Append(s, x) = 1 .. Len(s) + 1 /\ Append(s, x)[Len(s) + 1] = x
      /\ \A i \in 1 .. Len(s) : Append(s, x)[i] = s[i]
  BY AppendProperties
<1>2. \A i \in 1 .. Len(s) + 1 : i \in 1 .. Len(s) \/ i = Len(s) + 1
  BY <1>1
<1>3. \A y : y \in Range(Append(s, x)) <=> y \in Range(s) \/ y = x
  <2>1. \A i \in 1 .. Len(s) : i \in 1 .. Len(s) + 1
    BY <1>1
  <2>2. Len(s) + 1 \in 1 .. Len(s) + 1
    BY <1>1
  <2>3. QED
    BY <1>1, <1>2, <2>1, <2>2 DEF Range
<1>4. QED
  BY <1>1, <1>3

LEMMA MembersTail ==
    ASSUME NEW X, NEW s \in Seq(X), s # <<>>
    PROVE  /\ Head(s) \in X /\ Tail(s) \in Seq(X) /\ Head(s) = s[1]
           /\ Range(s) = {Head(s)} \cup Range(Tail(s))
           /\ DOMAIN s = 1 .. Len(s) /\ DOMAIN Tail(s) = 1 .. Len(s) - 1
           /\ Len(s) \in Nat \ {0}
           /\ \A i \in 1 .. Len(s) - 1 : Tail(s)[i] = s[i + 1]
<1>1. /\ Head(s) \in X /\ Tail(s) \in Seq(X) /\ Head(s) = s[1]
      /\ DOMAIN s = 1 .. Len(s) /\ DOMAIN Tail(s) = 1 .. Len(s) - 1
      /\ Len(s) \in Nat \ {0}
      /\ \A i \in 1 .. Len(s) - 1 : Tail(s)[i] = s[i + 1]
  OBVIOUS
<1> DEFINE t == Tail(s)
<1> HIDE DEF t
<1>2. \A i \in 1 .. Len(s) : i = 1 \/ (i - 1 \in 1 .. Len(s) - 1 /\ s[i] = t[i - 1])
  <2> TAKE i \in 1 .. Len(s)
  <2>1. i # 1 => i - 1 \in 1 .. Len(s) - 1 /\ (i - 1) + 1 = i
    BY <1>1
  <2>2. QED
    BY <1>1, <2>1 DEF t
<1>3. \A i \in 1 .. Len(s) - 1 : i + 1 \in 1 .. Len(s) /\ t[i] = s[i + 1]
  BY <1>1 DEF t
<1>4. 1 \in 1 .. Len(s) /\ DOMAIN t = 1 .. Len(s) - 1
  BY <1>1 DEF t
<1>5. \A x : x \in Range(s) <=> x = s[1] \/ x \in Range(t)
  <2>1. ASSUME NEW x \in Range(s)
        PROVE  x = s[1] \/ x \in Range(t)
    <3>1. PICK i \in 1 .. Len(s) : s[i] = x
      BY <1>1 DEF Range
    <3>2. i = 1 \/ (i - 1 \in DOMAIN t /\ x = t[i - 1])
      BY <1>2, <1>4, <3>1
    <3>3. QED
      BY <3>1, <3>2 DEF Range
  <2>2. ASSUME NEW x \in Range(t)
        PROVE  x \in Range(s)
    <3>1. PICK i \in 1 .. Len(s) - 1 : t[i] = x
      BY <1>4 DEF Range
    <3>2. i + 1 \in DOMAIN s /\ x = s[i + 1]
      BY <1>1, <1>3, <3>1
    <3>3. QED
      BY <3>2 DEF Range
  <2>3. s[1] \in Range(s)
    BY <1>1, <1>4 DEF Range
  <2>4. QED
    BY <2>1, <2>2, <2>3
<1>6. Range(s) = {Head(s)} \cup Range(Tail(s))
  BY <1>1, <1>5 DEF t
<1>7. QED
  BY <1>1, <1>6

Before(S, T, rank) == \A v \in S, w \in T : rank[v] < rank[w]
Increasing(s, rank) == \A i, j \in DOMAIN s : i < j => rank[s[i]] < rank[s[j]]

LEMMA IncreasingAppend ==
    ASSUME NEW rank \in [View -> Nat], NEW s \in Seq(View), NEW v \in View,
           Increasing(s, rank), Before(Range(s), {v}, rank)
    PROVE  Increasing(Append(s, v), rank)
<1> DEFINE t == Append(s, v)
           n == Len(s)
<1>1. /\ n \in Nat /\ DOMAIN s = 1 .. n /\ DOMAIN t = 1 .. n + 1 /\ t[n + 1] = v
      /\ \A i \in 1 .. n : t[i] = s[i]
  BY MembersAppend
<1>2. \A i \in 1 .. n : rank[s[i]] < rank[v]
  BY <1>1 DEF Before, Range
<1> HIDE DEF t, n
<1>3. ASSUME NEW i \in 1 .. n + 1, NEW j \in 1 .. n + 1, i < j
      PROVE  rank[t[i]] < rank[t[j]]
  <2>1. i \in 1 .. n /\ (j \in 1 .. n \/ j = n + 1)
    BY <1>1, <1>3
  <2>2. QED
    BY <1>1, <1>2, <1>3, <2>1 DEF Increasing
<1>4. QED
  BY <1>1, <1>3 DEF Increasing, t

LEMMA IncreasingTail ==
    ASSUME NEW rank \in [View -> Nat], NEW s \in Seq(View), s # <<>>,
           Increasing(s, rank)
    PROVE  Increasing(Tail(s), rank) /\ Before({Head(s)}, Range(Tail(s)), rank)
<1> DEFINE t == Tail(s)
<1>1. /\ Head(s) = s[1] /\ Len(s) \in Nat \ {0}
      /\ DOMAIN s = 1 .. Len(s) /\ DOMAIN t = 1 .. Len(s) - 1
      /\ \A i \in 1 .. Len(s) - 1 : t[i] = s[i + 1]
  BY MembersTail
<1> HIDE DEF t
<1>2. \A i \in 1 .. Len(s) - 1 : i + 1 \in 1 .. Len(s) /\ 1 < i + 1
  BY <1>1
<1>3. 1 \in 1 .. Len(s)
  BY <1>1
<1>4. \A i \in 1 .. Len(s) - 1 : rank[s[1]] < rank[t[i]]
  BY <1>1, <1>2, <1>3 DEF Increasing
<1>5. ASSUME NEW i \in 1 .. Len(s) - 1, NEW j \in 1 .. Len(s) - 1, i < j
      PROVE  rank[t[i]] < rank[t[j]]
  <2>1. i + 1 \in 1 .. Len(s) /\ j + 1 \in 1 .. Len(s) /\ i + 1 < j + 1
    BY <1>2, <1>5
  <2>2. rank[s[i + 1]] < rank[s[j + 1]]
    BY <1>1, <2>1 DEF Increasing
  <2>3. QED
    BY <1>1, <2>2
<1>6. Increasing(t, rank)
  BY <1>1, <1>5 DEF Increasing
<1>7. Before({Head(s)}, Range(t), rank)
  <2>1. ASSUME NEW w \in Range(t)
        PROVE  rank[Head(s)] < rank[w]
    <3>1. PICK i \in 1 .. Len(s) - 1 : w = t[i]
      BY <1>1, <2>1 DEF Range
    <3>2. QED
      BY <1>1, <1>4, <3>1
  <2>2. QED
    BY <2>1 DEF Before
<1>8. QED
  BY <1>6, <1>7 DEF t

-----------------------------------------------------------------------------
(***************************************************************************)
(* The last size of a sequence, and of a concatenation.                    *)
(***************************************************************************)
LEMMA MaxOf ==
    ASSUME NEW n \in Nat, NEW S \in SUBSET (1 .. n), S # {}
    PROVE  Max(S) \in S /\ \A y \in S : y <= Max(S)
<1> DEFINE T == {k \in Nat : n - k \in S}
           R == OpToRel(<, Nat)
<1>1. T \subseteq Nat /\ T # {}
  <2>1. PICK x \in S : TRUE
    OBVIOUS
  <2>2. n - x \in Nat /\ n - (n - x) = x
    OBVIOUS
  <2>3. n - x \in T
    BY <2>1, <2>2
  <2>4. QED
    BY <2>3
<1>2. IsWellFoundedOn(R, Nat)
  BY NatLessThanWellFounded
<1>3. \E x \in T : \A y \in T : <<y, x>> \notin R
  <2> HIDE DEF R, T
  <2>1. QED
    BY <1>1, <1>2, WFMin
<1>4. \A x, y \in Nat : x < y => <<x, y>> \in R
  BY DEF OpToRel
<1>5. PICK k \in T : \A y \in T : ~(y < k)
  <2> HIDE DEF R
  <2>1. QED
    BY <1>3, <1>4
<1>6. n - k \in S /\ k \in Nat
  OBVIOUS
<1>7. ASSUME NEW y \in S
      PROVE  n - k >= y
  <2>1. y \in Nat /\ n - y \in Nat /\ n - (n - y) = y
    OBVIOUS
  <2>2. n - y \in T
    BY <2>1
  <2>3. ~(n - y < k)
    BY <1>5, <2>2
  <2>4. QED
    BY <1>6, <2>1, <2>3
<1>8. \E x \in S : \A y \in S : x >= y
  BY <1>6, <1>7
<1>9. Max(S) \in S /\ \A y \in S : Max(S) >= y
  BY <1>8 DEF Max
<1>10. QED
  BY <1>9

\* A window takes g for its size.
IsSize(g) == g \notin {Nil, Empty}

\* LastAt(s, i): the last size is the i-th member.
LastAt(s, i) == /\ i \in DOMAIN s /\ IsSize(s[i])
                /\ \A j \in DOMAIN s : i < j => ~IsSize(s[j])

LEMMA LastSizeAt ==
    ASSUME NEW X, NEW s \in Seq(X)
    PROVE  /\ (\A i \in DOMAIN s : ~IsSize(s[i])) => LastSize(s) = Nil
           /\ (\E i \in DOMAIN s : IsSize(s[i])) => \E i \in Nat : LastAt(s, i)
           /\ \A i \in Nat : LastAt(s, i) => LastSize(s) = s[i] /\ LastSize(s) # Nil
<1> DEFINE S == {i \in DOMAIN s : s[i] \notin {Nil, Empty}}
<1>1. /\ Len(s) \in Nat /\ DOMAIN s = 1 .. Len(s)
      /\ LastSize(s) = IF S = {} THEN Nil ELSE s[Max(S)]
  BY DEF LastSize
<1>2. S \in SUBSET (1 .. Len(s)) /\ \A i : i \in S <=> i \in DOMAIN s /\ IsSize(s[i])
  BY <1>1 DEF IsSize
<1> HIDE DEF S
<1>3. S # {} => Max(S) \in S /\ \A y \in S : y <= Max(S)
  BY <1>1, <1>2, MaxOf
<1>4. ASSUME S # {}
      PROVE  Max(S) \in Nat /\ LastAt(s, Max(S))
  <2>1. Max(S) \in 1 .. Len(s) /\ IsSize(s[Max(S)])
    BY <1>2, <1>3, <1>4
  <2>2. ASSUME NEW j \in 1 .. Len(s), Max(S) < j, IsSize(s[j])
        PROVE  FALSE
    <3>1. j <= Max(S)
      BY <1>1, <1>2, <1>3, <2>2
    <3>2. QED
      BY <2>1, <2>2, <3>1
  <2>3. QED
    BY <1>1, <2>1, <2>2 DEF LastAt
<1>5. ASSUME NEW i \in Nat, LastAt(s, i)
      PROVE  LastSize(s) = s[i] /\ LastSize(s) # Nil
  <2>1. i \in S
    BY <1>2, <1>5 DEF LastAt
  <2>2. Max(S) \in S /\ i <= Max(S) /\ Max(S) \in 1 .. Len(s)
    BY <1>2, <1>3, <2>1
  <2>3. ~(i < Max(S))
    BY <1>1, <1>2, <1>5, <2>2 DEF LastAt
  <2>4. Max(S) = i
    BY <2>2, <2>3
  <2>5. QED
    BY <1>1, <1>5, <2>1, <2>4 DEF LastAt, IsSize
<1>6. (\A i \in DOMAIN s : ~IsSize(s[i])) => S = {}
  BY <1>2
<1>7. (\E i \in DOMAIN s : IsSize(s[i])) => S # {}
  BY <1>2
<1>8. QED
  BY <1>1, <1>4, <1>5, <1>6, <1>7

LEMMA LastSizeType ==
    ASSUME NEW s \in Seq(Size \cup {Nil})
    PROVE  LastSize(s) \in Size \cup {Nil}
<1>1. CASE \A i \in DOMAIN s : ~IsSize(s[i])
  BY <1>1, LastSizeAt
<1>2. CASE \E i \in DOMAIN s : IsSize(s[i])
  <2>1. PICK i \in Nat : LastAt(s, i)
    BY <1>2, LastSizeAt
  <2>2. LastSize(s) = s[i] /\ i \in DOMAIN s
    BY <2>1, LastSizeAt DEF LastAt
  <2>3. QED
    BY <2>2
<1>3. QED
  BY <1>1, <1>2

LEMMA LastSizeOne ==
    ASSUME NEW x
    PROVE  LastSize(<<x>>) = IF IsSize(x) THEN x ELSE Nil
<1> DEFINE s == <<x>>
<1>1. s \in Seq({x}) /\ DOMAIN s = {1} /\ s[1] = x
  OBVIOUS
<1> HIDE DEF s
<1>2. CASE IsSize(x)
  <2>1. LastAt(s, 1)
    BY <1>1, <1>2 DEF LastAt
  <2>2. LastSize(s) = x
    BY <1>1, <2>1, LastSizeAt
  <2>3. QED
    BY <1>2, <2>2 DEF s
<1>3. CASE ~IsSize(x)
  <2>1. \A i \in DOMAIN s : ~IsSize(s[i])
    BY <1>1, <1>3
  <2>2. LastSize(s) = Nil
    BY <1>1, <2>1, LastSizeAt
  <2>3. QED
    BY <1>3, <2>2 DEF s
<1>4. QED
  BY <1>2, <1>3

\* What comes later counts.
LEMMA LastSizeConcat ==
    ASSUME NEW X, NEW s \in Seq(X), NEW t \in Seq(X)
    PROVE  LastSize(s \o t) = IF LastSize(t) # Nil THEN LastSize(t) ELSE LastSize(s)
<1> DEFINE m == Len(s)
           n == Len(t)
           u == s \o t
<1>1. /\ u \in Seq(X) /\ m \in Nat /\ n \in Nat /\ DOMAIN u = 1 .. m + n
      /\ DOMAIN s = 1 .. m /\ DOMAIN t = 1 .. n
      /\ \A i \in 1 .. m + n : u[i] = IF i <= m THEN s[i] ELSE t[i - m]
  BY ConcatProperties
<1> HIDE DEF m, n, u
<1>2. \A i \in 1 .. m : i \in 1 .. m + n /\ u[i] = s[i]
  BY <1>1
<1>3. ASSUME NEW i \in 1 .. m + n, i > m
      PROVE  i - m \in 1 .. n /\ u[i] = t[i - m]
  BY <1>1, <1>3
<1>4. ASSUME NEW i \in 1 .. n
      PROVE  m + i \in 1 .. m + n /\ u[m + i] = t[i] /\ m + i \in Nat
  <2>1. m + i \in 1 .. m + n /\ ~(m + i <= m) /\ (m + i) - m = i
    BY <1>1
  <2>2. QED
    BY <1>1, <2>1
<1>5. CASE \E i \in DOMAIN t : IsSize(t[i])
  <2>1. PICK i \in Nat : LastAt(t, i)
    BY <1>5, LastSizeAt
  <2>2. LastSize(t) = t[i] /\ LastSize(t) # Nil /\ i \in 1 .. n
    BY <1>1, <2>1, LastSizeAt DEF LastAt
  <2>3. LastAt(u, m + i)
    <3>1. m + i \in DOMAIN u /\ IsSize(u[m + i])
      BY <1>1, <1>4, <2>1, <2>2 DEF LastAt
    <3>2. ASSUME NEW j \in 1 .. m + n, m + i < j
          PROVE  ~IsSize(u[j])
      <4>1. j > m /\ j - m > i
        BY <1>1, <3>2
      <4>2. j - m \in 1 .. n /\ u[j] = t[j - m]
        BY <1>3, <4>1
      <4>3. QED
        BY <1>1, <2>1, <4>1, <4>2 DEF LastAt
    <3>3. QED
      BY <1>1, <3>1, <3>2 DEF LastAt
  <2>4. LastSize(u) = u[m + i]
    BY <1>1, <1>4, <2>2, <2>3, LastSizeAt
  <2>5. QED
    BY <1>4, <2>2, <2>4 DEF u
<1>6. CASE \A i \in DOMAIN t : ~IsSize(t[i])
  <2>1. LastSize(t) = Nil
    BY <1>6, LastSizeAt
  <2>2. ASSUME NEW j \in 1 .. m + n, j > m
        PROVE  ~IsSize(u[j])
    BY <1>1, <1>3, <1>6, <2>2
  <2>3. CASE \E i \in DOMAIN s : IsSize(s[i])
    <3>1. PICK i \in Nat : LastAt(s, i)
      BY <2>3, LastSizeAt
    <3>2. LastSize(s) = s[i] /\ i \in 1 .. m
      BY <1>1, <3>1, LastSizeAt DEF LastAt
    <3>3. LastAt(u, i)
      <4>1. i \in DOMAIN u /\ IsSize(u[i])
        BY <1>1, <1>2, <3>1, <3>2 DEF LastAt
      <4>2. ASSUME NEW j \in 1 .. m + n, i < j
            PROVE  ~IsSize(u[j])
        <5>1. CASE j > m
          BY <2>2, <5>1
        <5>2. CASE ~(j > m)
          <6>1. j \in 1 .. m
            BY <1>1, <5>2
          <6>2. QED
            BY <1>1, <1>2, <3>1, <4>2, <6>1 DEF LastAt
        <5>3. QED
          BY <5>1, <5>2
      <4>3. QED
        BY <1>1, <4>1, <4>2 DEF LastAt
    <3>4. LastSize(u) = u[i]
      BY <1>1, <3>3, LastSizeAt
    <3>5. QED
      BY <1>2, <2>1, <3>2, <3>4 DEF u
  <2>4. CASE \A i \in DOMAIN s : ~IsSize(s[i])
    <3>1. LastSize(s) = Nil
      BY <2>4, LastSizeAt
    <3>2. ASSUME NEW j \in 1 .. m + n
          PROVE  ~IsSize(u[j])
      <4>1. j > m \/ j \in 1 .. m
        BY <1>1
      <4>2. QED
        BY <1>1, <1>2, <2>2, <2>4, <4>1
    <3>3. LastSize(u) = Nil
      BY <1>1, <3>2, LastSizeAt
    <3>4. QED
      BY <2>1, <3>1, <3>3 DEF u
  <2>5. QED
    BY <2>3, <2>4
<1>7. QED
  BY <1>5, <1>6

-----------------------------------------------------------------------------
(***************************************************************************)
(* Requests and turns.                                                     *)
(***************************************************************************)
\* The constructors build requests.
LEMMA RequestTypes ==
    /\ \A s \in SurfaceId : Mount(s) \in Request /\ Mount(s).kind = "mount"
    /\ \A v \in View, g \in Size : /\ Resize(v, g) \in Request
                                   /\ Resize(v, g).kind = "resize"
                                   /\ Resize(v, g).to = v /\ Resize(v, g).size = g
    /\ \A v \in View : Input(v) \in Request /\ Input(v).kind = "input"
    /\ \A v \in View : /\ Release(v) \in Request
                       /\ Release(v).kind = "release" /\ Release(v).to = v
  BY DEF Mount, Resize, Input, Release, Request

\* The fields of a request.
LEMMA RequestFields ==
    ASSUME NEW f \in Request
    PROVE  /\ f.kind \in {"mount", "resize", "input", "release"}
           /\ f.kind = "mount" => f.to \in SurfaceId
           /\ f.kind # "mount" => f.to \in View
           /\ f.kind = "resize" => f.size \in Size
           /\ f.kind # "resize" => f.size = Nil
  BY DEF Request

LEMMA TurnType ==
    /\ \A t \in Turn : t.attaches \in Seq(View) /\ t.scenes \in Seq(View)
    /\ \A a, b \in Seq(View) : /\ [attaches |-> a, scenes |-> b] \in Turn
                               /\ [attaches |-> a, scenes |-> b].attaches = a
  BY DEF Turn

\* A function on 1 .. n is a sequence.
LEMMA FunctionIsSeq ==
    ASSUME NEW X, NEW n \in Nat, NEW f \in [1 .. n -> X]
    PROVE  f \in Seq(X) /\ Len(f) = n
  OBVIOUS

\* The releases of a finite set of views: each once.
LEMMA ReleasesType ==
    ASSUME NEW S \in SUBSET View, IsFiniteSet(S), NEW q \in Releases(S)
    PROVE  /\ q \in Seq(Request)
           /\ \A i \in DOMAIN q : q[i].kind = "release" /\ q[i].to \in S
           /\ \A i, j \in DOMAIN q : q[i].to = q[j].to => i = j
<1> DEFINE n == Cardinality(S)
<1>1. n \in Nat
  BY FS_CardinalityType
<1>2. PICK p \in [1 .. n -> S] : /\ \A i, j \in 1 .. n : i # j => p[i] # p[j]
                                 /\ q = [i \in DOMAIN p |-> Release(p[i])]
  BY DEF Releases, SetToSeqs
<1> HIDE DEF n
<1>3. DOMAIN q = 1 .. n /\ \A i \in 1 .. n : q[i] = Release(p[i]) /\ p[i] \in S
  BY <1>2
<1>4. q \in [1 .. n -> Request]
  BY <1>2, <1>3, RequestTypes
<1>5. q \in Seq(Request)
  BY <1>1, <1>4, FunctionIsSeq
<1>6. \A i \in 1 .. n : q[i].kind = "release" /\ q[i].to = p[i]
  BY <1>3, RequestTypes
<1>7. QED
  BY <1>2, <1>3, <1>5, <1>6

\* Any order of a finite set of views.
LEMMA OrderType ==
    ASSUME NEW S \in SUBSET View, IsFiniteSet(S), NEW q \in SetToSeqs(S)
    PROVE  q \in Seq(View)
<1>1. Cardinality(S) \in Nat /\ q \in [1 .. Cardinality(S) -> View]
  BY FS_CardinalityType DEF SetToSeqs
<1>2. QED
  BY <1>1, FunctionIsSeq

-----------------------------------------------------------------------------
(***************************************************************************)
(* Types, and what is finite: the releases of a turn, and its scenes, are  *)
(* sequences because only so many views were opened.                       *)
(***************************************************************************)
Opened == {v \in View : opened[v] # Nil}

FiniteInv ==
    /\ IsFiniteSet(Opened) /\ IsFiniteSet(dropped)
    /\ dirty \subseteq Opened

\* Frames are delivered in one phase, and a surface that is gone has no view.
PhaseInv == /\ phase # "deliver" => inbound = <<>>
            /\ ~alive => view = Nil

TypeInv == TypeOK /\ FiniteInv /\ PhaseInv

LEMMA InitType == Init => TypeInv
<1> SUFFICES ASSUME Init
             PROVE  TypeInv
  OBVIOUS
<1>1. Opened = {}
  BY DEF Init, Opened
<1>2. TypeOK
  BY DEF Init, TypeOK
<1>3. FiniteInv
  BY <1>1, FS_EmptySet DEF Init, FiniteInv
<1>4. QED
  BY <1>2, <1>3 DEF Init, TypeInv, PhaseInv

\* Opening, closing and forgetting a window.
LEMMA OpenViewType ==
    ASSUME TypeInv, NEW s \in SurfaceId, OpenView(s)
    PROVE  /\ opened' \in [View -> SurfaceId \cup {Nil}]
           /\ windows' \in [SurfaceId -> View \cup {Nil}]
           /\ dirty' \in SUBSET View /\ outbound' \in Seq(View)
           /\ events' = events /\ size' = size /\ closed' = closed
           /\ IsFiniteSet(Opened') /\ dirty' \subseteq Opened'
<1>1. PICK v \in View :
         /\ opened[v] = Nil /\ opened' = [opened EXCEPT ![v] = s]
         /\ windows' = [windows EXCEPT ![s] = v] /\ dirty' = dirty \cup {v}
         /\ outbound' = Append(outbound, v)
         /\ events' = events /\ size' = size /\ closed' = closed
  BY DEF OpenView
<1>2. Opened' = Opened \cup {v} \/ Opened' = Opened
  BY <1>1 DEF Opened, TypeInv, TypeOK
<1>3. v \in Opened' /\ Opened \subseteq Opened'
  BY <1>1, NilAssumption DEF Opened, TypeInv, TypeOK
<1>4. IsFiniteSet(Opened')
  BY <1>2, FS_AddElement DEF TypeInv, FiniteInv
<1>5. /\ opened' \in [View -> SurfaceId \cup {Nil}]
      /\ windows' \in [SurfaceId -> View \cup {Nil}]
  BY <1>1 DEF TypeInv, TypeOK
<1>6. outbound' \in Seq(View) /\ dirty' \in SUBSET View
  BY <1>1, MembersAppend DEF TypeInv, TypeOK
<1>7. dirty' \subseteq Opened'
  BY <1>1, <1>3 DEF TypeInv, FiniteInv
<1>8. QED
  BY <1>1, <1>4, <1>5, <1>6, <1>7

\* A step of the host leaves the guest as it is, and so what of the types is
\* about the guest.
LEMMA HostSideType ==
    ASSUME TypeInv, UNCHANGED guestVars,
           alive' \in BOOLEAN, view' \in View \cup {Nil}, display' \in View \cup {Nil},
           geometry' \in Size \cup {Nil}, dropped' \in SUBSET View, mounts' \in Nat,
           applying' \in Seq(Turn), Len(applying') <= 1, requests' \in Seq(Request),
           turns' \in Seq(Turn), IsFiniteSet(dropped'), ~alive' => view' = Nil
    PROVE  TypeInv'
<1>1. /\ phase' = phase /\ inbound' = inbound /\ mounting' = mounting
      /\ opened' = opened /\ windows' = windows /\ events' = events /\ size' = size
      /\ dirty' = dirty /\ closed' = closed /\ outbound' = outbound /\ scenes' = scenes
  BY DEF guestVars, windowVars
<1>2. TypeOK'
  BY <1>1 DEF TypeInv, TypeOK
<1>3. FiniteInv'
  BY <1>1 DEF TypeInv, FiniteInv, Opened
<1>4. PhaseInv'
  BY <1>1 DEF TypeInv, PhaseInv
<1>5. QED
  BY <1>2, <1>3, <1>4 DEF TypeInv

\* The queue of requests grows.
LEMMA RequestAppended ==
    ASSUME TypeInv, NEW f \in Request
    PROVE  Append(requests, f) \in Seq(Request)
  BY MembersAppend DEF TypeInv, TypeOK

LEMMA ReleasesAppended ==
    ASSUME TypeInv, NEW q \in Releases(dropped)
    PROVE  /\ q \in Seq(Request) /\ requests \o q \in Seq(Request)
<1>1. q \in Seq(Request)
  BY ReleasesType DEF TypeInv, TypeOK, FiniteInv
<1>2. requests \in Seq(Request)
  BY DEF TypeInv, TypeOK
<1>3. QED
  BY <1>1, <1>2, ConcatProperties

LEMMA HostStepType ==
    ASSUME TypeInv, HostStep
    PROVE  TypeInv'
<1>1. CASE \E s \in SurfaceId : MountOn(s)
  <2>1. PICK s \in SurfaceId : MountOn(s)
    BY <1>1
  <2>2. requests' \in Seq(Request)
    BY <2>1, RequestTypes, RequestAppended DEF MountOn
  <2>5. mounts' \in Nat
    <3>1. mounts \in Nat
      BY DEF TypeInv, TypeOK
    <3>2. mounts' = mounts + 1
      BY <2>1 DEF MountOn
    <3>3. QED
      BY <3>1, <3>2
  <2>3. UNCHANGED <<surfaceVars, dropped, applying, guestVars, turns>>
    BY <2>1 DEF MountOn
  <2>4. QED
    BY <2>2, <2>3, <2>5, HostSideType DEF TypeInv, TypeOK, FiniteInv, PhaseInv, surfaceVars
<1>2. CASE \E g \in Size : Measured(g)
  <2>1. PICK g \in Size : Measured(g)
    BY <1>2
  <2>2. requests' \in Seq(Request)
    <3>1. view # Nil => Resize(view, g) \in Request
      BY RequestTypes DEF TypeInv, TypeOK
    <3>2. QED
      BY <2>1, <3>1, RequestAppended DEF Measured, TypeInv, TypeOK
  <2>3. /\ geometry' = g
        /\ UNCHANGED <<alive, view, display, dropped, mounts, applying, guestVars, turns>>
    BY <2>1 DEF Measured
  <2>4. QED
    BY <2>2, <2>3, HostSideType DEF TypeInv, TypeOK, FiniteInv, PhaseInv
<1>3. CASE ForwardInput
  <2>1. requests' \in Seq(Request)
    BY <1>3, RequestTypes, RequestAppended DEF ForwardInput, TypeInv, TypeOK
  <2>2. UNCHANGED <<hostVars, guestVars, turns>>
    BY <1>3 DEF ForwardInput
  <2>3. QED
    BY <2>1, <2>2, HostSideType DEF TypeInv, TypeOK, FiniteInv, PhaseInv, hostVars, surfaceVars
<1>4. CASE DropSurface
  <2>1. /\ alive' = FALSE /\ view' = Nil /\ display' = Nil
        /\ dropped' = dropped \cup ({view} \ {Nil})
        /\ UNCHANGED <<geometry, mounts, applying, requests, guestVars, turns>>
    BY <1>4 DEF DropSurface
  <2>2. dropped' \in SUBSET View /\ IsFiniteSet(dropped')
    <3>1. dropped' = dropped \/ dropped' = dropped \cup {view}
      BY <2>1
    <3>2. IsFiniteSet(dropped')
      BY <3>1, FS_AddElement DEF TypeInv, FiniteInv
    <3>3. QED
      BY <2>1, <3>2 DEF TypeInv, TypeOK
  <2>3. QED
    BY <2>1, <2>2, HostSideType DEF TypeInv, TypeOK, FiniteInv, PhaseInv
<1>5. CASE PumpReleases
  <2>1. /\ requests' \in Seq(Request) /\ dropped' = {} /\ IsFiniteSet({})
        /\ UNCHANGED <<surfaceVars, mounts, applying, guestVars, turns>>
    BY <1>5, ReleasesAppended, FS_EmptySet DEF PumpReleases
  <2>2. QED
    BY <2>1, HostSideType DEF TypeInv, TypeOK, FiniteInv, PhaseInv, surfaceVars
<1>6. QED
  BY <1>1, <1>2, <1>3, <1>4, <1>5 DEF HostStep

LEMMA TakeTurnType ==
    ASSUME TypeInv, TakeTurn
    PROVE  TypeInv'
<1>1. /\ requests' \in Seq(Request) /\ dropped' = {} /\ IsFiniteSet({})
      /\ applying' = <<Head(turns)>> /\ turns # <<>> /\ turns' = Tail(turns)
      /\ UNCHANGED <<surfaceVars, mounts, guestVars>>
  BY ReleasesAppended, FS_EmptySet DEF TakeTurn
<1>2. /\ applying' \in Seq(Turn) /\ Len(applying') <= 1 /\ turns' \in Seq(Turn)
  <2>1. Head(turns) \in Turn /\ Tail(turns) \in Seq(Turn)
    BY <1>1, HeadTailProperties DEF TypeInv, TypeOK
  <2>2. QED
    BY <1>1, <2>1
<1>3. QED
  BY <1>1, <1>2, HostSideType DEF TypeInv, TypeOK, FiniteInv, PhaseInv, surfaceVars

\* The attach calls of the turn that is being applied.
Now == IF applying = <<>> THEN <<>> ELSE applying[1].attaches

LEMMA NowType ==
    ASSUME TypeInv
    PROVE  /\ Now \in Seq(View)
           /\ applying # <<>> => applying[1] \in Turn /\ Len(applying) = 1
<1>1. applying \in Seq(Turn) /\ Len(applying) <= 1
  BY DEF TypeInv, TypeOK
<1>2. applying # <<>> => Len(applying) = 1 /\ applying[1] \in Turn
  <2>1. ASSUME applying # <<>>
        PROVE  Len(applying) = 1 /\ 1 \in DOMAIN applying
    <3>1. Len(applying) \in Nat /\ DOMAIN applying = 1 .. Len(applying)
      BY <1>1, LenProperties
    <3>2. Len(applying) # 0
      BY <1>1, <2>1, EmptySeq
    <3>3. QED
      BY <1>1, <3>1, <3>2
  <2>2. QED
    BY <1>1, <2>1, ElementOfSeq
<1>3. <<>> \in Seq(View)
  OBVIOUS
<1>4. QED
  BY <1>2, <1>3, TurnType DEF Now

\* What Attach does to the calls, and to the surface.
LEMMA AttachDoes ==
    ASSUME TypeInv, Attach
    PROVE  /\ Now # <<>> /\ Head(Now) \in View
           /\ Now' = Tail(Now) /\ applying' \in Seq(Turn) /\ Len(applying') <= 1
           /\ alive => /\ \/ geometry = Nil /\ requests' = requests
                          \/ /\ geometry \in Size
                             /\ requests' = Append(requests, Resize(Head(Now), geometry))
                       /\ dropped' = dropped \cup ({view} \ {Nil})
                       /\ view' = Head(Now) /\ display' = Nil
           /\ ~alive => UNCHANGED <<requests, dropped, view, display>>
           /\ UNCHANGED <<alive, geometry, mounts, guestVars, turns>>
<1> DEFINE t == applying[1]
           s == [t EXCEPT !.attaches = Tail(@)]
<1>1. /\ applying # <<>> /\ t.attaches # <<>> /\ applying' = <<s>>
      /\ UNCHANGED <<alive, geometry, mounts, guestVars, turns>>
  BY DEF Attach
<1>2. Now = t.attaches /\ t \in Turn /\ Now \in Seq(View)
  BY <1>1, NowType DEF Now
<1>3. Head(Now) \in View /\ Tail(Now) \in Seq(View)
  BY <1>1, <1>2, MembersTail
<1>4. s \in Turn /\ s.attaches = Tail(Now)
  BY <1>2, <1>3 DEF Turn
<1>5. applying' \in Seq(Turn) /\ Len(applying') <= 1 /\ applying' # <<>> /\ applying'[1] = s
  <2> HIDE DEF s
  <2>1. QED
    BY <1>1, <1>4
<1>6. Now' = Tail(Now)
  BY <1>4, <1>5 DEF Now
<1>7. geometry = Nil \/ geometry \in Size
  BY DEF TypeInv, TypeOK
<1>8. /\ alive => /\ \/ geometry = Nil /\ requests' = requests
                     \/ /\ geometry \in Size
                        /\ requests' = Append(requests, Resize(Head(Now), geometry))
                  /\ dropped' = dropped \cup ({view} \ {Nil})
                  /\ view' = Head(Now) /\ display' = Nil
      /\ ~alive => UNCHANGED <<requests, dropped, view, display>>
  BY <1>2, <1>7 DEF Attach
<1>9. QED
  BY <1>1, <1>2, <1>3, <1>5, <1>6, <1>8

LEMMA AttachType ==
    ASSUME TypeInv, Attach
    PROVE  TypeInv'
<1>1. CASE alive
  <2>1. /\ dropped' = dropped \cup ({view} \ {Nil}) /\ view' \in View /\ display' = Nil
        /\ UNCHANGED <<alive, geometry, mounts, guestVars, turns>>
        /\ applying' \in Seq(Turn) /\ Len(applying') <= 1
    BY <1>1, AttachDoes
  <2>2. requests' \in Seq(Request)
    <3>1. \A g \in Size : Resize(Head(Now), g) \in Request
      BY AttachDoes, RequestTypes
    <3>2. requests \in Seq(Request)
      BY DEF TypeInv, TypeOK
    <3>3. QED
      BY <1>1, <3>1, <3>2, AttachDoes, RequestAppended
  <2>3. dropped' = dropped \/ dropped' = dropped \cup {view}
    BY <2>1
  <2>4. IsFiniteSet(dropped') /\ dropped' \in SUBSET View
    BY <2>1, <2>3, FS_AddElement DEF TypeInv, TypeOK, FiniteInv
  <2>5. QED
    BY <1>1, <2>1, <2>2, <2>4, HostSideType DEF TypeInv, TypeOK, FiniteInv, PhaseInv
<1>2. CASE ~alive
  <2>1. /\ UNCHANGED <<requests, dropped, view, display>>
        /\ UNCHANGED <<alive, geometry, mounts, guestVars, turns>>
        /\ applying' \in Seq(Turn) /\ Len(applying') <= 1
    BY <1>2, AttachDoes
  <2>2. QED
    BY <2>1, HostSideType DEF TypeInv, TypeOK, FiniteInv, PhaseInv
<1>3. QED
  BY <1>1, <1>2

LEMMA ApplyScenesType ==
    ASSUME TypeInv, ApplyScenes
    PROVE  TypeInv'
<1>1. /\ requests' \in Seq(Request) /\ dropped' = {} /\ IsFiniteSet({})
      /\ applying # <<>> /\ applying' = <<>>
      /\ UNCHANGED <<alive, view, geometry, mounts, guestVars, turns>>
  BY ReleasesAppended, FS_EmptySet DEF ApplyScenes
<1>2. applying' \in Seq(Turn) /\ Len(applying') <= 1
  BY <1>1
<1>3. display' \in View \cup {Nil}
  <2>1. applying[1].scenes \in Seq(View)
    BY <1>1, NowType, TurnType
  <2>2. applying[1].scenes # <<>> => Last(applying[1].scenes) \in View
    BY <2>1 DEF Last
  <2>3. QED
    BY <2>2 DEF ApplyScenes, TypeInv, TypeOK
<1>4. QED
  BY <1>1, <1>2, <1>3, HostSideType DEF TypeInv, TypeOK, FiniteInv, PhaseInv

\* The same for a step of the guest.
LEMMA GuestSideType ==
    ASSUME TypeInv, UNCHANGED hostVars,
           requests' \in Seq(Request),
           phase' \in {"between", "deliver", "tasks", "late tasks"},
           inbound' \in Seq(Request), mounting' \in SUBSET SurfaceId,
           opened' \in [View -> SurfaceId \cup {Nil}],
           windows' \in [SurfaceId -> View \cup {Nil}],
           events' \in [View -> Seq(Size \cup {Nil})], size' \in [View -> Size \cup {Nil}],
           dirty' \in SUBSET View, closed' \in SUBSET View,
           outbound' \in Seq(View), scenes' \in Seq(View), turns' \in Seq(Turn),
           IsFiniteSet(Opened'), dirty' \subseteq Opened',
           phase' # "deliver" => inbound' = <<>>
    PROVE  TypeInv'
<1>1. /\ alive' = alive /\ view' = view /\ display' = display /\ geometry' = geometry
      /\ dropped' = dropped /\ mounts' = mounts /\ applying' = applying
  BY DEF hostVars, surfaceVars
<1>2. TypeOK'
  BY <1>1 DEF TypeInv, TypeOK
<1>3. FiniteInv'
  BY <1>1 DEF TypeInv, FiniteInv
<1>4. PhaseInv'
  BY <1>1 DEF TypeInv, PhaseInv
<1>5. QED
  BY <1>2, <1>3, <1>4 DEF TypeInv

\* The types of what a step of the guest may leave as it is.
LEMMA GuestTypes ==
    ASSUME TypeInv
    PROVE  /\ requests \in Seq(Request) /\ inbound \in Seq(Request)
           /\ phase \in {"between", "deliver", "tasks", "late tasks"}
           /\ mounting \in SUBSET SurfaceId
           /\ opened \in [View -> SurfaceId \cup {Nil}]
           /\ windows \in [SurfaceId -> View \cup {Nil}]
           /\ events \in [View -> Seq(Size \cup {Nil})]
           /\ size \in [View -> Size \cup {Nil}]
           /\ dirty \in SUBSET View /\ closed \in SUBSET View
           /\ outbound \in Seq(View) /\ scenes \in Seq(View) /\ turns \in Seq(Turn)
           /\ IsFiniteSet(Opened) /\ dirty \subseteq Opened
           /\ phase # "deliver" => inbound = <<>>
  BY DEF TypeInv, TypeOK, FiniteInv, PhaseInv

LEMMA OpenedStays ==
    ASSUME opened' = opened
    PROVE  Opened' = Opened
  BY DEF Opened

LEMMA BeginTurnType ==
    ASSUME TypeInv, BeginTurn
    PROVE  TypeInv'
<1>1. /\ phase' = "deliver" /\ inbound' = requests /\ requests' = <<>>
      /\ UNCHANGED <<hostVars, mounting, opened, windows, events, size, dirty, closed,
                     outbound, scenes, turns>>
  BY DEF BeginTurn, windowVars
<1>2. <<>> \in Seq(Request)
  OBVIOUS
<1>3. QED
  BY <1>1, <1>2, GuestTypes, OpenedStays, GuestSideType

\* The next frame, and what its delivery does.
LEMMA DeliverFrameDoes ==
    ASSUME TypeInv, DeliverFrame
    PROVE  LET f == Head(inbound) IN
           /\ inbound # <<>> /\ f \in Request
           /\ inbound' = Tail(inbound) /\ inbound' \in Seq(Request)
           /\ \/ f.kind = "mount" /\ f.to \in SurfaceId /\ DeliverMount(f.to)
              \/ f.kind \in {"resize", "input"} /\ f.to \in View /\ DeliverEvent(f)
              \/ f.kind = "release" /\ f.to \in View /\ DeliverRelease(f.to)
           /\ phase = "deliver"
           /\ UNCHANGED <<hostVars, requests, phase, scenes, turns>>
<1> DEFINE f == Head(inbound)
<1>1. /\ inbound # <<>> /\ inbound' = Tail(inbound) /\ phase = "deliver"
      /\ UNCHANGED <<hostVars, requests, phase, scenes, turns>>
  BY DEF DeliverFrame
<1>2. f \in Request /\ inbound' \in Seq(Request)
  BY <1>1, GuestTypes, MembersTail
<1>3. /\ f.kind = "mount" => f.to \in SurfaceId
      /\ f.kind # "mount" => f.to \in View
      /\ f.kind \in {"mount", "resize", "input", "release"}
  BY <1>2, RequestFields
<1>4. CASE f.kind = "mount"
  <2>1. DeliverMount(f.to)
    BY <1>4 DEF DeliverFrame
  <2>2. QED
    BY <1>1, <1>2, <1>3, <1>4, <2>1
<1>5. CASE f.kind \in {"resize", "input"}
  <2>1. DeliverEvent(f)
    BY <1>5 DEF DeliverFrame
  <2>2. QED
    BY <1>1, <1>2, <1>3, <1>5, <2>1
<1>6. CASE f.kind = "release"
  <2>1. DeliverRelease(f.to)
    BY <1>6 DEF DeliverFrame
  <2>2. QED
    BY <1>1, <1>2, <1>3, <1>6, <2>1
<1>7. QED
  BY <1>3, <1>4, <1>5, <1>6

\* A window that is forgotten.
LEMMA Forgets ==
    ASSUME TypeInv, NEW v \in View, ForgetWindow(v)
    PROVE  /\ windows' \in [SurfaceId -> View \cup {Nil}]
           /\ \A s \in SurfaceId : windows[s] # v => windows'[s] = windows[s]
<1>1. windows \in [SurfaceId -> View \cup {Nil}]
  BY GuestTypes
<1>2. windows' = [windows EXCEPT ![opened[v]] = IF windows[opened[v]] = v THEN Nil
                                                ELSE windows[opened[v]]]
  BY DEF ForgetWindow
<1>3. CASE windows[opened[v]] = v
  <2>1. windows' = [windows EXCEPT ![opened[v]] = Nil]
    BY <1>2, <1>3
  <2>2. QED
    BY <1>1, <1>3, <2>1
<1>4. CASE windows[opened[v]] # v
  <2>1. windows' = [windows EXCEPT ![opened[v]] = windows[opened[v]]]
    BY <1>2, <1>4
  <2>2. windows' = windows
    BY <1>1, <2>1
  <2>3. QED
    BY <1>1, <2>2
<1>5. QED
  BY <1>3, <1>4

LEMMA DeliverFrameType ==
    ASSUME TypeInv, DeliverFrame
    PROVE  TypeInv'
<1> DEFINE f == Head(inbound)
<1>1. /\ inbound' \in Seq(Request) /\ phase = "deliver" /\ f \in Request
      /\ UNCHANGED <<hostVars, requests, phase, scenes, turns>>
      /\ \/ f.kind = "mount" /\ f.to \in SurfaceId /\ DeliverMount(f.to)
         \/ f.kind \in {"resize", "input"} /\ f.to \in View /\ DeliverEvent(f)
         \/ f.kind = "release" /\ f.to \in View /\ DeliverRelease(f.to)
  BY DeliverFrameDoes
<1> HIDE DEF f
<1>2. CASE f.to \in SurfaceId /\ DeliverMount(f.to)
  <2>1. CASE OpenView(f.to) /\ UNCHANGED mounting
    BY <1>1, <1>2, <2>1, GuestTypes, OpenViewType, GuestSideType
  <2>2. CASE mounting' = mounting \cup {f.to} /\ UNCHANGED <<windowVars, outbound>>
    <3>1. mounting' \in SUBSET SurfaceId
      BY <1>2, <2>2, GuestTypes
    <3>2. UNCHANGED <<opened, windows, events, size, dirty, closed, outbound>>
      BY <2>2 DEF windowVars
    <3>3. QED
      BY <1>1, <3>1, <3>2, GuestTypes, OpenedStays, GuestSideType
  <2>3. QED
    BY <1>2, <2>1, <2>2 DEF DeliverMount
<1>3. CASE f.to \in View /\ DeliverEvent(f)
  <2>1. /\ events' = [events EXCEPT ![f.to] = Append(@, f.size)]
        /\ UNCHANGED <<mounting, opened, windows, size, dirty, closed, outbound>>
    BY <1>3 DEF DeliverEvent
  <2>2. f.size \in Size \cup {Nil}
    BY <1>1, RequestFields
  <2>3. events' \in [View -> Seq(Size \cup {Nil})]
    <3>1. events \in [View -> Seq(Size \cup {Nil})]
      BY GuestTypes
    <3>2. events[f.to] \in Seq(Size \cup {Nil})
      BY <1>3, <3>1
    <3>3. Append(events[f.to], f.size) \in Seq(Size \cup {Nil})
      BY <2>2, <3>2, AppendProperties
    <3>4. QED
      BY <1>3, <2>1, <3>1, <3>3
  <2>4. QED
    BY <1>1, <2>1, <2>3, GuestTypes, OpenedStays, GuestSideType
<1>4. CASE f.to \in View /\ DeliverRelease(f.to)
  <2>1. /\ ForgetWindow(f.to) /\ closed' = closed \cup {f.to}
        /\ UNCHANGED <<mounting, opened, events, size, dirty, outbound>>
    BY <1>4 DEF DeliverRelease
  <2>2. windows' \in [SurfaceId -> View \cup {Nil}] /\ closed' \in SUBSET View
    BY <1>4, <2>1, Forgets, GuestTypes
  <2>3. QED
    BY <1>1, <2>1, <2>2, GuestTypes, OpenedStays, GuestSideType
<1>5. QED
  BY <1>1, <1>2, <1>3, <1>4

LEMMA FlushEventsType ==
    ASSUME TypeInv, FlushEvents
    PROVE  TypeInv'
<1>1. /\ phase' = "tasks" /\ phase = "deliver" /\ inbound = <<>>
      /\ events' = [v \in View |-> IF v \in Live THEN <<>> ELSE events[v]]
      /\ size' = [v \in View |-> IF v \in Live /\ LastSize(events[v]) # Nil
                                 THEN LastSize(events[v]) ELSE size[v]]
      /\ UNCHANGED <<hostVars, requests, inbound, mounting, opened, windows,
                     closed, outbound, scenes, turns>>
  BY DEF FlushEvents
<1>2. events' \in [View -> Seq(Size \cup {Nil})]
  <2>1. <<>> \in Seq(Size \cup {Nil})
    OBVIOUS
  <2>2. QED
    BY <1>1, <2>1, GuestTypes
<1>3. size' \in [View -> Size \cup {Nil}]
  <2>1. \A v \in View : LastSize(events[v]) \in Size \cup {Nil}
    BY GuestTypes, LastSizeType
  <2>2. QED
    BY <1>1, <2>1, GuestTypes
<1>4. dirty' \in SUBSET View /\ dirty' \subseteq Opened'
  <2>1. dirty' \subseteq dirty \cup Live
    BY DEF FlushEvents
  <2>2. Live \subseteq Opened /\ Opened \subseteq View
    BY DEF Live, Opened
  <2>3. QED
    BY <1>1, <2>1, <2>2, GuestTypes, OpenedStays
<1>5. QED
  BY <1>1, <1>2, <1>3, <1>4, GuestTypes, OpenedStays, GuestSideType

LEMMA PumpFramesType ==
    ASSUME TypeInv, PumpFrames
    PROVE  TypeInv'
<1> DEFINE drawn == {v \in Live : size[v] # Nil /\ v \in dirty}
<1>1. /\ phase' = "late tasks" /\ phase = "tasks" /\ dirty' = dirty \ drawn
      /\ \E order \in SetToSeqs(drawn) : scenes' = scenes \o order
      /\ UNCHANGED <<hostVars, requests, inbound, mounting, opened, windows,
                     events, size, closed, outbound, turns>>
  BY DEF PumpFrames
<1>2. drawn \in SUBSET View /\ IsFiniteSet(drawn)
  <2>1. drawn \subseteq Opened /\ Opened \subseteq View
    BY DEF Live, Opened
  <2>2. QED
    BY <2>1, GuestTypes, FS_Subset
<1> HIDE DEF drawn
<1>3. scenes' \in Seq(View)
  <2>1. PICK order \in SetToSeqs(drawn) : scenes' = scenes \o order
    BY <1>1
  <2>2. order \in Seq(View) /\ scenes \in Seq(View)
    BY <1>2, OrderType, GuestTypes
  <2>3. scenes \o order \in Seq(View)
    BY <2>2, ConcatProperties
  <2>4. QED
    BY <2>1, <2>3
<1>4. QED
  BY <1>1, <1>3, GuestTypes, OpenedStays, GuestSideType

LEMMA EndTurnType ==
    ASSUME TypeInv, EndTurn
    PROVE  TypeInv'
<1>1. /\ phase' = "between" /\ phase = "late tasks"
      /\ turns' = Append(turns, [attaches |-> outbound, scenes |-> scenes])
      /\ outbound' = <<>> /\ scenes' = <<>>
      /\ UNCHANGED <<hostVars, requests, inbound, mounting, opened, windows, events, size,
                     dirty, closed>>
  BY DEF EndTurn, windowVars
<1>2. turns' \in Seq(Turn) /\ <<>> \in Seq(View)
  <2>1. [attaches |-> outbound, scenes |-> scenes] \in Turn /\ turns \in Seq(Turn)
    BY GuestTypes, TurnType
  <2>2. Append(turns, [attaches |-> outbound, scenes |-> scenes]) \in Seq(Turn)
    BY <2>1, AppendProperties
  <2>3. <<>> \in Seq(View)
    OBVIOUS
  <2>4. QED
    BY <1>1, <2>2, <2>3
<1>3. QED
  BY <1>1, <1>2, GuestTypes, OpenedStays, GuestSideType

LEMMA TaskType ==
    ASSUME TypeInv, Task
    PROVE  TypeInv'
<1>1. UNCHANGED <<hostVars, requests, phase, inbound, scenes, turns>>
  BY DEF Task
<1>2. CASE \E v \in Live : /\ dirty' = dirty \cup {v}
                           /\ UNCHANGED <<mounting, opened, windows, events, size, closed,
                                          outbound>>
  <2>1. dirty' \subseteq Opened /\ Opened \subseteq View
    BY <1>2, GuestTypes DEF Live, Opened
  <2>2. QED
    BY <1>1, <1>2, <2>1, GuestTypes, OpenedStays, GuestSideType
<1>3. CASE \E s \in mounting : mounting' = mounting \ {s} /\ OpenView(s)
  BY <1>1, <1>3, GuestTypes, OpenViewType, GuestSideType
<1>4. QED
  BY <1>2, <1>3 DEF Task

LEMMA NextType == TypeInv /\ [Next]_vars => TypeInv'
<1> SUFFICES ASSUME TypeInv, [Next]_vars
             PROVE  TypeInv'
  OBVIOUS
<1>1. CASE UNCHANGED vars
  BY <1>1 DEF vars, hostVars, surfaceVars, guestVars, windowVars, TypeInv, TypeOK,
              FiniteInv, PhaseInv, Opened
<1>2. QED
  BY <1>1, HostStepType, TakeTurnType, AttachType, ApplyScenesType, BeginTurnType,
     DeliverFrameType, FlushEventsType, PumpFramesType, EndTurnType, TaskType
     DEF Next, PumpStep, TurnStep

\* Every variable keeps its type.
THEOREM SurfaceTypeCorrect == Spec => []TypeOK
<1>1. TypeInv => TypeOK
  BY DEF TypeInv
<1>2. QED
  BY <1>1, InitType, NextType, PTL DEF Spec

-----------------------------------------------------------------------------
(***************************************************************************)
(* The attach calls on their way: Now, those of the turns, outbound.       *)
(***************************************************************************)
TurnViews == {v \in View : \E t \in DOMAIN turns : v \in Range(turns[t].attaches)}
OnWay == Range(Now) \cup TurnViews \cup Range(outbound)

LEMMA OnWayType ==
    ASSUME TypeInv
    PROVE  /\ OnWay \subseteq View /\ Range(Now) \subseteq View /\ Range(outbound) \subseteq View
           /\ \A t \in DOMAIN turns : /\ turns[t].attaches \in Seq(View)
                                      /\ Range(turns[t].attaches) \subseteq TurnViews
           /\ OnWay = Attaching
<1>1. Range(Now) \subseteq View /\ Range(outbound) \subseteq View
  BY NowType, GuestTypes, MembersOf
<1>2. turns \in Seq(Turn)
  BY GuestTypes
<1>3. \A t \in DOMAIN turns : turns[t].attaches \in Seq(View)
  BY <1>2, TurnType
<1>4. \A t \in DOMAIN turns : Range(turns[t].attaches) \subseteq View
  BY <1>3, MembersOf
<1>5. \A t \in DOMAIN turns : Range(turns[t].attaches) \subseteq TurnViews
  BY <1>4 DEF TurnViews
<1>6. Range(turns \o applying) = Range(turns) \cup Range(applying)
  <2>1. applying \in Seq(Turn)
    BY DEF TypeInv, TypeOK
  <2>2. QED
    BY <1>2, <2>1, RangeConcatenation
<1>7. UNION {Range(t.attaches) : t \in Range(turns)} = TurnViews
  BY <1>4 DEF TurnViews, Range
<1>8. UNION {Range(t.attaches) : t \in Range(applying)} = Range(Now)
  <2>1. CASE applying = <<>>
    <3>1. Range(applying) = {} /\ Range(Now) = {}
      BY <2>1 DEF Now, Range
    <3>2. QED
      BY <3>1
  <2>2. CASE applying # <<>>
    <3>1. Len(applying) = 1 /\ applying \in Seq(Turn)
      BY <2>2, NowType DEF TypeInv, TypeOK
    <3>2. Range(applying) = {applying[1]}
      BY <3>1 DEF Range
    <3>3. QED
      BY <2>2, <3>2 DEF Now
  <2>3. QED
    BY <2>1, <2>2
<1>9. Attaching = Range(outbound) \cup TurnViews \cup Range(Now)
  <2>1. \A x : x \in Attaching <=> \/ x \in Range(outbound)
                                   \/ \E t \in Range(turns \o applying) : x \in Range(t.attaches)
    BY DEF Attaching
  <2>2. \A x : x \in Attaching <=> \/ x \in Range(outbound)
                                   \/ \E t \in Range(turns) : x \in Range(t.attaches)
                                   \/ \E t \in Range(applying) : x \in Range(t.attaches)
    <3> DEFINE A == Range(turns)
               B == Range(applying)
               C == Range(turns \o applying)
    <3>1. C = A \cup B
      BY <1>6
    <3> HIDE DEF A, B, C
    <3>2. \A x : (\E t \in C : x \in Range(t.attaches))
                   <=> (\E t \in A : x \in Range(t.attaches))
                        \/ (\E t \in B : x \in Range(t.attaches))
      BY <3>1
    <3>3. QED
      BY <2>1, <3>2 DEF A, B, C
  <2>3. \A x : x \in TurnViews <=> \E t \in Range(turns) : x \in Range(t.attaches)
    BY <1>7
  <2>4. \A x : x \in Range(Now) <=> \E t \in Range(applying) : x \in Range(t.attaches)
    BY <1>8
  <2>5. \A x : x \in Attaching <=> x \in Range(outbound) \cup TurnViews \cup Range(Now)
    BY <2>2, <2>3, <2>4
  <2>6. QED
    BY <2>5
<1>10. QED
  BY <1>1, <1>3, <1>5, <1>9 DEF OnWay, TurnViews

\* Calls that stay where they are.
LEMMA OnWayStays ==
    ASSUME applying' = applying, turns' = turns, outbound' = outbound
    PROVE  Now' = Now /\ TurnViews' = TurnViews /\ OnWay' = OnWay
  BY DEF Now, TurnViews, OnWay

\* The pump takes a turn.
LEMMA TakeTurnCalls ==
    ASSUME TypeInv, TakeTurn
    PROVE  /\ Now = <<>> /\ Now' = turns[1].attaches /\ outbound' = outbound
           /\ turns' \in Seq(Turn) /\ 1 \in DOMAIN turns
           /\ \A t \in DOMAIN turns' : t + 1 \in DOMAIN turns /\ turns'[t] = turns[t + 1]
                                       /\ 1 < t + 1
           /\ TurnViews = Range(Now') \cup TurnViews' /\ OnWay' = OnWay
<1>1. /\ applying = <<>> /\ turns # <<>> /\ applying' = <<Head(turns)>>
      /\ turns' = Tail(turns) /\ outbound' = outbound /\ turns \in Seq(Turn)
  BY GuestTypes DEF TakeTurn, guestVars
<1>2. /\ Head(turns) = turns[1] /\ turns' \in Seq(Turn)
      /\ DOMAIN turns = 1 .. Len(turns) /\ DOMAIN turns' = 1 .. Len(turns) - 1
      /\ Len(turns) \in Nat \ {0}
      /\ \A t \in 1 .. Len(turns) - 1 : turns'[t] = turns[t + 1]
  BY <1>1, MembersTail
<1>3. \A t \in 1 .. Len(turns) - 1 : t + 1 \in 1 .. Len(turns) /\ 1 < t + 1
  BY <1>2
<1>4. \A t \in 1 .. Len(turns) : t = 1 \/ (t - 1 \in 1 .. Len(turns) - 1 /\ (t - 1) + 1 = t)
  BY <1>2
<1>5. Now = <<>> /\ Now' = turns[1].attaches
  BY <1>1, <1>2 DEF Now
<1>6. 1 \in DOMAIN turns
  BY <1>2
<1>7. \A v \in View : v \in TurnViews <=> v \in Range(turns[1].attaches) \/ v \in TurnViews'
  <2> SUFFICES ASSUME NEW v \in View
               PROVE  v \in TurnViews <=> v \in Range(turns[1].attaches) \/ v \in TurnViews'
    OBVIOUS
  <2>1. ASSUME v \in TurnViews
        PROVE  v \in Range(turns[1].attaches) \/ v \in TurnViews'
    <3>1. PICK t \in 1 .. Len(turns) : v \in Range(turns[t].attaches)
      BY <1>2, <2>1 DEF TurnViews
    <3>2. t = 1 \/ (t - 1 \in DOMAIN turns' /\ turns'[t - 1] = turns[t])
      BY <1>2, <1>4
    <3>3. QED
      BY <3>1, <3>2 DEF TurnViews
  <2>2. ASSUME v \in TurnViews'
        PROVE  v \in TurnViews
    <3>1. PICK t \in 1 .. Len(turns) - 1 : v \in Range(turns'[t].attaches)
      BY <1>2, <2>2 DEF TurnViews
    <3>2. t + 1 \in DOMAIN turns /\ turns'[t] = turns[t + 1]
      BY <1>2, <1>3
    <3>3. QED
      BY <3>1, <3>2 DEF TurnViews
  <2>3. v \in Range(turns[1].attaches) => v \in TurnViews
    BY <1>6 DEF TurnViews
  <2>4. QED
    BY <2>1, <2>2, <2>3
<1>8. TurnViews = Range(Now') \cup TurnViews'
  <2>1. Range(Now') \subseteq View
    BY <1>5, <1>6, OnWayType DEF TurnViews
  <2>2. TurnViews \subseteq View /\ TurnViews' \subseteq View
    BY DEF TurnViews
  <2>3. QED
    BY <1>5, <1>7, <2>1, <2>2
<1>9. Range(Now) = {}
  BY <1>5 DEF Range
<1>10. OnWay' = Range(Now') \cup TurnViews' \cup Range(outbound)
  BY <1>1 DEF OnWay
<1>11. OnWay' = OnWay
  BY <1>8, <1>9, <1>10 DEF OnWay
<1>12. QED
  BY <1>1, <1>2, <1>3, <1>5, <1>6, <1>8, <1>11

\* The guest's turn ends.
LEMMA EndTurnCalls ==
    ASSUME TypeInv, EndTurn
    PROVE  /\ Now' = Now /\ outbound' = <<>> /\ Range(outbound') = {}
           /\ \A t \in DOMAIN turns' :
                 \/ t \in DOMAIN turns /\ turns'[t] = turns[t]
                 \/ turns'[t].attaches = outbound /\ \A u \in DOMAIN turns' : ~(t < u)
           /\ TurnViews' = TurnViews \cup Range(outbound) /\ OnWay' = OnWay
<1> DEFINE x == [attaches |-> outbound, scenes |-> scenes]
           n == Len(turns)
<1>1. /\ turns' = Append(turns, x) /\ outbound' = <<>> /\ applying' = applying
      /\ turns \in Seq(Turn) /\ x \in Turn /\ x.attaches = outbound
      /\ outbound \in Seq(View)
  BY GuestTypes, TurnType DEF EndTurn, hostVars
<1> HIDE DEF x, n
<1>2. /\ n \in Nat /\ DOMAIN turns = 1 .. n /\ DOMAIN turns' = 1 .. n + 1
      /\ turns'[n + 1] = x /\ \A t \in 1 .. n : turns'[t] = turns[t]
  <2>1. n \in Nat /\ DOMAIN turns = 1 .. n
    BY <1>1 DEF n
  <2>2. QED
    BY <1>1, <2>1, MembersAppend DEF n
<1>3. /\ \A t \in 1 .. n + 1 : t \in 1 .. n \/ (t = n + 1 /\ \A u \in 1 .. n + 1 : ~(t < u))
      /\ \A t \in 1 .. n : t \in 1 .. n + 1
      /\ n + 1 \in 1 .. n + 1
  BY <1>2
<1>4. Range(outbound') = {} /\ Range(outbound) \subseteq View
  BY <1>1, OnWayType DEF Range
<1>5. \A v \in View : v \in TurnViews' <=> v \in TurnViews \/ v \in Range(outbound)
  BY <1>1, <1>2, <1>3 DEF TurnViews
<1>6. TurnViews' = TurnViews \cup Range(outbound)
  <2>1. TurnViews \subseteq View /\ TurnViews' \subseteq View
    BY DEF TurnViews
  <2>2. QED
    BY <1>4, <1>5, <2>1
<1>7. Now' = Now
  BY <1>1 DEF Now
<1>8. OnWay' = OnWay
  BY <1>4, <1>6, <1>7 DEF OnWay
<1>9. \A t \in DOMAIN turns' :
         \/ t \in DOMAIN turns /\ turns'[t] = turns[t]
         \/ turns'[t].attaches = outbound /\ \A u \in DOMAIN turns' : ~(t < u)
  BY <1>1, <1>2, <1>3
<1>10. QED
  BY <1>1, <1>4, <1>6, <1>7, <1>8, <1>9

\* The first call of the turn is handled; a turn without calls is done.
LEMMA AttachCalls ==
    ASSUME TypeInv, Attach
    PROVE  /\ Now \in Seq(View) /\ Now # <<>> /\ Now' = Tail(Now) /\ Head(Now) \in View
           /\ turns' = turns /\ outbound' = outbound /\ TurnViews' = TurnViews
           /\ Range(Now) = {Head(Now)} \cup Range(Now')
           /\ OnWay = {Head(Now)} \cup OnWay'
<1>1. Now # <<>> /\ Head(Now) \in View /\ Now' = Tail(Now) /\ Now \in Seq(View)
  BY AttachDoes, NowType
<1>2. turns' = turns /\ outbound' = outbound
  BY AttachDoes DEF guestVars
<1>3. Range(Now) = {Head(Now)} \cup Range(Now')
  BY <1>1, MembersTail
<1>4. TurnViews' = TurnViews
  BY <1>2 DEF TurnViews
<1>5. OnWay = {Head(Now)} \cup OnWay'
  BY <1>2, <1>3, <1>4 DEF OnWay
<1>6. QED
  BY <1>1, <1>2, <1>3, <1>4, <1>5

LEMMA ApplyScenesCalls ==
    ASSUME TypeInv, ApplyScenes
    PROVE  /\ Now' = Now /\ turns' = turns /\ outbound' = outbound
           /\ TurnViews' = TurnViews /\ OnWay' = OnWay
<1>1. Now = <<>> /\ Now' = <<>>
  BY DEF ApplyScenes, Now
<1>2. turns' = turns /\ outbound' = outbound
  BY DEF ApplyScenes, guestVars
<1>3. QED
  BY <1>1, <1>2 DEF TurnViews, OnWay

\* A view is opened, and its call is the newest.
LEMMA OpenViewCalls ==
    ASSUME TypeInv, NEW s \in SurfaceId, OpenView(s), applying' = applying, turns' = turns
    PROVE  \E v \in View :
              /\ v \notin Opened /\ Opened' = Opened \cup {v}
              /\ opened' = [opened EXCEPT ![v] = s] /\ windows' = [windows EXCEPT ![s] = v]
              /\ closed' = closed
              /\ Now' = Now /\ TurnViews' = TurnViews
              /\ outbound' = Append(outbound, v)
              /\ Range(outbound') = Range(outbound) \cup {v}
              /\ OnWay' = OnWay \cup {v}
<1>1. PICK v \in View :
         /\ opened[v] = Nil /\ opened' = [opened EXCEPT ![v] = s]
         /\ windows' = [windows EXCEPT ![s] = v] /\ outbound' = Append(outbound, v)
         /\ closed' = closed
  BY DEF OpenView
<1>2. v \notin Opened /\ Opened' = Opened \cup {v}
  <2>1. opened \in [View -> SurfaceId \cup {Nil}] /\ s # Nil
    BY GuestTypes, NilAssumption
  <2>2. \A w \in View : opened'[w] = IF w = v THEN s ELSE opened[w]
    BY <1>1, <2>1
  <2>3. \A w \in View : opened'[w] # Nil <=> w = v \/ opened[w] # Nil
    BY <2>1, <2>2
  <2>4. v \notin Opened /\ \A w : w \in Opened' <=> w \in Opened \cup {v}
    BY <1>1, <2>3 DEF Opened
  <2>5. QED
    BY <2>4
<1>3. Now' = Now /\ TurnViews' = TurnViews
  BY DEF Now, TurnViews
<1>4. Range(outbound') = Range(outbound) \cup {v}
  <2>1. outbound \in Seq(View)
    BY GuestTypes
  <2>2. Range(Append(outbound, v)) = Range(outbound) \cup {v}
    BY <2>1, MembersAppend
  <2>3. QED
    BY <1>1, <2>2
<1>5. OnWay' = OnWay \cup {v}
  BY <1>3, <1>4 DEF OnWay
<1>6. QED
  BY <1>1, <1>2, <1>3, <1>4, <1>5
-----------------------------------------------------------------------------
(***************************************************************************)
(* The frames on their way to the guest, and the releases among them.      *)
(***************************************************************************)
Frames == inbound \o requests
ReleasesIn(fs) == {v \in View : \E i \in DOMAIN fs : fs[i].kind = "release" /\ fs[i].to = v}

\* No view is released twice.
ReleasesDiffer(fs) ==
    \A i, j \in DOMAIN fs :
        fs[i].kind = "release" /\ fs[j].kind = "release" /\ fs[i].to = fs[j].to => i = j

\* Another frame, at the end.
LEMMA FrameAppended ==
    ASSUME NEW fs \in Seq(Request), ReleasesDiffer(fs),
           NEW f \in Request, f.kind # "release"
    PROVE  /\ ReleasesIn(Append(fs, f)) = ReleasesIn(fs)
           /\ ReleasesDiffer(Append(fs, f))
<1> DEFINE n == Len(fs)
           gs == Append(fs, f)
<1>1. /\ n \in Nat /\ DOMAIN fs = 1 .. n /\ DOMAIN gs = 1 .. n + 1 /\ gs[n + 1] = f
      /\ \A i \in 1 .. n : gs[i] = fs[i]
  BY MembersAppend
<1> HIDE DEF n, gs
<1>2. \A i \in 1 .. n : i \in 1 .. n + 1
  BY <1>1
<1>3. \A i \in 1 .. n + 1 : gs[i].kind = "release" => i \in 1 .. n
  <2>1. \A i \in 1 .. n + 1 : i \in 1 .. n \/ i = n + 1
    BY <1>1
  <2>2. QED
    BY <1>1, <2>1
<1>4. ReleasesIn(gs) = ReleasesIn(fs)
  BY <1>1, <1>2, <1>3 DEF ReleasesIn
<1>5. ReleasesDiffer(gs)
  BY <1>1, <1>2, <1>3 DEF ReleasesDiffer
<1>6. QED
  BY <1>4, <1>5 DEF gs

\* The releases of views that none of the frames releases.
LEMMA FramesReleased ==
    ASSUME NEW fs \in Seq(Request), ReleasesDiffer(fs),
           NEW S \in SUBSET View, IsFiniteSet(S), NEW q \in Releases(S),
           ReleasesIn(fs) \cap S = {}
    PROVE  /\ ReleasesIn(fs \o q) \subseteq ReleasesIn(fs) \cup S
           /\ ReleasesDiffer(fs \o q)
<1> DEFINE m == Len(fs)
           n == Len(q)
           gs == fs \o q
<1>1. /\ q \in Seq(Request)
      /\ \A i \in DOMAIN q : q[i].kind = "release" /\ q[i].to \in S
      /\ \A i, j \in DOMAIN q : q[i].to = q[j].to => i = j
  BY ReleasesType
<1>2. /\ m \in Nat /\ n \in Nat /\ DOMAIN gs = 1 .. m + n
      /\ DOMAIN fs = 1 .. m /\ DOMAIN q = 1 .. n
      /\ \A i \in 1 .. m + n : gs[i] = IF i <= m THEN fs[i] ELSE q[i - m]
  BY <1>1, ConcatProperties
<1> HIDE DEF m, n, gs
<1>3. ASSUME NEW i \in 1 .. m + n
      PROVE  \/ i \in 1 .. m /\ gs[i] = fs[i]
             \/ i - m \in 1 .. n /\ gs[i] = q[i - m]
  BY <1>2
<1>4. ReleasesIn(gs) \subseteq ReleasesIn(fs) \cup S
  <2> SUFFICES ASSUME NEW v \in ReleasesIn(gs), v \notin S
               PROVE  v \in ReleasesIn(fs)
    OBVIOUS
  <2>1. PICK i \in 1 .. m + n : v \in View /\ gs[i].kind = "release" /\ gs[i].to = v
    BY <1>2 DEF ReleasesIn
  <2>2. i \in 1 .. m /\ gs[i] = fs[i]
    BY <1>1, <1>2, <1>3, <2>1
  <2>3. QED
    BY <1>2, <2>1, <2>2 DEF ReleasesIn
<1>5. ASSUME NEW i \in 1 .. m + n, NEW j \in 1 .. m + n,
             gs[i].kind = "release", gs[j].kind = "release", gs[i].to = gs[j].to
      PROVE  i = j
  <2>1. CASE i \in 1 .. m /\ gs[i] = fs[i] /\ j \in 1 .. m /\ gs[j] = fs[j]
    BY <1>2, <1>5, <2>1 DEF ReleasesDiffer
  <2>2. CASE i - m \in 1 .. n /\ gs[i] = q[i - m] /\ j - m \in 1 .. n /\ gs[j] = q[j - m]
    <3>1. i - m = j - m
      BY <1>1, <1>2, <1>5, <2>2
    <3>2. QED
      BY <1>2, <3>1
  <2>3. \A k \in 1 .. m : fs[k].kind = "release" => fs[k].to \notin S
    <3>1. \A k \in 1 .. m : fs[k] \in Request
      BY <1>2
    <3>2. \A k \in 1 .. m : fs[k].kind = "release" => fs[k].to \in View
      BY <3>1, RequestFields
    <3>3. QED
      BY <1>2, <3>2 DEF ReleasesIn
  <2>4. CASE i \in 1 .. m /\ gs[i] = fs[i] /\ j - m \in 1 .. n /\ gs[j] = q[j - m]
    BY <1>1, <1>2, <1>5, <2>3, <2>4
  <2>5. CASE j \in 1 .. m /\ gs[j] = fs[j] /\ i - m \in 1 .. n /\ gs[i] = q[i - m]
    BY <1>1, <1>2, <1>5, <2>3, <2>5
  <2>6. QED
    BY <1>3, <2>1, <2>2, <2>4, <2>5
<1>6. ReleasesDiffer(gs)
  BY <1>2, <1>5 DEF ReleasesDiffer
<1>7. QED
  BY <1>4, <1>6 DEF gs

\* A frame is taken, and if it is a release, no other one releases its view.
LEMMA FrameTaken ==
    ASSUME NEW fs \in Seq(Request), fs # <<>>, ReleasesDiffer(fs)
    PROVE  /\ ReleasesIn(Tail(fs)) \subseteq ReleasesIn(fs)
           /\ ReleasesDiffer(Tail(fs))
           /\ Head(fs).kind = "release" =>
                 Head(fs).to \in ReleasesIn(fs) \ ReleasesIn(Tail(fs))
<1> DEFINE n == Len(fs)
           gs == Tail(fs)
<1>1. /\ Head(fs) \in Request /\ Head(fs) = fs[1]
      /\ DOMAIN fs = 1 .. n /\ DOMAIN gs = 1 .. n - 1 /\ n \in Nat \ {0}
      /\ \A i \in 1 .. n - 1 : gs[i] = fs[i + 1]
  BY MembersTail
<1> HIDE DEF n, gs
<1>2. \A i \in 1 .. n - 1 : i + 1 \in 1 .. n /\ i + 1 # 1
  BY <1>1
<1>3. 1 \in 1 .. n
  BY <1>1
<1>4. ReleasesIn(gs) \subseteq ReleasesIn(fs)
  BY <1>1, <1>2 DEF ReleasesIn
<1>5. ASSUME NEW i \in 1 .. n - 1, NEW j \in 1 .. n - 1,
             gs[i].kind = "release", gs[j].kind = "release", gs[i].to = gs[j].to
      PROVE  i = j
  <2>1. i + 1 = j + 1
    BY <1>1, <1>2, <1>5, ZenonT(30) DEF ReleasesDiffer
  <2>2. QED
    BY <1>1, <2>1
<1>6. ReleasesDiffer(gs)
  BY <1>1, <1>5 DEF ReleasesDiffer
<1>7. ASSUME Head(fs).kind = "release"
      PROVE  Head(fs).to \in ReleasesIn(fs) /\ Head(fs).to \notin ReleasesIn(gs)
  <2>1. fs[1].kind = "release" /\ fs[1].to \in View /\ fs[1] = Head(fs)
    BY <1>1, <1>7, RequestFields
  <2>2. fs[1].to \in ReleasesIn(fs)
    BY <1>1, <1>3, <2>1 DEF ReleasesIn
  <2>3. \A i \in 1 .. n - 1 : gs[i].kind = "release" => gs[i].to # fs[1].to
    BY <1>1, <1>2, <1>3, <2>1 DEF ReleasesDiffer
  <2>4. QED
    BY <1>1, <2>1, <2>2, <2>3 DEF ReleasesIn
<1>8. QED
  BY <1>4, <1>6, <1>7 DEF gs

\* What the steps do to Frames.
LEMMA FramesType ==
    ASSUME TypeInv
    PROVE  Frames \in Seq(Request)
<1>1. inbound \in Seq(Request) /\ requests \in Seq(Request)
  BY GuestTypes
<1>2. QED
  BY <1>1, ConcatProperties DEF Frames

LEMMA FramesGrow ==
    ASSUME TypeInv, inbound' = inbound, NEW q \in Seq(Request), requests' = requests \o q
    PROVE  Frames' = Frames \o q
<1>1. inbound \in Seq(Request) /\ requests \in Seq(Request)
  BY GuestTypes
<1>2. inbound \o (requests \o q) = (inbound \o requests) \o q
  BY <1>1, ConcatAssociative, SMTT(20)
<1>3. QED
  BY <1>2 DEF Frames

LEMMA FramesAppend ==
    ASSUME TypeInv, inbound' = inbound, NEW f \in Request, requests' = Append(requests, f)
    PROVE  Frames' = Append(Frames, f)
<1> DEFINE q == <<f>>
<1>1. requests \in Seq(Request) /\ Frames \in Seq(Request) /\ q \in Seq(Request)
  <2>1. q \in Seq(Request)
    OBVIOUS
  <2> HIDE DEF q
  <2>2. QED
    BY <2>1, GuestTypes, FramesType
<1>2. Append(requests, f) = requests \o q /\ Append(Frames, f) = Frames \o q
  BY <1>1, AppendIsConcat
<1> HIDE DEF q
<1>3. requests' = requests \o q
  BY <1>2
<1>4. Frames' = Frames \o q
  BY <1>1, <1>3, FramesGrow
<1>5. QED
  BY <1>2, <1>4

LEMMA FramesStay ==
    ASSUME inbound' = inbound, requests' = requests
    PROVE  Frames' = Frames
  BY DEF Frames

LEMMA FramesMove ==
    ASSUME TypeInv, BeginTurn
    PROVE  Frames' = Frames
<1>1. inbound = <<>> /\ inbound' = requests /\ requests' = <<>> /\ requests \in Seq(Request)
  BY GuestTypes DEF BeginTurn
<1>2. <<>> \o requests = requests /\ requests \o <<>> = requests
  BY <1>1, ConcatEmptySeq
<1>3. QED
  BY <1>1, <1>2 DEF Frames

LEMMA FramesDelivered ==
    ASSUME TypeInv, DeliverFrame
    PROVE  /\ Frames # <<>> /\ Head(Frames) = Head(inbound) /\ Head(inbound) \in Request
           /\ Frames' = Tail(Frames)
<1> DEFINE m == Len(inbound)
           n == Len(requests)
<1>1. /\ inbound \in Seq(Request) /\ requests \in Seq(Request) /\ inbound # <<>>
      /\ inbound' = Tail(inbound) /\ inbound' \in Seq(Request) /\ requests' = requests
      /\ Frames \in Seq(Request) /\ Head(inbound) \in Request
  BY GuestTypes, DeliverFrameDoes, FramesType
<1>2. /\ Head(inbound) = inbound[1] /\ m \in Nat \ {0} /\ n \in Nat
      /\ DOMAIN inbound' = 1 .. m - 1
      /\ \A i \in 1 .. m - 1 : inbound'[i] = inbound[i + 1]
  BY <1>1, MembersTail
<1>3. Len(inbound') = m - 1
  BY <1>1, <1>2
<1>4. /\ Len(Frames) = m + n
      /\ \A i \in 1 .. m + n : Frames[i] = IF i <= m THEN inbound[i] ELSE requests[i - m]
  BY <1>1, ConcatProperties DEF Frames
<1>5. /\ Frames' \in Seq(Request) /\ Len(Frames') = (m - 1) + n
      /\ \A i \in 1 .. (m - 1) + n :
            Frames'[i] = IF i <= m - 1 THEN inbound'[i] ELSE requests[i - (m - 1)]
  <2> DEFINE b == inbound'
  <2>1. Frames' = b \o requests /\ b \in Seq(Request) /\ Len(b) = m - 1
    BY <1>1, <1>3 DEF Frames
  <2> HIDE DEF b, m
  <2>2. /\ b \o requests \in Seq(Request) /\ Len(b \o requests) = Len(b) + Len(requests)
        /\ \A i \in 1 .. Len(b) + Len(requests) :
              (b \o requests)[i] = IF i <= Len(b) THEN b[i] ELSE requests[i - Len(b)]
    BY <1>1, <2>1, ConcatProperties
  <2>3. QED
    BY <2>1, <2>2 DEF b
<1>6. Frames # <<>> /\ Head(Frames) = Frames[1]
  BY <1>1, <1>2, <1>4
<1>7. Frames[1] = inbound[1]
  <2>1. 1 \in 1 .. m + n /\ 1 <= m
    BY <1>2
  <2>2. QED
    BY <1>4, <2>1
<1>8. Tail(Frames) \in Seq(Request) /\ Len(Tail(Frames)) = (m + n) - 1
      /\ \A i \in 1 .. (m + n) - 1 : Tail(Frames)[i] = Frames[i + 1]
  <2>1. Tail(Frames) \in Seq(Request) /\ Len(Tail(Frames)) = Len(Frames) - 1
    BY <1>1, <1>6, HeadTailProperties
  <2>2. \A i \in 1 .. Len(Frames) - 1 : Tail(Frames)[i] = Frames[i + 1]
    BY <1>1, <1>6, MembersTail
  <2>3. QED
    BY <1>4, <2>1, <2>2
<1>9. \A i \in 1 .. (m - 1) + n : Frames'[i] = Tail(Frames)[i]
  <2> HIDE DEF m, n
  <2> TAKE i \in 1 .. (m - 1) + n
  <2>1. i \in 1 .. (m + n) - 1 /\ i + 1 \in 1 .. m + n /\ (m - 1) + n = (m + n) - 1
    BY <1>2
  <2>2. Tail(Frames)[i] = Frames[i + 1]
    BY <1>8, <2>1
  <2>3. CASE i <= m - 1
    <3>1. i \in 1 .. m - 1 /\ i + 1 <= m
      BY <1>2, <2>3
    <3>2. QED
      BY <1>2, <1>4, <1>5, <2>1, <2>2, <2>3, <3>1
  <2>4. CASE ~(i <= m - 1)
    <3>1. ~(i + 1 <= m) /\ (i + 1) - m = i - (m - 1)
      BY <1>2, <2>4
    <3>2. Frames[i + 1] = requests[(i + 1) - m]
      BY <1>4, <2>1, <3>1
    <3>3. Frames'[i] = requests[i - (m - 1)]
      BY <1>5, <2>4
    <3>4. QED
      BY <2>2, <3>1, <3>2, <3>3
  <2>5. QED
    BY <2>3, <2>4
<1>10. Frames' = Tail(Frames)
  <2>1. (m - 1) + n = (m + n) - 1 /\ Len(Frames') = Len(Tail(Frames))
    BY <1>2, <1>5, <1>8
  <2>2. \A i \in 1 .. Len(Frames') : Frames'[i] = Tail(Frames)[i]
    BY <1>5, <1>9
  <2>3. QED
    BY <1>5, <1>8, <2>1, <2>2, SeqEqual
<1>11. QED
  BY <1>1, <1>2, <1>6, <1>7, <1>10
-----------------------------------------------------------------------------
(***************************************************************************)
(* StageInv: a view is on its way to be attached, attached, held by no one *)
(* but the pump, released or closed, and one of these at a time.           *)
(***************************************************************************)
Gone == ReleasesIn(Frames)
Held == Gone \cup dropped \cup closed

StageInv ==
    /\ Held \subseteq Opened
    /\ view \in (Opened \ Held) \cup {Nil}
    /\ Gone \cap dropped = {} /\ (Gone \cup dropped) \cap closed = {}
    /\ ReleasesDiffer(Frames)
    /\ OnWay \subseteq Opened \ (Held \cup {view})

LEMMA InitStage == Init => StageInv
<1> SUFFICES ASSUME Init
             PROVE  StageInv
  OBVIOUS
<1>1. Frames = <<>> /\ DOMAIN Frames = {}
  BY DEF Init, Frames
<1>2. Gone = {} /\ ReleasesDiffer(Frames)
  BY <1>1 DEF Gone, ReleasesIn, ReleasesDiffer
<1>3. OnWay = {}
  <2>1. Range(Now) = {} /\ Range(outbound) = {}
    BY DEF Init, Now, Range
  <2>2. TurnViews = {}
    BY DEF Init, TurnViews
  <2>3. QED
    BY <2>1, <2>2 DEF OnWay
<1>4. Held = {} /\ view = Nil
  BY <1>2 DEF Init, Held
<1>5. QED
  BY <1>2, <1>3, <1>4 DEF Init, StageInv

\* Steps that let go of no view.
LEMMA StageStays ==
    ASSUME StageInv, UNCHANGED <<view, dropped, closed, opened>>, OnWay' = OnWay,
           Gone' \subseteq Gone, ReleasesDiffer(Frames')
    PROVE  StageInv'
<1>1. Opened' = Opened
  BY OpenedStays
<1>2. Held' \subseteq Held /\ view' = view
  BY DEF Held
<1>3. Gone' \cap dropped' = {} /\ (Gone' \cup dropped') \cap closed' = {}
  BY DEF StageInv
<1>4. QED
  BY <1>1, <1>2, <1>3 DEF StageInv

\* drain_releases
LEMMA StageReleases ==
    ASSUME TypeInv, StageInv, NEW q \in Releases(dropped), requests' = requests \o q,
           dropped' = {}, UNCHANGED <<view, closed, opened, inbound>>, OnWay' = OnWay
    PROVE  StageInv'
<1>1. Opened' = Opened
  BY OpenedStays
<1>2. Frames \in Seq(Request) /\ q \in Seq(Request)
  BY FramesType, ReleasesAppended
<1>3. Frames' = Frames \o q
  BY <1>2, FramesGrow
<1>4. dropped \in SUBSET View /\ IsFiniteSet(dropped)
  BY DEF TypeInv, TypeOK, FiniteInv
<1>5. ReleasesDiffer(Frames) /\ ReleasesIn(Frames) \cap dropped = {}
  BY DEF StageInv, Gone
<1>6. /\ ReleasesIn(Frames \o q) \subseteq ReleasesIn(Frames) \cup dropped
      /\ ReleasesDiffer(Frames \o q)
  BY <1>2, <1>4, <1>5, FramesReleased
<1>7. Gone' \subseteq Gone \cup dropped /\ ReleasesDiffer(Frames')
  BY <1>3, <1>6 DEF Gone
<1>8. Held' \subseteq Held /\ (Gone' \cup dropped') \cap closed' = {}
  BY <1>7 DEF Held, StageInv
<1>9. QED
  BY <1>1, <1>7, <1>8 DEF StageInv

\* A request that is not a release.
LEMMA StageRequest ==
    ASSUME TypeInv, StageInv, NEW f \in Request, f.kind # "release",
           requests' = Append(requests, f), inbound' = inbound
    PROVE  Gone' = Gone /\ ReleasesDiffer(Frames')
<1>1. Frames' = Append(Frames, f) /\ Frames \in Seq(Request) /\ ReleasesDiffer(Frames)
  BY FramesAppend, FramesType DEF StageInv
<1>2. /\ ReleasesIn(Append(Frames, f)) = ReleasesIn(Frames)
      /\ ReleasesDiffer(Append(Frames, f))
  BY <1>1, FrameAppended
<1>3. QED
  BY <1>1, <1>2 DEF Gone

\* The host lets go of the view that is attached.
LEMMA StageDrops ==
    ASSUME StageInv, dropped' = dropped \cup ({view} \ {Nil}),
           UNCHANGED <<closed, opened>>, OnWay' \subseteq OnWay, Nil \notin View,
           view' \in {Nil} \cup (OnWay \ OnWay'), Gone' = Gone, ReleasesDiffer(Frames')
    PROVE  StageInv'
<1>1. Opened' = Opened /\ Nil \notin Opened
  BY OpenedStays DEF Opened
<1>2. Held' = Held \cup ({view} \ {Nil})
  BY DEF Held
<1>3. Gone' \cap dropped' = {} /\ (Gone' \cup dropped') \cap closed' = {}
  BY DEF StageInv, Held
<1>4. QED
  BY <1>1, <1>2, <1>3 DEF StageInv

LEMMA HostStepStage ==
    ASSUME TypeInv, StageInv, HostStep
    PROVE  StageInv'
<1>1. CASE \E s \in SurfaceId : MountOn(s)
  <2>1. PICK s \in SurfaceId : MountOn(s)
    BY <1>1
  <2>2. /\ requests' = Append(requests, Mount(s)) /\ inbound' = inbound
        /\ UNCHANGED <<view, dropped, closed, opened, applying, turns, outbound>>
    BY <2>1 DEF MountOn, surfaceVars, guestVars, windowVars
  <2>3. QED
    BY <2>2, RequestTypes, StageRequest, OnWayStays, StageStays
<1>2. CASE \E g \in Size : Measured(g)
  <2>1. PICK g \in Size : Measured(g)
    BY <1>2
  <2>2. /\ requests' = IF view = Nil THEN requests ELSE Append(requests, Resize(view, g))
        /\ inbound' = inbound
        /\ UNCHANGED <<view, dropped, closed, opened, applying, turns, outbound>>
    BY <2>1 DEF Measured, guestVars, windowVars
  <2>3. view \in View \cup {Nil}
    BY DEF TypeInv, TypeOK
  <2>4. CASE view = Nil
    <3>1. Frames' = Frames
      BY <2>2, <2>4, FramesStay
    <3>2. Gone' = Gone /\ ReleasesDiffer(Frames')
      BY <3>1 DEF Gone, StageInv
    <3>3. QED
      BY <2>2, <3>2, OnWayStays, StageStays
  <2>5. CASE view # Nil
    <3>1. Resize(view, g) \in Request /\ Resize(view, g).kind # "release"
      BY <2>3, <2>5, RequestTypes
    <3>2. QED
      BY <2>2, <2>5, <3>1, StageRequest, OnWayStays, StageStays
  <2>6. QED
    BY <2>4, <2>5
<1>3. CASE ForwardInput
  <2>1. /\ view # Nil /\ view \in View \cup {Nil}
        /\ requests' = Append(requests, Input(view)) /\ inbound' = inbound
        /\ UNCHANGED <<view, dropped, closed, opened, applying, turns, outbound>>
    BY <1>3 DEF ForwardInput, hostVars, surfaceVars, guestVars, windowVars, TypeInv, TypeOK
  <2>2. Input(view) \in Request /\ Input(view).kind # "release"
    BY <2>1, RequestTypes
  <2>3. QED
    BY <2>1, <2>2, StageRequest, OnWayStays, StageStays
<1>4. CASE DropSurface
  <2>1. /\ view' = Nil /\ dropped' = dropped \cup ({view} \ {Nil})
        /\ UNCHANGED <<closed, opened, requests, inbound, applying, turns, outbound>>
    BY <1>4 DEF DropSurface, guestVars, windowVars
  <2>2. Gone' = Gone /\ ReleasesDiffer(Frames')
    BY <2>1, FramesStay DEF Gone, StageInv
  <2>3. QED
    BY <2>1, <2>2, OnWayStays, StageDrops, NilAssumption
<1>5. CASE PumpReleases
  <2>1. PICK q \in Releases(dropped) : requests' = requests \o q
    BY <1>5 DEF PumpReleases
  <2>2. /\ dropped' = {}
        /\ UNCHANGED <<view, closed, opened, inbound, applying, turns, outbound>>
    BY <1>5 DEF PumpReleases, surfaceVars, guestVars, windowVars
  <2>3. QED
    BY <2>1, <2>2, OnWayStays, StageReleases
<1>6. QED
  BY <1>1, <1>2, <1>3, <1>4, <1>5 DEF HostStep

LEMMA TakeTurnStage ==
    ASSUME TypeInv, StageInv, TakeTurn
    PROVE  StageInv'
<1>1. PICK q \in Releases(dropped) : requests' = requests \o q
  BY DEF TakeTurn
<1>2. dropped' = {} /\ UNCHANGED <<view, closed, opened, inbound>>
  BY DEF TakeTurn, surfaceVars, guestVars, windowVars
<1>3. QED
  BY <1>1, <1>2, TakeTurnCalls, StageReleases

LEMMA ApplyScenesStage ==
    ASSUME TypeInv, StageInv, ApplyScenes
    PROVE  StageInv'
<1>1. PICK q \in Releases(dropped) : requests' = requests \o q
  BY DEF ApplyScenes
<1>2. dropped' = {} /\ UNCHANGED <<view, closed, opened, inbound>>
  BY DEF ApplyScenes, guestVars, windowVars
<1>3. QED
  BY <1>1, <1>2, ApplyScenesCalls, StageReleases

\* The view attached is on its way once.
LEMMA AttachStage ==
    ASSUME TypeInv, StageInv, Attach, Head(Now) \notin OnWay'
    PROVE  StageInv'
<1>1. /\ inbound' = inbound /\ closed' = closed /\ opened' = opened /\ Head(Now) \in View
  BY AttachDoes DEF guestVars, windowVars
<1>2. OnWay = {Head(Now)} \cup OnWay'
  BY AttachCalls
<1>3. CASE alive
  <2>1. dropped' = dropped \cup ({view} \ {Nil}) /\ view' = Head(Now)
    BY <1>3, AttachDoes
  <2>2. Gone' = Gone /\ ReleasesDiffer(Frames')
    <3>1. CASE requests' = requests
      BY <1>1, <3>1, FramesStay DEF Gone, StageInv
    <3>2. CASE geometry \in Size /\ requests' = Append(requests, Resize(Head(Now), geometry))
      <4>1. /\ Resize(Head(Now), geometry) \in Request
            /\ Resize(Head(Now), geometry).kind # "release"
        BY <1>1, <3>2, RequestTypes
      <4>2. QED
        BY <1>1, <3>2, <4>1, StageRequest
    <3>3. QED
      BY <1>3, <3>1, <3>2, AttachDoes
  <2>3. QED
    BY <1>1, <1>2, <2>1, <2>2, StageDrops, NilAssumption
<1>4. CASE ~alive
  <2>1. UNCHANGED <<requests, dropped, view>> /\ view = Nil
    BY <1>4, AttachDoes DEF TypeInv, PhaseInv
  <2>2. Gone' = Gone /\ ReleasesDiffer(Frames')
    BY <1>1, <2>1, FramesStay DEF Gone, StageInv
  <2>3. QED
    BY <1>1, <1>2, <2>1, <2>2, StageDrops, NilAssumption
<1>5. QED
  BY <1>3, <1>4

\* A new view is on its way.
LEMMA OpenViewStage ==
    ASSUME TypeInv, StageInv, NEW s \in SurfaceId, OpenView(s), UNCHANGED hostVars,
           turns' = turns, Gone' \subseteq Gone, ReleasesDiffer(Frames')
    PROVE  StageInv'
<1>1. applying' = applying /\ view' = view /\ dropped' = dropped
  BY DEF hostVars, surfaceVars
<1>2. PICK v \in View :
         /\ v \notin Opened /\ Opened' = Opened \cup {v} /\ closed' = closed
         /\ OnWay' = OnWay \cup {v}
  BY <1>1, OpenViewCalls
<1>3. Held' \subseteq Held /\ Gone' \cap dropped' = {} /\ (Gone' \cup dropped') \cap closed' = {}
  BY <1>1, <1>2 DEF Held, StageInv
<1>4. v # view /\ v \notin Held'
  BY <1>2, <1>3, NilAssumption DEF StageInv
<1>5. QED
  BY <1>1, <1>2, <1>3, <1>4 DEF StageInv

LEMMA DeliverFrameStage ==
    ASSUME TypeInv, StageInv, DeliverFrame
    PROVE  StageInv'
<1> DEFINE f == Head(inbound)
<1>1. /\ f \in Request /\ UNCHANGED <<hostVars, turns>>
      /\ \/ f.kind = "mount" /\ f.to \in SurfaceId /\ DeliverMount(f.to)
         \/ f.kind \in {"resize", "input"} /\ f.to \in View /\ DeliverEvent(f)
         \/ f.kind = "release" /\ f.to \in View /\ DeliverRelease(f.to)
  BY DeliverFrameDoes
<1>2. Frames # <<>> /\ Head(Frames) = f /\ Frames' = Tail(Frames) /\ Frames \in Seq(Request)
  BY FramesDelivered, FramesType
<1> HIDE DEF f
<1>3. /\ Gone' \subseteq Gone /\ ReleasesDiffer(Frames')
      /\ f.kind = "release" => f.to \in Gone \ Gone'
  <2>1. ReleasesDiffer(Frames)
    BY DEF StageInv
  <2>2. QED
    BY <1>2, <2>1, FrameTaken DEF Gone
<1>4. view' = view /\ dropped' = dropped /\ applying' = applying
  BY <1>1 DEF hostVars, surfaceVars
<1>5. CASE f.to \in SurfaceId /\ DeliverMount(f.to)
  <2>1. CASE OpenView(f.to)
    BY <1>1, <1>3, <1>5, <2>1, OpenViewStage
  <2>2. CASE UNCHANGED <<windowVars, outbound>>
    BY <1>1, <1>3, <1>4, <2>2, OnWayStays, StageStays DEF windowVars
  <2>3. QED
    BY <1>5, <2>1, <2>2 DEF DeliverMount
<1>6. CASE DeliverEvent(f)
  BY <1>1, <1>3, <1>4, <1>6, OnWayStays, StageStays DEF DeliverEvent
<1>7. CASE f.kind = "release" /\ DeliverRelease(f.to)
  <2>1. closed' = closed \cup {f.to} /\ UNCHANGED <<opened, outbound>>
    BY <1>7 DEF DeliverRelease
  <2>2. OnWay' = OnWay /\ Opened' = Opened
    BY <1>1, <1>4, <2>1, OnWayStays, OpenedStays
  <2>3. f.to \in Gone /\ f.to \notin Gone'
    BY <1>3, <1>7
  <2>4. Held' \subseteq Held
    BY <1>3, <1>4, <2>1, <2>3 DEF Held
  <2>5. Gone' \cap dropped' = {} /\ (Gone' \cup dropped') \cap closed' = {}
    BY <1>3, <1>4, <2>1, <2>3 DEF StageInv
  <2>6. QED
    BY <1>3, <1>4, <2>2, <2>4, <2>5 DEF StageInv
<1>8. QED
  BY <1>1, <1>5, <1>6, <1>7

LEMMA GuestStepStage ==
    ASSUME TypeInv, StageInv, BeginTurn \/ FlushEvents \/ PumpFrames \/ EndTurn \/ Task
    PROVE  StageInv'
<1>1. Frames' = Frames
  <2>1. CASE BeginTurn
    BY <2>1, FramesMove
  <2>2. CASE FlushEvents \/ PumpFrames \/ EndTurn \/ Task
    BY <2>2, FramesStay DEF FlushEvents, PumpFrames, EndTurn, Task
  <2>3. QED
    BY <2>1, <2>2
<1>2. Gone' = Gone /\ ReleasesDiffer(Frames')
  BY <1>1 DEF Gone, StageInv
<1>3. CASE EndTurn
  <2>1. UNCHANGED <<view, dropped, closed, opened>>
    BY <1>3 DEF EndTurn, hostVars, surfaceVars, windowVars
  <2>2. QED
    BY <1>2, <1>3, <2>1, EndTurnCalls, StageStays
<1>4. CASE BeginTurn \/ FlushEvents \/ PumpFrames
  <2>1. UNCHANGED <<view, dropped, closed, opened, applying, turns, outbound>>
    BY <1>4 DEF BeginTurn, FlushEvents, PumpFrames, hostVars, surfaceVars, windowVars
  <2>2. QED
    BY <1>2, <2>1, OnWayStays, StageStays
<1>5. CASE Task
  <2>1. UNCHANGED <<hostVars, turns>>
    BY <1>5 DEF Task
  <2>2. UNCHANGED <<view, dropped, applying, turns>>
    BY <2>1 DEF hostVars, surfaceVars
  <2>3. CASE UNCHANGED <<opened, closed, outbound>>
    BY <1>2, <2>2, <2>3, OnWayStays, StageStays
  <2>4. CASE \E s \in mounting : OpenView(s)
    <3>1. PICK s \in SurfaceId : OpenView(s)
      BY <2>4, GuestTypes
    <3>2. QED
      BY <1>2, <2>1, <3>1, OpenViewStage
  <2>5. QED
    BY <1>5, <2>3, <2>4 DEF Task
<1>6. QED
  BY <1>3, <1>4, <1>5
-----------------------------------------------------------------------------
(***************************************************************************)
(* OrderInv: views attach in the order in which their windows opened (a    *)
(* rank says which), and of the windows that are to be attached, or are,   *)
(* only one with a newer one behind it may have lost its place in windows. *)
(***************************************************************************)
Mounted == OnWay \cup ({view} \ {Nil})

Ordered(rank) ==
    /\ Increasing(Now, rank) /\ Increasing(outbound, rank)
    /\ \A t \in DOMAIN turns : Increasing(turns[t].attaches, rank)
    /\ \A t, u \in DOMAIN turns :
          t < u => Before(Range(turns[t].attaches), Range(turns[u].attaches), rank)
    /\ Before(Range(Now), TurnViews \cup Range(outbound), rank)
    /\ Before(TurnViews, Range(outbound), rank)

Pumped(rank) ==
    \A v \in Mounted : windows[opened[v]] = v \/ \E w \in OnWay : rank[v] < rank[w]

OrderInv ==
    \E rank \in [View -> Nat], top \in Nat :
        (\A v \in Opened : rank[v] < top) /\ Ordered(rank) /\ Pumped(rank)

LEMMA InitOrder == Init => OrderInv
<1> SUFFICES ASSUME Init
             PROVE  OrderInv
  OBVIOUS
<1> DEFINE rank == [v \in View |-> 0]
<1>1. /\ Now = <<>> /\ outbound = <<>> /\ turns = <<>> /\ view = Nil
      /\ Range(Now) = {} /\ Range(outbound) = {}
  BY DEF Init, Now, Range
<1>2. TurnViews = {} /\ OnWay = {} /\ Mounted = {} /\ Opened = {}
  BY <1>1 DEF Init, TurnViews, OnWay, Mounted, Opened
<1>3. Ordered(rank)
  BY <1>1, <1>2 DEF Ordered, Increasing, Before
<1>4. Pumped(rank)
  BY <1>2 DEF Pumped
<1>5. rank \in [View -> Nat]
  OBVIOUS
<1> HIDE DEF rank
<1>6. \A v \in Opened : rank[v] < 0
  BY <1>2
<1>7. QED
  BY <1>3, <1>4, <1>5, <1>6 DEF OrderInv

\* Steps that move no call.
LEMMA OrderedStays ==
    ASSUME NEW rank \in [View -> Nat], Ordered(rank), UNCHANGED <<applying, turns, outbound>>
    PROVE  Ordered(rank)'
  BY OnWayStays DEF Ordered, Increasing, Before

LEMMA PumpedStays ==
    ASSUME NEW rank \in [View -> Nat], Pumped(rank), UNCHANGED <<windows, opened>>,
           view' \in {view, Nil}, OnWay' = OnWay
    PROVE  Pumped(rank)'
<1>1. Mounted' \subseteq Mounted
  BY DEF Mounted
<1>2. QED
  BY <1>1 DEF Pumped

LEMMA OrderStays ==
    ASSUME OrderInv, UNCHANGED <<applying, turns, outbound, windows, opened>>,
           view' \in {view, Nil}
    PROVE  OrderInv'
<1>1. PICK rank \in [View -> Nat], top \in Nat :
         (\A v \in Opened : rank[v] < top) /\ Ordered(rank) /\ Pumped(rank)
  BY DEF OrderInv
<1>2. Opened' = Opened /\ OnWay' = OnWay
  BY OpenedStays, OnWayStays
<1>3. (\A v \in Opened' : rank[v] < top) /\ Ordered(rank)' /\ Pumped(rank)'
  BY <1>1, <1>2, OrderedStays, PumpedStays
<1>4. QED
  BY <1>3 DEF OrderInv

LEMMA TakeTurnOrder ==
    ASSUME TypeInv, OrderInv, TakeTurn
    PROVE  OrderInv'
<1>1. PICK rank \in [View -> Nat], top \in Nat :
         (\A v \in Opened : rank[v] < top) /\ Ordered(rank) /\ Pumped(rank)
  BY DEF OrderInv
<1>2. /\ Now = <<>> /\ Now' = turns[1].attaches /\ outbound' = outbound
      /\ turns' \in Seq(Turn) /\ 1 \in DOMAIN turns
      /\ \A t \in DOMAIN turns' : t + 1 \in DOMAIN turns /\ turns'[t] = turns[t + 1]
                                  /\ 1 < t + 1
      /\ TurnViews = Range(Now') \cup TurnViews' /\ OnWay' = OnWay
  BY TakeTurnCalls
<1>3. view' = view /\ opened' = opened /\ windows' = windows
  BY DEF TakeTurn, surfaceVars, guestVars, windowVars
<1>4. Increasing(Now, rank)' /\ Increasing(outbound, rank)'
  BY <1>1, <1>2 DEF Ordered, Increasing
<1>5. \A t \in DOMAIN turns' : Increasing(turns'[t].attaches, rank)
  BY <1>1, <1>2 DEF Ordered
<1>6. ASSUME NEW t \in DOMAIN turns', NEW u \in DOMAIN turns', t < u
      PROVE  Before(Range(turns'[t].attaches), Range(turns'[u].attaches), rank)
  <2>1. t \in Nat /\ u \in Nat
    BY <1>2
  <2>2. t + 1 < u + 1
    BY <1>6, <2>1
  <2>3. QED
    BY <1>1, <1>2, <2>2 DEF Ordered
<1>7. Before(Range(Now'), TurnViews', rank)
  <2>1. ASSUME NEW v \in Range(Now'), NEW w \in TurnViews'
        PROVE  rank[v] < rank[w]
    <3>1. PICK t \in DOMAIN turns' : w \in Range(turns'[t].attaches)
      BY <2>1 DEF TurnViews
    <3>2. Before(Range(turns[1].attaches), Range(turns[t + 1].attaches), rank)
      BY <1>1, <1>2 DEF Ordered
    <3>3. QED
      BY <1>2, <3>1, <3>2 DEF Before
  <2>2. QED
    BY <2>1 DEF Before
<1>8. Before(Range(Now') \cup TurnViews', Range(outbound'), rank)
  BY <1>1, <1>2 DEF Ordered
<1>9. Ordered(rank)'
  <2>1. /\ Before(Range(Now'), TurnViews' \cup Range(outbound'), rank)
        /\ Before(TurnViews', Range(outbound'), rank)
    BY <1>7, <1>8 DEF Before
  <2>2. QED
    BY <1>4, <1>5, <1>6, <2>1 DEF Ordered, Before
<1>10. (\A v \in Opened' : rank[v] < top) /\ Pumped(rank)'
  BY <1>1, <1>2, <1>3, OpenedStays, PumpedStays
<1>11. QED
  BY <1>9, <1>10 DEF OrderInv

LEMMA EndTurnOrder ==
    ASSUME TypeInv, OrderInv, EndTurn
    PROVE  OrderInv'
<1>1. PICK rank \in [View -> Nat], top \in Nat :
         (\A v \in Opened : rank[v] < top) /\ Ordered(rank) /\ Pumped(rank)
  BY DEF OrderInv
<1>2. /\ Now' = Now /\ outbound' = <<>> /\ Range(outbound') = {}
      /\ \A t \in DOMAIN turns' :
            \/ t \in DOMAIN turns /\ turns'[t] = turns[t]
            \/ turns'[t].attaches = outbound /\ \A u \in DOMAIN turns' : ~(t < u)
      /\ TurnViews' = TurnViews \cup Range(outbound) /\ OnWay' = OnWay
  BY EndTurnCalls
<1>3. view' = view /\ opened' = opened /\ windows' = windows
  BY DEF EndTurn, hostVars, surfaceVars, windowVars
<1>4. \A t \in DOMAIN turns : Range(turns[t].attaches) \subseteq TurnViews
  BY OnWayType
<1>5. Increasing(Now, rank)' /\ Increasing(outbound, rank)'
  BY <1>1, <1>2 DEF Ordered, Increasing
<1>6. \A t \in DOMAIN turns' : Increasing(turns'[t].attaches, rank)
  BY <1>1, <1>2 DEF Ordered
<1>7. ASSUME NEW t \in DOMAIN turns', NEW u \in DOMAIN turns', t < u
      PROVE  Before(Range(turns'[t].attaches), Range(turns'[u].attaches), rank)
  <2>1. t \in DOMAIN turns /\ turns'[t] = turns[t]
    BY <1>2, <1>7
  <2>2. CASE u \in DOMAIN turns /\ turns'[u] = turns[u]
    BY <1>1, <1>7, <2>1, <2>2 DEF Ordered
  <2>3. CASE turns'[u].attaches = outbound
    <3>1. Before(Range(turns[t].attaches), Range(outbound), rank)
      BY <1>1, <1>4, <2>1 DEF Ordered, Before
    <3>2. QED
      BY <2>1, <2>3, <3>1
  <2>4. QED
    BY <1>2, <2>2, <2>3
<1>8. Ordered(rank)'
  <2>1. /\ Before(Range(Now'), TurnViews' \cup Range(outbound'), rank)
        /\ Before(TurnViews', Range(outbound'), rank)
    BY <1>1, <1>2 DEF Ordered, Before
  <2>2. QED
    BY <1>5, <1>6, <1>7, <2>1 DEF Ordered, Before
<1>9. (\A v \in Opened' : rank[v] < top) /\ Pumped(rank)'
  BY <1>1, <1>2, <1>3, OpenedStays, PumpedStays
<1>10. QED
  BY <1>8, <1>9 DEF OrderInv

\* The head of the calls is the oldest.
LEMMA HeadIsOldest ==
    ASSUME TypeInv, Attach, NEW rank \in [View -> Nat], Ordered(rank)
    PROVE  /\ \A w \in OnWay' : rank[Head(Now)] < rank[w]
           /\ Head(Now) \notin OnWay'
<1>1. /\ Now \in Seq(View) /\ Now # <<>> /\ Now' = Tail(Now) /\ Head(Now) \in View
      /\ outbound' = outbound /\ TurnViews' = TurnViews
      /\ Range(Now) = {Head(Now)} \cup Range(Now')
  BY AttachCalls
<1>2. Increasing(Now, rank)
  BY DEF Ordered
<1>3. Before({Head(Now)}, Range(Now'), rank)
  BY <1>1, <1>2, IncreasingTail
<1>4. \A w \in OnWay' : rank[Head(Now)] < rank[w]
  BY <1>1, <1>3 DEF Ordered, Before, OnWay
<1>5. rank[Head(Now)] \in Nat /\ ~(rank[Head(Now)] < rank[Head(Now)])
  BY <1>1
<1>6. QED
  BY <1>4, <1>5

LEMMA AttachOrder ==
    ASSUME TypeInv, StageInv, OrderInv, Attach
    PROVE  OrderInv' /\ Head(Now) \notin OnWay'
<1>1. PICK rank \in [View -> Nat], top \in Nat :
         (\A v \in Opened : rank[v] < top) /\ Ordered(rank) /\ Pumped(rank)
  BY DEF OrderInv
<1> DEFINE h == Head(Now)
<1>2. /\ Now \in Seq(View) /\ Now # <<>> /\ Now' = Tail(Now) /\ h \in View
      /\ turns' = turns /\ outbound' = outbound /\ TurnViews' = TurnViews
      /\ Range(Now) = {h} \cup Range(Now') /\ OnWay = {h} \cup OnWay'
  BY AttachCalls
<1>3. (\A w \in OnWay' : rank[h] < rank[w]) /\ h \notin OnWay'
  BY <1>1, HeadIsOldest
<1>4. opened' = opened /\ windows' = windows /\ view' \in {h, Nil}
  BY AttachDoes DEF guestVars, windowVars, TypeInv, PhaseInv
<1>5. Increasing(Now, rank)'
  <2>1. Increasing(Tail(Now), rank)
    BY <1>1, <1>2, IncreasingTail DEF Ordered
  <2>2. QED
    BY <1>2, <2>1 DEF Increasing
<1> HIDE DEF h
<1>6. Ordered(rank)'
  BY <1>1, <1>2, <1>5 DEF Ordered, Before, Increasing
<1>7. Mounted' \subseteq OnWay
  BY <1>2, <1>4 DEF Mounted
<1>8. OnWay \subseteq View
  BY OnWayType
<1>9. ASSUME NEW v \in Mounted'
      PROVE  windows[opened[v]] = v \/ \E w \in OnWay' : rank[v] < rank[w]
  <2>1. v \in OnWay /\ v \in Mounted
    BY <1>7, <1>9 DEF Mounted
  <2>2. windows[opened[v]] = v \/ \E w \in OnWay : rank[v] < rank[w]
    BY <1>1, <2>1 DEF Pumped
  <2>3. ~(rank[v] < rank[h])
    <3>1. v = h \/ rank[h] < rank[v]
      BY <1>2, <1>3, <2>1
    <3>2. rank[v] \in Nat /\ rank[h] \in Nat
      BY <1>2, <1>8, <2>1
    <3>3. QED
      BY <3>1, <3>2
  <2>4. QED
    BY <1>2, <2>2, <2>3
<1>10. Pumped(rank)'
  BY <1>4, <1>9 DEF Pumped
<1>11. Opened' = Opened
  BY <1>4, OpenedStays
<1>12. OrderInv'
  BY <1>1, <1>6, <1>10, <1>11 DEF OrderInv
<1>13. QED
  BY <1>3, <1>12 DEF h

\* The rank of the views that are open already stays.
LEMMA RankAgrees ==
    ASSUME NEW rank \in [View -> Nat], NEW new \in [View -> Nat], NEW A \in SUBSET View,
           \A v \in A : new[v] = rank[v]
    PROVE  /\ \A S, T \in SUBSET A : Before(S, T, rank) => Before(S, T, new)
           /\ \A s \in Seq(View) :
                 Range(s) \subseteq A /\ Increasing(s, rank) => Increasing(s, new)
<1>1. \A S, T \in SUBSET A : Before(S, T, rank) => Before(S, T, new)
  BY DEF Before
<1>2. ASSUME NEW s \in Seq(View), Range(s) \subseteq A, Increasing(s, rank)
      PROVE  Increasing(s, new)
  <2>1. \A i \in DOMAIN s : s[i] \in A
    BY <1>2 DEF Range
  <2>2. QED
    BY <1>2, <2>1 DEF Increasing
<1>3. QED
  BY <1>1, <1>2

LEMMA OpenViewOrder ==
    ASSUME TypeInv, StageInv, OrderInv, NEW s \in SurfaceId, OpenView(s), UNCHANGED hostVars,
           turns' = turns
    PROVE  OrderInv'
<1>1. PICK rank \in [View -> Nat], top \in Nat :
         (\A v \in Opened : rank[v] < top) /\ Ordered(rank) /\ Pumped(rank)
  BY DEF OrderInv
<1>2. applying' = applying /\ view' = view
  BY DEF hostVars, surfaceVars
<1>3. PICK v \in View :
         /\ v \notin Opened /\ Opened' = Opened \cup {v}
         /\ opened' = [opened EXCEPT ![v] = s] /\ windows' = [windows EXCEPT ![s] = v]
         /\ Now' = Now /\ TurnViews' = TurnViews
         /\ outbound' = Append(outbound, v)
         /\ Range(outbound') = Range(outbound) \cup {v}
         /\ OnWay' = OnWay \cup {v}
  BY <1>2, OpenViewCalls
<1> DEFINE new == [rank EXCEPT ![v] = top]
<1>4. /\ new \in [View -> Nat] /\ new[v] = top
      /\ \A w \in Opened : new[w] = rank[w] /\ new[w] < top
  BY <1>1, <1>3 DEF Opened
<1> HIDE DEF new
<1>5. /\ Opened \in SUBSET View /\ Opened \subseteq Opened'
      /\ OnWay \subseteq Opened /\ view \in Opened \cup {Nil}
  BY <1>3 DEF Opened, StageInv
<1>6. /\ Range(Now) \subseteq Opened /\ TurnViews \subseteq Opened
      /\ Range(outbound) \subseteq Opened
  BY <1>5 DEF OnWay
<1>7. /\ Now \in Seq(View) /\ outbound \in Seq(View)
      /\ \A t \in DOMAIN turns : /\ turns[t].attaches \in Seq(View)
                                 /\ Range(turns[t].attaches) \subseteq Opened
  BY <1>6, NowType, GuestTypes, OnWayType
<1>8. /\ \A S, T \in SUBSET Opened : Before(S, T, rank) => Before(S, T, new)
      /\ \A q \in Seq(View) :
            Range(q) \subseteq Opened /\ Increasing(q, rank) => Increasing(q, new)
  BY <1>4, <1>5, RankAgrees
<1>9. Increasing(Now, new) /\ \A t \in DOMAIN turns : Increasing(turns[t].attaches, new)
  BY <1>1, <1>6, <1>7, <1>8 DEF Ordered
<1>10. \A t, u \in DOMAIN turns :
          t < u => Before(Range(turns[t].attaches), Range(turns[u].attaches), new)
  BY <1>1, <1>7, <1>8 DEF Ordered
<1>11. Before(Opened, {v}, new)
  BY <1>4 DEF Before
<1>12. Increasing(outbound', new)
  <2>1. Increasing(outbound, new)
    BY <1>1, <1>6, <1>7, <1>8 DEF Ordered
  <2>2. Before(Range(outbound), {v}, new)
    BY <1>6, <1>11 DEF Before
  <2>3. Increasing(Append(outbound, v), new)
    BY <1>4, <1>7, <2>1, <2>2, IncreasingAppend
  <2>4. QED
    BY <1>3, <2>3
<1>13. /\ Before(Range(Now), TurnViews \cup Range(outbound), new)
       /\ Before(TurnViews, Range(outbound), new)
  <2>1. TurnViews \cup Range(outbound) \in SUBSET Opened
    BY <1>6
  <2>2. QED
    BY <1>1, <1>6, <1>8, <2>1 DEF Ordered
<1>14. /\ Before(Range(Now'), TurnViews' \cup Range(outbound'), new)
       /\ Before(TurnViews', Range(outbound'), new)
  BY <1>3, <1>6, <1>11, <1>13 DEF Before
<1>15. Ordered(new)'
  BY <1>3, <1>9, <1>10, <1>12, <1>14 DEF Ordered, Before, Increasing
<1>16. ASSUME NEW w \in Mounted'
       PROVE  windows'[opened'[w]] = w \/ \E x \in OnWay' : new[w] < new[x]
  <2>1. CASE w = v
    <3>1. opened'[v] = s /\ windows'[s] = v
      BY <1>3, GuestTypes
    <3>2. QED
      BY <2>1, <3>1
  <2>2. CASE w # v
    <3>1. w \in Opened
      BY <1>2, <1>3, <1>5, <1>16, <2>2 DEF Mounted
    <3>2. new[w] < new[v] /\ v \in OnWay'
      BY <1>3, <1>4, <3>1
    <3>3. QED
      BY <3>2
  <2>3. QED
    BY <2>1, <2>2
<1>17. Pumped(new)'
  BY <1>16 DEF Pumped
<1>18. top + 1 \in Nat /\ \A w \in Opened' : new[w] < top + 1
  <2>1. \A w \in Opened : new[w] \in Nat
    BY <1>4, <1>5
  <2>2. QED
    BY <1>3, <1>4, <2>1
<1>19. QED
  BY <1>4, <1>15, <1>17, <1>18 DEF OrderInv

\* The window that is forgotten is of a view that nobody waits for.
LEMMA ReleaseOrder ==
    ASSUME TypeInv, StageInv, OrderInv, NEW x \in Gone, DeliverRelease(x),
           UNCHANGED hostVars, turns' = turns
    PROVE  OrderInv'
<1>1. PICK rank \in [View -> Nat], top \in Nat :
         (\A v \in Opened : rank[v] < top) /\ Ordered(rank) /\ Pumped(rank)
  BY DEF OrderInv
<1>2. ForgetWindow(x) /\ UNCHANGED <<opened, outbound>> /\ x \in View
  BY DEF DeliverRelease, Gone, ReleasesIn
<1>3. view' = view /\ applying' = applying
  BY DEF hostVars, surfaceVars
<1>4. OnWay' = OnWay /\ Opened' = Opened /\ Mounted' = Mounted
  BY <1>2, <1>3, OnWayStays, OpenedStays DEF Mounted
<1>5. \A s \in SurfaceId : windows[s] # x => windows'[s] = windows[s]
  BY <1>2, Forgets
<1>6. x \notin Mounted /\ Mounted \subseteq Opened
  BY DEF Mounted, StageInv, Held
<1>7. \A v \in Mounted : v # x /\ opened[v] \in SurfaceId
  BY <1>6, GuestTypes DEF Opened
<1>8. \A v \in Mounted : windows[opened[v]] = v => windows'[opened[v]] = v
  BY <1>5, <1>7
<1>9. Pumped(rank)'
  BY <1>1, <1>2, <1>4, <1>8 DEF Pumped
<1>10. Ordered(rank)'
  BY <1>1, <1>2, <1>3, OrderedStays
<1>11. QED
  BY <1>1, <1>4, <1>9, <1>10 DEF OrderInv

LEMMA DeliverFrameOrder ==
    ASSUME TypeInv, StageInv, OrderInv, DeliverFrame
    PROVE  OrderInv'
<1> DEFINE f == Head(inbound)
<1>1. /\ f \in Request /\ UNCHANGED <<hostVars, turns>>
      /\ \/ f.kind = "mount" /\ f.to \in SurfaceId /\ DeliverMount(f.to)
         \/ f.kind \in {"resize", "input"} /\ f.to \in View /\ DeliverEvent(f)
         \/ f.kind = "release" /\ f.to \in View /\ DeliverRelease(f.to)
  BY DeliverFrameDoes
<1>2. f.kind = "release" => f.to \in Gone
  <2>1. Frames # <<>> /\ Head(Frames) = f /\ Frames \in Seq(Request) /\ ReleasesDiffer(Frames)
    BY FramesDelivered, FramesType DEF StageInv
  <2>2. QED
    BY <2>1, FrameTaken DEF Gone
<1> HIDE DEF f
<1>3. view' = view /\ applying' = applying
  BY <1>1 DEF hostVars, surfaceVars
<1>4. CASE f.to \in SurfaceId /\ DeliverMount(f.to)
  <2>1. CASE OpenView(f.to)
    BY <1>1, <1>4, <2>1, OpenViewOrder
  <2>2. CASE UNCHANGED <<windowVars, outbound>>
    BY <1>1, <1>3, <2>2, OrderStays DEF windowVars
  <2>3. QED
    BY <1>4, <2>1, <2>2 DEF DeliverMount
<1>5. CASE DeliverEvent(f)
  BY <1>1, <1>3, <1>5, OrderStays DEF DeliverEvent
<1>6. CASE f.kind = "release" /\ DeliverRelease(f.to)
  BY <1>1, <1>2, <1>6, ReleaseOrder
<1>7. QED
  BY <1>1, <1>4, <1>5, <1>6

LEMMA OtherOrder ==
    ASSUME TypeInv, StageInv, OrderInv,
           HostStep \/ ApplyScenes \/ BeginTurn \/ FlushEvents \/ PumpFrames \/ Task
    PROVE  OrderInv'
<1>1. CASE HostStep
  <2>1. UNCHANGED <<guestVars, applying, turns>> /\ view' \in {view, Nil}
    BY <1>1 DEF HostStep, MountOn, Measured, ForwardInput, DropSurface, PumpReleases,
                hostVars, surfaceVars
  <2>2. UNCHANGED <<outbound, windows, opened>>
    BY <2>1 DEF guestVars, windowVars
  <2>3. QED
    BY <2>1, <2>2, OrderStays
<1>2. CASE ApplyScenes
  <2>1. PICK rank \in [View -> Nat], top \in Nat :
           (\A v \in Opened : rank[v] < top) /\ Ordered(rank) /\ Pumped(rank)
    BY DEF OrderInv
  <2>2. /\ Now' = Now /\ turns' = turns /\ outbound' = outbound
        /\ TurnViews' = TurnViews /\ OnWay' = OnWay
    BY <1>2, ApplyScenesCalls
  <2>3. view' = view /\ opened' = opened /\ windows' = windows
    BY <1>2 DEF ApplyScenes, guestVars, windowVars
  <2>4. Ordered(rank)'
    BY <2>1, <2>2 DEF Ordered, Increasing, Before
  <2>5. (\A v \in Opened' : rank[v] < top) /\ Pumped(rank)'
    BY <2>1, <2>2, <2>3, OpenedStays, PumpedStays
  <2>6. QED
    BY <2>4, <2>5 DEF OrderInv
<1>3. CASE BeginTurn \/ FlushEvents \/ PumpFrames
  <2>1. UNCHANGED <<view, applying, turns, outbound, windows, opened>>
    BY <1>3 DEF BeginTurn, FlushEvents, PumpFrames, hostVars, surfaceVars, windowVars
  <2>2. QED
    BY <2>1, OrderStays
<1>4. CASE Task
  <2>1. UNCHANGED <<hostVars, turns>>
    BY <1>4 DEF Task
  <2>2. UNCHANGED <<view, applying>>
    BY <2>1 DEF hostVars, surfaceVars
  <2>3. CASE UNCHANGED <<opened, windows, outbound>>
    BY <2>1, <2>2, <2>3, OrderStays
  <2>4. CASE \E s \in mounting : OpenView(s)
    <3>1. PICK s \in SurfaceId : OpenView(s)
      BY <2>4, GuestTypes
    <3>2. QED
      BY <2>1, <3>1, OpenViewOrder
  <2>5. QED
    BY <1>4, <2>3, <2>4 DEF Task
<1>5. QED
  BY <1>1, <1>2, <1>3, <1>4

ViewInv == TypeInv /\ StageInv /\ OrderInv

LEMMA InitView == Init => ViewInv
  BY InitType, InitStage, InitOrder DEF ViewInv

LEMMA NextView == ViewInv /\ [Next]_vars => ViewInv'
<1> SUFFICES ASSUME ViewInv, [Next]_vars
             PROVE  ViewInv'
  OBVIOUS
<1>1. TypeInv /\ StageInv /\ OrderInv /\ TypeInv'
  BY NextType DEF ViewInv
<1>2. CASE HostStep
  BY <1>1, <1>2, HostStepStage, OtherOrder DEF ViewInv
<1>3. CASE TakeTurn
  BY <1>1, <1>3, TakeTurnStage, TakeTurnOrder DEF ViewInv
<1>4. CASE Attach
  BY <1>1, <1>4, AttachStage, AttachOrder DEF ViewInv
<1>5. CASE ApplyScenes
  BY <1>1, <1>5, ApplyScenesStage, OtherOrder DEF ViewInv
<1>6. CASE DeliverFrame
  BY <1>1, <1>6, DeliverFrameStage, DeliverFrameOrder DEF ViewInv
<1>7. CASE EndTurn
  BY <1>1, <1>7, GuestStepStage, EndTurnOrder DEF ViewInv
<1>8. CASE BeginTurn \/ FlushEvents \/ PumpFrames \/ Task
  BY <1>1, <1>8, GuestStepStage, OtherOrder DEF ViewInv
<1>9. CASE UNCHANGED vars
  <2>1. UNCHANGED <<view, dropped, closed, opened, windows, applying, turns, outbound,
                    requests, inbound>>
    BY <1>9 DEF vars, hostVars, surfaceVars, guestVars, windowVars
  <2>2. Gone' = Gone /\ ReleasesDiffer(Frames') /\ OnWay' = OnWay
    BY <1>1, <2>1, FramesStay, OnWayStays DEF Gone, StageInv
  <2>3. QED
    BY <1>1, <2>1, <2>2, StageStays, OrderStays DEF ViewInv
<1>10. QED
  BY <1>2, <1>3, <1>4, <1>5, <1>6, <1>7, <1>8, <1>9 DEF Next, PumpStep, TurnStep

\* A window closes once, when the host let go of its view.
LEMMA StageReleasedOnce == TypeInv /\ StageInv => ReleasedOnce
<1> SUFFICES ASSUME TypeInv, StageInv
             PROVE  ReleasedOnce
  OBVIOUS
<1> DEFINE fs == inbound \o requests
           Releasing == {i \in DOMAIN fs : fs[i].kind = "release"}
           To == {fs[i].to : i \in Releasing}
           to == [i \in Releasing |-> fs[i].to]
<1>1. fs = Frames /\ fs \in Seq(Request) /\ DOMAIN fs = 1 .. Len(fs) /\ Len(fs) \in Nat
  BY FramesType DEF Frames
<1>2. ReleasesDiffer(fs)
  BY <1>1 DEF StageInv
<1> HIDE DEF fs
<1>3. IsFiniteSet(Releasing)
  <2>1. IsFiniteSet(1 .. Len(fs)) /\ Releasing \in SUBSET (1 .. Len(fs))
    BY <1>1, FS_Interval
  <2>2. QED
    BY <2>1, FS_Subset
<1>4. to \in Bijection(Releasing, To)
  <2>1. \A i, j \in Releasing : to[i] = to[j] => i = j
    BY <1>2 DEF ReleasesDiffer
  <2>2. \A y \in To : \E i \in Releasing : to[i] = y
    OBVIOUS
  <2>3. to \in [Releasing -> To]
    OBVIOUS
  <2> HIDE DEF to, To, Releasing
  <2>4. QED
    BY <2>1, <2>2, <2>3 DEF Bijection, Injection, Surjection, IsInjective
<1>5. Cardinality(To) = Cardinality(Releasing)
  <2> HIDE DEF to, To, Releasing
  <2>1. QED
    BY <1>3, <1>4, FS_Bijection DEF ExistsBijection
<1>6. To = Gone
  <2>1. \A i \in Releasing : fs[i].to \in View
    <3>1. \A i \in Releasing : fs[i] \in Request /\ fs[i].kind = "release"
      BY <1>1
    <3>2. QED
      BY <3>1, RequestFields
  <2>2. QED
    BY <1>1, <2>1 DEF Gone, ReleasesIn
<1>7. /\ view \notin Gone \cup dropped \cup closed
      /\ Gone \cap dropped = {} /\ (Gone \cup dropped) \cap closed = {}
  <2>1. Nil \notin Held
    BY NilAssumption DEF StageInv, Opened
  <2>2. QED
    BY <2>1 DEF StageInv, Held
<1>8. QED
  BY <1>5, <1>6, <1>7 DEF ReleasedOnce, fs

\* The host lets go of a view once, and its window closes because of that.
THEOREM ViewsReleasedOnce == Spec => []ReleasedOnce
<1>1. ViewInv => ReleasedOnce
  BY StageReleasedOnce DEF ViewInv
<1>2. QED
  BY <1>1, InitView, NextView, PTL DEF Spec

\* The window of the attached view is the one that the platform pumps.
LEMMA PumpedIsLive == ViewInv => AttachedViewLive
<1> SUFFICES ASSUME TypeInv, StageInv, OrderInv, alive, view # Nil, Attaching = {}
             PROVE  view \in Live
  BY DEF ViewInv, AttachedViewLive
<1>1. OnWay = {}
  BY OnWayType
<1>2. view \in Mounted
  BY DEF Mounted
<1>3. windows[opened[view]] = view
  BY <1>1, <1>2 DEF OrderInv, Pumped
<1>4. view \in View /\ opened[view] # Nil /\ view \notin closed
  BY DEF StageInv, Opened, Held
<1>5. QED
  BY <1>3, <1>4 DEF Live

\* Replacing a view never leaves the surface without a window to draw on it.
THEOREM AttachedWindowPumped == Spec => []AttachedViewLive
<1>1. QED
  BY PumpedIsLive, InitView, NextView, PTL DEF Spec

-----------------------------------------------------------------------------
(***************************************************************************)
(* The sizes on their way to a window: the last one that counts stays the  *)
(* same while frames turn into events, and events into the window's size.  *)
(***************************************************************************)
SizeFor(f, v) == IF f.kind = "resize" /\ f.to = v THEN f.size ELSE Nil
Queued(fs, v) == [i \in DOMAIN fs |-> SizeFor(fs[i], v)]
Sizes == Size \cup {Nil}

LEMMA SizeForType ==
    ASSUME NEW f \in Request, NEW v \in View
    PROVE  SizeFor(f, v) \in Sizes
  BY RequestFields DEF SizeFor, Sizes

LEMMA QueuedType ==
    ASSUME NEW fs \in Seq(Request), NEW v \in View
    PROVE  /\ Queued(fs, v) \in Seq(Sizes) /\ Len(Queued(fs, v)) = Len(fs)
           /\ DOMAIN Queued(fs, v) = 1 .. Len(fs) /\ Len(fs) \in Nat
           /\ \A i \in 1 .. Len(fs) : Queued(fs, v)[i] = SizeFor(fs[i], v)
<1>1. DOMAIN fs = 1 .. Len(fs) /\ Len(fs) \in Nat /\ \A i \in 1 .. Len(fs) : fs[i] \in Request
  OBVIOUS
<1>2. Queued(fs, v) \in [1 .. Len(fs) -> Sizes]
  BY <1>1, SizeForType DEF Queued
<1>3. QED
  BY <1>1, <1>2, FunctionIsSeq DEF Queued

LEMMA QueuedConcat ==
    ASSUME NEW a \in Seq(Request), NEW b \in Seq(Request), NEW v \in View
    PROVE  Queued(a \o b, v) = Queued(a, v) \o Queued(b, v)
<1> DEFINE m == Len(a)
           n == Len(b)
           c == a \o b
           qa == Queued(a, v)
           qb == Queued(b, v)
           qc == Queued(c, v)
<1>1. /\ c \in Seq(Request) /\ m \in Nat /\ n \in Nat /\ Len(c) = m + n
      /\ \A i \in 1 .. m + n : c[i] = IF i <= m THEN a[i] ELSE b[i - m]
  BY ConcatProperties
<1>2. /\ qa \in Seq(Sizes) /\ Len(qa) = m /\ \A i \in 1 .. m : qa[i] = SizeFor(a[i], v)
      /\ qb \in Seq(Sizes) /\ Len(qb) = n /\ \A i \in 1 .. n : qb[i] = SizeFor(b[i], v)
  BY QueuedType
<1> HIDE DEF c
<1>3. /\ qc \in Seq(Sizes) /\ Len(qc) = m + n
      /\ \A i \in 1 .. m + n : qc[i] = SizeFor(c[i], v)
  BY <1>1, QueuedType
<1> HIDE DEF m, n, qa, qb, qc
<1>4. /\ qa \o qb \in Seq(Sizes) /\ Len(qa \o qb) = m + n
      /\ \A i \in 1 .. m + n : (qa \o qb)[i] = IF i <= m THEN qa[i] ELSE qb[i - m]
  BY <1>2, ConcatProperties
<1>5. ASSUME NEW i \in 1 .. m + n
      PROVE  qc[i] = (qa \o qb)[i]
  <2>1. CASE i <= m
    <3>1. i \in 1 .. m
      BY <1>1, <2>1
    <3>2. qc[i] = SizeFor(a[i], v)
      BY <1>1, <1>3, <2>1
    <3>3. (qa \o qb)[i] = SizeFor(a[i], v)
      BY <1>2, <1>4, <2>1, <3>1
    <3>4. QED
      BY <3>2, <3>3
  <2>2. CASE ~(i <= m)
    <3>1. i - m \in 1 .. n
      BY <1>1, <2>2
    <3>2. qc[i] = SizeFor(b[i - m], v)
      BY <1>1, <1>3, <2>2
    <3>3. (qa \o qb)[i] = SizeFor(b[i - m], v)
      BY <1>2, <1>4, <2>2, <3>1
    <3>4. QED
      BY <3>2, <3>3
  <2>3. QED
    BY <2>1, <2>2
<1>6. qc = qa \o qb
  BY <1>3, <1>4, <1>5, SeqEqual
<1>7. QED
  BY <1>6 DEF qa, qb, qc, c

LastQueued(fs, v) == LastSize(Queued(fs, v))

\* One frame in the queue.
LEMMA QueuedOne ==
    ASSUME NEW f \in Request, NEW v \in View
    PROVE  /\ <<f>> \in Seq(Request)
           /\ LastQueued(<<f>>, v) = IF IsSize(SizeFor(f, v)) THEN SizeFor(f, v) ELSE Nil
<1>1. <<f>> \in Seq(Request) /\ DOMAIN <<f>> = {1} /\ <<f>>[1] = f
  OBVIOUS
<1>2. DOMAIN <<SizeFor(f, v)>> = {1} /\ <<SizeFor(f, v)>>[1] = SizeFor(f, v)
  OBVIOUS
<1>3. Queued(<<f>>, v) = <<SizeFor(f, v)>>
  BY <1>1 DEF Queued
<1>4. QED
  BY <1>1, <1>3, LastSizeOne DEF LastQueued

LEMMA LastQueuedConcat ==
    ASSUME NEW a \in Seq(Request), NEW b \in Seq(Request), NEW v \in View
    PROVE  LastQueued(a \o b, v) = IF LastQueued(b, v) # Nil THEN LastQueued(b, v)
                                   ELSE LastQueued(a, v)
<1>1. Queued(a, v) \in Seq(Sizes) /\ Queued(b, v) \in Seq(Sizes)
  BY QueuedType
<1>2. LastSize(Queued(a, v) \o Queued(b, v)) =
         IF LastSize(Queued(b, v)) # Nil THEN LastSize(Queued(b, v))
         ELSE LastSize(Queued(a, v))
  BY <1>1, LastSizeConcat
<1>3. Queued(a \o b, v) = Queued(a, v) \o Queued(b, v)
  BY QueuedConcat
<1>4. QED
  BY <1>2, <1>3 DEF LastQueued

\* A size that a window takes is none of the others.
LEMMA LastIsSize ==
    ASSUME NEW X, NEW s \in Seq(X), LastSize(s) # Nil
    PROVE  IsSize(LastSize(s))
<1>1. \E i \in DOMAIN s : IsSize(s[i])
  BY LastSizeAt
<1>2. PICK i \in Nat : LastAt(s, i)
  BY <1>1, LastSizeAt
<1>3. QED
  BY <1>2, LastSizeAt DEF LastAt

\* Another frame, at the end.
LEMMA LastQueuedAppend ==
    ASSUME NEW fs \in Seq(Request), NEW f \in Request, NEW v \in View
    PROVE  LastQueued(Append(fs, f), v) =
              IF IsSize(SizeFor(f, v)) THEN SizeFor(f, v) ELSE LastQueued(fs, v)
<1> DEFINE q == <<f>>
<1>1. q \in Seq(Request) /\ LastQueued(q, v) = IF IsSize(SizeFor(f, v)) THEN SizeFor(f, v) ELSE Nil
  BY QueuedOne
<1>2. Append(fs, f) = fs \o q
  BY AppendIsConcat
<1> HIDE DEF q
<1>3. LastQueued(fs \o q, v) = IF LastQueued(q, v) # Nil THEN LastQueued(q, v)
                               ELSE LastQueued(fs, v)
  BY <1>1, LastQueuedConcat
<1>4. QED
  BY <1>1, <1>2, <1>3 DEF IsSize

\* Releases carry no size.
LEMMA LastQueuedReleases ==
    ASSUME NEW fs \in Seq(Request), NEW v \in View,
           NEW S \in SUBSET View, IsFiniteSet(S), NEW q \in Releases(S)
    PROVE  LastQueued(fs \o q, v) = LastQueued(fs, v)
<1>1. q \in Seq(Request) /\ \A i \in DOMAIN q : q[i].kind = "release"
  BY ReleasesType
<1>2. Queued(q, v) \in Seq(Sizes) /\ \A i \in DOMAIN Queued(q, v) : ~IsSize(Queued(q, v)[i])
  BY <1>1, QueuedType DEF Queued, SizeFor, IsSize
<1>3. LastQueued(q, v) = Nil
  BY <1>2, LastSizeAt DEF LastQueued
<1>4. QED
  BY <1>1, <1>3, LastQueuedConcat

\* The first frame is taken.
LEMMA LastQueuedTail ==
    ASSUME NEW fs \in Seq(Request), fs # <<>>, NEW v \in View
    PROVE  LastQueued(fs, v) =
              IF LastQueued(Tail(fs), v) # Nil THEN LastQueued(Tail(fs), v)
              ELSE IF IsSize(SizeFor(Head(fs), v)) THEN SizeFor(Head(fs), v) ELSE Nil
<1> DEFINE q == <<Head(fs)>>
           t == Tail(fs)
<1>1. fs = q \o t /\ Head(fs) \in Request /\ t \in Seq(Request)
  BY HeadTailProperties
<1>2. q \in Seq(Request) /\ LastQueued(q, v) = IF IsSize(SizeFor(Head(fs), v))
                                               THEN SizeFor(Head(fs), v) ELSE Nil
  BY <1>1, QueuedOne
<1> HIDE DEF q, t
<1>3. LastQueued(q \o t, v) = IF LastQueued(t, v) # Nil THEN LastQueued(t, v)
                              ELSE LastQueued(q, v)
  BY <1>1, <1>2, LastQueuedConcat
<1>4. QED
  BY <1>1, <1>2, <1>3 DEF t

\* The size that a window ends up with: one of a frame, of an event, its own.
Target(q, e, z) == IF q # Nil THEN q ELSE IF e # Nil THEN e ELSE IF IsSize(z) THEN z ELSE Nil

LEMMA Targets ==
    TypeInv => \A v \in View :
        LastSize(SizesToBe(v)) = Target(LastQueued(Frames, v), LastSize(events[v]), size[v])
<1> SUFFICES ASSUME TypeInv, NEW v \in View
             PROVE  LastSize(SizesToBe(v)) =
                       Target(LastQueued(Frames, v), LastSize(events[v]), size[v])
  OBVIOUS
<1> DEFINE a == <<size[v]>>
           e == events[v]
           q == Queued(Frames, v)
<1>1. SizesToBe(v) = (a \o e) \o q
  BY DEF SizesToBe, Queued, SizeFor, Frames
<1>2. a \in Seq(Sizes) /\ LastSize(a) = IF IsSize(size[v]) THEN size[v] ELSE Nil
  <2>1. size[v] \in Sizes
    BY GuestTypes DEF Sizes
  <2>2. QED
    BY <2>1, LastSizeOne
<1>3. e \in Seq(Sizes) /\ q \in Seq(Sizes)
  BY GuestTypes, FramesType, QueuedType DEF Sizes
<1> HIDE DEF a, e, q
<1>4. a \o e \in Seq(Sizes)
  BY <1>2, <1>3, ConcatProperties
<1>5. LastSize(a \o e) = IF LastSize(e) # Nil THEN LastSize(e) ELSE LastSize(a)
  BY <1>2, <1>3, LastSizeConcat
<1>6. LastSize((a \o e) \o q) = IF LastSize(q) # Nil THEN LastSize(q) ELSE LastSize(a \o e)
  BY <1>3, <1>4, LastSizeConcat
<1>7. QED
  BY <1>1, <1>2, <1>5, <1>6 DEF Target, LastQueued, e, q

\* A view's target after a step.
TargetOf(v) == Target(LastQueued(Frames, v), LastSize(events[v]), size[v])

\* The turn's own steps carry a size on, and lose none.
LEMMA BeginTurnTarget ==
    ASSUME TypeInv, BeginTurn \/ PumpFrames \/ EndTurn \/ Task, NEW v \in View
    PROVE  TargetOf(v)' = TargetOf(v)
<1>1. Frames' = Frames
  <2>1. CASE BeginTurn
    BY <2>1, FramesMove
  <2>2. CASE PumpFrames \/ EndTurn \/ Task
    BY <2>2, FramesStay DEF PumpFrames, EndTurn, Task
  <2>3. QED
    BY <2>1, <2>2
<1>2. events' = events /\ size' = size
  BY DEF BeginTurn, PumpFrames, EndTurn, Task, OpenView, windowVars
<1>3. QED
  BY <1>1, <1>2 DEF TargetOf

LEMMA DeliverFrameTarget ==
    ASSUME TypeInv, DeliverFrame, NEW v \in View
    PROVE  TargetOf(v)' = TargetOf(v)
<1> DEFINE f == Head(inbound)
<1>1. /\ f \in Request /\ Frames \in Seq(Request) /\ Frames # <<>>
      /\ Frames' = Tail(Frames) /\ f = Head(Frames)
      /\ \/ f.kind = "mount" /\ f.to \in SurfaceId /\ DeliverMount(f.to)
         \/ f.kind \in {"resize", "input"} /\ f.to \in View /\ DeliverEvent(f)
         \/ f.kind = "release" /\ f.to \in View /\ DeliverRelease(f.to)
  BY DeliverFrameDoes, FramesDelivered, FramesType
<1> DEFINE x == SizeFor(f, v)
           rest == LastQueued(Frames', v)
<1>2. LastQueued(Frames, v) = IF rest # Nil THEN rest ELSE IF IsSize(x) THEN x ELSE Nil
  BY <1>1, LastQueuedTail
<1>3. (LastQueued(Frames, v))' = rest
  OBVIOUS
<1> HIDE DEF f, rest
<1>4. size' = size
  BY <1>1 DEF DeliverMount, OpenView, windowVars, DeliverEvent, DeliverRelease
<1>5. CASE f.kind \in {"mount", "release"}
  <2>1. events' = events
    BY <1>1, <1>5 DEF DeliverMount, OpenView, windowVars, DeliverRelease
  <2>2. ~IsSize(x)
    BY <1>5 DEF SizeFor, IsSize
  <2>3. QED
    BY <1>2, <1>3, <1>4, <2>1, <2>2 DEF TargetOf, Target
<1>6. CASE f.kind \in {"resize", "input"}
  <2>1. /\ f.to \in View /\ events' = [events EXCEPT ![f.to] = Append(@, f.size)]
        /\ events \in [View -> Seq(Sizes)]
    BY <1>1, <1>6, GuestTypes DEF DeliverEvent, Sizes
  <2>2. CASE f.to # v
    <3>1. events'[v] = events[v]
      BY <2>1, <2>2
    <3>2. ~IsSize(x)
      BY <2>2 DEF SizeFor, IsSize
    <3>3. QED
      BY <1>2, <1>3, <1>4, <3>1, <3>2 DEF TargetOf, Target
  <2>3. CASE f.to = v
    <3>1. f.size = x /\ f.size \in Sizes
      BY <1>1, <1>6, <2>3, RequestFields DEF SizeFor, Sizes
    <3> DEFINE e == events[v]
               last == <<x>>
    <3>2. events'[v] = Append(e, x) /\ e \in Seq(Sizes)
      BY <2>1, <2>3, <3>1
    <3>3. last \in Seq(Sizes) /\ LastSize(last) = IF IsSize(x) THEN x ELSE Nil
      <4>1. x \in Sizes
        BY <3>1
      <4> HIDE DEF x
      <4>2. QED
        BY <4>1, LastSizeOne
    <3>4. Append(e, x) = e \o last
      BY <3>1, <3>2, AppendIsConcat
    <3> HIDE DEF e, last, x
    <3>5. LastSize(e \o last) = IF LastSize(last) # Nil THEN LastSize(last) ELSE LastSize(e)
      BY <3>2, <3>3, LastSizeConcat
    <3>6. LastSize(events'[v]) = IF IsSize(x) THEN x ELSE LastSize(events[v])
      BY <3>2, <3>3, <3>4, <3>5 DEF IsSize, e
    <3>7. x # Nil \/ ~IsSize(x)
      BY DEF IsSize
    <3>8. QED
      BY <1>2, <1>3, <1>4, <3>6, <3>7 DEF TargetOf, Target
  <2>4. QED
    BY <2>2, <2>3
<1>7. QED
  BY <1>1, <1>5, <1>6

LEMMA FlushEventsTarget ==
    ASSUME TypeInv, FlushEvents, NEW v \in View
    PROVE  TargetOf(v)' = TargetOf(v)
<1> DEFINE e == LastSize(events[v])
<1>1. Frames' = Frames
  BY FramesStay DEF FlushEvents
<1>2. /\ events'[v] = IF v \in Live THEN <<>> ELSE events[v]
      /\ size'[v] = IF v \in Live /\ e # Nil THEN e ELSE size[v]
  BY DEF FlushEvents
<1>3. e # Nil => IsSize(e)
  BY GuestTypes, LastIsSize
<1>4. LastSize(<<>>) = Nil
  <2>1. <<>> \in Seq(Sizes) /\ DOMAIN <<>> = {}
    OBVIOUS
  <2>2. QED
    BY <2>1, LastSizeAt
<1> HIDE DEF e
<1>5. CASE v \in Live
  <2>1. LastSize(events'[v]) = Nil
    BY <1>2, <1>4, <1>5
  <2>2. size'[v] = IF e # Nil THEN e ELSE size[v]
    BY <1>2, <1>5
  <2>3. QED
    BY <1>1, <1>3, <2>1, <2>2 DEF TargetOf, Target, e
<1>6. CASE v \notin Live
  BY <1>1, <1>2, <1>6 DEF TargetOf
<1>7. QED
  BY <1>5, <1>6

\* Another request for the guest.
LEMMA RequestTarget ==
    ASSUME TypeInv, UNCHANGED guestVars, NEW f \in Request,
           requests' = Append(requests, f), NEW v \in View
    PROVE  TargetOf(v)' = IF IsSize(SizeFor(f, v)) THEN SizeFor(f, v) ELSE TargetOf(v)
<1>1. inbound' = inbound /\ events' = events /\ size' = size
  BY DEF guestVars, windowVars
<1>2. Frames' = Append(Frames, f) /\ Frames \in Seq(Request)
  BY <1>1, FramesAppend, FramesType
<1>3. (LastQueued(Frames, v))' =
         IF IsSize(SizeFor(f, v)) THEN SizeFor(f, v) ELSE LastQueued(Frames, v)
  BY <1>2, LastQueuedAppend
<1>4. QED
  BY <1>1, <1>3 DEF TargetOf, Target, IsSize

LEMMA ReleasesTarget ==
    ASSUME TypeInv, UNCHANGED guestVars, NEW q \in Releases(dropped),
           requests' = requests \o q, NEW v \in View
    PROVE  TargetOf(v)' = TargetOf(v)
<1>1. inbound' = inbound /\ events' = events /\ size' = size
  BY DEF guestVars, windowVars
<1>2. Frames' = Frames \o q /\ Frames \in Seq(Request)
  BY <1>1, FramesGrow, FramesType, ReleasesAppended
<1>3. (LastQueued(Frames, v))' = LastQueued(Frames, v)
  BY <1>2, LastQueuedReleases DEF TypeInv, TypeOK, FiniteInv
<1>4. QED
  BY <1>1, <1>3 DEF TargetOf, Target

\* What the property says, with the target.
LastMeasure == alive /\ view # Nil /\ IsSize(geometry) => TargetOf(view) = geometry

LEMMA MeasureIsTarget == TypeInv => (AttachedViewMeasured <=> LastMeasure)
  BY Targets DEF AttachedViewMeasured, LastMeasure, TargetOf, IsSize, TypeInv, TypeOK

LEMMA HostMeasure ==
    ASSUME TypeInv, LastMeasure, HostStep
    PROVE  LastMeasure'
<1>1. CASE \E s \in SurfaceId : MountOn(s)
  <2>1. PICK s \in SurfaceId : MountOn(s)
    BY <1>1
  <2>2. /\ requests' = Append(requests, Mount(s))
        /\ UNCHANGED <<alive, view, geometry, guestVars>>
    BY <2>1 DEF MountOn, surfaceVars
  <2>3. Mount(s) \in Request /\ \A v \in View : ~IsSize(SizeFor(Mount(s), v))
    BY RequestTypes DEF SizeFor, IsSize
  <2>4. \A v \in View : TargetOf(v)' = TargetOf(v)
    BY <2>2, <2>3, RequestTarget
  <2>5. QED
    BY <2>2, <2>4 DEF LastMeasure, TypeInv, TypeOK
<1>2. CASE \E g \in Size : Measured(g)
  <2>1. PICK g \in Size : Measured(g)
    BY <1>2
  <2>2. /\ requests' = IF view = Nil THEN requests ELSE Append(requests, Resize(view, g))
        /\ geometry' = g /\ UNCHANGED <<alive, view, guestVars>>
    BY <2>1 DEF Measured
  <2>3. CASE view = Nil
    BY <2>2, <2>3 DEF LastMeasure
  <2>4. CASE view # Nil
    <3>1. view \in View
      BY <2>4 DEF TypeInv, TypeOK
    <3>2. Resize(view, g) \in Request /\ SizeFor(Resize(view, g), view) = g
      BY <3>1, RequestTypes DEF SizeFor
    <3>3. TargetOf(view)' = IF IsSize(g) THEN g ELSE TargetOf(view)
      <4>1. PICK v \in View : v = view
        BY <3>1
      <4>2. TargetOf(v)' = IF IsSize(g) THEN g ELSE TargetOf(v)
        BY <2>2, <2>4, <3>2, <4>1, RequestTarget
      <4>3. QED
        BY <2>2, <4>1, <4>2
    <3>4. QED
      BY <2>2, <3>3 DEF LastMeasure
  <2>5. QED
    BY <2>3, <2>4
<1>3. CASE ForwardInput
  <2>1. /\ requests' = Append(requests, Input(view)) /\ view # Nil
        /\ UNCHANGED <<alive, view, geometry, guestVars>>
    BY <1>3 DEF ForwardInput, hostVars, surfaceVars
  <2>2. view \in View
    BY <2>1 DEF TypeInv, TypeOK
  <2>3. Input(view) \in Request /\ \A v \in View : ~IsSize(SizeFor(Input(view), v))
    BY <2>2, RequestTypes DEF SizeFor, IsSize
  <2>4. \A v \in View : TargetOf(v)' = TargetOf(v)
    BY <2>1, <2>3, RequestTarget
  <2>5. QED
    BY <2>1, <2>2, <2>4 DEF LastMeasure
<1>4. CASE DropSurface
  BY <1>4 DEF DropSurface, LastMeasure
<1>5. CASE PumpReleases
  <2>1. PICK q \in Releases(dropped) : requests' = requests \o q
    BY <1>5 DEF PumpReleases
  <2>2. UNCHANGED <<alive, view, geometry, guestVars>>
    BY <1>5 DEF PumpReleases, surfaceVars
  <2>3. \A v \in View : TargetOf(v)' = TargetOf(v)
    BY <2>1, <2>2, ReleasesTarget
  <2>4. QED
    BY <2>2, <2>3 DEF LastMeasure, TypeInv, TypeOK
<1>6. QED
  BY <1>1, <1>2, <1>3, <1>4, <1>5 DEF HostStep

LEMMA PumpMeasure ==
    ASSUME TypeInv, LastMeasure, TakeTurn \/ ApplyScenes
    PROVE  LastMeasure'
<1>1. PICK q \in Releases(dropped) : requests' = requests \o q
  BY DEF TakeTurn, ApplyScenes
<1>2. UNCHANGED <<alive, view, geometry, guestVars>>
  BY DEF TakeTurn, ApplyScenes, surfaceVars
<1>3. \A v \in View : TargetOf(v)' = TargetOf(v)
  BY <1>1, <1>2, ReleasesTarget
<1>4. QED
  BY <1>2, <1>3 DEF LastMeasure, TypeInv, TypeOK

\* The new view is sent the size that the slot has.
LEMMA AttachMeasure ==
    ASSUME TypeInv, LastMeasure, Attach
    PROVE  LastMeasure'
<1>1. UNCHANGED <<alive, geometry, guestVars>> /\ Head(Now) \in View
  BY AttachDoes
<1>2. CASE alive /\ geometry \in Size /\ requests' = Append(requests, Resize(Head(Now), geometry))
  <2>1. PICK v \in View : v = Head(Now)
    BY <1>1
  <2>2. Resize(v, geometry) \in Request /\ SizeFor(Resize(v, geometry), v) = geometry
    BY <1>2, RequestTypes DEF SizeFor
  <2>3. TargetOf(v)' = IF IsSize(geometry) THEN geometry ELSE TargetOf(v)
    BY <1>1, <1>2, <2>1, <2>2, RequestTarget
  <2>4. view' = v
    BY <1>2, <2>1, AttachDoes
  <2>5. TargetOf(view)' = TargetOf(v)'
    BY <2>4
  <2>6. QED
    BY <1>1, <2>3, <2>5 DEF LastMeasure
<1>3. CASE geometry = Nil
  BY <1>1, <1>3 DEF LastMeasure, IsSize
<1>4. CASE ~alive
  BY <1>1, <1>4 DEF LastMeasure
<1>5. QED
  BY <1>2, <1>3, <1>4, AttachDoes

LEMMA NextMeasure ==
    ASSUME TypeInv, LastMeasure, [Next]_vars
    PROVE  LastMeasure'
<1>1. CASE HostStep \/ PumpStep
  BY <1>1, HostMeasure, PumpMeasure, AttachMeasure DEF PumpStep
<1>2. CASE BeginTurn \/ TurnStep \/ Task
  <2>1. \A v \in View : TargetOf(v)' = TargetOf(v)
    BY <1>2, BeginTurnTarget, DeliverFrameTarget, FlushEventsTarget DEF TurnStep
  <2>2. UNCHANGED hostVars
    BY <1>2 DEF BeginTurn, TurnStep, DeliverFrame, FlushEvents, PumpFrames, EndTurn, Task
  <2>3. UNCHANGED <<alive, view, geometry>>
    BY <2>2 DEF hostVars, surfaceVars
  <2>4. QED
    BY <2>1, <2>3 DEF LastMeasure, TypeInv, TypeOK
<1>3. CASE UNCHANGED vars
  BY <1>3 DEF vars, hostVars, surfaceVars, guestVars, windowVars, LastMeasure, TargetOf, Frames
<1>4. QED
  BY <1>1, <1>2, <1>3 DEF Next

\* The attached window ends up with the size of the slot.
THEOREM AttachedWindowMeasured == Spec => []AttachedViewMeasured
<1>1. Init => LastMeasure
  BY DEF Init, LastMeasure
<1>2. TypeInv /\ LastMeasure /\ [Next]_vars => TypeInv' /\ LastMeasure'
  BY NextType, NextMeasure
<1>3. TypeInv /\ LastMeasure => AttachedViewMeasured
  BY MeasureIsTarget
<1>4. QED
  BY <1>1, <1>2, <1>3, InitType, PTL DEF Spec
=============================================================================
