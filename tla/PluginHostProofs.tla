-------------------------- MODULE PluginHostProofs --------------------------
(***************************************************************************)
(* Proofs about PluginHost, for any number of calls, requests and turns.   *)
(*                                                                         *)
(* The module first says what FlattenSeq does to a sequence that grows at  *)
(* its end or shrinks at its front.  The library's induction theorems take *)
(* a predicate as a parameter; the induction here is over a set.           *)
(***************************************************************************)
EXTENDS PluginHost, SequenceTheorems, WellFoundedInduction, TLAPS

-----------------------------------------------------------------------------
\* A set with 0, and with the successor of each of its numbers, has them all.
LEMMA SetInduction ==
    ASSUME NEW S, 0 \in S, \A n \in Nat : n \in S => n + 1 \in S
    PROVE  Nat \subseteq S
<1> DEFINE T == Nat \ S
           R == OpToRel(<, Nat)
<1> SUFFICES ASSUME T # {} PROVE FALSE
  OBVIOUS
<1>1. IsWellFoundedOn(R, Nat)
  BY NatLessThanWellFounded
<1>2. \E x \in T : \A y \in T : <<y, x>> \notin R
  <2>1. T \subseteq Nat
    OBVIOUS
  <2> HIDE DEF R, T
  <2>2. QED
    BY <1>1, <2>1, WFMin
<1>3. \A x, y \in Nat : x < y => <<x, y>> \in R
  BY DEF OpToRel
<1>4. PICK x \in T : \A y \in T : ~(y < x)
  <2> HIDE DEF R
  <2>1. QED
    BY <1>2, <1>3
<1>5. x # 0 /\ x - 1 \in Nat /\ x - 1 < x
  OBVIOUS
<1>6. x - 1 \in S
  BY <1>4, <1>5
<1>7. QED
  BY <1>5, <1>6

-----------------------------------------------------------------------------
(***************************************************************************)
(* Concatenating a sequence of sequences.                                  *)
(***************************************************************************)
\* Concatenation may be bracketed either way.
Associates(a, b, c) == (a \o b) \o c = a \o (b \o c)

LEMMA ConcatAssociates ==
    ASSUME NEW X, NEW a \in Seq(X), NEW b \in Seq(X), NEW c \in Seq(X)
    PROVE  Associates(a, b, c)
<1>1. (a \o b) \o c = a \o (b \o c)
  BY ConcatAssociative
<1>2. QED
  BY <1>1 DEF Associates

\* f[i] is the concatenation of the first i members of ss.
Flattens(f, ss) == f = [i \in 1 .. Len(ss) |->
                           IF i = 1 THEN ss[i] ELSE f[i - 1] \o ss[i]]

\* There is one such function, and its values are sequences.
LEMMA FlattensExists ==
    ASSUME NEW X, NEW ss \in Seq(Seq(X))
    PROVE  \E f : Flattens(f, ss)
<1> DEFINE Joined(f, n) == \A i \in 1 .. n :
                              f[i] = IF i = 1 THEN ss[i] ELSE f[i - 1] \o ss[i]
           Upto(f, n) == f \in [1 .. n -> Seq(X)] /\ Joined(f, n)
           S == {n \in Nat : n <= Len(ss) => \E f : Upto(f, n)}
<1>1. Len(ss) \in Nat /\ \A i \in 1 .. Len(ss) : ss[i] \in Seq(X)
  OBVIOUS
<1>2. 0 \in S
  <2>1. Upto(<<>>, 0)
    OBVIOUS
  <2>2. QED
    BY <2>1
<1>3. ASSUME NEW n \in Nat, n \in S
      PROVE  n + 1 \in S
  <2> SUFFICES ASSUME n + 1 <= Len(ss)
               PROVE  \E f : Upto(f, n + 1)
    <3> HIDE DEF Upto
    <3>1. QED
      BY <1>3
  <2>1. PICK f : Upto(f, n)
    <3> HIDE DEF Upto
    <3>1. QED
      BY <1>1, <1>3
  <2> DEFINE last == IF n = 0 THEN ss[1] ELSE f[n] \o ss[n + 1]
             g == [i \in 1 .. n + 1 |-> IF i = n + 1 THEN last ELSE f[i]]
  <2>2. last \in Seq(X)
    <3>1. ss[n + 1] \in Seq(X)
      BY <1>1
    <3>2. CASE n = 0
      BY <3>1, <3>2
    <3>3. CASE n # 0
      <4>1. f[n] \in Seq(X)
        BY <2>1, <3>3
      <4>2. f[n] \o ss[n + 1] \in Seq(X)
        BY <3>1, <4>1, ConcatProperties
      <4>3. QED
        BY <3>3, <4>2
    <3>4. QED
      BY <3>2, <3>3
  <2> HIDE DEF last
  <2>3. g \in [1 .. n + 1 -> Seq(X)]
    BY <2>1, <2>2
  <2>4. ASSUME NEW i \in 1 .. n + 1
        PROVE  g[i] = IF i = 1 THEN ss[i] ELSE g[i - 1] \o ss[i]
    <3>1. CASE i = n + 1
      BY <3>1 DEF last
    <3>2. CASE i # n + 1
      <4>1. i \in 1 .. n /\ (i # 1 => i - 1 \in 1 .. n)
        BY <3>2
      <4>2. f[i] = IF i = 1 THEN ss[i] ELSE f[i - 1] \o ss[i]
        BY <2>1, <4>1
      <4>3. g[i] = f[i] /\ (i # 1 => g[i - 1] = f[i - 1])
        BY <4>1
      <4>4. QED
        BY <4>2, <4>3
    <3>3. QED
      BY <3>1, <3>2
  <2>5. Upto(g, n + 1)
    BY <2>3, <2>4
  <2>6. QED
    BY <2>5
<1>4. Len(ss) \in S
  <2> HIDE DEF S
  <2>1. QED
    BY <1>1, <1>2, <1>3, SetInduction
<1>5. PICK f : Upto(f, Len(ss))
  BY <1>1, <1>4
<1>6. Flattens(f, ss)
  BY <1>5 DEF Flattens
<1>7. QED
  BY <1>6

LEMMA FlattensType ==
    ASSUME NEW X, NEW ss \in Seq(Seq(X)), NEW f, Flattens(f, ss)
    PROVE  \A i \in 1 .. Len(ss) : f[i] \in Seq(X)
<1> DEFINE S == {n \in Nat : n \in 1 .. Len(ss) => f[n] \in Seq(X)}
<1>1. Len(ss) \in Nat /\ \A i \in 1 .. Len(ss) : ss[i] \in Seq(X)
  OBVIOUS
<1>2. \A i \in 1 .. Len(ss) : f[i] = IF i = 1 THEN ss[i] ELSE f[i - 1] \o ss[i]
  BY <1>1 DEF Flattens
<1>3. 0 \in S
  OBVIOUS
<1>4. ASSUME NEW n \in Nat, n \in S
      PROVE  n + 1 \in S
  <2> SUFFICES ASSUME n + 1 \in 1 .. Len(ss)
               PROVE  f[n + 1] \in Seq(X)
    OBVIOUS
  <2>1. ss[n + 1] \in Seq(X)
    BY <1>1
  <2>2. CASE n = 0
    BY <1>2, <2>1, <2>2
  <2>3. CASE n # 0
    <3>1. f[n] \in Seq(X)
      BY <1>4, <2>3
    <3>2. f[n] \o ss[n + 1] \in Seq(X)
      BY <2>1, <3>1, ConcatProperties
    <3>3. f[n + 1] = f[n] \o ss[n + 1]
      <4>1. (n + 1) - 1 = n /\ n + 1 # 1
        BY <2>3
      <4>2. QED
        BY <1>2, <4>1
    <3>4. QED
      BY <3>2, <3>3
  <2>4. QED
    BY <2>2, <2>3
<1>5. Nat \subseteq S
  <2> HIDE DEF S
  <2>1. QED
    BY <1>3, <1>4, SetInduction
<1>6. QED
  BY <1>5

\* FlattenSeq is its last value.
LEMMA FlattenIs ==
    ASSUME NEW X, NEW ss \in Seq(Seq(X)), ss # <<>>
    PROVE  \E f : Flattens(f, ss) /\ FlattenSeq(ss) = f[Len(ss)]
<1> DEFINE f == CHOOSE g : g = [i \in 1 .. Len(ss) |->
                                   IF i = 1 THEN ss[i] ELSE g[i - 1] \o ss[i]]
<1>1. Len(ss) # 0
  OBVIOUS
<1>2. FlattenSeq(ss) = f[Len(ss)]
  BY <1>1 DEF FlattenSeq
<1>3. Flattens(f, ss)
  <2>1. \E g : g = [i \in 1 .. Len(ss) |->
                       IF i = 1 THEN ss[i] ELSE g[i - 1] \o ss[i]]
    BY FlattensExists DEF Flattens
  <2>2. f = [i \in 1 .. Len(ss) |-> IF i = 1 THEN ss[i] ELSE f[i - 1] \o ss[i]]
    BY <2>1
  <2>3. QED
    BY <2>2 DEF Flattens
<1>4. QED
  BY <1>2, <1>3

LEMMA FlattenEmpty == FlattenSeq(<<>>) = <<>>
  BY DEF FlattenSeq

LEMMA FlattenType ==
    ASSUME NEW X, NEW ss \in Seq(Seq(X))
    PROVE  FlattenSeq(ss) \in Seq(X)
<1>1. CASE ss = <<>>
  <2>1. FlattenSeq(ss) = <<>>
    BY <1>1, FlattenEmpty
  <2>2. QED
    BY <2>1
<1>2. CASE ss # <<>>
  <2>1. PICK f : Flattens(f, ss) /\ FlattenSeq(ss) = f[Len(ss)]
    BY <1>2, FlattenIs
  <2>2. Len(ss) \in 1 .. Len(ss)
    BY <1>2
  <2>3. QED
    BY <2>1, <2>2, FlattensType
<1>3. QED
  BY <1>1, <1>2

\* One more sequence goes behind the others.
LEMMA FlattenAppend ==
    ASSUME NEW X, NEW ss \in Seq(Seq(X)), NEW s \in Seq(X)
    PROVE  FlattenSeq(Append(ss, s)) = FlattenSeq(ss) \o s
<1> DEFINE n == Len(ss)
           tt == Append(ss, s)
<1>1. /\ n \in Nat /\ tt \in Seq(Seq(X)) /\ tt # <<>> /\ Len(tt) = n + 1
      /\ \A i \in 1 .. n : tt[i] = ss[i]
      /\ tt[n + 1] = s
  BY AppendProperties
<1> HIDE DEF tt
<1>2. PICK g : Flattens(g, tt) /\ FlattenSeq(tt) = g[n + 1]
  BY <1>1, FlattenIs
<1>3. \A i \in 1 .. n + 1 : g[i] = IF i = 1 THEN tt[i] ELSE g[i - 1] \o tt[i]
  BY <1>1, <1>2 DEF Flattens
<1>4. CASE ss = <<>>
  <2>1. n = 0 /\ FlattenSeq(tt) = s
    BY <1>1, <1>2, <1>3, <1>4
  <2>2. FlattenSeq(ss) = <<>>
    BY <1>4, FlattenEmpty
  <2>3. QED
    BY <2>1, <2>2, ConcatEmptySeq DEF tt
<1>5. CASE ss # <<>>
  <2>1. PICK f : Flattens(f, ss) /\ FlattenSeq(ss) = f[n]
    BY <1>5, FlattenIs
  <2>2. \A i \in 1 .. n : f[i] = IF i = 1 THEN ss[i] ELSE f[i - 1] \o ss[i]
    BY <1>1, <2>1 DEF Flattens
  <2> DEFINE S == {i \in Nat : i \in 1 .. n => g[i] = f[i]}
  <2>3. 0 \in S
    BY <1>1
  <2>4. ASSUME NEW i \in Nat, i \in S
        PROVE  i + 1 \in S
    <3> SUFFICES ASSUME i + 1 \in 1 .. n
                 PROVE  g[i + 1] = f[i + 1]
      OBVIOUS
    <3>1. i + 1 \in 1 .. n + 1 /\ (i + 1) - 1 = i /\ tt[i + 1] = ss[i + 1]
      BY <1>1
    <3>2. CASE i = 0
      <4>1. g[1] = tt[1] /\ f[1] = ss[1]
        BY <1>3, <2>2, <3>1, <3>2
      <4>2. QED
        BY <3>1, <3>2, <4>1
    <3>3. CASE i # 0
      <4>1. g[i] = f[i]
        BY <1>1, <2>4, <3>3
      <4>2. /\ g[i + 1] = g[i] \o tt[i + 1]
            /\ f[i + 1] = f[i] \o ss[i + 1]
        <5>1. i + 1 # 1
          BY <3>3
        <5>2. QED
          BY <1>3, <2>2, <3>1, <5>1
      <4>3. QED
        BY <3>1, <4>1, <4>2
    <3>4. QED
      BY <3>2, <3>3
  <2>5. Nat \subseteq S
    <3> HIDE DEF S
    <3>1. QED
      BY <2>3, <2>4, SetInduction
  <2>6. n \in 1 .. n /\ n # 0
    BY <1>1, <1>5
  <2>7. g[n] = f[n]
    BY <2>5, <2>6
  <2>8. g[n + 1] = g[n] \o s
    <3>1. n + 1 \in 1 .. n + 1 /\ n + 1 # 1 /\ (n + 1) - 1 = n
      BY <1>1, <2>6
    <3>2. QED
      BY <1>1, <1>3, <3>1
  <2>9. QED
    BY <1>2, <2>1, <2>7, <2>8 DEF tt
<1>6. QED
  BY <1>4, <1>5

LEMMA FlattenOne ==
    ASSUME NEW X, NEW s \in Seq(X)
    PROVE  FlattenSeq(<<s>>) = s
<1> DEFINE none == <<>>
<1>1. none \in Seq(Seq(X)) /\ Append(none, s) = <<s>>
  OBVIOUS
<1>2. FlattenSeq(none) = <<>> /\ <<>> \o s = s
  BY FlattenEmpty, ConcatEmptySeq
<1> HIDE DEF none
<1>3. FlattenSeq(Append(none, s)) = FlattenSeq(none) \o s
  BY <1>1, FlattenAppend
<1>4. QED
  BY <1>1, <1>2, <1>3

\* Several more sequences go behind the others.
LEMMA FlattenConcat ==
    ASSUME NEW X, NEW ss \in Seq(Seq(X)), NEW tt \in Seq(Seq(X))
    PROVE  FlattenSeq(ss \o tt) = FlattenSeq(ss) \o FlattenSeq(tt)
<1> DEFINE Y == Seq(X)
           Joins(us) == FlattenSeq(ss \o us) = FlattenSeq(ss) \o FlattenSeq(us)
           S == {n \in Nat : \A us \in Seq(Y) : Len(us) = n => Joins(us)}
<1>1. FlattenSeq(ss) \in Seq(X)
  BY FlattenType
<1>2. 0 \in S
  <2> SUFFICES ASSUME NEW us \in Seq(Y), Len(us) = 0
               PROVE  Joins(us)
    OBVIOUS
  <2>1. us = <<>>
    OBVIOUS
  <2>2. /\ ss \o <<>> = ss /\ FlattenSeq(<<>>) = <<>>
        /\ FlattenSeq(ss) \o <<>> = FlattenSeq(ss)
    BY <1>1, FlattenEmpty, ConcatEmptySeq
  <2>3. QED
    BY <2>1, <2>2
<1>3. ASSUME NEW n \in Nat, n \in S
      PROVE  n + 1 \in S
  <2> SUFFICES ASSUME NEW us \in Seq(Y), Len(us) = n + 1
               PROVE  Joins(us)
    <3> HIDE DEF Joins
    <3>1. QED
      OBVIOUS
  <2>1. us # <<>>
    OBVIOUS
  <2>2. PICK vs \in Seq(Y), v \in Y : us = Append(vs, v)
    <3> HIDE DEF Y
    <3>1. QED
      BY <2>1, SequenceEmptyOrAppend
  <2>3. Len(vs) = n
    BY <2>2
  <2>4. Joins(vs)
    <3> HIDE DEF Joins
    <3>1. QED
      BY <1>3, <2>3
  <2>5. ss \o us = Append(ss \o vs, v) /\ ss \o vs \in Seq(Y)
    <3>1. ss \o vs \in Seq(Y)
      BY ConcatProperties
    <3> HIDE DEF Y
    <3>2. us = vs \o <<v>> /\ <<v>> \in Seq(Y)
      BY <2>2, AppendIsConcat
    <3>3. Append(ss \o vs, v) = (ss \o vs) \o <<v>>
      BY <3>1, AppendIsConcat
    <3>4. ss \in Seq(Y)
      BY DEF Y
    <3>5. (ss \o vs) \o <<v>> = ss \o (vs \o <<v>>)
      <4>1. Associates(ss, vs, <<v>>)
        BY <3>2, <3>4, ConcatAssociates
      <4>2. QED
        BY <4>1 DEF Associates
    <3>6. QED
      BY <3>1, <3>2, <3>3, <3>5
  <2>6. FlattenSeq(ss \o us) = FlattenSeq(ss \o vs) \o v
    BY <2>5, FlattenAppend
  <2>7. FlattenSeq(us) = FlattenSeq(vs) \o v
    BY <2>2, FlattenAppend
  <2>8. FlattenSeq(vs) \in Seq(X)
    BY FlattenType
  <2>9. (FlattenSeq(ss) \o FlattenSeq(vs)) \o v = FlattenSeq(ss) \o (FlattenSeq(vs) \o v)
    <3>1. Associates(FlattenSeq(ss), FlattenSeq(vs), v)
      BY <1>1, <2>8, ConcatAssociates
    <3>2. QED
      BY <3>1 DEF Associates
  <2>10. QED
    BY <2>4, <2>6, <2>7, <2>9
<1>4. Nat \subseteq S
  <2> HIDE DEF S
  <2>1. QED
    BY <1>2, <1>3, SetInduction
<1>5. Len(tt) \in Nat
  OBVIOUS
<1>6. QED
  <2> HIDE DEF Joins
  <2>1. Joins(tt)
    BY <1>4, <1>5
  <2>2. QED
    BY <2>1 DEF Joins

\* The first sequence comes before the others.
LEMMA FlattenFirst ==
    ASSUME NEW X, NEW ss \in Seq(Seq(X)), ss # <<>>
    PROVE  FlattenSeq(ss) = Head(ss) \o FlattenSeq(Tail(ss))
<1> DEFINE Y == Seq(X)
<1>1. Head(ss) \in Y /\ Tail(ss) \in Seq(Y)
  OBVIOUS
<1>2. ss = <<Head(ss)>> \o Tail(ss) /\ <<Head(ss)>> \in Seq(Y)
  OBVIOUS
<1> DEFINE one == <<Head(ss)>>
<1>3. FlattenSeq(one) = Head(ss)
  BY <1>1, FlattenOne
<1>4. one \in Seq(Seq(X)) /\ Tail(ss) \in Seq(Seq(X)) /\ ss = one \o Tail(ss)
  BY <1>1, <1>2
<1> HIDE DEF one
<1>5. FlattenSeq(one \o Tail(ss)) = FlattenSeq(one) \o FlattenSeq(Tail(ss))
  BY <1>4, FlattenConcat
<1>6. QED
  BY <1>3, <1>4, <1>5

\* It has the members of all of them.
LEMMA FlattenRange ==
    ASSUME NEW X, NEW ss \in Seq(Seq(X))
    PROVE  Range(FlattenSeq(ss)) = UNION {Range(ss[i]) : i \in DOMAIN ss}
<1> DEFINE Y == Seq(X)
           All(us) == UNION {Range(us[i]) : i \in DOMAIN us}
           Has(us) == Range(FlattenSeq(us)) = All(us)
           S == {n \in Nat : \A us \in Seq(Y) : Len(us) = n => Has(us)}
<1>1. 0 \in S
  <2> SUFFICES ASSUME NEW us \in Seq(Y), Len(us) = 0
               PROVE  Has(us)
    OBVIOUS
  <2>1. us = <<>> /\ DOMAIN us = {}
    OBVIOUS
  <2>2. All(us) = {}
    BY <2>1
  <2>3. Range(FlattenSeq(us)) = {}
    BY <2>1, FlattenEmpty DEF Range
  <2>4. QED
    BY <2>2, <2>3
<1>2. ASSUME NEW n \in Nat, n \in S
      PROVE  n + 1 \in S
  <2> SUFFICES ASSUME NEW us \in Seq(Y), Len(us) = n + 1
               PROVE  Has(us)
    <3> HIDE DEF Has
    <3>1. QED
      OBVIOUS
  <2>1. us # <<>>
    OBVIOUS
  <2>2. PICK vs \in Seq(Y), v \in Y : us = Append(vs, v)
    <3> HIDE DEF Y
    <3>1. QED
      BY <2>1, SequenceEmptyOrAppend
  <2>3. /\ Len(vs) = n /\ DOMAIN vs = 1 .. n /\ DOMAIN us = 1 .. n + 1
        /\ \A i \in 1 .. n : us[i] = vs[i]
        /\ us[n + 1] = v
    BY <2>2
  <2>4. Range(FlattenSeq(vs)) = All(vs)
    <3>1. Has(vs)
      <4> HIDE DEF Has
      <4>1. QED
        BY <1>2, <2>3
    <3>2. QED
      BY <3>1
  <2>5. FlattenSeq(us) = FlattenSeq(vs) \o v /\ FlattenSeq(vs) \in Seq(X)
    BY <2>2, FlattenAppend, FlattenType
  <2>6. Range(FlattenSeq(us)) = Range(FlattenSeq(vs)) \cup Range(v)
    BY <2>5, RangeConcatenation
  <2>7. All(us) = All(vs) \cup Range(v)
    <3>1. \A i \in 1 .. n + 1 : i \in 1 .. n \/ i = n + 1
      OBVIOUS
    <3>2. \A i \in DOMAIN us : Range(us[i]) = IF i = n + 1 THEN Range(v)
                                                          ELSE Range(vs[i])
      BY <2>3, <3>1
    <3>3. ASSUME NEW x \in All(us)
          PROVE  x \in All(vs) \cup Range(v)
      <4>1. PICK i \in DOMAIN us : x \in Range(us[i])
        OBVIOUS
      <4>2. QED
        BY <2>3, <3>1, <3>2, <4>1
    <3>4. ASSUME NEW x \in All(vs)
          PROVE  x \in All(us)
      <4>1. PICK i \in DOMAIN vs : x \in Range(vs[i])
        OBVIOUS
      <4>2. i \in DOMAIN us /\ us[i] = vs[i]
        BY <2>3
      <4>3. QED
        BY <4>1, <4>2
    <3>5. ASSUME NEW x \in Range(v)
          PROVE  x \in All(us)
      <4>1. n + 1 \in DOMAIN us /\ us[n + 1] = v
        BY <2>3
      <4>2. QED
        BY <3>5, <4>1
    <3>6. QED
      BY <3>3, <3>4, <3>5
  <2>8. QED
    BY <2>4, <2>6, <2>7
<1>3. Nat \subseteq S
  <2> HIDE DEF S
  <2>1. QED
    BY <1>1, <1>2, SetInduction
<1>4. Len(ss) \in Nat
  OBVIOUS
<1>5. QED
  <2> HIDE DEF Has
  <2>1. Has(ss)
    BY <1>3, <1>4
  <2>2. QED
    BY <2>1 DEF Has

-----------------------------------------------------------------------------
(***************************************************************************)
(* Frames, requests and turns.                                             *)
(***************************************************************************)
LEMMA FunctionIsSeq ==
    ASSUME NEW S, NEW n \in Nat, NEW f \in [1 .. n -> S]
    PROVE  f \in Seq(S)
  BY SeqDef

\* The frames that requests or turns carry.
Batches(s) == [i \in DOMAIN s |-> s[i].frames]

LEMMA BatchesType ==
    ASSUME NEW X, NEW s \in Seq(X), \A x \in X : x.frames \in Seq(Frame)
    PROVE  /\ Batches(s) \in Seq(Seq(Frame))
           /\ Len(Batches(s)) = Len(s)
           /\ DOMAIN Batches(s) = 1 .. Len(s)
           /\ \A i \in 1 .. Len(s) : Batches(s)[i] = s[i].frames
<1> DEFINE Y == Seq(Frame)
<1>1. Len(s) \in Nat /\ DOMAIN s = 1 .. Len(s) /\ \A i \in 1 .. Len(s) : s[i] \in X
  OBVIOUS
<1>2. \A i \in 1 .. Len(s) : s[i].frames \in Y
  BY <1>1
<1> HIDE DEF Y
<1>3. Batches(s) \in [1 .. Len(s) -> Y]
  BY <1>1, <1>2 DEF Batches
<1>4. Batches(s) \in Seq(Y)
  BY <1>1, <1>3, FunctionIsSeq
<1>5. QED
  BY <1>1, <1>3, <1>4 DEF Batches, Y

LEMMA FramesOfType ==
    ASSUME NEW X, NEW s \in Seq(X), \A x \in X : x.frames \in Seq(Frame)
    PROVE  FramesOf(s) \in Seq(Frame)
<1>1. FramesOf(s) = FlattenSeq(Batches(s))
  BY DEF FramesOf, Batches
<1>2. QED
  BY <1>1, BatchesType, FlattenType

LEMMA RequestTurn ==
    /\ \A x \in Request : x.frames \in Seq(Frame)
    /\ \A x \in Turn : x.frames \in Seq(Frame)
  BY DEF Request, Turn

\* What the queues carry.
LEMMA QueuesType ==
    ASSUME TypeOK
    PROVE  /\ FramesOf(requests) \in Seq(Frame)
           /\ FramesOf(turns) \in Seq(Frame)
           /\ Coalesce(requests) = FramesOf(requests)
  BY FramesOfType, RequestTurn DEF TypeOK, Coalesce, FramesOf

\* One more request or turn.
LEMMA FramesOfAppend ==
    ASSUME NEW X, NEW s \in Seq(X), NEW x \in X, \A y \in X : y.frames \in Seq(Frame)
    PROVE  FramesOf(Append(s, x)) = FramesOf(s) \o x.frames
<1> DEFINE t == Append(s, x)
<1>1. /\ t \in Seq(X) /\ Len(t) = Len(s) + 1 /\ Len(s) \in Nat
      /\ \A i \in 1 .. Len(s) : t[i] = s[i]
      /\ t[Len(s) + 1] = x
  OBVIOUS
<1> HIDE DEF t
<1>2. x.frames \in Seq(Frame)
  OBVIOUS
<1> DEFINE Y == Seq(Frame)
           b == Append(Batches(s), x.frames)
<1>3. /\ Batches(s) \in Seq(Y) /\ Len(Batches(s)) = Len(s)
      /\ \A i \in 1 .. Len(s) : Batches(s)[i] = s[i].frames
  BY BatchesType
<1>4. /\ Batches(t) \in Seq(Y) /\ Len(Batches(t)) = Len(t)
      /\ \A i \in 1 .. Len(t) : Batches(t)[i] = t[i].frames
  BY <1>1, BatchesType
<1>5. x.frames \in Y
  BY <1>2
<1> HIDE DEF Y
<1>6. /\ b \in Seq(Y) /\ Len(b) = Len(s) + 1
      /\ \A i \in 1 .. Len(s) : b[i] = s[i].frames
      /\ b[Len(s) + 1] = x.frames
  BY <1>3, <1>5, AppendProperties
<1> HIDE DEF b
<1>7. \A i \in 1 .. Len(b) : b[i] = Batches(t)[i]
  <2> TAKE i \in 1 .. Len(b)
  <2>1. i \in 1 .. Len(t) /\ (i \in 1 .. Len(s) \/ i = Len(s) + 1)
    BY <1>1, <1>6
  <2>2. QED
    BY <1>1, <1>4, <1>6, <2>1
<1>8. Batches(t) = b
  BY <1>1, <1>4, <1>6, <1>7, SeqEqual
<1>9. FlattenSeq(b) = FlattenSeq(Batches(s)) \o x.frames
  BY <1>3, <1>5, FlattenAppend DEF Y, b
<1>10. QED
  BY <1>8, <1>9 DEF FramesOf, Batches, t

\* The first request or turn leaves.
LEMMA FramesOfTail ==
    ASSUME NEW X, NEW s \in Seq(X), s # <<>>, \A y \in X : y.frames \in Seq(Frame)
    PROVE  FramesOf(s) = Head(s).frames \o FramesOf(Tail(s))
<1> DEFINE t == Tail(s)
<1>1. /\ t \in Seq(X) /\ Len(s) = Len(t) + 1 /\ Len(t) \in Nat
      /\ \A i \in 1 .. Len(t) : t[i] = s[i + 1]
      /\ Head(s) = s[1] /\ Head(s) \in X
  OBVIOUS
<1> DEFINE Y == Seq(Frame)
<1>2. /\ Batches(s) \in Seq(Y) /\ Len(Batches(s)) = Len(s)
      /\ \A i \in 1 .. Len(s) : Batches(s)[i] = s[i].frames
  BY BatchesType
<1>3. /\ Batches(t) \in Seq(Y) /\ Len(Batches(t)) = Len(t)
      /\ \A i \in 1 .. Len(t) : Batches(t)[i] = t[i].frames
  BY <1>1, BatchesType
<1> HIDE DEF t, Y
<1>4. Batches(s) # <<>>
  BY <1>1, <1>2
<1>5. /\ Tail(Batches(s)) \in Seq(Y) /\ Len(Tail(Batches(s))) = Len(t)
      /\ \A i \in 1 .. Len(t) : Tail(Batches(s))[i] = Batches(s)[i + 1]
      /\ Head(Batches(s)) = Batches(s)[1]
  BY <1>1, <1>2, <1>4, HeadTailProperties
<1>6. \A i \in 1 .. Len(t) : Tail(Batches(s))[i] = Batches(t)[i]
  <2> TAKE i \in 1 .. Len(t)
  <2>1. i + 1 \in 1 .. Len(s)
    BY <1>1
  <2>2. QED
    BY <1>1, <1>2, <1>3, <1>5, <2>1, SMTT(20)
<1>7. Tail(Batches(s)) = Batches(t)
  BY <1>3, <1>5, <1>6, SeqEqual
<1>8. Head(Batches(s)) = Head(s).frames
  <2>1. 1 \in 1 .. Len(s)
    BY <1>1
  <2>2. QED
    BY <1>1, <1>2, <1>5, <2>1
<1>9. FlattenSeq(Batches(s)) = Head(Batches(s)) \o FlattenSeq(Tail(Batches(s)))
  BY <1>2, <1>4, FlattenFirst DEF Y
<1>10. QED
  BY <1>7, <1>8, <1>9 DEF FramesOf, Batches, t

\* More requests or turns.
LEMMA FramesOfConcat ==
    ASSUME NEW X, NEW s \in Seq(X), NEW t \in Seq(X), \A y \in X : y.frames \in Seq(Frame)
    PROVE  FramesOf(s \o t) = FramesOf(s) \o FramesOf(t)
<1> DEFINE u == s \o t
           Y == Seq(Frame)
<1>1. /\ u \in Seq(X) /\ Len(u) = Len(s) + Len(t) /\ Len(s) \in Nat /\ Len(t) \in Nat
      /\ \A i \in 1 .. Len(u) : u[i] = IF i <= Len(s) THEN s[i] ELSE t[i - Len(s)]
  BY ConcatProperties
<1> HIDE DEF u
<1>2. \A r \in Seq(X) : /\ Batches(r) \in Seq(Seq(Frame)) /\ Len(Batches(r)) = Len(r)
                        /\ \A i \in 1 .. Len(r) : Batches(r)[i] = r[i].frames
  BY BatchesType
<1>3. \A r \in Seq(X) : /\ Batches(r) \in Seq(Y) /\ Len(Batches(r)) = Len(r)
                        /\ \A i \in 1 .. Len(r) : Batches(r)[i] = r[i].frames
  BY <1>2
<1> DEFINE b == Batches(s) \o Batches(t)
<1> HIDE DEF Y
<1>4. /\ b \in Seq(Y) /\ Len(b) = Len(s) + Len(t)
      /\ \A i \in 1 .. Len(b) : b[i] = IF i <= Len(s) THEN Batches(s)[i]
                                       ELSE Batches(t)[i - Len(s)]
  <2>1. /\ Batches(s) \in Seq(Y) /\ Len(Batches(s)) = Len(s)
        /\ Batches(t) \in Seq(Y) /\ Len(Batches(t)) = Len(t)
    BY <1>3
  <2>2. /\ b \in Seq(Y) /\ Len(b) = Len(Batches(s)) + Len(Batches(t))
        /\ \A i \in 1 .. Len(Batches(s)) + Len(Batches(t)) :
              b[i] = IF i <= Len(Batches(s)) THEN Batches(s)[i]
                     ELSE Batches(t)[i - Len(Batches(s))]
    BY <2>1, ConcatProperties
  <2>3. QED
    BY <2>1, <2>2
<1> HIDE DEF b
<1>5. \A i \in 1 .. Len(u) : Batches(u)[i] = b[i]
  <2> TAKE i \in 1 .. Len(u)
  <2>1. Batches(u)[i] = u[i].frames /\ Len(u) = Len(b)
    BY <1>1, <1>3, <1>4
  <2>2. CASE i <= Len(s)
    <3>1. i \in 1 .. Len(s)
      BY <1>1, <2>2
    <3>2. u[i] = s[i] /\ b[i] = Batches(s)[i]
      BY <1>1, <1>4, <2>1, <2>2
    <3>3. QED
      BY <1>3, <2>1, <3>1, <3>2
  <2>3. CASE ~(i <= Len(s))
    <3>1. i - Len(s) \in 1 .. Len(t)
      BY <1>1, <2>3
    <3>2. u[i] = t[i - Len(s)] /\ b[i] = Batches(t)[i - Len(s)]
      BY <1>1, <1>4, <2>1, <2>3
    <3>3. QED
      BY <1>3, <2>1, <3>1, <3>2
  <2>4. QED
    BY <2>2, <2>3
<1>6. Batches(u) = b
  BY <1>1, <1>3, <1>4, <1>5, SeqEqual
<1>7. FlattenSeq(b) = FlattenSeq(Batches(s)) \o FlattenSeq(Batches(t))
  BY <1>3, FlattenConcat DEF Y, b
<1>8. QED
  BY <1>6, <1>7 DEF FramesOf, Batches, u

\* The members of what is carried.
LEMMA FramesOfRange ==
    ASSUME NEW X, NEW s \in Seq(X), \A y \in X : y.frames \in Seq(Frame)
    PROVE  \A f : f \in Range(FramesOf(s)) <=>
                     \E i \in DOMAIN s : f \in Range(s[i].frames)
<1>1. /\ Batches(s) \in Seq(Seq(Frame)) /\ DOMAIN Batches(s) = 1 .. Len(s)
      /\ \A i \in 1 .. Len(s) : Batches(s)[i] = s[i].frames
  BY BatchesType
<1>2. DOMAIN s = 1 .. Len(s)
  OBVIOUS
<1>3. Range(FlattenSeq(Batches(s))) = UNION {Range(Batches(s)[i]) : i \in DOMAIN Batches(s)}
  BY <1>1, FlattenRange
<1>4. FramesOf(s) = FlattenSeq(Batches(s))
  BY DEF FramesOf, Batches
<1>5. \A f : f \in Range(FramesOf(s)) <=>
                \E i \in DOMAIN Batches(s) : f \in Range(Batches(s)[i])
  BY <1>3, <1>4
<1>6. QED
  BY <1>1, <1>2, <1>5

\* One sequence per member.
LEMMA FlattenSingles ==
    ASSUME NEW X, NEW fs \in Seq(X)
    PROVE  /\ [i \in DOMAIN fs |-> <<fs[i]>>] \in Seq(Seq(X))
           /\ FlattenSeq([i \in DOMAIN fs |-> <<fs[i]>>]) = fs
<1> DEFINE Y == Seq(X)
           Singles(gs) == [i \in DOMAIN gs |-> <<gs[i]>>]
           Back(gs) == Singles(gs) \in Seq(Y) /\ FlattenSeq(Singles(gs)) = gs
           S == {n \in Nat : \A gs \in Seq(X) : Len(gs) = n => Back(gs)}
<1>1. 0 \in S
  <2> SUFFICES ASSUME NEW gs \in Seq(X), Len(gs) = 0
               PROVE  Back(gs)
    OBVIOUS
  <2>1. gs = <<>> /\ Singles(gs) = <<>>
    OBVIOUS
  <2>2. QED
    BY <2>1, FlattenEmpty
<1>2. ASSUME NEW n \in Nat, n \in S
      PROVE  n + 1 \in S
  <2> SUFFICES ASSUME NEW gs \in Seq(X), Len(gs) = n + 1
               PROVE  Back(gs)
    <3> HIDE DEF Back
    <3>1. QED
      OBVIOUS
  <2>1. gs # <<>>
    OBVIOUS
  <2>2. PICK hs \in Seq(X), g \in X : gs = Append(hs, g)
    BY <2>1, SequenceEmptyOrAppend
  <2>3. /\ Len(hs) = n /\ DOMAIN hs = 1 .. n /\ DOMAIN gs = 1 .. n + 1
        /\ \A i \in 1 .. n : gs[i] = hs[i]
        /\ gs[n + 1] = g
    BY <2>2
  <2>4. Back(hs)
    <3> HIDE DEF Back
    <3>1. QED
      BY <1>2, <2>3
  <2> DEFINE one == <<g>>
  <2>5. one \in Y
    OBVIOUS
  <2>6. Singles(hs) \in Seq(Y) /\ Len(Singles(hs)) = n
    BY <2>3, <2>4
  <2>7. Singles(gs) = Append(Singles(hs), one)
    <3> DEFINE a == Append(Singles(hs), one)
    <3>1. /\ DOMAIN Singles(gs) = 1 .. n + 1
          /\ \A i \in 1 .. n : Singles(gs)[i] = <<hs[i]>> /\ Singles(hs)[i] = <<hs[i]>>
          /\ Singles(gs)[n + 1] = one
      BY <2>3
    <3> HIDE DEF Singles, one, Y
    <3>2. /\ a \in Seq(Y) /\ Len(a) = n + 1
          /\ \A i \in 1 .. n : a[i] = Singles(hs)[i]
          /\ a[n + 1] = one
      BY <2>5, <2>6, AppendProperties
    <3> HIDE DEF a
    <3>3. DOMAIN a = 1 .. n + 1 /\ \A i \in 1 .. n + 1 : i \in 1 .. n \/ i = n + 1
      BY <3>2
    <3>4. \A i \in 1 .. n + 1 : a[i] = Singles(gs)[i]
      BY <3>1, <3>2, <3>3
    <3>5. a = [i \in 1 .. n + 1 |-> a[i]] /\ Singles(gs) = [i \in 1 .. n + 1 |-> Singles(gs)[i]]
      BY <3>1, <3>2, <3>3 DEF Singles
    <3>6. QED
      BY <3>4, <3>5 DEF a
  <2>8. FlattenSeq(Append(Singles(hs), one)) = FlattenSeq(Singles(hs)) \o one
    <3> HIDE DEF one, Singles
    <3>1. QED
      BY <2>5, <2>6, FlattenAppend
  <2>9. hs \o one = gs
    BY <2>2, AppendIsConcat
  <2>10. Singles(gs) \in Seq(Y)
    <3> HIDE DEF one, Singles, Y
    <3>1. QED
      BY <2>5, <2>6, <2>7, AppendProperties
  <2>11. FlattenSeq(Singles(gs)) = gs
    <3> HIDE DEF one, Singles
    <3>1. FlattenSeq(Singles(hs)) = hs
      BY <2>4 DEF Singles
    <3>2. QED
      BY <2>7, <2>8, <2>9, <3>1
  <2>12. QED
    BY <2>10, <2>11
<1>3. Nat \subseteq S
  <2> HIDE DEF S
  <2>1. QED
    BY <1>1, <1>2, SetInduction
<1>4. Len(fs) \in Nat
  OBVIOUS
<1>5. QED
  <2> HIDE DEF Back
  <2>1. Back(fs)
    BY <1>3, <1>4
  <2>2. QED
    BY <2>1 DEF Back

-----------------------------------------------------------------------------
(***************************************************************************)
(* What the two sinks do.                                                  *)
(***************************************************************************)
LEMMA TickType ==
    \A fs \in Seq(Frame) : /\ Tick(fs) \in Request
                           /\ Tick(fs).kind = "tick" /\ Tick(fs).frames = fs
  BY DEF Tick, Request

\* The frames fs as the host's sink numbers them.
Numbered(fs) == [i \in DOMAIN fs |-> [fs[i] EXCEPT !.n = sent["host"] + i]]

LEMMA NumberedType ==
    ASSUME TypeOK, NEW fs \in Seq(Frame)
    PROVE  /\ Numbered(fs) \in Seq(Frame)
           /\ Len(Numbered(fs)) = Len(fs)
           /\ \A i \in 1 .. Len(fs) : /\ Numbered(fs)[i].n = sent["host"] + i
                                      /\ Numbered(fs)[i].kind = fs[i].kind
                                      /\ Numbered(fs)[i].request = fs[i].request
<1>1. sent["host"] \in Nat /\ Len(fs) \in Nat /\ DOMAIN fs = 1 .. Len(fs)
  BY DEF TypeOK
<1>2. \A i \in 1 .. Len(fs) : fs[i] \in Frame
  OBVIOUS
<1>3. \A i \in 1 .. Len(fs) : /\ Numbered(fs)[i] \in Frame
                              /\ Numbered(fs)[i].n = sent["host"] + i
                              /\ Numbered(fs)[i].kind = fs[i].kind
                              /\ Numbered(fs)[i].request = fs[i].request
  BY <1>1, <1>2, SMTT(20) DEF Numbered, Frame
<1>4. DOMAIN Numbered(fs) = 1 .. Len(fs) /\ Numbered(fs) \in [1 .. Len(fs) -> Frame]
  BY <1>1, <1>3 DEF Numbered
<1>5. Numbered(fs) \in Seq(Frame)
  BY <1>1, <1>4, FunctionIsSeq
<1>6. QED
  BY <1>1, <1>3, <1>4, <1>5

\* The requests that a host's frames become.
LEMMA HostSends ==
    ASSUME TypeOK, NEW fs \in Seq(Frame), HostSend(requests, fs), worker # "stopped"
    PROVE  /\ \E rs \in Seq(Request) :
                 /\ requests' = requests \o rs
                 /\ Len(rs) = Len(fs)
                 /\ \A i \in 1 .. Len(rs) : rs[i].kind = "tick"
                 /\ FramesOf(rs) = Numbered(fs)
           /\ sent' = [sent EXCEPT !["host"] = @ + Len(fs)]
<1> DEFINE gs == Numbered(fs)
           rs == [i \in DOMAIN fs |-> Tick(<<gs[i]>>)]
<1>1. gs \in Seq(Frame) /\ Len(gs) = Len(fs) /\ DOMAIN gs = 1 .. Len(fs)
  BY NumberedType
<1>2. Len(fs) \in Nat /\ DOMAIN fs = 1 .. Len(fs)
  OBVIOUS
<1>3. \A i \in 1 .. Len(fs) : gs[i] = [fs[i] EXCEPT !.n = sent["host"] + i]
  BY <1>2 DEF Numbered
<1>4. rs = [i \in DOMAIN fs |-> Tick(<<[fs[i] EXCEPT !.n = sent["host"] + i]>>)]
  BY <1>2, <1>3
<1>5. requests' = requests \o rs /\ sent' = [sent EXCEPT !["host"] = @ + Len(fs)]
  <2> HIDE DEF rs
  <2>1. QED
    BY <1>4 DEF HostSend
<1> HIDE DEF gs
<1>6. \A i \in 1 .. Len(fs) : <<gs[i]>> \in Seq(Frame)
  BY <1>1
<1>7. \A i \in 1 .. Len(fs) : /\ rs[i] \in Request
                              /\ rs[i].kind = "tick" /\ rs[i].frames = <<gs[i]>>
  BY <1>2, <1>6, TickType
<1>8. rs \in [1 .. Len(fs) -> Request]
  BY <1>2, <1>7
<1>9. rs \in Seq(Request) /\ Len(rs) = Len(fs)
  <2> HIDE DEF rs
  <2>1. rs \in Seq(Request)
    BY <1>2, <1>8, FunctionIsSeq
  <2>2. QED
    BY <1>2, <1>8, <2>1
<1>10. FramesOf(rs) = gs
  <2>1. /\ [i \in DOMAIN gs |-> <<gs[i]>>] \in Seq(Seq(Frame))
        /\ FlattenSeq([i \in DOMAIN gs |-> <<gs[i]>>]) = gs
    BY <1>1, FlattenSingles
  <2>2. [i \in DOMAIN rs |-> rs[i].frames] = [i \in DOMAIN gs |-> <<gs[i]>>]
    BY <1>1, <1>2, <1>7
  <2>3. QED
    BY <2>1, <2>2 DEF FramesOf
<1>11. QED
  <2> HIDE DEF rs
  <2>1. QED
    BY <1>2, <1>5, <1>7, <1>9, <1>10 DEF gs

LEMMA HostSendType ==
    ASSUME TypeOK, NEW fs \in Seq(Frame), HostSend(requests, fs)
    PROVE  /\ requests' \in Seq(Request)
           /\ sent' \in [{"host", "guest"} -> Nat]
<1>1. CASE worker = "stopped"
  BY <1>1 DEF HostSend, TypeOK
<1>2. CASE worker # "stopped"
  <2>1. PICK rs \in Seq(Request) : requests' = requests \o rs
    BY <1>2, HostSends
  <2>2. sent' = [sent EXCEPT !["host"] = @ + Len(fs)]
    BY <1>2, HostSends
  <2>3. requests' \in Seq(Request)
    BY <2>1, ConcatProperties DEF TypeOK
  <2>4. Len(fs) \in Nat
    OBVIOUS
  <2>5. QED
    BY <2>2, <2>3, <2>4 DEF TypeOK
<1>3. QED
  BY <1>1, <1>2

\* A frame of the guest.
GuestFrame(kind, r) == [n |-> sent["guest"] + 1, kind |-> kind, request |-> r]

LEMMA GuestSends ==
    ASSUME TypeOK, NEW kind \in {"call", "response"}, NEW r \in Nat, GuestSend(kind, r)
    PROVE  /\ GuestFrame(kind, r) \in Frame
           /\ outbound' = Append(outbound, GuestFrame(kind, r))
           /\ outbound' \in Seq(Frame)
           /\ sent' = [sent EXCEPT !["guest"] = @ + 1]
           /\ sent' \in [{"host", "guest"} -> Nat]
<1>1. sent["guest"] \in Nat
  BY DEF TypeOK
<1>2. GuestFrame(kind, r) \in Frame
  BY <1>1 DEF GuestFrame, Frame
<1>3. outbound' = Append(outbound, GuestFrame(kind, r))
  BY DEF GuestSend, GuestFrame
<1>4. outbound' \in Seq(Frame)
  BY <1>2, <1>3, AppendProperties DEF TypeOK
<1>5. QED
  BY <1>2, <1>3, <1>4 DEF GuestSend, TypeOK

LEMMA EnqueueTypes ==
    ASSUME TypeOK, NEW x \in Request, Enqueue(x)
    PROVE  requests' \in Seq(Request)
  BY DEF Enqueue, TypeOK

\* What the pump answers when it applies a turn.
Replies(fs) ==
    [i \in DOMAIN fs |-> IF IsCall(fs[i]) THEN <<[fs[i] EXCEPT !.kind = "response"]>>
                                          ELSE <<>>]

LEMMA RepliesType ==
    ASSUME NEW fs \in Seq(Frame)
    PROVE  /\ Replies(fs) \in Seq(Seq(Frame))
           /\ FlattenSeq(Replies(fs)) \in Seq(Frame)
           /\ \A f \in Range(FlattenSeq(Replies(fs))) : ~IsCall(f)
<1> DEFINE Y == Seq(Frame)
           rs == Replies(fs)
<1>1. Len(fs) \in Nat /\ DOMAIN fs = 1 .. Len(fs) /\ \A i \in 1 .. Len(fs) : fs[i] \in Frame
  OBVIOUS
<1>2. \A f \in Frame : /\ [f EXCEPT !.kind = "response"] \in Frame
                       /\ ~IsCall([f EXCEPT !.kind = "response"])
  BY DEF Frame, IsCall
<1>3. \A i \in 1 .. Len(fs) :
         /\ rs[i] \in Y
         /\ \A g \in Range(rs[i]) : ~IsCall(g)
  <2> TAKE i \in 1 .. Len(fs)
  <2>1. CASE IsCall(fs[i])
    <3> DEFINE g == [fs[i] EXCEPT !.kind = "response"]
    <3>1. g \in Frame /\ ~IsCall(g)
      BY <1>1, <1>2
    <3>2. rs[i] = <<g>>
      BY <1>1, <2>1 DEF Replies
    <3> HIDE DEF g, rs
    <3>3. QED
      BY <3>1, <3>2 DEF Range
  <2>2. CASE ~IsCall(fs[i])
    <3>1. rs[i] = <<>>
      BY <1>1, <2>2 DEF Replies
    <3> HIDE DEF rs
    <3>2. QED
      BY <3>1 DEF Range
  <2>3. QED
    BY <2>1, <2>2
<1>4. DOMAIN rs = 1 .. Len(fs)
  BY <1>1 DEF Replies
<1>5. rs = [i \in 1 .. Len(fs) |-> rs[i]]
  BY <1>4 DEF Replies
<1> HIDE DEF rs, Y
<1>6. rs \in [1 .. Len(fs) -> Y]
  BY <1>3, <1>5
<1>7. rs \in Seq(Y)
  BY <1>1, <1>6, FunctionIsSeq
<1>8. /\ FlattenSeq(rs) \in Seq(Frame)
      /\ Range(FlattenSeq(rs)) = UNION {Range(rs[i]) : i \in DOMAIN rs}
  BY <1>7, FlattenType, FlattenRange DEF Y
<1>9. QED
  BY <1>3, <1>4, <1>7, <1>8 DEF rs, Y

\* ApplyTurn, with the names of this module.
LEMMA ApplyTurnDoes ==
    ASSUME TypeOK, ApplyTurn
    PROVE  /\ turns # <<>> /\ Head(turns) \in Turn /\ Head(turns).ok
           /\ Tail(turns) \in Seq(Turn)
           /\ turns' = Tail(turns)
           /\ pending' = pending \ Answered(Head(turns).frames)
           /\ HostSend(requests, FlattenSeq(Replies(Head(turns).frames)))
           /\ Head(turns).frames \in Seq(Frame)
           /\ got' = [got EXCEPT !["guest"] = @ + Len(Head(turns).frames)]
           /\ scheduled' = (scheduled \/ Head(turns).wake)
           /\ UNCHANGED <<worker, pump, guestVars, nextRequest>>
<1>1. turns # <<>> /\ Head(turns) \in Turn /\ Tail(turns) \in Seq(Turn)
  BY HeadTailProperties DEF ApplyTurn, TypeOK
<1>2. Head(turns).frames \in Seq(Frame)
  BY <1>1, RequestTurn
<1>3. QED
  BY <1>1, <1>2 DEF ApplyTurn, Replies

-----------------------------------------------------------------------------
(***************************************************************************)
(* Type correctness, action by action.                                     *)
(***************************************************************************)
LEMMA InitType == Init => TypeOK
<1> DEFINE first == [kind |-> "init", frames |-> <<>>]
<1>1. first \in Request
  BY DEF Request
<1> HIDE DEF first
<1>2. <<first>> \in Seq(Request)
  BY <1>1
<1> SUFFICES ASSUME Init
             PROVE  TypeOK
  OBVIOUS
<1>3. requests \in Seq(Request)
  BY <1>2 DEF Init, first
<1>4. inbound \in Seq(Frame) /\ outbound \in Seq(Frame) /\ turns \in Seq(Turn)
  BY DEF Init
<1>5. task \in [Tasks -> TaskState]
  BY DEF Init, TaskState
<1>6. QED
  BY <1>3, <1>4, <1>5 DEF Init, TypeOK

\* A call of the host: its request, and the frame that goes out for it.
HostCallFrame(r) == [n |-> 0, kind |-> "call", request |-> r]

LEMMA HostCallSends ==
    ASSUME TypeOK, HostCall
    PROVE  /\ nextRequest' = nextRequest + 1 /\ nextRequest' \in Nat
           /\ nextRequest' <= MaxCalls
           /\ <<HostCallFrame(nextRequest')>> \in Seq(Frame)
           /\ HostSend(requests, <<HostCallFrame(nextRequest')>>)
           /\ pending' = pending \cup {nextRequest'}
           /\ UNCHANGED <<worker, turns, pump, scheduled, guestVars, got>>
<1>1. nextRequest' = nextRequest + 1 /\ nextRequest' \in Nat
  BY DEF HostCall, TypeOK
<1> DEFINE f == HostCallFrame(nextRequest')
<1>2. f \in Frame
  BY <1>1 DEF HostCallFrame, Frame
<1> HIDE DEF f
<1>3. <<f>> \in Seq(Frame)
  BY <1>2
<1>4. QED
  BY <1>1, <1>3, BoundsAssumption DEF HostCall, HostCallFrame, f, TypeOK

LEMMA HostStepType ==
    ASSUME TypeOK, HostCall \/ Pump \/ WakeFires
    PROVE  TypeOK'
<1>1. CASE HostCall
  <2>1. requests' \in Seq(Request) /\ sent' \in [{"host", "guest"} -> Nat]
    BY <1>1, HostCallSends, HostSendType
  <2>2. QED
    BY <1>1, <2>1, HostCallSends DEF TypeOK, guestVars
<1>2. CASE Pump \/ WakeFires
  <2>1. Tick(<<>>) \in Request
    <3>1. <<>> \in Seq(Frame)
      OBVIOUS
    <3>2. QED
      BY <3>1, TickType
  <2>2. requests' \in Seq(Request)
    BY <1>2, <2>1, EnqueueTypes DEF Pump, WakeFires
  <2>3. QED
    BY <1>2, <2>2 DEF TypeOK, Pump, WakeFires, guestVars, hostVars
<1>3. QED
  BY <1>1, <1>2

LEMMA StartTurnType ==
    ASSUME TypeOK, StartTurn
    PROVE  TypeOK'
<1>1. requests # <<>> /\ Tail(requests) \in Seq(Request)
  BY HeadTailProperties DEF StartTurn, TypeOK
<1>2. Coalesce(requests) \in Seq(Frame)
  BY QueuesType
<1>3. requests' \in Seq(Request) /\ inbound' \in Seq(Frame)
  <2>1. <<>> \in Seq(Request)
    OBVIOUS
  <2>2. CASE Head(requests).kind = "init"
    BY <1>1, <2>2 DEF StartTurn, TypeOK
  <2>3. CASE Head(requests).kind # "init"
    BY <1>2, <2>1, <2>3 DEF StartTurn
  <2>4. QED
    BY <2>2, <2>3
<1>4. task' \in [Tasks -> TaskState]
  BY DEF StartTurn, TypeOK, TaskState
<1>5. QED
  BY <1>3, <1>4 DEF StartTurn, TypeOK, hostVars

\* The next frame of the turn.
LEMMA GuestDeliverFrame ==
    ASSUME TypeOK, GuestDeliver
    PROVE  /\ inbound # <<>> /\ Head(inbound) \in Frame
           /\ Tail(inbound) \in Seq(Frame) /\ inbound' = Tail(inbound)
           /\ Head(inbound).request \in Nat
           /\ Head(inbound).kind \in {"call", "response"}
           /\ got' = [got EXCEPT !["host"] = @ + 1]
           /\ \/ UNCHANGED <<outbound, sent>>
              \/ GuestSend("response", Head(inbound).request)
           /\ task' \in {task, [task EXCEPT ![Head(inbound).request] = "ready"]}
           /\ awaiting' \in {awaiting, awaiting \ {Head(inbound).request}}
           /\ UNCHANGED <<queueVars, guestCalls, hostVars>>
<1>1. inbound # <<>> /\ Head(inbound) \in Frame /\ Tail(inbound) \in Seq(Frame)
  BY HeadTailProperties DEF GuestDeliver, TypeOK
<1>2. Head(inbound).request \in Nat /\ Head(inbound).kind \in {"call", "response"}
  BY <1>1 DEF Frame
<1>3. CASE Head(inbound).kind = "call"
  BY <1>1, <1>2, <1>3 DEF GuestDeliver
<1>4. CASE Head(inbound).kind = "response"
  BY <1>1, <1>2, <1>4 DEF GuestDeliver
<1>5. QED
  BY <1>2, <1>3, <1>4

LEMMA GuestDeliverType ==
    ASSUME TypeOK, GuestDeliver
    PROVE  TypeOK'
<1>1. inbound' \in Seq(Frame) /\ Head(inbound).request \in Nat
  BY GuestDeliverFrame
<1>2. outbound' \in Seq(Frame) /\ sent' \in [{"host", "guest"} -> Nat]
  <2>1. CASE UNCHANGED <<outbound, sent>>
    BY <2>1 DEF TypeOK
  <2>2. CASE GuestSend("response", Head(inbound).request)
    BY <1>1, <2>2, GuestSends
  <2>3. QED
    BY <2>1, <2>2, GuestDeliverFrame
<1>3. task' \in [Tasks -> TaskState]
  <2>1. [task EXCEPT ![Head(inbound).request] = "ready"] \in [Tasks -> TaskState]
    BY DEF TypeOK, TaskState
  <2>2. QED
    BY <2>1, GuestDeliverFrame DEF TypeOK
<1>4. awaiting' \in SUBSET Nat
  BY GuestDeliverFrame DEF TypeOK
<1>5. got' \in [{"host", "guest"} -> Nat]
  BY GuestDeliverFrame, SMTT(20) DEF TypeOK
<1>6. UNCHANGED <<queueVars, guestCalls, hostVars>>
  BY GuestDeliverFrame
<1>7. QED
  BY <1>1, <1>2, <1>3, <1>4, <1>5, <1>6 DEF TypeOK, queueVars, hostVars

LEMMA TaskStepType ==
    ASSUME TypeOK, NEW r \in Tasks, WakeTask(r) \/ Sleep(r) \/ TimerDue(r) \/ FinishTask(r)
    PROVE  TypeOK'
<1>1. CASE WakeTask(r) \/ Sleep(r) \/ TimerDue(r)
  <2>1. task' \in [Tasks -> TaskState]
    BY <1>1 DEF TypeOK, TaskState, WakeTask, Sleep, TimerDue
  <2>2. UNCHANGED <<queueVars, inbound, awaiting, guestCalls, outbound, hostVars,
                    sent, got>>
    BY <1>1 DEF WakeTask, Sleep, TimerDue
  <2>3. QED
    BY <2>1, <2>2 DEF TypeOK, queueVars, hostVars
<1>2. CASE FinishTask(r)
  <2>1. task' \in [Tasks -> TaskState]
    BY <1>2 DEF TypeOK, TaskState, FinishTask
  <2>2. outbound' \in Seq(Frame) /\ sent' \in [{"host", "guest"} -> Nat]
    <3>1. CASE r = 0
      BY <1>2, <3>1 DEF FinishTask, TypeOK
    <3>2. CASE r # 0
      BY <1>2, <3>2, GuestSends, BoundsAssumption DEF FinishTask, Tasks
    <3>3. QED
      BY <3>1, <3>2
  <2>3. UNCHANGED <<queueVars, inbound, awaiting, guestCalls, hostVars, got>>
    BY <1>2 DEF FinishTask
  <2>4. QED
    BY <2>1, <2>2, <2>3 DEF TypeOK, queueVars, hostVars
<1>3. QED
  BY <1>1, <1>2

LEMMA GuestCallType ==
    ASSUME TypeOK, GuestCall
    PROVE  TypeOK'
<1>1. guestCalls' \in Nat
  BY DEF GuestCall, TypeOK
<1>2. outbound' \in Seq(Frame) /\ sent' \in [{"host", "guest"} -> Nat]
  BY <1>1, GuestSends DEF GuestCall
<1>3. awaiting' \in SUBSET Nat
  BY <1>1 DEF GuestCall, TypeOK
<1>4. QED
  BY <1>1, <1>2, <1>3 DEF GuestCall, TypeOK, queueVars, hostVars

\* The turn that a guest ends, and the one that a trap reports.
EndedTurn == [ok |-> TRUE, frames |-> outbound,
              wake |-> \E r \in Tasks : task[r] = "asleep"]
TrapTurn == [ok |-> FALSE, frames |-> <<>>, wake |-> FALSE]

LEMMA LastTurns ==
    ASSUME TypeOK
    PROVE  EndedTurn \in Turn /\ TrapTurn \in Turn
<1>1. (\E r \in Tasks : task[r] = "asleep") \in BOOLEAN
  OBVIOUS
<1> DEFINE w == \E r \in Tasks : task[r] = "asleep"
<1>2. w \in BOOLEAN
  BY <1>1
<1> HIDE DEF w
<1>3. [ok |-> TRUE, frames |-> outbound, wake |-> w] \in Turn
  BY <1>2 DEF Turn, TypeOK
<1>4. TrapTurn \in Turn
  BY DEF Turn, TrapTurn
<1>5. QED
  BY <1>3, <1>4 DEF EndedTurn, w

LEMMA TurnsAppended ==
    ASSUME TypeOK
    PROVE  /\ EndTurn => turns' = Append(turns, EndedTurn)
           /\ Trap => turns' = Append(turns, TrapTurn)
           /\ EndTurn \/ Trap => turns' \in Seq(Turn)
<1>1. EndTurn => turns' = Append(turns, EndedTurn)
  BY DEF EndTurn, EndedTurn
<1>2. Trap => turns' = Append(turns, TrapTurn)
  BY DEF Trap, TrapTurn
<1>3. /\ Append(turns, EndedTurn) \in Seq(Turn)
      /\ Append(turns, TrapTurn) \in Seq(Turn)
  <2>1. turns \in Seq(Turn) /\ EndedTurn \in Turn /\ TrapTurn \in Turn
    BY LastTurns DEF TypeOK
  <2>2. QED
    BY <2>1, AppendProperties
<1>4. QED
  BY <1>1, <1>2, <1>3

LEMMA EndTurnType ==
    ASSUME TypeOK, EndTurn
    PROVE  TypeOK'
<1>1. turns' \in Seq(Turn)
  BY TurnsAppended
<1>2. outbound' \in Seq(Frame)
  BY DEF EndTurn
<1>3. QED
  BY <1>1, <1>2 DEF EndTurn, TypeOK, hostVars

LEMMA TrapType ==
    ASSUME TypeOK, Trap
    PROVE  TypeOK'
<1>1. turns' \in Seq(Turn)
  BY TurnsAppended
<1>2. task' \in [Tasks -> TaskState]
  BY DEF Trap, TaskState
<1>3. requests' \in Seq(Request) /\ inbound' \in Seq(Frame) /\ outbound' \in Seq(Frame)
  BY DEF Trap
<1>4. QED
  BY <1>1, <1>2, <1>3 DEF Trap, TypeOK, hostVars

LEMMA ApplyTurnType ==
    ASSUME TypeOK, ApplyTurn
    PROVE  TypeOK'
<1> DEFINE t == Head(turns)
<1>1. turns' \in Seq(Turn) /\ t \in Turn /\ t.frames \in Seq(Frame)
  BY ApplyTurnDoes
<1>2. requests' \in Seq(Request) /\ sent' \in [{"host", "guest"} -> Nat]
  BY <1>1, ApplyTurnDoes, RepliesType, HostSendType
<1>3. got' \in [{"host", "guest"} -> Nat]
  <2>1. Len(t.frames) \in Nat
    BY <1>1
  <2>2. QED
    BY <2>1, ApplyTurnDoes, SMTT(20) DEF TypeOK
<1>4. scheduled' \in BOOLEAN
  BY ApplyTurnDoes
<1>5. pending' \in SUBSET Nat
  BY ApplyTurnDoes DEF TypeOK
<1>6. UNCHANGED <<worker, pump, guestVars, nextRequest>>
  BY ApplyTurnDoes
<1>7. QED
  BY <1>1, <1>2, <1>3, <1>4, <1>5, <1>6 DEF TypeOK, guestVars

LEMMA FailPendingType ==
    ASSUME TypeOK, FailPending
    PROVE  TypeOK'
<1>1. turns' \in Seq(Turn)
  BY HeadTailProperties DEF FailPending, TypeOK
<1>2. QED
  BY <1>1 DEF FailPending, TypeOK, guestVars

LEMMA NextType == TypeOK /\ [Next]_vars => TypeOK'
<1> SUFFICES ASSUME TypeOK, [Next]_vars
             PROVE  TypeOK'
  OBVIOUS
<1>1. CASE HostCall \/ Pump \/ WakeFires
  BY <1>1, HostStepType
<1>2. CASE StartTurn
  BY <1>2, StartTurnType
<1>3. CASE GuestDeliver
  BY <1>3, GuestDeliverType
<1>4. CASE \E r \in Tasks : WakeTask(r) \/ Sleep(r) \/ TimerDue(r) \/ FinishTask(r)
  BY <1>4, TaskStepType
<1>5. CASE GuestCall
  BY <1>5, GuestCallType
<1>6. CASE EndTurn
  BY <1>6, EndTurnType
<1>7. CASE Trap
  BY <1>7, TrapType
<1>8. CASE ApplyTurn
  BY <1>8, ApplyTurnType
<1>9. CASE FailPending
  BY <1>9, FailPendingType
<1>10. CASE UNCHANGED vars
  BY <1>10 DEF vars, queueVars, guestVars, hostVars, TypeOK
<1>11. QED
  BY <1>1, <1>2, <1>3, <1>4, <1>5, <1>6, <1>7, <1>8, <1>9, <1>10 DEF Next, GuestStep

\* Every variable of the transport keeps its type.
THEOREM HostTypeCorrect == Spec => []TypeOK
  BY InitType, NextType, PTL DEF Spec

-----------------------------------------------------------------------------
(***************************************************************************)
(* What is queued where.  An init request has no frames; a guest that is   *)
(* between two turns has neither input nor output; the worker that ended   *)
(* left no request behind; and the turn that reports it carries nothing.   *)
(***************************************************************************)
ShapeInv ==
    /\ \A i \in DOMAIN requests : requests[i].kind = "init" => requests[i].frames = <<>>
    /\ worker # "running" => inbound = <<>> /\ outbound = <<>>
    /\ worker = "stopped" => requests = <<>>
    /\ \A i \in DOMAIN turns : ~turns[i].ok => turns[i].frames = <<>> /\ ~turns[i].wake

LEMMA InitShape == Init => ShapeInv
<1> SUFFICES ASSUME Init
             PROVE  ShapeInv
  OBVIOUS
<1>1. \A i \in DOMAIN requests : requests[i].frames = <<>>
  BY DEF Init
<1>2. DOMAIN turns = {}
  BY DEF Init
<1>3. QED
  BY <1>1, <1>2 DEF Init, ShapeInv

\* Ticks do not disturb the init request.
LEMMA SendShape ==
    ASSUME TypeOK, ShapeInv, NEW fs \in Seq(Frame), HostSend(requests, fs),
           worker' = worker, UNCHANGED guestVars,
           turns' = turns \/ (turns # <<>> /\ turns' = Tail(turns))
    PROVE  ShapeInv'
<1>1. \A i \in DOMAIN requests' : requests'[i].kind = "init" => requests'[i].frames = <<>>
  <2>1. CASE worker = "stopped"
    BY <2>1 DEF HostSend, ShapeInv
  <2>2. CASE worker # "stopped"
    <3>1. PICK rs \in Seq(Request) : /\ requests' = requests \o rs
                                     /\ \A i \in 1 .. Len(rs) : rs[i].kind = "tick"
      BY <2>2, HostSends
    <3> TAKE i \in DOMAIN requests'
    <3>2. requests \in Seq(Request)
      BY DEF TypeOK
    <3>3. /\ i \in 1 .. Len(requests) + Len(rs)
          /\ requests'[i] = IF i <= Len(requests) THEN requests[i]
                            ELSE rs[i - Len(requests)]
      BY <3>1, <3>2, ConcatProperties
    <3>4. CASE i <= Len(requests)
      <4>1. i \in DOMAIN requests
        BY <3>2, <3>3, <3>4
      <4>2. QED
        BY <3>3, <3>4, <4>1 DEF ShapeInv
    <3>5. CASE ~(i <= Len(requests))
      <4>1. i - Len(requests) \in 1 .. Len(rs)
        BY <3>2, <3>3, <3>5
      <4>2. QED
        BY <3>1, <3>3, <3>5, <4>1
    <3>6. QED
      BY <3>4, <3>5
  <2>3. QED
    BY <2>1, <2>2
<1>2. worker' = "stopped" => requests' = <<>>
  BY DEF HostSend, ShapeInv
<1>3. \A i \in DOMAIN turns' : ~turns'[i].ok => turns'[i].frames = <<>> /\ ~turns'[i].wake
  <2>1. CASE turns' = turns
    BY <2>1 DEF ShapeInv
  <2>2. CASE turns # <<>> /\ turns' = Tail(turns)
    <3> TAKE i \in DOMAIN turns'
    <3>1. i + 1 \in DOMAIN turns /\ turns'[i] = turns[i + 1]
      BY <2>2 DEF TypeOK
    <3>2. QED
      BY <3>1 DEF ShapeInv
  <2>3. QED
    BY <2>1, <2>2
<1>4. QED
  BY <1>1, <1>2, <1>3 DEF ShapeInv, guestVars

LEMMA EnqueueShape ==
    ASSUME TypeOK, ShapeInv, Pump \/ WakeFires
    PROVE  ShapeInv'
<1>1. <<>> \in Seq(Frame)
  OBVIOUS
<1> DEFINE x == Tick(<<>>)
<1>2. x \in Request /\ x.frames = <<>>
  BY <1>1, TickType
<1>3. requests' = IF worker = "stopped" THEN requests ELSE Append(requests, x)
  BY DEF Pump, WakeFires, Enqueue
<1> HIDE DEF x
<1>4. \A i \in DOMAIN requests' : requests'[i].kind = "init" => requests'[i].frames = <<>>
  <2> TAKE i \in DOMAIN requests'
  <2>1. CASE worker = "stopped"
    BY <1>3, <2>1 DEF ShapeInv
  <2>2. CASE worker # "stopped"
    <3>1. /\ i \in 1 .. Len(requests) + 1
          /\ i \in 1 .. Len(requests) => requests'[i] = requests[i]
          /\ i = Len(requests) + 1 => requests'[i] = x
      BY <1>2, <1>3, <2>2, AppendProperties DEF TypeOK
    <3>2. CASE i \in 1 .. Len(requests)
      <4>1. i \in DOMAIN requests
        BY <3>2 DEF TypeOK
      <4>2. QED
        BY <3>1, <3>2, <4>1 DEF ShapeInv
    <3>3. CASE i = Len(requests) + 1
      BY <1>2, <3>1, <3>3
    <3>4. QED
      BY <3>1, <3>2, <3>3, SMTT(20) DEF TypeOK
  <2>3. QED
    BY <2>1, <2>2
<1>5. QED
  BY <1>3, <1>4 DEF ShapeInv, Pump, WakeFires, guestVars

\* A turn at the end of the queue.
LEMMA TurnsAt ==
    ASSUME TypeOK, NEW t \in Turn, turns' = Append(turns, t)
    PROVE  /\ \A i \in DOMAIN turns' : \/ i \in DOMAIN turns /\ turns'[i] = turns[i]
                                       \/ turns'[i] = t
           /\ \A i \in DOMAIN turns : i \in DOMAIN turns' /\ turns'[i] = turns[i]
           /\ Len(turns) + 1 \in DOMAIN turns' /\ turns'[Len(turns) + 1] = t
<1>1. turns \in Seq(Turn)
  BY DEF TypeOK
<1>2. /\ turns' \in Seq(Turn) /\ Len(turns') = Len(turns) + 1
      /\ \A i \in 1 .. Len(turns) : turns'[i] = turns[i]
      /\ turns'[Len(turns) + 1] = t
  BY <1>1, AppendProperties
<1>3. DOMAIN turns = 1 .. Len(turns) /\ DOMAIN turns' = 1 .. Len(turns) + 1
      /\ Len(turns) \in Nat
  BY <1>1, <1>2
<1>4. QED
  BY <1>2, <1>3

\* The turns but the first.
LEMMA TurnsLeft ==
    ASSUME TypeOK, turns # <<>>, turns' = Tail(turns)
    PROVE  /\ \A i \in DOMAIN turns' : i + 1 \in DOMAIN turns /\ turns'[i] = turns[i + 1]
           /\ \A i \in DOMAIN turns : \/ turns[i] = Head(turns)
                                      \/ i - 1 \in DOMAIN turns' /\ turns'[i - 1] = turns[i]
           /\ 1 \in DOMAIN turns /\ Head(turns) = turns[1]
<1>1. turns \in Seq(Turn) /\ Len(turns) \in Nat \ {0}
  BY DEF TypeOK
<1>2. /\ Len(Tail(turns)) = Len(turns) - 1 /\ DOMAIN Tail(turns) = 1 .. Len(turns) - 1
      /\ \A i \in 1 .. Len(turns) - 1 : Tail(turns)[i] = turns[i + 1]
      /\ Head(turns) = turns[1]
      /\ DOMAIN turns = 1 .. Len(turns)
  BY <1>1
<1>3. QED
  BY <1>1, <1>2

LEMMA NextShape == TypeOK /\ ShapeInv /\ [Next]_vars => ShapeInv'
<1> SUFFICES ASSUME TypeOK, ShapeInv, [Next]_vars
             PROVE  ShapeInv'
  OBVIOUS
<1>1. CASE HostCall
  BY <1>1, HostCallSends, SendShape
<1>2. CASE Pump \/ WakeFires
  BY <1>2, EnqueueShape
<1>3. CASE StartTurn
  <2>1. \A i \in DOMAIN requests' : requests'[i].kind = "init" => requests'[i].frames = <<>>
    <3>1. CASE Head(requests).kind = "init"
      <4>1. requests # <<>> /\ requests' = Tail(requests)
        BY <1>3, <3>1 DEF StartTurn
      <4>2. \A i \in DOMAIN requests' : i + 1 \in DOMAIN requests /\ requests'[i] = requests[i + 1]
        BY <4>1 DEF TypeOK
      <4>3. QED
        BY <4>2 DEF ShapeInv
    <3>2. CASE Head(requests).kind # "init"
      BY <1>3, <3>2 DEF StartTurn
    <3>3. QED
      BY <3>1, <3>2
  <2>2. QED
    BY <1>3, <2>1 DEF ShapeInv, StartTurn
<1>4. CASE GuestDeliver
  BY <1>4, GuestDeliverFrame DEF ShapeInv, GuestDeliver, queueVars
<1>5. CASE \E r \in Tasks : WakeTask(r) \/ Sleep(r) \/ TimerDue(r) \/ FinishTask(r)
  BY <1>5 DEF ShapeInv, WakeTask, Sleep, TimerDue, FinishTask, Running, queueVars
<1>6. CASE GuestCall
  BY <1>6 DEF ShapeInv, GuestCall, queueVars
<1>7. CASE EndTurn
  <2>1. turns' = Append(turns, EndedTurn) /\ EndedTurn \in Turn /\ EndedTurn.ok
    BY <1>7, TurnsAppended, LastTurns DEF EndedTurn
  <2>2. QED
    BY <1>7, <2>1, TurnsAt DEF ShapeInv, EndTurn, Running
<1>8. CASE Trap
  <2>1. turns' = Append(turns, TrapTurn) /\ TrapTurn \in Turn
    BY <1>8, TurnsAppended, LastTurns
  <2>2. TrapTurn.frames = <<>> /\ ~TrapTurn.wake
    BY DEF TrapTurn
  <2>3. QED
    BY <1>8, <2>1, <2>2, TurnsAt DEF ShapeInv, Trap
<1>9. CASE ApplyTurn
  <2>1. FlattenSeq(Replies(Head(turns).frames)) \in Seq(Frame)
    BY <1>9, ApplyTurnDoes, RepliesType
  <2>2. QED
    BY <1>9, <2>1, ApplyTurnDoes, SendShape
<1>10. CASE FailPending
  <2>1. turns # <<>> /\ turns' = Tail(turns)
    BY <1>10 DEF FailPending
  <2>2. QED
    BY <1>10, <2>1, TurnsLeft DEF ShapeInv, FailPending, guestVars
<1>11. CASE UNCHANGED vars
  BY <1>11 DEF vars, queueVars, guestVars, ShapeInv
<1>12. QED
  BY <1>1, <1>2, <1>3, <1>4, <1>5, <1>6, <1>7, <1>8, <1>9, <1>10, <1>11 DEF Next, GuestStep

-----------------------------------------------------------------------------
(***************************************************************************)
(* A sleeping guest is woken.                                              *)
(***************************************************************************)
\* What will give the guest its next turn.
WakeComes == requests # <<>> \/ scheduled \/ \E i \in DOMAIN turns : turns[i].wake

LEMMA InitWake == Init => NoLostWake
  BY DEF Init, NoLostWake

\* A request that is queued stays until the worker takes it, and while the
\* worker lives a new one joins it.
LEMMA QueueGrows ==
    ASSUME TypeOK, worker = "waiting"
    PROVE  /\ \A fs \in Seq(Frame) : HostSend(requests, fs) /\ requests # <<>> =>
                                        requests' # <<>>
           /\ \A fs \in Seq(Frame) : HostSend(requests, fs) /\ fs # <<>> =>
                                        requests' # <<>>
           /\ Pump \/ WakeFires => requests' # <<>>
<1>1. worker # "stopped" /\ requests \in Seq(Request)
  BY DEF TypeOK
<1>2. ASSUME NEW fs \in Seq(Frame), HostSend(requests, fs)
      PROVE  requests' = <<>> => requests = <<>> /\ fs = <<>>
  <2>1. PICK rs \in Seq(Request) : requests' = requests \o rs /\ Len(rs) = Len(fs)
    BY <1>1, <1>2, HostSends
  <2>2. Len(requests') = Len(requests) + Len(fs)
    <3>1. Len(requests \o rs) = Len(requests) + Len(rs)
      BY <1>1, ConcatProperties
    <3>2. QED
      BY <2>1, <3>1
  <2>3. Len(requests) \in Nat /\ Len(fs) \in Nat
    BY <1>1
  <2>4. requests' = <<>> => Len(requests) = 0 /\ Len(fs) = 0
    BY <2>2, <2>3
  <2>5. QED
    BY <1>1, <2>4
<1>3. Pump \/ WakeFires => requests' # <<>>
  <2>1. Tick(<<>>) \in Request
    <3>1. <<>> \in Seq(Frame)
      OBVIOUS
    <3>2. QED
      BY <3>1, TickType
  <2>2. Pump \/ WakeFires => requests' = Append(requests, Tick(<<>>))
    BY <1>1 DEF Pump, WakeFires, Enqueue
  <2>3. QED
    BY <1>1, <2>1, <2>2, AppendProperties
<1>4. QED
  BY <1>2, <1>3

LEMMA NextWake == TypeOK /\ ShapeInv /\ NoLostWake /\ [Next]_vars => NoLostWake'
<1> SUFFICES ASSUME TypeOK, ShapeInv, NoLostWake, [Next]_vars, worker' = "waiting",
                    NEW r \in Tasks, task'[r] \in {"asleep", "due"}
             PROVE  WakeComes'
  BY DEF NoLostWake, WakeComes
<1>1. ASSUME worker = "waiting", \E s \in Tasks : task[s] \in {"asleep", "due"}
      PROVE  WakeComes
  BY <1>1 DEF NoLostWake, WakeComes
<1>2. CASE HostCall
  <2>1. worker = "waiting"
    BY <1>2 DEF HostCall
  <2>2. requests' # <<>>
    BY <1>2, <2>1, HostCallSends, QueueGrows
  <2>3. QED
    BY <2>2 DEF WakeComes
<1>3. CASE Pump \/ WakeFires
  <2>1. worker = "waiting"
    BY <1>3 DEF Pump, WakeFires
  <2>2. QED
    BY <1>3, <2>1, QueueGrows DEF WakeComes
<1>4. CASE StartTurn
  BY <1>4 DEF StartTurn
<1>5. CASE GuestDeliver
  BY <1>5 DEF GuestDeliver, queueVars
<1>6. CASE GuestCall
  BY <1>6 DEF GuestCall, queueVars
<1>7. CASE \E s \in Tasks : WakeTask(s) \/ Sleep(s) \/ FinishTask(s)
  BY <1>7 DEF WakeTask, Sleep, FinishTask, Running, queueVars
<1>8. CASE \E s \in Tasks : TimerDue(s)
  <2>1. \E s \in Tasks : task[s] \in {"asleep", "due"}
    BY <1>8 DEF TimerDue
  <2>2. QED
    BY <1>1, <1>8, <2>1 DEF TimerDue, queueVars, WakeComes
<1>9. CASE EndTurn
  <2>1. turns' = Append(turns, EndedTurn) /\ EndedTurn \in Turn
    BY <1>9, TurnsAppended, LastTurns
  <2>2. task[r] = "asleep"
    BY <1>9 DEF EndTurn
  <2>3. EndedTurn.wake
    BY <2>2 DEF EndedTurn
  <2>4. QED
    BY <2>1, <2>3, TurnsAt DEF WakeComes
<1>10. CASE Trap
  BY <1>10 DEF Trap
<1>11. CASE ApplyTurn
  <2>1. /\ worker = "waiting" /\ task' = task /\ turns # <<>> /\ turns' = Tail(turns)
        /\ scheduled' = (scheduled \/ Head(turns).wake)
    BY <1>11, ApplyTurnDoes DEF guestVars
  <2>2. WakeComes
    BY <1>1, <2>1
  <2>3. CASE requests # <<>>
    <3>1. FlattenSeq(Replies(Head(turns).frames)) \in Seq(Frame)
      BY <1>11, ApplyTurnDoes, RepliesType
    <3>2. requests' # <<>>
      BY <1>11, <2>1, <2>3, <3>1, ApplyTurnDoes, QueueGrows
    <3>3. QED
      BY <3>2 DEF WakeComes
  <2>4. CASE scheduled
    BY <2>1, <2>4 DEF WakeComes
  <2>5. CASE \E i \in DOMAIN turns : turns[i].wake
    BY <2>1, <2>5, TurnsLeft DEF WakeComes
  <2>6. QED
    BY <2>2, <2>3, <2>4, <2>5 DEF WakeComes
<1>12. CASE FailPending
  <2>1. /\ worker = "waiting" /\ task' = task /\ turns # <<>> /\ turns' = Tail(turns)
        /\ scheduled' = scheduled /\ requests' = requests /\ ~Head(turns).ok
    BY <1>12 DEF FailPending, guestVars
  <2>2. ~Head(turns).wake
    BY <2>1, TurnsLeft DEF ShapeInv
  <2>3. WakeComes
    BY <1>1, <2>1
  <2>4. QED
    BY <2>1, <2>2, <2>3, TurnsLeft DEF WakeComes
<1>13. CASE UNCHANGED vars
  BY <1>1, <1>13 DEF vars, queueVars, guestVars, WakeComes
<1>14. QED
  BY <1>2, <1>3, <1>4, <1>5, <1>6, <1>7, <1>8, <1>9, <1>10, <1>11, <1>12, <1>13
     DEF Next, GuestStep

\* A guest that sleeps is woken: a timer without a running or queued turn has
\* a wakeup scheduled, or in a turn that the pump has yet to apply.
THEOREM SleepersWake == Spec => []NoLostWake
<1>1. Init => TypeOK /\ ShapeInv /\ NoLostWake
  BY InitType, InitShape, InitWake
<1>2. TypeOK /\ ShapeInv /\ NoLostWake /\ [Next]_vars =>
         TypeOK' /\ ShapeInv' /\ NoLostWake'
  BY NextType, NextShape, NextWake
<1>3. QED
  BY <1>1, <1>2, PTL DEF Spec

-----------------------------------------------------------------------------
(***************************************************************************)
(* The frames of an end flow through: a step takes some from the front,    *)
(* and puts some, numbered on, at the end.                                 *)
(***************************************************************************)
HostFrames == inbound \o FramesOf(requests)
GuestFrames == FramesOf(turns) \o outbound

\* Frames d arrive, m stay and fs are new.
FlowOf(e, q, r, d, m, fs) ==
    /\ q = d \o m /\ r = m \o fs
    /\ got'[e] = got[e] + Len(d)
    /\ sent'[e] = sent[e] + Len(fs)
    /\ \A i \in 1 .. Len(fs) : fs[i].n = sent[e] + i
    /\ worker = "stopped" => fs = <<>>

Flows(e, q, r) ==
    \E d \in Seq(Frame), m \in Seq(Frame), fs \in Seq(Frame) : FlowOf(e, q, r, d, m, fs)

LEMMA FramesType ==
    ASSUME TypeOK
    PROVE  HostFrames \in Seq(Frame) /\ GuestFrames \in Seq(Frame)
<1>1. /\ FramesOf(requests) \in Seq(Frame) /\ FramesOf(turns) \in Seq(Frame)
      /\ inbound \in Seq(Frame) /\ outbound \in Seq(Frame)
  BY QueuesType DEF TypeOK
<1>2. QED
  BY <1>1, ConcatProperties DEF HostFrames, GuestFrames

\* Nothing arrives and nothing is sent.
LEMMA FlowStays ==
    ASSUME TypeOK, NEW e \in {"host", "guest"}, NEW q \in Seq(Frame),
           got'[e] = got[e], sent'[e] = sent[e]
    PROVE  Flows(e, q, q)
<1> DEFINE none == <<>>
<1>1. none \in Seq(Frame) /\ Len(none) = 0 /\ 1 .. Len(none) = {}
  OBVIOUS
<1>2. none \o q = q /\ q \o none = q
  BY ConcatEmptySeq
<1>3. got[e] \in Nat /\ sent[e] \in Nat
  BY DEF TypeOK
<1>4. none = <<>>
  OBVIOUS
<1> HIDE DEF none
<1>5. FlowOf(e, q, q, none, q, none)
  BY <1>1, <1>2, <1>3, <1>4 DEF FlowOf
<1>6. QED
  BY <1>1, <1>5 DEF Flows

\* The frames fs are sent.
LEMMA FlowSends ==
    ASSUME TypeOK, NEW e \in {"host", "guest"}, NEW q \in Seq(Frame),
           NEW fs \in Seq(Frame),
           worker # "stopped", got'[e] = got[e], sent'[e] = sent[e] + Len(fs),
           \A i \in 1 .. Len(fs) : fs[i].n = sent[e] + i
    PROVE  Flows(e, q, q \o fs)
<1> DEFINE none == <<>>
<1>1. none \in Seq(Frame) /\ Len(none) = 0
  OBVIOUS
<1>2. none \o q = q
  BY ConcatEmptySeq
<1>3. got[e] \in Nat
  BY DEF TypeOK
<1> HIDE DEF none
<1>4. FlowOf(e, q, q \o fs, none, q, fs)
  BY <1>1, <1>2, <1>3 DEF FlowOf
<1>5. QED
  BY <1>1, <1>4 DEF Flows

\* The frames d arrive.
LEMMA FlowArrives ==
    ASSUME TypeOK, NEW e \in {"host", "guest"}, NEW q \in Seq(Frame),
           NEW d \in Seq(Frame), NEW m \in Seq(Frame), q = d \o m,
           got'[e] = got[e] + Len(d), sent'[e] = sent[e]
    PROVE  Flows(e, q, m)
<1> DEFINE none == <<>>
<1>1. none \in Seq(Frame) /\ Len(none) = 0 /\ 1 .. Len(none) = {}
  OBVIOUS
<1>2. m \o none = m
  BY ConcatEmptySeq
<1>3. sent[e] \in Nat
  BY DEF TypeOK
<1>4. none = <<>>
  OBVIOUS
<1> HIDE DEF none
<1>5. FlowOf(e, q, m, d, m, none)
  BY <1>1, <1>2, <1>3, <1>4 DEF FlowOf
<1>6. QED
  BY <1>1, <1>5 DEF Flows

\* A host's frames go behind the others.
LEMMA SendFlows ==
    ASSUME TypeOK, NEW fs \in Seq(Frame), HostSend(requests, fs),
           inbound' = inbound, got'["host"] = got["host"]
    PROVE  /\ Flows("host", HostFrames, HostFrames')
           /\ sent'["guest"] = sent["guest"]
           /\ worker # "stopped" => HostFrames' = HostFrames \o Numbered(fs)
           /\ worker = "stopped" => HostFrames' = HostFrames
<1>1. HostFrames \in Seq(Frame)
  BY FramesType
<1>2. CASE worker = "stopped"
  <2>1. requests' = requests /\ sent' = sent
    BY <1>2 DEF HostSend
  <2>2. HostFrames' = HostFrames
    BY <2>1 DEF HostFrames, FramesOf
  <2>3. QED
    BY <1>1, <1>2, <2>1, <2>2, FlowStays
<1>3. CASE worker # "stopped"
  <2>1. PICK rs \in Seq(Request) : requests' = requests \o rs /\ FramesOf(rs) = Numbered(fs)
    BY <1>3, HostSends
  <2>2. FramesOf(requests \o rs) = FramesOf(requests) \o FramesOf(rs)
    <3>1. requests \in Seq(Request)
      BY DEF TypeOK
    <3>2. QED
      BY <3>1, FramesOfConcat, RequestTurn
  <2>3. /\ Numbered(fs) \in Seq(Frame) /\ Len(Numbered(fs)) = Len(fs)
        /\ \A i \in 1 .. Len(fs) : Numbered(fs)[i].n = sent["host"] + i
    BY NumberedType
  <2>4. HostFrames' = HostFrames \o Numbered(fs)
    <3>1. inbound \in Seq(Frame) /\ FramesOf(requests) \in Seq(Frame)
      BY QueuesType DEF TypeOK
    <3>2. inbound \o (FramesOf(requests) \o Numbered(fs))
             = (inbound \o FramesOf(requests)) \o Numbered(fs)
      <4>1. Associates(inbound, FramesOf(requests), Numbered(fs))
        BY <2>3, <3>1, ConcatAssociates
      <4>2. QED
        BY <4>1 DEF Associates
    <3>3. HostFrames' = inbound \o FramesOf(requests \o rs)
      BY <2>1 DEF HostFrames, FramesOf
    <3>4. QED
      BY <2>1, <2>2, <3>2, <3>3 DEF HostFrames
  <2>5. sent'["host"] = sent["host"] + Len(fs) /\ sent'["guest"] = sent["guest"]
    BY <1>3, HostSends DEF TypeOK
  <2>6. Flows("host", HostFrames, HostFrames \o Numbered(fs))
    BY <1>1, <1>3, <2>3, <2>5, FlowSends
  <2>7. QED
    BY <1>3, <2>4, <2>5, <2>6
<1>4. QED
  BY <1>2, <1>3

\* A frame of the guest goes behind the others.
LEMMA GuestSendFlows ==
    ASSUME TypeOK, NEW kind \in {"call", "response"}, NEW r \in Nat, GuestSend(kind, r),
           worker # "stopped", turns' = turns, got'["guest"] = got["guest"]
    PROVE  /\ Flows("guest", GuestFrames, GuestFrames')
           /\ sent'["host"] = sent["host"]
           /\ GuestFrames' = GuestFrames \o <<GuestFrame(kind, r)>>
<1> DEFINE f == GuestFrame(kind, r)
           fs == <<f>>
<1>1. /\ f \in Frame /\ outbound' = Append(outbound, f)
      /\ sent' = [sent EXCEPT !["guest"] = @ + 1]
  BY GuestSends
<1>2. /\ outbound \in Seq(Frame) /\ FramesOf(turns) \in Seq(Frame)
      /\ GuestFrames \in Seq(Frame)
  BY FramesType, QueuesType DEF TypeOK
<1>3. f.n = sent["guest"] + 1
  BY DEF GuestFrame
<1> HIDE DEF f
<1>4. fs \in Seq(Frame) /\ Len(fs) = 1 /\ fs[1] = f
  BY <1>1
<1>5. outbound' = outbound \o fs
  BY <1>1, <1>2, AppendIsConcat
<1> HIDE DEF fs
<1>6. GuestFrames' = GuestFrames \o fs
  <2>1. GuestFrames' = FramesOf(turns) \o (outbound \o fs)
    BY <1>5 DEF GuestFrames, FramesOf
  <2>2. FramesOf(turns) \o (outbound \o fs) = (FramesOf(turns) \o outbound) \o fs
    <3>1. FramesOf(turns) \in Seq(Frame) /\ outbound \in Seq(Frame) /\ fs \in Seq(Frame)
      BY <1>2, <1>4
    <3>2. Associates(FramesOf(turns), outbound, fs)
      BY <3>1, ConcatAssociates
    <3>3. QED
      BY <3>2 DEF Associates
  <2>3. QED
    BY <2>1, <2>2 DEF GuestFrames
<1>7. sent'["guest"] = sent["guest"] + Len(fs) /\ sent'["host"] = sent["host"]
  BY <1>1, <1>4 DEF TypeOK
<1>8. \A i \in 1 .. Len(fs) : fs[i].n = sent["guest"] + i
  BY <1>3, <1>4
<1>9. Flows("guest", GuestFrames, GuestFrames \o fs)
  BY <1>2, <1>4, <1>7, <1>8, FlowSends
<1>10. QED
  BY <1>6, <1>7, <1>9 DEF fs, f

\* What is on the way, action by action.
LEMMA EnqueueFrames ==
    ASSUME TypeOK, Pump \/ WakeFires
    PROVE  HostFrames' = HostFrames /\ GuestFrames' = GuestFrames
<1> DEFINE none == <<>>
           x == Tick(none)
<1>1. none \in Seq(Frame)
  OBVIOUS
<1>2. x \in Request /\ x.frames = none
  BY <1>1, TickType
<1>3. requests' = requests \/ requests' = Append(requests, x)
  BY DEF Pump, WakeFires, Enqueue
<1>4. inbound' = inbound /\ outbound' = outbound /\ turns' = turns
  BY DEF Pump, WakeFires, guestVars
<1> HIDE DEF x, none
<1>5. /\ requests \in Seq(Request)
      /\ FramesOf(Append(requests, x)) = FramesOf(requests) \o none
  BY <1>2, FramesOfAppend, RequestTurn DEF TypeOK
<1>6. FramesOf(requests) \o none = FramesOf(requests)
  BY QueuesType, ConcatEmptySeq DEF none
<1>7. FramesOf(requests)' = FramesOf(requests)
  BY <1>3, <1>5, <1>6 DEF FramesOf
<1>8. QED
  BY <1>4, <1>7 DEF HostFrames, GuestFrames, FramesOf

LEMMA StartTurnFrames ==
    ASSUME TypeOK, ShapeInv, StartTurn
    PROVE  HostFrames' = HostFrames /\ GuestFrames' = GuestFrames
<1>1. /\ inbound = <<>> /\ requests # <<>> /\ requests \in Seq(Request)
      /\ outbound' = outbound /\ turns' = turns
  BY DEF StartTurn, ShapeInv, TypeOK
<1>2. FramesOf(requests) \in Seq(Frame)
  BY QueuesType
<1>3. HostFrames = FramesOf(requests)
  BY <1>1, <1>2, ConcatEmptySeq DEF HostFrames
<1>4. CASE Head(requests).kind = "init"
  <2>1. inbound' = <<>> /\ requests' = Tail(requests)
    BY <1>1, <1>4 DEF StartTurn
  <2>2. Head(requests).frames = <<>>
    <3>1. 1 \in DOMAIN requests /\ Head(requests) = requests[1]
      BY <1>1
    <3>2. QED
      BY <1>4, <3>1 DEF ShapeInv
  <2>3. FramesOf(requests) = Head(requests).frames \o FramesOf(Tail(requests))
    BY <1>1, FramesOfTail, RequestTurn
  <2>4. HostFrames' = <<>> \o FramesOf(Tail(requests))
    BY <2>1 DEF HostFrames, FramesOf
  <2>5. QED
    BY <1>1, <1>3, <2>2, <2>3, <2>4 DEF GuestFrames, FramesOf
<1>5. CASE Head(requests).kind # "init"
  <2>1. inbound' = FramesOf(requests) /\ requests' = <<>>
    BY <1>1, <1>5, QueuesType DEF StartTurn
  <2>2. FramesOf(<<>>) = <<>>
    <3>1. [i \in DOMAIN <<>> |-> <<>>[i].frames] = <<>>
      OBVIOUS
    <3>2. QED
      BY <3>1, FlattenEmpty DEF FramesOf
  <2>3. HostFrames' = FramesOf(requests) \o <<>>
    BY <2>1, <2>2 DEF HostFrames, FramesOf
  <2>4. FramesOf(requests) \o <<>> = FramesOf(requests)
    BY <1>2, ConcatEmptySeq
  <2>5. QED
    BY <1>1, <1>3, <2>3, <2>4 DEF GuestFrames, FramesOf
<1>6. QED
  BY <1>4, <1>5

LEMMA GuestDeliverFrames ==
    ASSUME TypeOK, GuestDeliver
    PROVE  HostFrames' \in Seq(Frame) /\ HostFrames = <<Head(inbound)>> \o HostFrames'
<1> DEFINE f == Head(inbound)
           one == <<f>>
           fs == Tail(inbound)
<1>1. /\ inbound # <<>> /\ inbound' = fs /\ requests' = requests
      /\ f \in Frame /\ fs \in Seq(Frame)
  BY GuestDeliverFrame DEF queueVars
<1>2. one \in Seq(Frame) /\ inbound = one \o fs /\ FramesOf(requests) \in Seq(Frame)
  BY <1>1, QueuesType DEF TypeOK
<1>3. HostFrames' = fs \o FramesOf(requests)
  BY <1>1 DEF HostFrames, FramesOf
<1> HIDE DEF one, fs
<1>4. (one \o fs) \o FramesOf(requests) = one \o (fs \o FramesOf(requests))
  <2>1. Associates(one, fs, FramesOf(requests))
    BY <1>1, <1>2, ConcatAssociates
  <2>2. QED
    BY <2>1 DEF Associates
<1>5. fs \o FramesOf(requests) \in Seq(Frame)
  BY <1>1, <1>2, ConcatProperties
<1>6. HostFrames = one \o HostFrames'
  BY <1>2, <1>3, <1>4 DEF HostFrames
<1>7. QED
  BY <1>3, <1>5, <1>6 DEF one

LEMMA EndTurnFrames ==
    ASSUME TypeOK, EndTurn
    PROVE  HostFrames' = HostFrames /\ GuestFrames' = GuestFrames
<1>1. /\ turns' = Append(turns, EndedTurn) /\ EndedTurn \in Turn
      /\ EndedTurn.frames = outbound
  BY TurnsAppended, LastTurns DEF EndedTurn
<1>2. /\ turns \in Seq(Turn) /\ outbound \in Seq(Frame) /\ FramesOf(turns) \in Seq(Frame)
      /\ GuestFrames \in Seq(Frame)
  BY QueuesType, FramesType DEF TypeOK
<1>3. FramesOf(Append(turns, EndedTurn)) = FramesOf(turns) \o outbound
  BY <1>1, <1>2, FramesOfAppend, RequestTurn
<1>4. outbound' = <<>> /\ inbound' = inbound /\ requests' = requests
  BY DEF EndTurn
<1>5. GuestFrames' = GuestFrames \o <<>>
  BY <1>1, <1>3, <1>4 DEF GuestFrames, FramesOf
<1>6. QED
  BY <1>2, <1>4, <1>5, ConcatEmptySeq DEF HostFrames, FramesOf

LEMMA TrapFrames ==
    ASSUME TypeOK, Trap
    PROVE  /\ HostFrames' = <<>>
           /\ GuestFrames' \in Seq(Frame) /\ GuestFrames = GuestFrames' \o outbound
<1>1. turns' = Append(turns, TrapTurn) /\ TrapTurn \in Turn /\ TrapTurn.frames = <<>>
  BY TurnsAppended, LastTurns DEF TrapTurn
<1>2. turns \in Seq(Turn) /\ FramesOf(turns) \in Seq(Frame)
  BY QueuesType DEF TypeOK
<1>3. FramesOf(Append(turns, TrapTurn)) = FramesOf(turns) \o <<>>
  BY <1>1, <1>2, FramesOfAppend, RequestTurn
<1>4. FramesOf(turns) \o <<>> = FramesOf(turns)
  BY <1>2, ConcatEmptySeq
<1>5. outbound' = <<>> /\ inbound' = <<>> /\ requests' = <<>>
  BY DEF Trap
<1>6. GuestFrames' = FramesOf(turns)
  BY <1>1, <1>3, <1>4, <1>5 DEF GuestFrames, FramesOf
<1>7. FramesOf(<<>>) = <<>>
  <2>1. [i \in DOMAIN <<>> |-> <<>>[i].frames] = <<>>
    OBVIOUS
  <2>2. QED
    BY <2>1, FlattenEmpty DEF FramesOf
<1>8. HostFrames' = <<>>
  <2>1. HostFrames' = <<>> \o FramesOf(<<>>)
    BY <1>5 DEF HostFrames, FramesOf
  <2>2. QED
    BY <1>7, <2>1
<1>9. QED
  BY <1>2, <1>6, <1>8 DEF GuestFrames

\* The pump takes the first turn.
LEMMA TurnFrames ==
    ASSUME TypeOK, turns # <<>>, turns' = Tail(turns), outbound' = outbound
    PROVE  /\ GuestFrames' \in Seq(Frame)
           /\ GuestFrames = Head(turns).frames \o GuestFrames'
<1> DEFINE first == Head(turns).frames
           rest == FramesOf(Tail(turns))
<1>1. /\ turns \in Seq(Turn) /\ Head(turns) \in Turn /\ Tail(turns) \in Seq(Turn)
      /\ outbound \in Seq(Frame)
  BY HeadTailProperties DEF TypeOK
<1>2. first \in Seq(Frame) /\ rest \in Seq(Frame)
  BY <1>1, RequestTurn, FramesOfType
<1>3. FramesOf(turns) = first \o rest
  BY <1>1, FramesOfTail, RequestTurn
<1>4. GuestFrames' = rest \o outbound
  BY DEF GuestFrames, FramesOf
<1> HIDE DEF first, rest
<1>5. (first \o rest) \o outbound = first \o (rest \o outbound)
  <2>1. Associates(first, rest, outbound)
    BY <1>1, <1>2, ConcatAssociates
  <2>2. QED
    BY <2>1 DEF Associates
<1>6. rest \o outbound \in Seq(Frame)
  BY <1>1, <1>2, ConcatProperties
<1>7. GuestFrames = first \o GuestFrames'
  BY <1>3, <1>4, <1>5 DEF GuestFrames
<1>8. QED
  BY <1>4, <1>6, <1>7 DEF first

LEMMA FailPendingFrames ==
    ASSUME TypeOK, ShapeInv, FailPending
    PROVE  HostFrames' = HostFrames /\ GuestFrames' = GuestFrames
<1>1. /\ turns # <<>> /\ turns' = Tail(turns) /\ ~Head(turns).ok
      /\ outbound' = outbound /\ inbound' = inbound /\ requests' = requests
  BY DEF FailPending, guestVars
<1>2. Head(turns).frames = <<>>
  BY <1>1, TurnsLeft DEF ShapeInv
<1>3. GuestFrames' \in Seq(Frame) /\ GuestFrames = <<>> \o GuestFrames'
  BY <1>1, <1>2, TurnFrames
<1>4. QED
  BY <1>1, <1>3, ConcatEmptySeq DEF HostFrames, FramesOf

\* Every step but a trap lets the frames flow.
LEMMA StepFlows ==
    ASSUME TypeOK, ShapeInv, [Next]_vars, ~Trap
    PROVE  /\ Flows("host", HostFrames, HostFrames')
           /\ Flows("guest", GuestFrames, GuestFrames')
           /\ worker' = "stopped" <=> worker = "stopped"
<1>1. /\ HostFrames \in Seq(Frame) /\ GuestFrames \in Seq(Frame)
      /\ got \in [{"host", "guest"} -> Nat] /\ sent \in [{"host", "guest"} -> Nat]
  BY FramesType DEF TypeOK
<1>2. ASSUME HostFrames' = HostFrames, GuestFrames' = GuestFrames,
             got' = got, sent' = sent, worker' = "stopped" <=> worker = "stopped"
      PROVE  /\ Flows("host", HostFrames, HostFrames')
             /\ Flows("guest", GuestFrames, GuestFrames')
             /\ worker' = "stopped" <=> worker = "stopped"
  BY <1>1, <1>2, FlowStays
<1>3. CASE HostCall
  <2>1. /\ inbound' = inbound /\ outbound' = outbound /\ turns' = turns
        /\ got' = got /\ worker' = worker
    BY <1>3, HostCallSends DEF guestVars
  <2>2. GuestFrames' = GuestFrames
    BY <2>1 DEF GuestFrames, FramesOf
  <2>3. Flows("host", HostFrames, HostFrames') /\ sent'["guest"] = sent["guest"]
    BY <1>3, <2>1, HostCallSends, SendFlows
  <2>4. QED
    BY <1>1, <2>1, <2>2, <2>3, FlowStays
<1>4. CASE Pump \/ WakeFires
  BY <1>2, <1>4, EnqueueFrames DEF Pump, WakeFires
<1>5. CASE StartTurn
  BY <1>2, <1>5, StartTurnFrames DEF StartTurn
<1>6. CASE GuestDeliver
  <2> DEFINE d == <<Head(inbound)>>
  <2>1. /\ HostFrames' \in Seq(Frame) /\ HostFrames = d \o HostFrames'
        /\ Head(inbound) \in Frame /\ Head(inbound).request \in Nat
        /\ worker' = worker /\ worker # "stopped" /\ turns' = turns
        /\ got'["host"] = got["host"] + 1 /\ got'["guest"] = got["guest"]
    BY <1>1, <1>6, GuestDeliverFrames, GuestDeliverFrame DEF queueVars, GuestDeliver
  <2>2. d \in Seq(Frame) /\ Len(d) = 1
    BY <2>1
  <2> HIDE DEF d
  <2>3. sent'["host"] = sent["host"] /\ Flows("guest", GuestFrames, GuestFrames')
    <3>1. CASE UNCHANGED <<outbound, sent>>
      <4>1. GuestFrames' = GuestFrames
        BY <2>1, <3>1 DEF GuestFrames, FramesOf
      <4>2. QED
        BY <1>1, <2>1, <3>1, <4>1, FlowStays
    <3>2. CASE GuestSend("response", Head(inbound).request)
      BY <2>1, <3>2, GuestSendFlows
    <3>3. QED
      BY <1>6, <3>1, <3>2, GuestDeliverFrame
  <2>4. Flows("host", HostFrames, HostFrames')
    BY <1>1, <2>1, <2>2, <2>3, FlowArrives
  <2>5. QED
    BY <2>1, <2>3, <2>4
<1>7. CASE \E r \in Tasks : WakeTask(r) \/ Sleep(r) \/ TimerDue(r)
  <2>1. /\ inbound' = inbound /\ outbound' = outbound /\ turns' = turns
        /\ requests' = requests /\ got' = got /\ sent' = sent /\ worker' = worker
    BY <1>7 DEF WakeTask, Sleep, TimerDue, queueVars
  <2>2. QED
    BY <1>2, <2>1 DEF HostFrames, GuestFrames, FramesOf
<1>8. CASE \E r \in Tasks : FinishTask(r)
  <2>1. PICK r \in Tasks : FinishTask(r)
    BY <1>8
  <2>2. /\ inbound' = inbound /\ turns' = turns /\ requests' = requests
        /\ got' = got /\ worker' = worker /\ worker # "stopped"
    BY <2>1 DEF FinishTask, Running, queueVars
  <2>3. HostFrames' = HostFrames
    BY <2>2 DEF HostFrames, FramesOf
  <2>4. CASE r = 0
    <3>1. outbound' = outbound /\ sent' = sent
      BY <2>1, <2>4 DEF FinishTask
    <3>2. QED
      BY <1>2, <2>2, <2>3, <3>1 DEF GuestFrames, FramesOf
  <2>5. CASE r # 0
    <3>1. GuestSend("response", r) /\ r \in Nat
      BY <2>1, <2>5, BoundsAssumption DEF FinishTask, Tasks
    <3>2. Flows("guest", GuestFrames, GuestFrames') /\ sent'["host"] = sent["host"]
      BY <2>2, <3>1, GuestSendFlows
    <3>3. QED
      BY <1>1, <2>2, <2>3, <3>2, FlowStays
  <2>6. QED
    BY <2>4, <2>5
<1>9. CASE GuestCall
  <2>1. /\ inbound' = inbound /\ turns' = turns /\ requests' = requests
        /\ got' = got /\ worker' = worker /\ worker # "stopped"
        /\ GuestSend("call", guestCalls') /\ guestCalls' \in Nat
    BY <1>9 DEF GuestCall, queueVars, TypeOK
  <2>2. HostFrames' = HostFrames
    BY <2>1 DEF HostFrames, FramesOf
  <2>3. Flows("guest", GuestFrames, GuestFrames') /\ sent'["host"] = sent["host"]
    BY <2>1, GuestSendFlows
  <2>4. QED
    BY <1>1, <2>1, <2>2, <2>3, FlowStays
<1>10. CASE EndTurn
  BY <1>2, <1>10, EndTurnFrames DEF EndTurn, Running
<1>11. CASE ApplyTurn
  <2> DEFINE t == Head(turns)
             fs == FlattenSeq(Replies(t.frames))
  <2>1. /\ turns # <<>> /\ turns' = Tail(turns) /\ t.frames \in Seq(Frame)
        /\ HostSend(requests, fs)
        /\ inbound' = inbound /\ outbound' = outbound /\ worker' = worker
        /\ got'["host"] = got["host"]
        /\ got'["guest"] = got["guest"] + Len(t.frames)
    BY <1>1, <1>11, ApplyTurnDoes DEF guestVars
  <2>2. fs \in Seq(Frame)
    BY <2>1, RepliesType
  <2>3. GuestFrames' \in Seq(Frame) /\ GuestFrames = t.frames \o GuestFrames'
    BY <2>1, TurnFrames
  <2> HIDE DEF t, fs
  <2>4. Flows("host", HostFrames, HostFrames') /\ sent'["guest"] = sent["guest"]
    BY <2>1, <2>2, SendFlows
  <2>5. Flows("guest", GuestFrames, GuestFrames')
    BY <1>1, <2>1, <2>3, <2>4, FlowArrives
  <2>6. QED
    BY <2>1, <2>4, <2>5
<1>12. CASE FailPending
  BY <1>2, <1>12, FailPendingFrames DEF FailPending
<1>13. CASE UNCHANGED vars
  <2>1. /\ inbound' = inbound /\ outbound' = outbound /\ turns' = turns
        /\ requests' = requests /\ got' = got /\ sent' = sent /\ worker' = worker
    BY <1>13 DEF vars, queueVars, guestVars
  <2>2. QED
    BY <1>2, <2>1 DEF HostFrames, GuestFrames, FramesOf
<1>14. QED
  BY <1>3, <1>4, <1>5, <1>6, <1>7, <1>8, <1>9, <1>10, <1>11, <1>12, <1>13 DEF Next, GuestStep

-----------------------------------------------------------------------------
(***************************************************************************)
(* The transport is a pipe.                                                *)
(***************************************************************************)
\* The frames q of e on their way are the next ones, in order, and while the
\* transport is open the last of them is the last one sent.
Lined(e, q) ==
    /\ \A i \in 1 .. Len(q) : q[i].n = got[e] + i
    /\ worker # "stopped" => sent[e] = got[e] + Len(q)

LinedInv == Lined("host", HostFrames) /\ Lined("guest", GuestFrames)

\* What Pipe says of a step, in frames.
Passes(e, q, r) ==
    /\ got'[e] - got[e] \in 0 .. Len(q)
    /\ Len(r) >= Len(q) - (got'[e] - got[e])
    /\ \A i \in 1 .. Len(r) : r[i].n = got'[e] + i
    /\ worker = "stopped" => Len(r) = Len(q) - (got'[e] - got[e])

LEMMA FlowPasses ==
    ASSUME TypeOK, NEW e \in {"host", "guest"}, NEW q, NEW r,
           Lined(e, q), Flows(e, q, r)
    PROVE  /\ Passes(e, q, r)
           /\ worker # "stopped" => sent'[e] = got'[e] + Len(r)
<1>1. PICK d \in Seq(Frame), m \in Seq(Frame), fs \in Seq(Frame) :
         FlowOf(e, q, r, d, m, fs)
  BY DEF Flows
<1>2. /\ Len(d) \in Nat /\ Len(m) \in Nat /\ Len(fs) \in Nat
      /\ got[e] \in Nat /\ sent[e] \in Nat
  BY DEF TypeOK
<1>3. /\ Len(d \o m) = Len(d) + Len(m)
      /\ \A i \in 1 .. Len(d) + Len(m) : (d \o m)[i] = IF i <= Len(d) THEN d[i]
                                                       ELSE m[i - Len(d)]
  BY ConcatProperties
<1>4. /\ Len(m \o fs) = Len(m) + Len(fs)
      /\ \A i \in 1 .. Len(m) + Len(fs) : (m \o fs)[i] = IF i <= Len(m) THEN m[i]
                                                         ELSE fs[i - Len(m)]
  BY ConcatProperties
<1>5. /\ q = d \o m /\ r = m \o fs
      /\ got'[e] = got[e] + Len(d) /\ sent'[e] = sent[e] + Len(fs)
      /\ \A i \in 1 .. Len(fs) : fs[i].n = sent[e] + i
      /\ worker = "stopped" => fs = <<>>
  BY <1>1 DEF FlowOf
<1>6. Len(q) = Len(d) + Len(m) /\ Len(r) = Len(m) + Len(fs)
  BY <1>3, <1>4, <1>5
<1>7. \A i \in 1 .. Len(m) : m[i].n = got'[e] + i
  <2> TAKE i \in 1 .. Len(m)
  <2>1. /\ Len(d) + i \in 1 .. Len(d) + Len(m)
        /\ ~(Len(d) + i <= Len(d)) /\ (Len(d) + i) - Len(d) = i
    BY <1>2
  <2>2. (d \o m)[Len(d) + i] = m[i]
    BY <1>3, <2>1
  <2>3. m[i].n = got[e] + (Len(d) + i)
    BY <1>5, <1>6, <2>1, <2>2 DEF Lined
  <2>4. QED
    BY <1>2, <1>5, <2>3
<1>8. worker = "stopped" => Len(fs) = 0
  BY <1>5
<1>9. \A i \in 1 .. Len(r) : r[i].n = got'[e] + i
  <2> TAKE i \in 1 .. Len(r)
  <2>1. CASE i <= Len(m)
    <3>1. i \in 1 .. Len(m) /\ i \in 1 .. Len(m) + Len(fs)
      BY <1>2, <1>6, <2>1
    <3>2. r[i] = m[i]
      BY <1>4, <1>5, <2>1, <3>1
    <3>3. QED
      BY <1>7, <3>1, <3>2
  <2>2. CASE ~(i <= Len(m))
    <3>1. i - Len(m) \in 1 .. Len(fs) /\ i \in 1 .. Len(m) + Len(fs)
      BY <1>2, <1>6, <2>2
    <3>2. r[i] = fs[i - Len(m)]
      BY <1>4, <1>5, <2>2, <3>1
    <3>3. fs[i - Len(m)].n = sent[e] + (i - Len(m))
      BY <1>5, <3>1
    <3>4. worker # "stopped"
      BY <1>2, <1>8, <3>1
    <3>5. sent[e] = got[e] + (Len(d) + Len(m))
      BY <1>6, <3>4 DEF Lined
    <3>6. i \in Int
      OBVIOUS
    <3>7. QED
      BY <1>2, <1>5, <3>2, <3>3, <3>5, <3>6
  <2>3. QED
    BY <2>1, <2>2
<1>10. worker # "stopped" => sent'[e] = got'[e] + Len(r)
  BY <1>2, <1>5, <1>6 DEF Lined
<1>11. got'[e] - got[e] = Len(d)
  BY <1>2, <1>5
<1>12. QED
  BY <1>2, <1>6, <1>8, <1>9, <1>10, <1>11 DEF Passes

LEMMA InitFrames ==
    ASSUME Init
    PROVE  HostFrames = <<>> /\ GuestFrames = <<>>
<1> DEFINE first == [kind |-> "init", frames |-> <<>>]
           none == <<>>
<1>1. none \in Seq(Frame) /\ none \o none = none /\ Len(none) = 0
  OBVIOUS
<1>2. FramesOf(requests) = none
  <2>1. [i \in DOMAIN requests |-> requests[i].frames] = <<none>>
    BY DEF Init
  <2>2. FlattenSeq(<<none>>) = none
    <3> HIDE DEF none
    <3>1. QED
      BY <1>1, FlattenOne
  <2>3. QED
    BY <2>1, <2>2 DEF FramesOf
<1>3. FramesOf(turns) = none
  <2>1. [i \in DOMAIN turns |-> turns[i].frames] = none
    BY DEF Init
  <2>2. QED
    BY <2>1, FlattenEmpty DEF FramesOf
<1>4. inbound = none /\ outbound = none
  BY DEF Init
<1>5. HostFrames = none /\ GuestFrames = none
  BY <1>1, <1>2, <1>3, <1>4 DEF HostFrames, GuestFrames
<1>6. QED
  BY <1>5

LEMMA InitLined == Init => LinedInv
<1> SUFFICES ASSUME Init
             PROVE  LinedInv
  OBVIOUS
<1>1. HostFrames = <<>> /\ GuestFrames = <<>>
  BY InitFrames
<1>2. Len(<<>>) = 0 /\ 1 .. 0 = {}
  OBVIOUS
<1>3. got["host"] = 0 /\ got["guest"] = 0 /\ sent["host"] = 0 /\ sent["guest"] = 0
  BY DEF Init
<1>4. QED
  BY <1>1, <1>2, <1>3 DEF LinedInv, Lined

LEMMA TrapLined ==
    ASSUME TypeOK, LinedInv, Trap
    PROVE  LinedInv'
<1>1. /\ HostFrames' = <<>> /\ GuestFrames' \in Seq(Frame)
      /\ GuestFrames = GuestFrames' \o outbound /\ outbound \in Seq(Frame)
      /\ got' = got /\ worker' = "stopped"
  BY TrapFrames DEF Trap, TypeOK
<1> DEFINE q == GuestFrames
           r == GuestFrames'
<1>2. /\ Len(r) \in Nat /\ Len(outbound) \in Nat
      /\ Len(q) = Len(r) + Len(outbound)
      /\ \A i \in 1 .. Len(r) : q[i] = r[i]
  <2>1. /\ Len(r \o outbound) = Len(r) + Len(outbound)
        /\ \A i \in 1 .. Len(r) + Len(outbound) :
              (r \o outbound)[i] = IF i <= Len(r) THEN r[i] ELSE outbound[i - Len(r)]
    BY <1>1, ConcatProperties
  <2>2. Len(r) \in Nat /\ Len(outbound) \in Nat
    BY <1>1
  <2>3. q = r \o outbound
    BY <1>1
  <2> HIDE DEF q, r
  <2>4. \A i \in 1 .. Len(r) : i \in 1 .. Len(r) + Len(outbound) /\ i <= Len(r)
    BY <2>2
  <2>5. QED
    BY <2>1, <2>2, <2>3, <2>4
<1>3. \A i \in 1 .. Len(q) : q[i].n = got["guest"] + i
  BY DEF LinedInv, Lined
<1>4. \A i \in 1 .. Len(r) : r[i].n = got'["guest"] + i
  <2> HIDE DEF q, r
  <2>1. \A i \in 1 .. Len(r) : i \in 1 .. Len(q)
    BY <1>2
  <2>2. QED
    BY <1>1, <1>2, <1>3, <2>1
<1>5. 1 .. Len(HostFrames') = {}
  BY <1>1
<1>6. QED
  BY <1>1, <1>4, <1>5 DEF LinedInv, Lined

LEMMA NextLined == TypeOK /\ ShapeInv /\ LinedInv /\ [Next]_vars => LinedInv'
<1> SUFFICES ASSUME TypeOK, ShapeInv, LinedInv, [Next]_vars
             PROVE  LinedInv'
  OBVIOUS
<1>1. CASE Trap
  BY <1>1, TrapLined
<1>2. CASE ~Trap
  <2>1. /\ Passes("host", HostFrames, HostFrames')
        /\ worker # "stopped" => sent'["host"] = got'["host"] + Len(HostFrames')
        /\ Passes("guest", GuestFrames, GuestFrames')
        /\ worker # "stopped" => sent'["guest"] = got'["guest"] + Len(GuestFrames')
    BY <1>2, StepFlows, FlowPasses DEF LinedInv
  <2>2. worker' = "stopped" <=> worker = "stopped"
    BY <1>2, StepFlows
  <2>3. QED
    BY <2>1, <2>2 DEF LinedInv, Lined, Passes
<1>3. QED
  BY <1>1, <1>2

\* The ordinals of the frames on their way.
LEMMA OrdinalsOf ==
    ASSUME NEW q \in Seq(Frame)
    PROVE  /\ Len(Ordinals(q)) = Len(q) /\ DOMAIN Ordinals(q) = 1 .. Len(q)
           /\ \A i \in 1 .. Len(q) : Ordinals(q)[i] = q[i].n
           /\ Ordinals(q) \in Seq(Nat)
<1>1. Len(q) \in Nat /\ DOMAIN q = 1 .. Len(q) /\ \A i \in 1 .. Len(q) : q[i].n \in Nat
  <2>1. Len(q) \in Nat /\ DOMAIN q = 1 .. Len(q) /\ \A i \in 1 .. Len(q) : q[i] \in Frame
    OBVIOUS
  <2>2. \A f \in Frame : f.n \in Nat
    BY DEF Frame
  <2>3. QED
    BY <2>1, <2>2
<1>2. Ordinals(q) = [i \in 1 .. Len(q) |-> q[i].n]
  BY <1>1 DEF Ordinals
<1>3. Ordinals(q) \in Seq(Nat)
  BY <1>1, <1>2, FunctionIsSeq
<1>4. DOMAIN Ordinals(q) = 1 .. Len(q) /\ DOMAIN Ordinals(q) = 1 .. Len(Ordinals(q))
  BY <1>2, <1>3
<1>5. QED
  BY <1>1, <1>2, <1>3, <1>4

LEMMA Transit ==
    /\ DOMAIN InTransit = {"host", "guest"}
    /\ InTransit["host"] = Ordinals(HostFrames)
    /\ InTransit["guest"] = Ordinals(GuestFrames)
<1>1. QED
  BY DEF InTransit, HostFrames, GuestFrames

LEMMA InitIsPipe == Init => P!Init
<1> SUFFICES ASSUME Init
             PROVE  P!Init
  OBVIOUS
<1>1. HostFrames = <<>> /\ GuestFrames = <<>>
  BY InitFrames
<1>2. Ordinals(<<>>) = <<>>
  BY DEF Ordinals
<1>3. InTransit = [e \in {"host", "guest"} |-> <<>>]
  <2>1. InTransit["host"] = <<>> /\ InTransit["guest"] = <<>>
    BY <1>1, <1>2, Transit
  <2>2. InTransit = [e \in {"host", "guest"} |-> InTransit[e]]
    BY DEF InTransit
  <2>3. QED
    BY <2>1, <2>2
<1>4. got = [e \in {"host", "guest"} |-> 0] /\ worker # "stopped"
  BY DEF Init
<1>5. QED
  BY <1>3, <1>4 DEF P!Init

\* A step that lets the frames of an end flow is a Pass of the pipe.
LEMMA PassesArePass ==
    ASSUME TypeOK, NEW e \in {"host", "guest"}, NEW q \in Seq(Frame), NEW r \in Seq(Frame),
           got' \in [{"host", "guest"} -> Nat], Passes(e, q, r),
           InTransit[e] = Ordinals(q), InTransit'[e] = Ordinals(r)
    PROVE  P!Pass(e)
<1>1. /\ Len(InTransit[e]) = Len(q) /\ Len(InTransit'[e]) = Len(r)
      /\ DOMAIN InTransit'[e] = 1 .. Len(r)
      /\ \A i \in 1 .. Len(r) : InTransit'[e][i] = r[i].n
  BY OrdinalsOf
<1>2. QED
  BY <1>1 DEF P!Pass, Passes

\* A trap closes the pipe: what the guest had not handed over is lost, and
\* all that the host had queued.
LEMMA TrapCloses ==
    ASSUME TypeOK, Trap
    PROVE  P!Close
<1> DEFINE q == GuestFrames
           r == GuestFrames'
<1>1. /\ HostFrames' = <<>> /\ r \in Seq(Frame) /\ q = r \o outbound
      /\ outbound \in Seq(Frame) /\ q \in Seq(Frame) /\ HostFrames \in Seq(Frame)
      /\ got' = got /\ worker = "running" /\ worker' = "stopped"
  BY TrapFrames, FramesType DEF Trap, TypeOK
<1>2. /\ InTransit'["host"] = Ordinals(HostFrames')
      /\ InTransit'["guest"] = Ordinals(r)
  BY Transit DEF InTransit, HostFrames, GuestFrames, Ordinals
<1>3. InTransit["host"] = Ordinals(HostFrames) /\ InTransit["guest"] = Ordinals(q)
  BY Transit
<1> HIDE DEF q, r
<1>4. /\ Len(r) \in Nat /\ Len(outbound) \in Nat /\ Len(q) = Len(r) + Len(outbound)
      /\ \A i \in 1 .. Len(r) : q[i] = r[i]
  <2>1. /\ Len(r \o outbound) = Len(r) + Len(outbound)
        /\ \A i \in 1 .. Len(r) + Len(outbound) :
              (r \o outbound)[i] = IF i <= Len(r) THEN r[i] ELSE outbound[i - Len(r)]
    BY <1>1, ConcatProperties
  <2>2. Len(r) \in Nat /\ Len(outbound) \in Nat
    BY <1>1
  <2>3. \A i \in 1 .. Len(r) : i \in 1 .. Len(r) + Len(outbound) /\ i <= Len(r)
    BY <2>2
  <2>4. QED
    BY <1>1, <2>1, <2>2, <2>3
<1>5. /\ Len(InTransit'["guest"]) <= Len(InTransit["guest"])
      /\ InTransit'["guest"] = SubSeq(InTransit["guest"], 1, Len(InTransit'["guest"]))
  <2>1. /\ Len(Ordinals(r)) = Len(r) /\ Len(Ordinals(q)) = Len(q)
        /\ Ordinals(q) \in Seq(Nat) /\ Ordinals(r) \in Seq(Nat)
        /\ \A i \in 1 .. Len(r) : Ordinals(r)[i] = r[i].n
        /\ \A i \in 1 .. Len(q) : Ordinals(q)[i] = q[i].n
    BY <1>1, OrdinalsOf
  <2>2. \A i \in 1 .. Len(r) : i \in 1 .. Len(q) /\ Ordinals(r)[i] = Ordinals(q)[i]
    <3> TAKE i \in 1 .. Len(r)
    <3>1. i \in 1 .. Len(q)
      BY <1>4
    <3>2. Ordinals(r)[i] = r[i].n /\ Ordinals(q)[i] = q[i].n /\ q[i] = r[i]
      BY <1>4, <2>1, <3>1
    <3>3. QED
      BY <3>1, <3>2
  <2>3. Ordinals(r) = SubSeq(Ordinals(q), 1, Len(r))
    <3>1. SubSeq(Ordinals(q), 1, Len(r)) = [i \in 1 .. Len(r) |-> Ordinals(q)[i]]
      BY <1>4, <2>1
    <3>2. Ordinals(r) = [i \in 1 .. Len(r) |-> Ordinals(r)[i]]
      BY <1>1, OrdinalsOf DEF Ordinals
    <3>3. QED
      BY <2>2, <3>1, <3>2
  <2>4. QED
    BY <1>2, <1>3, <1>4, <2>1, <2>3
<1>6. /\ Len(InTransit'["host"]) <= Len(InTransit["host"])
      /\ InTransit'["host"] = SubSeq(InTransit["host"], 1, Len(InTransit'["host"]))
  <2>1. InTransit'["host"] = <<>>
    BY <1>1, <1>2 DEF Ordinals
  <2>2. InTransit["host"] \in Seq(Nat)
    BY <1>1, <1>3, OrdinalsOf
  <2>3. QED
    BY <2>1, <2>2
<1>7. QED
  BY <1>1, <1>5, <1>6 DEF P!Close

LEMMA NextIsPipe == TypeOK /\ ShapeInv /\ LinedInv /\ [Next]_vars => P!Next
<1> SUFFICES ASSUME TypeOK, ShapeInv, LinedInv, [Next]_vars
             PROVE  P!Next
  OBVIOUS
<1>1. CASE Trap
  BY <1>1, TrapCloses DEF P!Next
<1>2. CASE ~Trap
  <2>1. Passes("host", HostFrames, HostFrames') /\ Passes("guest", GuestFrames, GuestFrames')
    BY <1>2, StepFlows, FlowPasses DEF LinedInv
  <2>2. worker' = "stopped" <=> worker = "stopped"
    BY <1>2, StepFlows
  <2>3. TypeOK'
    BY NextType
  <2>4. /\ HostFrames \in Seq(Frame) /\ GuestFrames \in Seq(Frame)
        /\ HostFrames' \in Seq(Frame) /\ GuestFrames' \in Seq(Frame)
    <3>1. (TypeOK => HostFrames \in Seq(Frame) /\ GuestFrames \in Seq(Frame))'
      BY FramesType, PTL
    <3>2. QED
      BY <2>3, <3>1, FramesType
  <2>5. got' \in [{"host", "guest"} -> Nat]
    BY <2>3 DEF TypeOK
  <2>6. /\ InTransit["host"] = Ordinals(HostFrames)
        /\ InTransit'["host"] = Ordinals(HostFrames')
        /\ InTransit["guest"] = Ordinals(GuestFrames)
        /\ InTransit'["guest"] = Ordinals(GuestFrames')
    BY DEF InTransit, HostFrames, GuestFrames, Ordinals
  <2>7. P!Pass("host") /\ P!Pass("guest")
    BY <2>1, <2>4, <2>5, <2>6, PassesArePass
  <2>8. QED
    BY <2>2, <2>7 DEF P!Next
<1>3. QED
  BY <1>1, <1>2

\* Calls, turns, traps and the pump are a pipe: the frames of each end arrive
\* once and in order, and only what is newest is lost, when the guest stops.
THEOREM HostIsPipe == Spec => PipeSpec
<1>1. Init => TypeOK /\ ShapeInv /\ LinedInv /\ P!Init
  BY InitType, InitShape, InitLined, InitIsPipe
<1>2. TypeOK /\ ShapeInv /\ LinedInv /\ [Next]_vars =>
         TypeOK' /\ ShapeInv' /\ LinedInv' /\ P!Next
  BY NextType, NextShape, NextLined, NextIsPipe
<1>3. QED
  BY <1>1, <1>2, PTL DEF Spec, PipeSpec, P!Spec

-----------------------------------------------------------------------------
(***************************************************************************)
(* An open receipt has somewhere to get its outcome from.                  *)
(***************************************************************************)
\* The calls among some frames; Answered is the responses among them.
Called(frames) == {f.request : f \in {g \in Range(frames) : IsCall(g)}}

\* The pump has yet to learn that the plugin stopped.
StopOnWay == \E i \in DOMAIN turns : ~turns[i].ok

Owed(r) == \/ r \in Called(HostFrames)
           \/ task[r] # "none"
           \/ r \in Answered(GuestFrames)
           \/ StopOnWay

\* No call but the host's own waits for an answer or for a task; and a pump
\* that runs will learn that the plugin stopped.
OwedInv ==
    /\ nextRequest <= MaxCalls
    /\ pending \subseteq 1 .. MaxCalls
    /\ Called(HostFrames) \subseteq 1 .. MaxCalls
    /\ worker = "stopped" /\ pump = "running" => StopOnWay
    /\ pump = "running" => \A r \in pending : Owed(r)

LEMMA ConcatParts ==
    ASSUME NEW s \in Seq(Frame), NEW t \in Seq(Frame)
    PROVE  /\ Called(s \o t) = Called(s) \cup Called(t)
           /\ Answered(s \o t) = Answered(s) \cup Answered(t)
<1>1. Range(s \o t) = Range(s) \cup Range(t)
  BY RangeConcatenation
<1>2. QED
  BY <1>1 DEF Called, Answered

LEMMA OneParts ==
    ASSUME NEW f \in Frame
    PROVE  /\ <<f>> \in Seq(Frame)
           /\ Called(<<f>>) = IF IsCall(f) THEN {f.request} ELSE {}
           /\ Answered(<<f>>) = IF IsCall(f) THEN {} ELSE {f.request}
<1>1. Range(<<f>>) = {f}
  BY DEF Range
<1>2. QED
  BY <1>1 DEF Called, Answered

\* Numbering frames leaves what they ask.
LEMMA NumberedParts ==
    ASSUME TypeOK, NEW fs \in Seq(Frame)
    PROVE  Called(Numbered(fs)) = Called(fs)
<1>1. /\ Numbered(fs) \in Seq(Frame) /\ Len(Numbered(fs)) = Len(fs)
      /\ \A i \in 1 .. Len(fs) : /\ Numbered(fs)[i].kind = fs[i].kind
                                 /\ Numbered(fs)[i].request = fs[i].request
  BY NumberedType
<1>2. /\ Range(Numbered(fs)) = {Numbered(fs)[i] : i \in 1 .. Len(fs)}
      /\ Range(fs) = {fs[i] : i \in 1 .. Len(fs)}
  BY <1>1, RangeEquality
<1>3. QED
  BY <1>1, <1>2 DEF Called, IsCall

LEMMA OpenReceiptsAreOwed == OwedInv => OpenReceiptsOwed
<1>1. \A r : r \in Called(HostFrames) =>
         \E f \in Range(inbound \o FramesOf(requests)) : IsCall(f) /\ f.request = r
  BY DEF Called, HostFrames
<1>2. QED
  BY <1>1 DEF OwedInv, Owed, OpenReceiptsOwed, GuestFrames, StopOnWay

LEMMA InitOwed == Init => OwedInv
<1> SUFFICES ASSUME Init
             PROVE  OwedInv
  OBVIOUS
<1>1. Called(HostFrames) = {}
  <2>1. Range(<<>>) = {}
    BY DEF Range
  <2>2. QED
    BY <2>1, InitFrames DEF Called
<1>2. QED
  BY <1>1, BoundsAssumption DEF Init, OwedInv

\* A step that opens no receipt, and takes nothing from where one gets its
\* outcome.
LEMMA OwedStays ==
    ASSUME OwedInv, nextRequest' = nextRequest, pending' \subseteq pending,
           Called(HostFrames)' \subseteq Called(HostFrames),
           worker' = "stopped" => worker = "stopped",
           pump' = "running" => pump = "running",
           pump' = "running" /\ StopOnWay => StopOnWay',
           \A r \in pending' : pump' = "running" /\ Owed(r) => Owed(r)'
    PROVE  OwedInv'
  BY DEF OwedInv

\* The same of a step that leaves the frames where they are.
LEMMA OwedRests ==
    ASSUME OwedInv, HostFrames' = HostFrames, GuestFrames' = GuestFrames,
           nextRequest' = nextRequest, pending' \subseteq pending,
           worker' = "stopped" => worker = "stopped",
           pump' = "running" => pump = "running",
           pump' = "running" /\ StopOnWay => StopOnWay',
           \A r \in pending' : task[r] # "none" => task'[r] # "none"
    PROVE  OwedInv'
<1>1. Called(HostFrames)' = Called(HostFrames) /\ Answered(GuestFrames)' = Answered(GuestFrames)
  BY DEF Called, Answered
<1>2. \A r \in pending' : pump' = "running" /\ Owed(r) => Owed(r)'
  BY <1>1 DEF Owed
<1>3. QED
  BY <1>1, <1>2, OwedStays

LEMMA HostCallOwed ==
    ASSUME TypeOK, OwedInv, HostCall
    PROVE  OwedInv'
<1> DEFINE f == HostCallFrame(nextRequest')
           fs == <<f>>
<1>1. /\ nextRequest' = nextRequest + 1 /\ nextRequest \in Nat /\ nextRequest' <= MaxCalls
      /\ fs \in Seq(Frame) /\ HostSend(requests, fs)
      /\ pending' = pending \cup {nextRequest'}
      /\ inbound' = inbound /\ got' = got /\ outbound' = outbound
      /\ turns' = turns /\ worker' = worker /\ pump' = pump /\ task' = task
  BY HostCallSends DEF TypeOK, guestVars
<1>2. nextRequest' \in 1 .. MaxCalls /\ pending' \subseteq 1 .. MaxCalls
  BY <1>1, BoundsAssumption DEF OwedInv
<1>3. f \in Frame /\ IsCall(f) /\ f.request = nextRequest'
  <2>1. nextRequest' \in Nat
    BY <1>1
  <2>2. QED
    BY <2>1 DEF HostCallFrame, Frame, IsCall
<1>4. Called(fs) = {nextRequest'}
  <2> HIDE DEF f
  <2>1. QED
    BY <1>3, OneParts
<1> HIDE DEF f, fs
<1>5. GuestFrames' = GuestFrames /\ StopOnWay' = StopOnWay
  BY <1>1 DEF GuestFrames, FramesOf, StopOnWay
<1>6. CASE worker = "stopped"
  <2>1. HostFrames' = HostFrames
    BY <1>1, <1>6, SendFlows
  <2>2. Called(HostFrames)' = Called(HostFrames)
    BY <2>1 DEF Called
  <2>3. pump' = "running" => \A r \in pending' : Owed(r)'
    BY <1>1, <1>5, <1>6 DEF OwedInv, Owed
  <2>4. QED
    BY <1>1, <1>2, <1>5, <2>2, <2>3 DEF OwedInv
<1>7. CASE worker # "stopped"
  <2>1. HostFrames' = HostFrames \o Numbered(fs) /\ HostFrames \in Seq(Frame)
    BY <1>1, <1>7, SendFlows, FramesType
  <2>2. Numbered(fs) \in Seq(Frame) /\ Called(Numbered(fs)) = {nextRequest'}
    BY <1>1, <1>4, NumberedType, NumberedParts
  <2>3. Called(HostFrames') = Called(HostFrames) \cup {nextRequest'}
    BY <2>1, <2>2, ConcatParts
  <2>4. Called(HostFrames)' = Called(HostFrames')
    BY DEF Called
  <2>5. Answered(GuestFrames)' = Answered(GuestFrames)
    BY <1>5 DEF Answered
  <2>6. pump' = "running" => \A r \in pending' : Owed(r)'
    BY <1>1, <1>5, <2>3, <2>4, <2>5 DEF OwedInv, Owed
  <2>7. QED
    BY <1>1, <1>2, <1>5, <1>7, <2>3, <2>4, <2>6 DEF OwedInv
<1>8. QED
  BY <1>6, <1>7

\* A call is answered, or a task takes it.
LEMMA GuestDeliverOwed ==
    ASSUME TypeOK, OwedInv, GuestDeliver
    PROVE  OwedInv'
<1> DEFINE f == Head(inbound)
           one == <<f>>
<1>1. /\ f \in Frame /\ f.request \in Nat /\ f.kind \in {"call", "response"}
      /\ inbound # <<>> /\ worker = "running"
  BY GuestDeliverFrame DEF GuestDeliver
<1>2. /\ turns' = turns /\ worker' = worker /\ pump' = pump /\ got'["guest"] = got["guest"]
      /\ nextRequest' = nextRequest /\ pending' = pending
  BY GuestDeliverFrame DEF queueVars, hostVars, TypeOK
<1>3. HostFrames' \in Seq(Frame) /\ HostFrames = one \o HostFrames'
  BY GuestDeliverFrames
<1>4. one \in Seq(Frame) /\ Called(one) = IF IsCall(f) THEN {f.request} ELSE {}
  <2> HIDE DEF f
  <2>1. QED
    BY <1>1, OneParts
<1>5. Called(HostFrames)' = Called(HostFrames')
  BY DEF Called
<1>6. Called(HostFrames) = Called(one) \cup Called(HostFrames')
  <2> HIDE DEF one
  <2>1. QED
    BY <1>3, <1>4, ConcatParts
<1>7. StopOnWay' = StopOnWay
  BY <1>2 DEF StopOnWay
<1>8. CASE f.kind = "response"
  <2>1. task' = task /\ outbound' = outbound
    BY <1>8 DEF GuestDeliver
  <2>2. ~IsCall(f)
    BY <1>8 DEF IsCall
  <2>3. GuestFrames' = GuestFrames
    BY <1>2, <2>1 DEF GuestFrames, FramesOf
  <2>4. Answered(GuestFrames)' = Answered(GuestFrames)
    BY <2>3 DEF Answered
  <2> HIDE DEF one, f
  <2>5. Called(HostFrames)' = Called(HostFrames)
    BY <1>4, <1>5, <1>6, <2>2
  <2>6. \A r \in pending' : pump' = "running" /\ Owed(r) => Owed(r)'
    BY <1>7, <2>1, <2>4, <2>5 DEF Owed
  <2>7. QED
    BY <1>2, <1>7, <2>5, <2>6, OwedStays
<1>9. CASE f.kind = "call" /\ GuestSend("response", f.request) /\ task' = task
  <2> DEFINE g == GuestFrame("response", f.request)
             answer == <<g>>
  <2>1. GuestFrames' = GuestFrames \o answer
    BY <1>1, <1>2, <1>9, GuestSendFlows
  <2>2. g \in Frame /\ ~IsCall(g) /\ g.request = f.request
    BY <1>1, <1>9, GuestSends DEF GuestFrame, IsCall
  <2>3. answer \in Seq(Frame) /\ Answered(answer) = {f.request}
    <3> HIDE DEF g, f
    <3>1. QED
      BY <2>2, OneParts
  <2> HIDE DEF answer, g, f, one
  <2>4. Answered(GuestFrames') = Answered(GuestFrames) \cup {f.request}
    BY <2>1, <2>3, FramesType, ConcatParts
  <2>5. Answered(GuestFrames)' = Answered(GuestFrames')
    BY DEF Answered
  <2>6. \A r \in pending' : pump' = "running" /\ Owed(r) => Owed(r)'
    BY <1>4, <1>5, <1>6, <1>7, <1>9, <2>4, <2>5 DEF Owed
  <2>7. QED
    BY <1>2, <1>5, <1>6, <1>7, <2>6, OwedStays
<1>10. CASE /\ f.kind = "call" /\ UNCHANGED <<outbound, sent>>
            /\ task' = [task EXCEPT ![f.request] = "ready"]
  <2>1. GuestFrames' = GuestFrames
    BY <1>2, <1>10 DEF GuestFrames, FramesOf
  <2>2. Answered(GuestFrames)' = Answered(GuestFrames)
    BY <2>1 DEF Answered
  <2>3. IsCall(f) /\ Called(HostFrames) \subseteq 1 .. MaxCalls
    BY <1>10 DEF IsCall, OwedInv
  <2> HIDE DEF f, one
  <2>4. f.request \in Called(HostFrames)
    BY <1>4, <1>6, <2>3
  <2>5. f.request \in Tasks
    BY <2>3, <2>4, BoundsAssumption DEF Tasks
  <2>6. /\ \A r \in Tasks : r # f.request => (task[r] # "none" => task'[r] # "none")
        /\ pending' \subseteq Tasks
    BY <1>2, <1>10, BoundsAssumption DEF TypeOK, OwedInv, Tasks
  <2>7. task'[f.request] = "ready"
    BY <1>10, <2>5 DEF TypeOK
  <2>8. \A r \in pending' : pump' = "running" /\ Owed(r) => Owed(r)'
    BY <1>4, <1>5, <1>6, <1>7, <2>2, <2>6, <2>7 DEF Owed
  <2>9. QED
    BY <1>2, <1>5, <1>6, <1>7, <2>8, OwedStays
<1>11. QED
  BY <1>1, <1>8, <1>9, <1>10 DEF GuestDeliver

\* The guest puts a frame of its own behind the others.
LEMMA GuestSendOwed ==
    ASSUME TypeOK, OwedInv, NEW kind \in {"call", "response"}, NEW q \in Nat,
           GuestSend(kind, q), worker = "running", UNCHANGED <<queueVars, inbound, hostVars, got>>,
           \A r \in pending : task[r] # "none" => \/ task'[r] # "none"
                                                  \/ kind = "response" /\ r = q
    PROVE  OwedInv'
<1> DEFINE g == GuestFrame(kind, q)
           last == <<g>>
<1>1. /\ turns' = turns /\ requests' = requests /\ inbound' = inbound /\ worker' = worker
      /\ pump' = pump /\ nextRequest' = nextRequest /\ pending' = pending /\ got' = got
  BY DEF queueVars, hostVars
<1>2. HostFrames' = HostFrames /\ StopOnWay' = StopOnWay
  BY <1>1 DEF HostFrames, FramesOf, StopOnWay
<1>3. GuestFrames' = GuestFrames \o last
  BY <1>1, GuestSendFlows
<1>4. g \in Frame /\ g.request = q /\ (IsCall(g) <=> kind = "call")
  BY GuestSends DEF GuestFrame, IsCall
<1>5. last \in Seq(Frame) /\ (kind = "response" => Answered(last) = {q})
  <2> HIDE DEF g
  <2>1. QED
    BY <1>4, OneParts
<1> HIDE DEF g, last
<1>6. Answered(GuestFrames') = Answered(GuestFrames) \cup Answered(last)
  BY <1>3, <1>5, FramesType, ConcatParts
<1>7. /\ Answered(GuestFrames)' = Answered(GuestFrames')
      /\ Called(HostFrames)' = Called(HostFrames)
  BY <1>2 DEF Answered, Called
<1>8. \A r \in pending' : pump' = "running" /\ Owed(r) => Owed(r)'
  BY <1>1, <1>2, <1>5, <1>6, <1>7 DEF Owed
<1>9. QED
  BY <1>1, <1>2, <1>7, <1>8, OwedStays

LEMMA FinishTaskOwed ==
    ASSUME TypeOK, OwedInv, NEW q \in Tasks, FinishTask(q)
    PROVE  OwedInv'
<1>1. /\ worker = "running" /\ UNCHANGED <<queueVars, inbound, hostVars, got>>
      /\ \A r \in Tasks : r # q /\ task[r] # "none" => task'[r] # "none"
  BY DEF FinishTask, Running, TypeOK
<1>2. CASE q = 0
  <2>1. /\ turns' = turns /\ requests' = requests /\ inbound' = inbound /\ outbound' = outbound
        /\ worker' = worker /\ pump' = pump /\ nextRequest' = nextRequest
        /\ pending' = pending
    BY <1>1, <1>2 DEF FinishTask, queueVars, hostVars
  <2>2. HostFrames' = HostFrames /\ GuestFrames' = GuestFrames /\ StopOnWay' = StopOnWay
    BY <2>1 DEF HostFrames, GuestFrames, FramesOf, StopOnWay
  <2>3. \A r \in pending' : r # q /\ r \in Tasks
    BY <1>2, <2>1, BoundsAssumption DEF OwedInv, Tasks
  <2>4. QED
    BY <1>1, <2>1, <2>2, <2>3, OwedRests
<1>3. CASE q # 0
  <2>1. GuestSend("response", q) /\ q \in Nat
    BY <1>3, BoundsAssumption DEF FinishTask, Tasks
  <2>2. pending \subseteq Tasks
    BY BoundsAssumption DEF OwedInv, Tasks
  <2>3. QED
    BY <1>1, <2>1, <2>2, GuestSendOwed
<1>4. QED
  BY <1>2, <1>3

LEMMA TrapOwed ==
    ASSUME TypeOK, OwedInv, Trap
    PROVE  OwedInv'
<1>1. turns' = Append(turns, TrapTurn) /\ TrapTurn \in Turn /\ ~TrapTurn.ok
  BY TurnsAppended, LastTurns DEF TrapTurn
<1>2. StopOnWay'
  BY <1>1, TurnsAt DEF StopOnWay
<1>3. Called(HostFrames)' = {}
  <2>1. HostFrames' = <<>> /\ Range(<<>>) = {}
    BY TrapFrames DEF Range
  <2>2. QED
    BY <2>1 DEF Called
<1>4. nextRequest' = nextRequest /\ pending' = pending
  BY DEF Trap, hostVars
<1>5. QED
  BY <1>2, <1>3, <1>4 DEF OwedInv, Owed

\* A turn the pump applies settles what it answers, and asks nothing.
LEMMA ApplyTurnOwed ==
    ASSUME TypeOK, OwedInv, ApplyTurn
    PROVE  OwedInv'
<1> DEFINE t == Head(turns)
           fs == FlattenSeq(Replies(t.frames))
<1>1. /\ turns # <<>> /\ t.ok /\ turns' = Tail(turns) /\ t.frames \in Seq(Frame)
      /\ HostSend(requests, fs) /\ pending' = pending \ Answered(t.frames)
      /\ inbound' = inbound /\ outbound' = outbound /\ worker' = worker
      /\ task' = task /\ pump' = pump /\ nextRequest' = nextRequest
      /\ got'["host"] = got["host"]
  BY ApplyTurnDoes DEF guestVars, TypeOK
<1>2. fs \in Seq(Frame) /\ Called(fs) = {}
  BY <1>1, RepliesType DEF Called
<1>3. GuestFrames' \in Seq(Frame) /\ GuestFrames = t.frames \o GuestFrames'
  BY <1>1, TurnFrames
<1>4. StopOnWay => StopOnWay'
  BY <1>1, TurnsLeft DEF StopOnWay
<1> HIDE DEF t, fs
<1>5. Answered(GuestFrames) = Answered(t.frames) \cup Answered(GuestFrames')
  BY <1>1, <1>3, ConcatParts
<1>6. Answered(GuestFrames)' = Answered(GuestFrames') /\ Called(HostFrames)' = Called(HostFrames')
  BY DEF Answered, Called
<1>7. Called(HostFrames') = Called(HostFrames)
  <2>1. CASE worker = "stopped"
    BY <1>1, <1>2, <2>1, SendFlows
  <2>2. CASE worker # "stopped"
    <3>1. HostFrames' = HostFrames \o Numbered(fs) /\ HostFrames \in Seq(Frame)
      BY <1>1, <1>2, <2>2, SendFlows, FramesType
    <3>2. Numbered(fs) \in Seq(Frame) /\ Called(Numbered(fs)) = {}
      BY <1>2, NumberedType, NumberedParts
    <3>3. Called(HostFrames \o Numbered(fs)) = Called(HostFrames) \cup Called(Numbered(fs))
      BY <3>1, <3>2, ConcatParts
    <3>4. QED
      BY <3>1, <3>2, <3>3
  <2>3. QED
    BY <2>1, <2>2
<1>8. \A r \in pending' : pump' = "running" /\ Owed(r) => Owed(r)'
  BY <1>1, <1>4, <1>5, <1>6, <1>7 DEF Owed
<1>9. QED
  BY <1>1, <1>4, <1>6, <1>7, <1>8, OwedStays

LEMMA NextOwed == TypeOK /\ ShapeInv /\ OwedInv /\ [Next]_vars => OwedInv'
<1> SUFFICES ASSUME TypeOK, ShapeInv, OwedInv, [Next]_vars
             PROVE  OwedInv'
  OBVIOUS
<1>0. pending \subseteq Tasks
  BY BoundsAssumption DEF OwedInv, Tasks
<1>1. CASE Pump \/ WakeFires
  BY <1>1, EnqueueFrames, OwedRests DEF Pump, WakeFires, guestVars, hostVars, StopOnWay
<1>2. CASE StartTurn
  <2>1. /\ turns' = turns /\ pump' = pump /\ pending' = pending
        /\ nextRequest' = nextRequest /\ worker' # "stopped"
    BY <1>2 DEF StartTurn, hostVars
  <2>2. \A r \in Tasks : task[r] # "none" => task'[r] # "none"
    <3>1. task' \in {task, [task EXCEPT ![0] = "ready"]}
      BY <1>2 DEF StartTurn
    <3>2. QED
      BY <3>1 DEF TypeOK
  <2>3. QED
    BY <1>2, <1>0, <2>1, <2>2, StartTurnFrames, OwedRests DEF StopOnWay
<1>3. CASE \E r \in Tasks : WakeTask(r) \/ Sleep(r) \/ TimerDue(r)
  <2>1. /\ inbound' = inbound /\ outbound' = outbound /\ turns' = turns
        /\ requests' = requests /\ worker' = worker /\ pump' = pump
        /\ pending' = pending /\ nextRequest' = nextRequest
    BY <1>3 DEF WakeTask, Sleep, TimerDue, queueVars, hostVars
  <2>2. \A r \in Tasks : task[r] # "none" => task'[r] # "none"
    BY <1>3 DEF WakeTask, Sleep, TimerDue, TypeOK
  <2>3. HostFrames' = HostFrames /\ GuestFrames' = GuestFrames /\ StopOnWay' = StopOnWay
    BY <2>1 DEF HostFrames, GuestFrames, FramesOf, StopOnWay
  <2>4. QED
    BY <1>0, <2>1, <2>2, <2>3, OwedRests
<1>4. CASE GuestCall
  <2>1. /\ GuestSend("call", guestCalls') /\ guestCalls' \in Nat /\ worker = "running"
        /\ UNCHANGED <<queueVars, inbound, hostVars, got>> /\ task' = task
    BY <1>4 DEF GuestCall, TypeOK
  <2>2. QED
    BY <2>1, GuestSendOwed
<1>5. CASE EndTurn
  <2>1. turns' = Append(turns, EndedTurn) /\ EndedTurn \in Turn
    BY <1>5, TurnsAppended, LastTurns
  <2>2. StopOnWay => StopOnWay'
    BY <2>1, TurnsAt DEF StopOnWay
  <2>3. QED
    BY <1>5, <2>2, EndTurnFrames, OwedRests DEF EndTurn, hostVars
<1>6. CASE FailPending
  <2>1. /\ pump' = "stopped" /\ pending' = {} /\ nextRequest' = nextRequest
        /\ worker' = worker
    BY <1>6 DEF FailPending
  <2>2. QED
    BY <1>6, <2>1, FailPendingFrames, OwedRests
<1>7. CASE UNCHANGED vars
  <2>1. /\ inbound' = inbound /\ outbound' = outbound /\ turns' = turns
        /\ requests' = requests /\ worker' = worker /\ pump' = pump
        /\ pending' = pending /\ nextRequest' = nextRequest /\ task' = task
    BY <1>7 DEF vars, queueVars, guestVars, hostVars
  <2>2. HostFrames' = HostFrames /\ GuestFrames' = GuestFrames /\ StopOnWay' = StopOnWay
    BY <2>1 DEF HostFrames, GuestFrames, FramesOf, StopOnWay
  <2>3. QED
    BY <2>1, <2>2, OwedRests
<1>8. QED
  BY <1>1, <1>2, <1>3, <1>4, <1>5, <1>6, <1>7, HostCallOwed, GuestDeliverOwed,
     FinishTaskOwed, TrapOwed, ApplyTurnOwed DEF Next, GuestStep

\* While the pump runs, every open receipt can still get its outcome: from a
\* call or a response on its way, from a task, or from the plugin's end.
THEOREM ReceiptsAreOwed == Spec => []OpenReceiptsOwed
<1>1. Init => TypeOK /\ ShapeInv /\ OwedInv
  BY InitType, InitShape, InitOwed
<1>2. TypeOK /\ ShapeInv /\ OwedInv /\ [Next]_vars => TypeOK' /\ ShapeInv' /\ OwedInv'
  BY NextType, NextShape, NextOwed
<1>3. QED
  BY <1>1, <1>2, OpenReceiptsAreOwed, PTL DEF Spec
=============================================================================
