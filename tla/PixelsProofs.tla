---------------------------- MODULE PixelsProofs ----------------------------
(***************************************************************************)
(* The properties of Pixels, for any number of plugins, windows, surfaces, *)
(* images and redraws.                                                     *)
(***************************************************************************)
EXTENDS Pixels, SequenceTheorems, TLAPS

-----------------------------------------------------------------------------
(***************************************************************************)
(* Types.                                                                  *)
(***************************************************************************)
LEMMA DrawPair == ASSUME NEW d \in Draw
                  PROVE  /\ d = <<d[1], d[2]>>
                         /\ d[1] \in Shape \cup Family \cup Image \cup Svg
                         /\ d[1] \in Image => d[2] = Nil
                         /\ d[1] \in Svg => d[2] \in Color
                         /\ d[1] \in Image \cup Svg => d \in Picture
                         /\ d \in Picture => d[1] \in Image \cup Svg
  BY DrawAssumption DEF Draw, Picture, Key, Font

LEMMA InitType == Init => TypeOK
  BY DEF Init, TypeOK, Frame, Key, Picture

\* A sprite added to a scene.
LEMMA SceneGrows ==
    ASSUME TypeOK, NEW w \in Window, NEW d \in Draw, NEW n \in Nat,
           scene' = [scene EXCEPT ![w] = Append(@, [draw |-> d, tile |-> n])]
    PROVE  scene' \in [Window -> Seq(Sprite)]
  <1>1. [draw |-> d, tile |-> n] \in Sprite
    BY DEF Sprite
  <1>2. Append(scene[w], [draw |-> d, tile |-> n]) \in Seq(Sprite)
    BY <1>1 DEF TypeOK
  <1> QED BY <1>2 DEF TypeOK

LEMMA SceneParts ==
    ASSUME TypeOK, NEW w \in Window, NEW s \in Sprite,
           scene' = [scene EXCEPT ![w] = Append(scene[w], s)],
           NEW v \in Window, NEW i \in DOMAIN scene'[v]
    PROVE  \/ v = w /\ scene'[v][i] = s
           \/ /\ i \in DOMAIN scene[v] /\ scene'[v][i] = scene[v][i]
              /\ scene[v][i] \in Sprite
  <1>1. scene[v] \in Seq(Sprite)
    BY DEF TypeOK
  <1>2. CASE v = w
    <2>1. scene'[v] = Append(scene[v], s)
      BY <1>2 DEF TypeOK
    <2>2. i \in 1..Len(scene[v]) + 1
      BY <1>1, <2>1
    <2>3. CASE i = Len(scene[v]) + 1
      BY <1>1, <1>2, <2>1, <2>3
    <2>4. CASE i \in 1..Len(scene[v])
      BY <1>1, <2>1, <2>4
    <2> QED BY <1>1, <2>2, <2>3, <2>4
  <1>3. CASE v # w
    <2>1. scene'[v] = scene[v]
      BY <1>3 DEF TypeOK
    <2> QED BY <1>1, <2>1
  <1> QED BY <1>2, <1>3

\* What a mint does to the types.
LEMMA MintType ==
    ASSUME TypeOK, NEW w \in Window, NEW x \in Picture, Mint(w, x)
    PROVE  /\ payload' \in [Window -> [Picture -> Nat]]
           /\ pending' \in [Window -> SUBSET Payload]
           /\ minted' \in [Plugin -> Seq(Picture)]
  <1>1. owner[w] \in Plugin /\ minted[owner[w]] \in Seq(Picture)
    BY DEF TypeOK
  <1>2. NextPayloadId(w) \in Nat \ {0}
    BY <1>1 DEF NextPayloadId
  <1>3. [id |-> NextPayloadId(w), of |-> x] \in Payload
    BY <1>2 DEF Payload
  <1>4. Append(minted[owner[w]], x) \in Seq(Picture)
    BY <1>1
  <1>5. minted' \in [Plugin -> Seq(Picture)]
    BY <1>1, <1>4 DEF Mint, TypeOK
  <1>6. payload' \in [Window -> [Picture -> Nat]]
    BY <1>2 DEF Mint, TypeOK
  <1>7. pending' \in [Window -> SUBSET Payload]
    BY <1>3 DEF Mint, TypeOK
  <1> QED BY <1>5, <1>6, <1>7

LEMMA SpriteType ==
    ASSUME TypeOK, NEW w \in Window, NEW d \in Draw, NEW k \in Key, PaintSprite(w, d, k)
    PROVE  /\ scene' \in [Window -> Seq(Sprite)]
           /\ tiles' \in [Window -> [Key -> Nat]]
           /\ nextTile' \in [Window -> Nat \ {0}]
           /\ payload' \in [Window -> [Picture -> Nat]]
           /\ pending' \in [Window -> SUBSET Payload]
           /\ minted' \in [Plugin -> Seq(Picture)]
  <1>1. CASE tiles[w][k] # 0
    <2>1. UNCHANGED atlasVars
      BY <1>1 DEF PaintSprite, GetOrInsert
    <2>2. tiles'[w][k] \in Nat
      BY <2>1 DEF atlasVars, TypeOK
    <2>3. scene' \in [Window -> Seq(Sprite)]
      BY <2>2, SceneGrows DEF PaintSprite
    <2> QED BY <2>1, <2>3 DEF atlasVars, TypeOK
  <1>2. CASE tiles[w][k] = 0
    <2>1. FabricateTile(w, k)
      BY <1>2 DEF PaintSprite, GetOrInsert
    <2>2. tiles' \in [Window -> [Key -> Nat]] /\ nextTile' \in [Window -> Nat \ {0}]
      BY <2>1 DEF FabricateTile, TypeOK
    <2>3. scene' \in [Window -> Seq(Sprite)]
      <3>1. tiles'[w][k] \in Nat
        BY <2>2
      <3>2. scene' = [scene EXCEPT ![w] = Append(@, [draw |-> d, tile |-> tiles'[w][k]])]
        BY DEF PaintSprite
      <3> QED BY <3>1, <3>2, SceneGrows
    <2>4. CASE k \in Image
      <3>1. <<k, Nil>> \in Picture /\ Mint(w, <<k, Nil>>)
        BY <1>2, <2>4 DEF PaintSprite, GetOrInsert, Picture
      <3> QED BY <3>1, <2>2, <2>3, MintType
    <2>5. CASE k \notin Image
      BY <1>2, <2>5, <2>2, <2>3 DEF PaintSprite, GetOrInsert, TypeOK
    <2> QED BY <2>4, <2>5
  <1> QED BY <1>1, <1>2

LEMMA FontIdType == ASSUME TypeOK, NEW p \in Plugin, NEW f \in Family
                    PROVE  FontId(p, f) \in Font
  BY DEF TypeOK, FontId, ResolveFont, Font

LEMMA ListType ==
    ASSUME TypeOK, NEW w \in Window
    PROVE  DisplayList(w) \in List
  <1> DEFINE s == scene[w]
  <1>1. /\ s \in Seq(Sprite) /\ on[w] \in Surface /\ pending[w] \in SUBSET Payload
        /\ payload[w] \in [Picture -> Nat]
    BY DEF TypeOK
  <1>2. \A i \in DOMAIN s : i \in Nat \ {0} /\ s[i] \in Sprite
    BY <1>1
  <1>3. Shapes(w) \subseteq Prim
    BY <1>2 DEF Shapes, Serialised, Prim, Sprite
  <1>4. Glyphs(w) \subseteq Prim
    BY <1>2 DEF Glyphs, Serialised, Prim, Sprite
  <1>5. Images(w) \subseteq Prim
    BY <1>1, <1>2 DEF Images, Serialised, Prim, Sprite
  <1> QED BY <1>1, <1>3, <1>4, <1>5 DEF DisplayList, List

LEMMA NextType == TypeOK /\ [Next]_vars => TypeOK'
  <1> SUFFICES ASSUME TypeOK, [Next]_vars PROVE TypeOK'
    OBVIOUS
  <1>1. ASSUME NEW w \in Window, NEW m \in 1..Len(scene[w]) + 1,
               NEW n \in 0..Len(scene[w]), BeginFrame(w, m, n)
        PROVE  TypeOK'
    <2>1. SubSeq(scene[w], m, n) \in Seq(Sprite)
      <3>1. scene[w] \in Seq(Sprite) /\ Len(scene[w]) \in Nat
        BY DEF TypeOK
      <3>2. \A i \in m..n : i \in DOMAIN scene[w]
        BY <3>1
      <3> QED BY <3>1, <3>2, SubSeqProperties
    <2>2. scene' \in [Window -> Seq(Sprite)]
      BY <1>1, <2>1 DEF BeginFrame, TypeOK
    <2>3. redraws' \in Nat /\ frame' \in [Plugin -> Frame \cup {Nil}]
      BY <1>1 DEF BeginFrame, TypeOK, Frame
    <2> QED BY <1>1, <2>2, <2>3 DEF BeginFrame, TypeOK, atlasVars, hostVars
  <1>2. ASSUME NEW w \in Window, NEW d \in Draw, Paint(w, d) PROVE TypeOK'
    <2>1. CASE PaintShape(w, d)
      <3>2. scene' \in [Window -> Seq(Sprite)]
        BY <2>1, SceneGrows DEF PaintShape
      <3> QED BY <1>2, <2>1, <3>2 DEF Paint, PaintShape, TypeOK, atlasVars, hostVars
    <2>2. CASE d[1] \in Family /\ PaintText(w, d)
      <3>2. owner[w] \in Plugin /\ FontId(owner[w], d[1]) \in Font
        BY <2>2, FontIdType DEF TypeOK
      <3>3. PaintSprite(w, d, FontId(owner[w], d[1])) /\ FontId(owner[w], d[1]) \in Key
        BY <2>2, <3>2 DEF PaintText, Key
      <3>4. fontIds' \in [Plugin -> [Family -> Font \cup {Nil}]]
        BY <2>2, <3>2 DEF PaintText, TypeOK
      <3> QED BY <1>2, <3>3, <3>4, SpriteType DEF Paint, TypeOK, hostVars
    <2>3. CASE d \in Picture /\ PaintPicture(w, d)
      <3>1. d[1] \in Image \cup Svg
        BY <2>3 DEF Picture
      <3>3. PaintSprite(w, d, d[1]) /\ d[1] \in Key
        BY <2>3, <3>1 DEF PaintPicture, Key
      <3> QED BY <1>2, <2>3, <3>3, SpriteType DEF Paint, PaintPicture, TypeOK, hostVars
    <2> QED BY <1>2, <2>1, <2>2, <2>3 DEF Paint
  <1>3. ASSUME NEW w \in Window, NEW k \in Image, Remove(w, k) PROVE TypeOK'
    <2>1. tiles' \in [Window -> [Key -> Nat]]
      BY <1>3 DEF Remove, TypeOK, Key
    <2>2. payload' \in [Window -> [Picture -> Nat]]
      BY <1>3 DEF Remove, TypeOK
    <2> QED BY <1>3, <2>1, <2>2 DEF Remove, TypeOK, hostVars
  <1>4. ASSUME NEW w \in Window, NEW i \in DOMAIN scene[w], Tint(w, i) PROVE TypeOK'
    <2>1. Shows(w, i) \in Picture /\ Mint(w, Shows(w, i))
      BY <1>4 DEF Tint, Untinted, Picture
    <2>2. frame' \in [Plugin -> Frame \cup {Nil}]
      BY <1>4 DEF Tint, TypeOK, Frame, Painting, Serialising
    <2> QED BY <1>4, <2>1, <2>2, MintType DEF Tint, TypeOK, hostVars
  <1>5. ASSUME NEW w \in Window, Present(w) PROVE TypeOK'
    <2>1. owner[w] \in Plugin /\ Append(scenes[owner[w]], DisplayList(w)) \in Seq(List)
      BY ListType DEF TypeOK
    <2>2. scenes' \in [Plugin -> Seq(List)]
      BY <1>5, <2>1 DEF Present, TypeOK
    <2>3. pending' \in [Window -> SUBSET Payload] /\ frame' \in [Plugin -> Frame \cup {Nil}]
      BY <1>5 DEF Present, TakePending, TypeOK
    <2> QED BY <1>5, <2>2, <2>3 DEF Present, TypeOK, hostVars
  <1>6. ASSUME NEW p \in Plugin, EndTurn(p) PROVE TypeOK'
    <2>1. wire[p] \o scenes[p] \in Seq(List)
      BY DEF TypeOK
    <2>2. wire' \in [Plugin -> Seq(List)]
      BY <1>6, <2>1 DEF EndTurn, TypeOK
    <2>3. scenes' \in [Plugin -> Seq(List)]
      BY <1>6 DEF EndTurn, TypeOK
    <2> QED BY <1>6, <2>2, <2>3 DEF EndTurn, TypeOK, atlasVars, hostVars
  <1>7. ASSUME NEW p \in Plugin, Trap(p) PROVE TypeOK'
    BY <1>7 DEF Trap, TypeOK, atlasVars, hostVars
  <1>8. ASSUME NEW p \in Plugin, Unpack(p) PROVE TypeOK'
    <2>1. /\ wire[p] \in Seq(List) /\ wire[p] # <<>>
          /\ Head(wire[p]) \in List /\ Tail(wire[p]) \in Seq(List)
      BY <1>8 DEF Unpack, TypeOK
    <2>2. wire' \in [Plugin -> Seq(List)]
      BY <1>8, <2>1 DEF Unpack, TypeOK
    <2>3. images' = [q \in Plugin |-> images'[q]]
      BY <1>8 DEF Unpack, IngestImages, TypeOK
    <2>4. display' \in [Surface -> Shown \cup {Nil}]
      BY <1>8, <2>1 DEF Unpack, SetScene, TypeOK, Shown, List
    <2> QED BY <1>8, <2>2, <2>3, <2>4 DEF Unpack, TypeOK, guestVars, atlasVars
  <1>9. ASSUME NEW s \in Surface, DropSurface(s) PROVE TypeOK'
    BY <1>9 DEF DropSurface, TypeOK, guestVars, atlasVars
  <1>10. ASSUME NEW f \in Family, AddFont(f) PROVE TypeOK'
    BY <1>10 DEF AddFont, TypeOK, guestVars, atlasVars
  <1>11. CASE UNCHANGED vars
    BY <1>11 DEF vars, guestVars, hostVars, atlasVars, TypeOK
  <1>12. ASSUME NEW w \in Window, WindowStep(w) PROVE TypeOK'
    BY <1>12, <1>1, <1>2, <1>3, <1>4, <1>5 DEF WindowStep
  <1> QED
    BY <1>6, <1>7, <1>8, <1>9, <1>10, <1>11, <1>12 DEF Next, PluginStep

\* Every reachable state is well typed.
THEOREM TypeCorrect == Spec => []TypeOK
  BY InitType, NextType, PTL DEF Spec
-----------------------------------------------------------------------------
(***************************************************************************)
(* The inductive invariant.  An atlas hands out each tile once, so a tile  *)
(* in a scene stands for what was painted with it, or for nothing; the     *)
(* history minted says what a payload id stands for, everywhere.           *)
(***************************************************************************)
\* The lists of a plugin that the host has not unpacked, oldest first.
Out(p) == wire[p] \o scenes[p]

\* The atlas key that d was painted with.
KeyOf(w, d) == IF d[1] \in Family THEN fontIds[owner[w]][d[1]] ELSE d[1]

SpriteExact(w, s) ==
    /\ s.tile < nextTile[w]
    /\ s.draw[1] \in Shape => s.tile = 0
    /\ s.draw[1] \in Family => fontIds[owner[w]][s.draw[1]] # Nil
    /\ \A k \in Key : s.tile # 0 /\ tiles[w][k] = s.tile => k = KeyOf(w, s.draw)

AtlasExact(w) ==
    /\ \A k \in Key : tiles[w][k] < nextTile[w]
    /\ \A k, l \in Key : tiles[w][k] = tiles[w][l] /\ tiles[w][k] # 0 => k = l
    /\ \A k \in Image : tiles[w][k] # 0 => payload[w][<<k, Nil>>] # 0

TilesExact ==
    /\ \A p \in Plugin, f \in Family : fontIds[p][f] \in {Nil, f, Fallback}
    /\ \A w \in Window : AtlasExact(w)
    /\ \A w \in Window : \A i \in DOMAIN scene[w] : SpriteExact(w, scene[w][i])

MintedAs(p, id, x) == id \in 1..Len(minted[p]) /\ minted[p][id] = x

MintedExact ==
    /\ \A w \in Window, x \in Picture :
          payload[w][x] # 0 => MintedAs(owner[w], payload[w][x], x)
    /\ \A w \in Window : \A y \in pending[w] : MintedAs(owner[w], y.id, y.of)
    /\ \A p \in Plugin : \A id \in DOMAIN images[p] : MintedAs(p, id, images[p][id])
    /\ \A p \in Plugin : \A i \in DOMAIN Out(p) : \A y \in Out(p)[i].new :
          MintedAs(p, y.id, y.of)

PrimExact(p, q) ==
    /\ q.draw \in Picture => MintedAs(p, q.image, q.draw)
    /\ q.image # 0 => q.draw \in Picture
    /\ q.draw[1] \in Family => q.font # Nil /\ q.font = fontIds[p][q.draw[1]]
    /\ q.draw[1] \notin Family => q.font = Nil

PrimsExact ==
    /\ \A p \in Plugin : \A i \in DOMAIN Out(p) : \A q \in Out(p)[i].prims : PrimExact(p, q)
    /\ \A s \in Surface : \A q \in Showing(s) : PrimExact(display[s].plugin, q)

\* The payloads that are at the host or on their way.
Sent(p) == DOMAIN images[p] \cup UNION {Ids(Out(p)[i].new) : i \in DOMAIN Out(p)}

ArrivesWith(p, i, id) ==
    id \in DOMAIN images[p] \/ \E j \in 1..i : id \in Ids(Out(p)[j].new)

Arriving ==
    /\ \A p \in Plugin : stopped[p] => frame[p] = Nil
    /\ \A p \in Plugin : \A i \in DOMAIN Out(p) : \A q \in Out(p)[i].prims :
          q.image # 0 => ArrivesWith(p, i, q.image)
    /\ \A s \in Surface : \A q \in Showing(s) : q.image # 0 => q.image \in DOMAIN Cache(s)
    /\ \A w \in Window, x \in Picture :
          ~stopped[owner[w]] /\ payload[w][x] # 0 =>
              payload[w][x] \in Ids(pending[w]) \cup Sent(owner[w])

Separate ==
    /\ \A p \in Plugin : \A i, j \in DOMAIN Out(p) :
          i # j => Ids(Out(p)[i].new) \cap Ids(Out(p)[j].new) = {}
    /\ \A p \in Plugin : \A i \in DOMAIN Out(p) :
          Ids(Out(p)[i].new) \cap DOMAIN images[p] = {}
    /\ \A w \in Window : Ids(pending[w]) \cap Sent(owner[w]) = {}
    /\ \A v, w \in Window : v # w /\ owner[v] = owner[w] =>
          Ids(pending[v]) \cap Ids(pending[w]) = {}
-----------------------------------------------------------------------------
(***************************************************************************)
(* Tiles.                                                                  *)
(***************************************************************************)
FontsStay == \A p \in Plugin, f \in Family :
                fontIds[p][f] # Nil => fontIds'[p][f] = fontIds[p][f]

\* A sprite keeps its meaning when tiles are only added, with a new number,
\* or removed.
LEMMA SpriteStays ==
    ASSUME TypeOK, TypeOK', UNCHANGED owner, FontsStay,
           NEW w \in Window, NEW s \in Sprite, SpriteExact(w, s),
           nextTile[w] <= nextTile'[w],
           \A k \in Key : tiles'[w][k] \in {tiles[w][k], 0, nextTile[w]}
    PROVE  SpriteExact(w, s)'
  <1>1. /\ s.tile \in Nat /\ nextTile[w] \in Nat /\ nextTile'[w] \in Nat
        /\ owner[w] \in Plugin /\ s.draw \in Draw
    BY DEF TypeOK, Sprite
  <1>2. s.tile < nextTile'[w] /\ (s.draw[1] \in Shape => s.tile = 0)
    BY <1>1 DEF SpriteExact
  <1>3. s.draw[1] \in Family => /\ fontIds'[owner[w]][s.draw[1]] # Nil
                                /\ fontIds'[owner[w]][s.draw[1]] = fontIds[owner[w]][s.draw[1]]
    BY <1>1 DEF SpriteExact, FontsStay
  <1>4. KeyOf(w, s.draw)' = KeyOf(w, s.draw)
    BY <1>3 DEF KeyOf
  <1>5. ASSUME NEW k \in Key, s.tile # 0, tiles'[w][k] = s.tile
        PROVE  k = KeyOf(w, s.draw)
    <2>1. tiles[w][k] = s.tile
      BY <1>1, <1>5 DEF SpriteExact
    <2> QED BY <2>1, <1>5 DEF SpriteExact
  <1> QED BY <1>2, <1>3, <1>4, <1>5 DEF SpriteExact

LEMMA InitTiles == Init => TilesExact
  <1> SUFFICES ASSUME Init PROVE TilesExact
    OBVIOUS
  <1>1. \A w \in Window : scene[w] = <<>> /\ nextTile[w] = 1
    BY DEF Init
  <1>2. \A w \in Window, k \in Key : tiles[w][k] = 0
    BY DEF Init
  <1>3. \A p \in Plugin, f \in Family : fontIds[p][f] = Nil
    BY DEF Init
  <1>4. \A w \in Window : AtlasExact(w)
    BY <1>1, <1>2 DEF AtlasExact, Key
  <1> QED BY <1>1, <1>3, <1>4 DEF TilesExact

\* What the type of a painted sprite needs to know of the two cases.
LEMMA AtlasGrows ==
    ASSUME TypeOK, TypeOK', TilesExact, NEW w \in Window, NEW k \in Key, GetOrInsert(w, k)
    PROVE  /\ tiles'[w][k] # 0
           /\ \A l \in Key : tiles'[w][l] \in {tiles[w][l], 0, nextTile[w]}
           /\ nextTile[w] <= nextTile'[w]
           /\ \A v \in Window : AtlasExact(v)'
           /\ \A v \in Window : v # w => tiles'[v] = tiles[v] /\ nextTile'[v] = nextTile[v]
  <1>1. nextTile[w] \in Nat \ {0} /\ \A v \in Window, l \in Key : tiles[v][l] \in Nat
    BY DEF TypeOK
  <1>2. CASE tiles[w][k] # 0
    <2>1. UNCHANGED atlasVars
      BY <1>2 DEF GetOrInsert
    <2>2. \A v \in Window : AtlasExact(v)'
      BY <2>1 DEF TilesExact, AtlasExact, atlasVars
    <2> QED BY <1>1, <1>2, <2>1, <2>2 DEF atlasVars
  <1>3. CASE tiles[w][k] = 0
    <2>1. /\ tiles' = [tiles EXCEPT ![w][k] = nextTile[w]]
          /\ nextTile' = [nextTile EXCEPT ![w] = @ + 1]
      BY <1>3 DEF GetOrInsert, FabricateTile
    <2>2. tiles'[w][k] = nextTile[w] /\ nextTile'[w] = nextTile[w] + 1
      BY <2>1 DEF TypeOK
    <2>3. \A l \in Key : l # k => tiles'[w][l] = tiles[w][l]
      BY <2>1 DEF TypeOK
    <2>4. \A v \in Window : v # w => tiles'[v] = tiles[v] /\ nextTile'[v] = nextTile[v]
      BY <2>1 DEF TypeOK
    <2>5. /\ k \in Image => payload'[w][<<k, Nil>>] # 0
          /\ \A v \in Window, x \in Picture :
                <<v, x>> # <<w, <<k, Nil>>>> => payload'[v][x] = payload[v][x]
      <3>1. CASE k \in Image
        <4>1. Mint(w, <<k, Nil>>) /\ <<k, Nil>> \in Picture
          BY <1>3, <3>1 DEF GetOrInsert, Picture
        <4>2. NextPayloadId(w) \in Nat \ {0}
          <5>1. minted[owner[w]] \in Seq(Picture)
            BY DEF TypeOK
          <5> QED BY <5>1 DEF NextPayloadId
        <4> QED BY <4>1, <4>2 DEF Mint, TypeOK
      <3>2. CASE k \notin Image
        BY <1>3, <3>2 DEF GetOrInsert
      <3> QED BY <3>1, <3>2
    <2>6. AtlasExact(w)'
      <3>1. \A l \in Key : tiles[w][l] < nextTile[w]
        BY DEF TilesExact, AtlasExact
      <3>2. \A l \in Key : tiles'[w][l] < nextTile'[w]
        BY <1>1, <2>2, <2>3, <3>1
      <3>3. \A l, m \in Key : tiles'[w][l] = tiles'[w][m] /\ tiles'[w][l] # 0 => l = m
        BY <1>1, <2>2, <2>3, <3>1 DEF TilesExact, AtlasExact
      <3>4. \A l \in Image : l \in Key /\ <<l, Nil>> \in Picture
        BY DEF Key, Picture
      <3>5. \A l \in Image : tiles'[w][l] # 0 => payload'[w][<<l, Nil>>] # 0
        BY <2>3, <2>5, <3>4 DEF TilesExact, AtlasExact
      <3> QED BY <3>2, <3>3, <3>5 DEF AtlasExact
    <2>7. ASSUME NEW v \in Window, v # w PROVE AtlasExact(v)'
      <3>1. \A l \in Image : <<l, Nil>> \in Picture
        BY DEF Picture
      <3> QED BY <2>4, <2>5, <2>7, <3>1 DEF TilesExact, AtlasExact
    <2> QED BY <1>1, <2>2, <2>3, <2>4, <2>6, <2>7
  <1> QED BY <1>2, <1>3

\* A painted sprite stands for its key, and the others for theirs.
LEMMA PaintTiles ==
    ASSUME TypeOK, TypeOK', TilesExact, NEW w \in Window, NEW d \in Draw, NEW k \in Key,
           PaintSprite(w, d, k), UNCHANGED owner, FontsStay,
           d[1] \notin Shape, KeyOf(w, d)' = k,
           d[1] \in Family => fontIds'[owner[w]][d[1]] # Nil
    PROVE  /\ \A v \in Window : AtlasExact(v)'
           /\ \A v \in Window : \A i \in DOMAIN scene'[v] : SpriteExact(v, scene[v][i])'
  <1>1. /\ tiles'[w][k] # 0
        /\ \A l \in Key : tiles'[w][l] \in {tiles[w][l], 0, nextTile[w]}
        /\ nextTile[w] <= nextTile'[w]
        /\ \A v \in Window : AtlasExact(v)'
        /\ \A v \in Window : v # w => tiles'[v] = tiles[v] /\ nextTile'[v] = nextTile[v]
    BY AtlasGrows DEF PaintSprite
  <1>2. ASSUME NEW v \in Window, NEW i \in DOMAIN scene'[v] PROVE SpriteExact(v, scene[v][i])'
    <2>1. nextTile[v] \in Nat /\ tiles'[w][k] \in Nat
      BY DEF TypeOK
    <2>2. CASE v = w /\ scene'[v][i] = [draw |-> d, tile |-> tiles'[w][k]]
      <3>1. \A l \in Key : tiles'[w][l] = tiles'[w][k] => l = k
        BY <1>1 DEF AtlasExact
      <3>2. tiles'[w][k] < nextTile'[w]
        BY <1>1 DEF AtlasExact
      <3> QED BY <2>2, <3>1, <3>2 DEF SpriteExact
    <2>3. CASE /\ i \in DOMAIN scene[v] /\ scene'[v][i] = scene[v][i]
               /\ scene[v][i] \in Sprite
      <3>2. SpriteExact(v, scene[v][i])
        BY <2>3 DEF TilesExact
      <3>3. nextTile[v] <= nextTile'[v]
        BY <1>1, <2>1
      <3>4. \A l \in Key : tiles'[v][l] \in {tiles[v][l], 0, nextTile[v]}
        BY <1>1
      <3>5. PICK s \in Sprite : s = scene[v][i] /\ s = scene'[v][i]
        BY <2>3
      <3>6. SpriteExact(v, s)'
        BY <3>2, <3>3, <3>4, <3>5, SpriteStays
      <3> QED BY <3>5, <3>6
    <2>4. PICK s \in Sprite : s = [draw |-> d, tile |-> tiles'[w][k]]
      BY <2>1 DEF Sprite
    <2>5. \/ v = w /\ scene'[v][i] = s
          \/ /\ i \in DOMAIN scene[v] /\ scene'[v][i] = scene[v][i]
             /\ scene[v][i] \in Sprite
      BY <2>4, SceneParts DEF PaintSprite
    <2> QED BY <2>2, <2>3, <2>4, <2>5
  <1> QED BY <1>1, <1>2

LEMMA NextTiles == TypeOK /\ TypeOK' /\ TilesExact /\ [Next]_vars => TilesExact'
  <1> SUFFICES ASSUME TypeOK, TypeOK', TilesExact, [Next]_vars PROVE TilesExact'
    OBVIOUS
  <1> DEFINE Known == \A p \in Plugin, f \in Family : fontIds[p][f] \in {Nil, f, Fallback}
             Sprites == \A w \in Window : \A i \in DOMAIN scene[w] : SpriteExact(w, scene[w][i])
             Atlases == \A w \in Window : AtlasExact(w)
  <1>0. CASE UNCHANGED <<owner, fontIds, tiles, nextTile, payload, scene>>
    BY <1>0, SMTT(20) DEF TilesExact, AtlasExact, SpriteExact, KeyOf
  <1>1. ASSUME NEW w \in Window, NEW m \in 1..Len(scene[w]) + 1,
               NEW n \in 0..Len(scene[w]), BeginFrame(w, m, n)
        PROVE  TilesExact'
    <2>1. UNCHANGED <<owner, fontIds, tiles, nextTile, payload>>
      BY <1>1 DEF BeginFrame, atlasVars
    <2>2. ASSUME NEW v \in Window, NEW i \in DOMAIN scene'[v] PROVE SpriteExact(v, scene[v][i])'
      <3>1. scene[v] \in Seq(Sprite)
        BY DEF TypeOK
      <3>2. PICK j \in DOMAIN scene[v] : scene'[v][i] = scene[v][j]
        <4>1. CASE v = w
          <5>1. scene'[v] = SubSeq(scene[v], m, n)
            BY <1>1, <4>1 DEF BeginFrame, TypeOK
          <5>2. m + i - 1 \in DOMAIN scene[v] /\ scene'[v][i] = scene[v][m + i - 1]
            <6>1. \A l \in m..n : scene[v][l] \in Sprite
              BY <3>1, <4>1
            <6>2. /\ Len(SubSeq(scene[v], m, n)) = IF m <= n THEN n - m + 1 ELSE 0
                  /\ \A l \in 1..n - m + 1 : SubSeq(scene[v], m, n)[l] = scene[v][m + l - 1]
                  /\ SubSeq(scene[v], m, n) \in Seq(Sprite)
              BY <3>1, <6>1, SubSeqProperties, <4>1
            <6> QED BY <3>1, <4>1, <5>1, <6>2
          <5> QED BY <5>2
        <4>2. CASE v # w
          BY <1>1, <4>2 DEF BeginFrame, TypeOK
        <4> QED BY <4>1, <4>2
      <3>3. PICK s \in Sprite : s = scene[v][j] /\ s = scene'[v][i]
        BY <3>1, <3>2
      <3>4. SpriteExact(v, s)'
        <4>1. SpriteExact(v, s)
          BY <3>2, <3>3 DEF TilesExact
        <4> QED BY <2>1, <4>1 DEF SpriteExact, KeyOf
      <3> QED BY <3>3, <3>4
    <2> QED BY <2>1, <2>2 DEF TilesExact, AtlasExact
  <1>2. ASSUME NEW w \in Window, NEW d \in Draw, Paint(w, d) PROVE TilesExact'
    <2>0. UNCHANGED owner /\ owner[w] \in Plugin
      BY <1>2 DEF Paint, TypeOK
    <2>1. CASE d[1] \in Shape /\ PaintShape(w, d)
      <3>1. UNCHANGED <<fontIds, tiles, nextTile, payload>>
        BY <2>1 DEF PaintShape, atlasVars
      <3>2. ASSUME NEW v \in Window, NEW i \in DOMAIN scene'[v]
            PROVE  SpriteExact(v, scene[v][i])'
        <4>1. nextTile[v] \in Nat \ {0}
          BY DEF TypeOK
        <4>2. CASE scene'[v][i] = [draw |-> d, tile |-> 0]
          <5>1. d[1] \notin Family
            BY <2>1, DrawAssumption DEF Key, Font
          <5> QED BY <3>1, <4>1, <4>2, <5>1 DEF SpriteExact
        <4>3. CASE /\ i \in DOMAIN scene[v] /\ scene'[v][i] = scene[v][i]
                   /\ scene[v][i] \in Sprite
          <5>2. PICK s \in Sprite : s = scene[v][i] /\ s = scene'[v][i]
            BY <4>3
          <5>3. SpriteExact(v, s)'
            BY <2>0, <3>1, <4>3, <5>2, SMTT(20) DEF TilesExact, SpriteExact, KeyOf
          <5> QED BY <5>2, <5>3
        <4>4. PICK s \in Sprite : s = [draw |-> d, tile |-> 0]
          BY DEF Sprite
        <4>5. \/ v = w /\ scene'[v][i] = s
              \/ /\ i \in DOMAIN scene[v] /\ scene'[v][i] = scene[v][i]
                 /\ scene[v][i] \in Sprite
          BY <2>1, <4>4, SceneParts DEF PaintShape
        <4> QED BY <4>2, <4>3, <4>4, <4>5
      <3> QED BY <3>1, <3>2 DEF TilesExact, AtlasExact
    <2>2. CASE d[1] \in Family /\ PaintText(w, d)
      <3> DEFINE p == owner[w]
                 font == FontId(p, d[1])
      <3>1. /\ fontIds' = [fontIds EXCEPT ![p][d[1]] = font] /\ PaintSprite(w, d, font)
            /\ p \in Plugin /\ font \in Font /\ font \in Key
        BY <2>0, <2>2, FontIdType DEF PaintText, Key
      <3>2. FontsStay
        BY <3>1, SMTT(20) DEF FontsStay, FontId, TypeOK
      <3>3. font \in {d[1], Fallback} /\ font # Nil
        BY <2>0, <2>2, <3>1, DrawAssumption DEF FontId, ResolveFont, TilesExact
      <3>4. fontIds'[p][d[1]] = font
        BY <2>2, <3>1 DEF TypeOK
      <3>5. KeyOf(w, d)' = font
        BY <2>0, <2>2, <3>4 DEF KeyOf
      <3>6. d[1] \notin Shape
        BY <2>2, DrawAssumption DEF Key, Font
      <3>7. Atlases' /\ Sprites'
        BY <2>0, <3>1, <3>2, <3>3, <3>4, <3>5, <3>6, PaintTiles
      <3>8. Known'
        BY <2>2, <3>1, <3>3, ZenonT(30) DEF TilesExact, TypeOK
      <3> QED BY <3>7, <3>8 DEF TilesExact
    <2>3. CASE d \in Picture /\ PaintPicture(w, d)
      <3>1. UNCHANGED fontIds /\ PaintSprite(w, d, d[1])
        BY <2>3 DEF PaintPicture
      <3>2. d[1] \in Image \cup Svg /\ d[1] \in Key /\ d[1] \notin Shape /\ d[1] \notin Family
        BY <2>3, DrawAssumption DEF Picture, Key, Font
      <3>3. KeyOf(w, d)' = d[1] /\ FontsStay
        BY <3>1, <3>2 DEF KeyOf, FontsStay
      <3>4. Atlases' /\ Sprites'
        BY <2>0, <3>1, <3>2, <3>3, PaintTiles
      <3> QED BY <3>1, <3>4 DEF TilesExact
    <2> QED BY <1>2, <2>1, <2>2, <2>3 DEF Paint
  <1>3. ASSUME NEW w \in Window, NEW k \in Image, Remove(w, k) PROVE TilesExact'
    <2>1. UNCHANGED <<owner, fontIds, nextTile, scene>> /\ k \in Key
      BY <1>3 DEF Remove, Key
    <2>2. \A v \in Window, l \in Key :
             tiles'[v][l] = IF v = w /\ l = k THEN 0 ELSE tiles[v][l]
      BY <1>3, <2>1, SMTT(20) DEF Remove, TypeOK
    <2>3. \A v \in Window, x \in Picture :
             payload'[v][x] = IF v = w /\ x[1] = k THEN 0 ELSE payload[v][x]
      BY <1>3, <2>1 DEF Remove, TypeOK
    <2>4. \A l \in Image : l \in Key /\ <<l, Nil>> \in Picture /\ <<l, Nil>>[1] = l
      BY DEF Key, Picture
    <2>5. \A v \in Window : nextTile[v] \in Nat \ {0}
      BY DEF TypeOK
    <2>6. ASSUME NEW v \in Window PROVE AtlasExact(v)'
      <3>1. \A l \in Image : tiles'[v][l] # 0 => payload'[v][<<l, Nil>>] # 0
        BY <2>2, <2>3, <2>4 DEF TilesExact, AtlasExact
      <3> QED BY <2>1, <2>2, <2>5, <3>1 DEF TilesExact, AtlasExact
    <2>7. ASSUME NEW v \in Window, NEW i \in DOMAIN scene'[v] PROVE SpriteExact(v, scene[v][i])'
      <3>0. scene[v] \in Seq(Sprite)
        BY DEF TypeOK
      <3>1. PICK s \in Sprite : s = scene[v][i] /\ s = scene'[v][i]
        BY <2>1, <3>0
      <3>2. SpriteExact(v, s)
        BY <2>1, <3>1 DEF TilesExact
      <3>3. FontsStay /\ \A l \in Key : tiles'[v][l] \in {tiles[v][l], 0, nextTile[v]}
        BY <2>1, <2>2 DEF FontsStay
      <3>4. SpriteExact(v, s)'
        BY <2>1, <2>5, <3>2, <3>3, SpriteStays
      <3> QED BY <3>1, <3>4
    <2> QED BY <2>1, <2>6, <2>7 DEF TilesExact
  <1>4. ASSUME NEW w \in Window, NEW i \in DOMAIN scene[w], Tint(w, i) PROVE TilesExact'
    <2>1. UNCHANGED <<owner, fontIds, tiles, nextTile, scene>> /\ Mint(w, Shows(w, i))
      BY <1>4 DEF Tint
    <2>2. NextPayloadId(w) # 0
      BY DEF NextPayloadId, TypeOK
    <2>3. \A v \in Window, x \in Picture : payload[v][x] # 0 => payload'[v][x] # 0
      BY <2>1, <2>2 DEF Mint, TypeOK
    <2>4. \A k \in Image : <<k, Nil>> \in Picture
      BY DEF Picture
    <2>5. ASSUME NEW v \in Window PROVE AtlasExact(v)'
      BY <2>1, <2>3, <2>4 DEF TilesExact, AtlasExact
    <2>6. ASSUME NEW v \in Window, NEW j \in DOMAIN scene[v]
          PROVE  SpriteExact(v, scene[v][j])'
      <3>1. SpriteExact(v, scene[v][j])
        BY DEF TilesExact
      <3> QED BY <2>1, <3>1 DEF SpriteExact, KeyOf
    <2> QED BY <2>1, <2>5, <2>6 DEF TilesExact
  <1>5. ASSUME NEW w \in Window, Present(w) PROVE TilesExact'
    BY <1>0, <1>5 DEF Present
  <1>6. ASSUME NEW p \in Plugin, EndTurn(p) \/ Trap(p) \/ Unpack(p) PROVE TilesExact'
    BY <1>0, <1>6 DEF EndTurn, Trap, Unpack, guestVars, atlasVars
  <1>7. ASSUME NEW s \in Surface, DropSurface(s) PROVE TilesExact'
    BY <1>0, <1>7 DEF DropSurface, guestVars, atlasVars
  <1>8. ASSUME NEW f \in Family, AddFont(f) PROVE TilesExact'
    BY <1>0, <1>8 DEF AddFont, guestVars, atlasVars
  <1>9. CASE UNCHANGED vars
    BY <1>0, <1>9 DEF vars, guestVars, atlasVars
  <1>10. ASSUME NEW w \in Window, WindowStep(w) PROVE TilesExact'
    BY <1>10, <1>1, <1>2, <1>3, <1>4, <1>5 DEF WindowStep
  <1> QED BY <1>6, <1>7, <1>8, <1>9, <1>10 DEF Next, PluginStep
-----------------------------------------------------------------------------
(***************************************************************************)
(* What steps do to the lists on their way and to the payloads.            *)
(***************************************************************************)
LEMMA ConcatKeeps ==
    ASSUME NEW a \in Seq(List), NEW b \in Seq(List)
    PROVE  \A i \in DOMAIN a : i \in DOMAIN (a \o b) /\ (a \o b)[i] = a[i]
  OBVIOUS

LEMMA ConcatAppend ==
    ASSUME NEW a \in Seq(List), NEW b \in Seq(List), NEW e \in List
    PROVE  a \o Append(b, e) = Append(a \o b, e)
  OBVIOUS

LEMMA ConcatHead ==
    ASSUME NEW a \in Seq(List), NEW b \in Seq(List), a # <<>>
    PROVE  a \o b # <<>> /\ Head(a \o b) = Head(a) /\ Tail(a \o b) = Tail(a) \o b
  OBVIOUS

LEMMA OutTyped == ASSUME TypeOK, NEW p \in Plugin
                  PROVE  Out(p) \in Seq(List) /\ wire[p] \in Seq(List) /\ scenes[p] \in Seq(List)
  <1>1. wire[p] \in Seq(List) /\ scenes[p] \in Seq(List)
    BY DEF TypeOK
  <1> QED BY <1>1 DEF Out

Quiet == UNCHANGED <<payload, pending, minted, wire, scenes, images, display, stopped>>
Minting(w, x) == Mint(w, x) /\ UNCHANGED <<wire, scenes, images, display, stopped>>

\* Every step is of one of eight kinds.
LEMMA StepKinds ==
    ASSUME TypeOK, [Next]_vars
    PROVE  /\ UNCHANGED owner
           /\ \/ Quiet
              \/ \E w \in Window, x \in Picture : Minting(w, x)
              \/ \E w \in Window, k \in Image : Remove(w, k)
              \/ \E w \in Window : Present(w)
              \/ \E p \in Plugin : EndTurn(p)
              \/ \E p \in Plugin : Trap(p)
              \/ \E p \in Plugin : Unpack(p)
              \/ \E s \in Surface : DropSurface(s)
  <1>1. ASSUME NEW w \in Window, NEW d \in Draw, NEW k, PaintSprite(w, d, k)
        PROVE  \/ UNCHANGED <<payload, pending, minted>>
               \/ \E x \in Picture : Mint(w, x)
    BY <1>1 DEF PaintSprite, GetOrInsert, atlasVars, Picture
  <1>2. ASSUME NEW w \in Window, NEW d \in Draw, Paint(w, d)
        PROVE  UNCHANGED owner /\ (Quiet \/ \E x \in Picture : Minting(w, x))
    <2>1. UNCHANGED <<owner, wire, scenes, images, display, stopped>>
      BY <1>2 DEF Paint, hostVars
    <2>2. \/ UNCHANGED <<payload, pending, minted>>
          \/ \E x \in Picture : Mint(w, x)
      BY <1>1, <1>2 DEF Paint, PaintShape, PaintText, PaintPicture, atlasVars
    <2> QED BY <2>1, <2>2 DEF Quiet, Minting
  <1>3. ASSUME NEW w \in Window, WindowStep(w)
        PROVE  /\ UNCHANGED owner
               /\ \/ Quiet
                  \/ \E x \in Picture : Minting(w, x)
                  \/ \E k \in Image : Remove(w, k)
                  \/ Present(w)
    <2>1. ASSUME NEW m, NEW n, BeginFrame(w, m, n) PROVE UNCHANGED owner /\ Quiet
      BY <2>1 DEF BeginFrame, Quiet, atlasVars, hostVars
    <2>2. ASSUME NEW i \in DOMAIN scene[w], Tint(w, i)
          PROVE  UNCHANGED owner /\ \E x \in Picture : Minting(w, x)
      <3>1. Shows(w, i) \in Picture
        BY <2>2 DEF Tint, Untinted, Picture
      <3> QED BY <2>2, <3>1 DEF Tint, Minting, hostVars
    <2>3. ASSUME NEW k \in Image, Remove(w, k) PROVE UNCHANGED owner
      BY <2>3 DEF Remove
    <2>4. ASSUME Present(w) PROVE UNCHANGED owner
      BY <2>4 DEF Present
    <2> QED BY <1>2, <1>3, <2>1, <2>2, <2>3, <2>4 DEF WindowStep
  <1>4. ASSUME NEW p \in Plugin, PluginStep(p) PROVE UNCHANGED owner
    BY <1>4 DEF PluginStep, EndTurn, Trap, Unpack, guestVars
  <1>5. ASSUME NEW s \in Surface, DropSurface(s) PROVE UNCHANGED owner
    BY <1>5 DEF DropSurface, guestVars
  <1>6. ASSUME NEW f \in Family, AddFont(f) PROVE UNCHANGED owner /\ Quiet
    BY <1>6 DEF AddFont, guestVars, atlasVars, Quiet
  <1>7. CASE UNCHANGED vars
    BY <1>7 DEF vars, guestVars, hostVars, atlasVars, Quiet
  <1> QED BY <1>3, <1>4, <1>5, <1>6, <1>7 DEF Next, PluginStep

\* The lists on their way: a turn only moves them, drawing adds one at the
\* end, the host takes the first, and a trap keeps those of ended turns.
LEMMA OutSame ==
    ASSUME UNCHANGED <<wire, scenes>>, NEW p \in Plugin
    PROVE  Out(p)' = Out(p)
  BY DEF Out

LEMMA OutEndTurn ==
    ASSUME TypeOK, NEW q \in Plugin, EndTurn(q), NEW p \in Plugin
    PROVE  Out(p)' = Out(p)
  <1>1. wire[q] \in Seq(List) /\ scenes[q] \in Seq(List)
    BY OutTyped
  <1>2. (wire[q] \o scenes[q]) \o <<>> = wire[q] \o scenes[q]
    BY <1>1
  <1>3. wire'[q] = wire[q] \o scenes[q] /\ scenes'[q] = <<>>
    BY DEF EndTurn, TypeOK
  <1>4. p # q => wire'[p] = wire[p] /\ scenes'[p] = scenes[p]
    BY DEF EndTurn, TypeOK
  <1> QED BY <1>2, <1>3, <1>4 DEF Out

LEMMA OutPresent ==
    ASSUME TypeOK, NEW w \in Window, Present(w), NEW p \in Plugin
    PROVE  Out(p)' = IF p = owner[w] THEN Append(Out(p), DisplayList(w)) ELSE Out(p)
  <1>1. wire[p] \in Seq(List) /\ scenes[p] \in Seq(List) /\ DisplayList(w) \in List
    BY OutTyped, ListType
  <1>2. wire[p] \o Append(scenes[p], DisplayList(w)) = Append(wire[p] \o scenes[p], DisplayList(w))
    BY <1>1, ConcatAppend
  <1>3. wire' = wire
    BY DEF Present
  <1>4. scenes'[p] = IF p = owner[w] THEN Append(scenes[p], DisplayList(w)) ELSE scenes[p]
    BY DEF Present, TypeOK
  <1> QED BY <1>2, <1>3, <1>4 DEF Out

LEMMA OutUnpack ==
    ASSUME TypeOK, NEW q \in Plugin, Unpack(q), NEW p \in Plugin
    PROVE  /\ Out(p)' = IF p = q THEN Tail(Out(p)) ELSE Out(p)
           /\ Out(q) # <<>> /\ Head(Out(q)) = Head(wire[q])
  <1>1. wire[q] \in Seq(List) /\ scenes[q] \in Seq(List) /\ wire[q] # <<>>
    BY OutTyped DEF Unpack
  <1>2. /\ Head(wire[q] \o scenes[q]) = Head(wire[q])
        /\ Tail(wire[q] \o scenes[q]) = Tail(wire[q]) \o scenes[q]
        /\ wire[q] \o scenes[q] # <<>>
    BY <1>1, ConcatHead
  <1>3. wire' = [wire EXCEPT ![q] = Tail(wire[q])] /\ scenes' = scenes
    BY DEF Unpack, guestVars
  <1> QED BY <1>2, <1>3 DEF TypeOK, Out

LEMMA OutTrap ==
    ASSUME TypeOK, NEW q \in Plugin, Trap(q), NEW p \in Plugin
    PROVE  \A i \in DOMAIN Out(p)' : i \in DOMAIN Out(p) /\ Out(p)'[i] = Out(p)[i]
  <1>1. wire[q] \in Seq(List) /\ scenes[q] \in Seq(List)
    BY OutTyped
  <1>2. CASE p = q
    <2>1. wire'[q] = wire[q] /\ scenes'[q] = <<>>
      BY DEF Trap, TypeOK
    <2>2. Out(q)' = wire[q]
      BY <1>1, <2>1 DEF Out
    <2>3. \A i \in DOMAIN wire[q] :
             i \in DOMAIN (wire[q] \o scenes[q]) /\ (wire[q] \o scenes[q])[i] = wire[q][i]
      BY <1>1, ConcatKeeps
    <2> QED BY <1>2, <2>2, <2>3 DEF Out
  <1>3. CASE p # q
    BY <1>3 DEF Trap, TypeOK, Out
  <1> QED BY <1>2, <1>3
-----------------------------------------------------------------------------
(***************************************************************************)
(* Payload ids.                                                            *)
(***************************************************************************)
LEMMA MintFacts ==
    ASSUME TypeOK, NEW w \in Window, NEW x \in Picture, Mint(w, x)
    PROVE  /\ Len(minted[owner[w]]) \in Nat /\ NextPayloadId(w) = Len(minted[owner[w]]) + 1
           /\ minted'[owner[w]] = Append(minted[owner[w]], x)
           /\ \A p \in Plugin : p # owner[w] => minted'[p] = minted[p]
           /\ \A v \in Window, z \in Picture :
                 payload'[v][z] = IF v = w /\ z = x THEN NextPayloadId(w) ELSE payload[v][z]
           /\ \A v \in Window :
                 pending'[v] = IF v = w
                               THEN pending[v] \cup {[id |-> NextPayloadId(w), of |-> x]}
                               ELSE pending[v]
  <1>1. owner[w] \in Plugin /\ minted[owner[w]] \in Seq(Picture)
    BY DEF TypeOK
  <1>2. /\ minted'[owner[w]] = Append(minted[owner[w]], x)
        /\ \A p \in Plugin : p # owner[w] => minted'[p] = minted[p]
    BY <1>1 DEF Mint, TypeOK
  <1>3. \A v \in Window, z \in Picture :
           payload'[v][z] = IF v = w /\ z = x THEN NextPayloadId(w) ELSE payload[v][z]
    BY DEF Mint, TypeOK
  <1>4. \A v \in Window :
           pending'[v] = IF v = w THEN pending[v] \cup {[id |-> NextPayloadId(w), of |-> x]}
                                  ELSE pending[v]
    BY DEF Mint, TypeOK
  <1>5. Len(minted[owner[w]]) \in Nat /\ NextPayloadId(w) = Len(minted[owner[w]]) + 1
    BY <1>1 DEF NextPayloadId
  <1> QED BY <1>2, <1>3, <1>4, <1>5

LEMMA RemoveFacts ==
    ASSUME TypeOK, NEW w \in Window, NEW k \in Image, Remove(w, k)
    PROVE  /\ \A v \in Window, x \in Picture : payload'[v][x] \in {0, payload[v][x]}
           /\ UNCHANGED <<owner, pending, minted, wire, scenes, images, display, stopped>>
  BY DEF Remove, TypeOK, hostVars

LEMMA MintPending ==
    ASSUME TypeOK, NEW w \in Window, NEW x, Minting(w, x), NEW v \in Window
    PROVE  pending'[v] = IF v = w
                         THEN pending[v] \cup {[id |-> NextPayloadId(w), of |-> x]}
                         ELSE pending[v]
  <1>1. pending' = [pending EXCEPT ![w] = @ \cup {[id |-> NextPayloadId(w), of |-> x]}]
    BY DEF Minting, Mint
  <1>2. pending \in [Window -> SUBSET Payload]
    BY DEF TypeOK
  <1> QED BY <1>1, <1>2

\* What waits to be shipped is shipped, or one more comes to wait.
LEMMA PendingSteps ==
    ASSUME TypeOK, [Next]_vars, NEW w \in Window
    PROVE  \/ pending'[w] = pending[w]
           \/ Present(w) /\ pending'[w] = {}
           \/ \E x \in Picture :
                 /\ Minting(w, x)
                 /\ pending'[w] = pending[w] \cup {[id |-> NextPayloadId(w), of |-> x]}
  <1>1. CASE \E v \in Window, x \in Picture : Minting(v, x)
    <2>1. PICK v \in Window, x \in Picture : Minting(v, x)
      BY <1>1
    <2>2. pending'[w] = IF w = v
                        THEN pending[w] \cup {[id |-> NextPayloadId(v), of |-> x]}
                        ELSE pending[w]
      BY <2>1, MintPending
    <2> QED BY <2>1, <2>2
  <1>2. CASE \E v \in Window : Present(v)
    <2>1. PICK v \in Window : Present(v)
      BY <1>2
    <2>2. pending' = [pending EXCEPT ![v] = {}]
      BY <2>1 DEF Present, TakePending
    <2>3. pending \in [Window -> SUBSET Payload]
      BY DEF TypeOK
    <2> QED BY <2>1, <2>2, <2>3
  <1>3. CASE \E v \in Window, k \in Image : Remove(v, k)
    BY <1>3 DEF Remove
  <1>4. CASE \/ Quiet \/ \E q \in Plugin : EndTurn(q) \/ Trap(q) \/ Unpack(q)
             \/ \E t \in Surface : DropSurface(t)
    BY <1>4 DEF Quiet, EndTurn, Trap, Unpack, DropSurface, guestVars, atlasVars
  <1> QED BY <1>1, <1>2, <1>3, <1>4, StepKinds

\* An id is lost, kept, or just minted.
LEMMA PayloadSteps ==
    ASSUME TypeOK, [Next]_vars, NEW w \in Window, NEW x \in Picture
    PROVE  \/ payload'[w][x] \in {0, payload[w][x]}
           \/ Minting(w, x) /\ payload'[w][x] = NextPayloadId(w)
  <1>1. CASE \E v \in Window, z \in Picture : Minting(v, z)
    <2>1. PICK v \in Window, z \in Picture : Minting(v, z)
      BY <1>1
    <2>2. payload' = [payload EXCEPT ![v][z] = NextPayloadId(v)]
      BY <2>1 DEF Minting, Mint
    <2>3. payload \in [Window -> [Picture -> Nat]]
      BY DEF TypeOK
    <2>4. payload'[w][x] = IF w = v /\ x = z THEN NextPayloadId(v) ELSE payload[w][x]
      BY <2>2, <2>3
    <2> QED BY <2>1, <2>4
  <1>2. CASE \E v \in Window, k \in Image : Remove(v, k)
    BY <1>2, RemoveFacts
  <1>3. CASE \/ Quiet \/ \E v \in Window : Present(v)
             \/ \E q \in Plugin : EndTurn(q) \/ Trap(q) \/ Unpack(q)
             \/ \E t \in Surface : DropSurface(t)
    BY <1>3 DEF Quiet, Present, EndTurn, Trap, Unpack, DropSurface, guestVars, atlasVars
  <1> QED BY <1>1, <1>2, <1>3, StepKinds

\* What an id was handed out for never changes.
LEMMA MintedStays ==
    ASSUME TypeOK, TypeOK', [Next]_vars, NEW p \in Plugin, NEW id, NEW x, MintedAs(p, id, x)
    PROVE  MintedAs(p, id, x)'
  <1>1. CASE minted' = minted
    BY <1>1 DEF MintedAs
  <1>2. ASSUME NEW w \in Window, NEW z \in Picture, Minting(w, z) PROVE MintedAs(p, id, x)'
    <2>1. CASE p = owner[w]
      <3>1. minted[p] \in Seq(Picture) /\ minted'[p] = Append(minted[p], z)
        BY <1>2, <2>1, MintFacts DEF TypeOK, Minting
      <3> QED BY <3>1 DEF MintedAs
    <2>2. CASE p # owner[w]
      BY <1>2, <2>2, MintFacts DEF Minting, MintedAs
    <2> QED BY <2>1, <2>2
  <1> QED
    BY <1>1, <1>2, StepKinds
    DEF Quiet, Remove, Present, EndTurn, Trap, Unpack, DropSurface, guestVars, atlasVars

\* A new id stands for its picture.
LEMMA MintedNew ==
    ASSUME TypeOK, NEW w \in Window, NEW x \in Picture, Mint(w, x),
           NEW p \in Plugin, p = owner[w], NEW id, id = NextPayloadId(w)
    PROVE  MintedAs(p, id, x)'
  <1>1. minted[p] \in Seq(Picture)
    BY DEF TypeOK
  <1>2. id = Len(minted[p]) + 1 /\ minted'[p] = Append(minted[p], x)
    BY MintFacts
  <1> QED BY <1>1, <1>2 DEF MintedAs

LEMMA InitMinted == Init => MintedExact
  <1> SUFFICES ASSUME Init PROVE MintedExact
    OBVIOUS
  <1>1. \A p \in Plugin : Out(p) = <<>> /\ images[p] = <<>>
    BY DEF Init, Out
  <1>2. \A w \in Window : pending[w] = {} /\ \A x \in Picture : payload[w][x] = 0
    BY DEF Init
  <1> QED BY <1>1, <1>2 DEF MintedExact

\* A list on its way was on its way before, or is one just drawn.
LEMMA OutFrom ==
    ASSUME TypeOK, [Next]_vars, NEW p \in Plugin, NEW i \in DOMAIN Out(p)'
    PROVE  \/ \E j \in DOMAIN Out(p) : Out(p)'[i] = Out(p)[j]
           \/ \E w \in Window : /\ Present(w) /\ owner[w] = p
                                /\ Out(p)'[i] = DisplayList(w)
  <1>0. CASE Out(p)' = Out(p)
    BY <1>0
  <1>1. ASSUME NEW w \in Window, Present(w), p = owner[w]
        PROVE  \/ \E j \in DOMAIN Out(p) : Out(p)'[i] = Out(p)[j]
               \/ Out(p)'[i] = DisplayList(w)
    <2>1. Out(p)' = Append(Out(p), DisplayList(w))
      BY <1>1, OutPresent
    <2>2. Out(p) \in Seq(List)
      BY OutTyped
    <2> QED BY <2>1, <2>2
  <1>2. ASSUME NEW w \in Window, Present(w), p # owner[w] PROVE Out(p)' = Out(p)
    BY <1>2, OutPresent
  <1>3. ASSUME NEW q \in Plugin, Unpack(q), p = q
        PROVE  \E j \in DOMAIN Out(p) : Out(p)'[i] = Out(p)[j]
    <2>1. Out(p)' = Tail(Out(p)) /\ Out(p) # <<>>
      BY <1>3, OutUnpack
    <2>2. Out(p) \in Seq(List)
      BY OutTyped
    <2>3. i + 1 \in DOMAIN Out(p) /\ Out(p)'[i] = Out(p)[i + 1]
      BY <2>1, <2>2
    <2> QED BY <2>3
  <1>4. ASSUME NEW q \in Plugin, Unpack(q), p # q PROVE Out(p)' = Out(p)
    BY <1>4, OutUnpack
  <1>5. ASSUME NEW q \in Plugin, Trap(q)
        PROVE  \E j \in DOMAIN Out(p) : Out(p)'[i] = Out(p)[j]
    BY <1>5, OutTrap
  <1>6. ASSUME NEW q \in Plugin, EndTurn(q) PROVE Out(p)' = Out(p)
    BY <1>6, OutEndTurn
  <1> QED
    BY <1>0, <1>1, <1>2, <1>3, <1>4, <1>5, <1>6, StepKinds, OutSame
    DEF Quiet, Minting, Remove, DropSurface, guestVars

\* What the host's cache gains comes from the list it unpacks.
LEMMA CacheFrom ==
    ASSUME TypeOK, NEW p \in Plugin, Unpack(p)
    PROVE  /\ \A q \in Plugin : q # p => images'[q] = images[q]
           /\ DOMAIN images'[p] = DOMAIN images[p] \cup Ids(Head(wire[p]).new)
           /\ \A id \in DOMAIN images'[p] :
                 \/ \E x \in Head(wire[p]).new : x.id = id /\ images'[p][id] = x.of
                 \/ id \in DOMAIN images[p] /\ images'[p][id] = images[p][id]
           /\ Head(wire[p]) \in List
  <1> DEFINE new == Head(wire[p]).new
  <1>1. images'[p] = Ingested(images[p], new) /\ \A q \in Plugin : q # p => images'[q] = images[q]
    BY DEF Unpack, IngestImages, TypeOK
  <1>2. Head(wire[p]) \in List
    <2>1. wire[p] \in Seq(List) /\ wire[p] # <<>>
      BY OutTyped DEF Unpack
    <2> QED BY <2>1
  <1>3. ASSUME NEW id \in Ids(new)
        PROVE  \E x \in new : x.id = id /\ Ingested(images[p], new)[id] = x.of
    <2>1. PICK x \in new : x.id = id
      BY <1>3 DEF Ids
    <2>2. (CHOOSE z \in new : z.id = id) \in new /\ (CHOOSE z \in new : z.id = id).id = id
      BY <2>1
    <2>3. Ingested(images[p], new)[id] = (CHOOSE z \in new : z.id = id).of
      BY <1>3 DEF Ingested
    <2> QED BY <2>2, <2>3
  <1>4. \A id \in DOMAIN images[p] : id \notin Ids(new) => Ingested(images[p], new)[id] = images[p][id]
    BY DEF Ingested
  <1>5. DOMAIN Ingested(images[p], new) = DOMAIN images[p] \cup Ids(new)
    BY DEF Ingested
  <1> QED BY <1>1, <1>2, <1>3, <1>4, <1>5

LEMMA NextMinted == TypeOK /\ TypeOK' /\ MintedExact /\ [Next]_vars => MintedExact'
  <1> SUFFICES ASSUME TypeOK, TypeOK', MintedExact, [Next]_vars PROVE MintedExact'
    OBVIOUS
  <1>0. UNCHANGED owner /\ \A w \in Window : owner[w] \in Plugin
    BY StepKinds DEF TypeOK
  <1>1. ASSUME NEW w \in Window, NEW x \in Picture, payload'[w][x] # 0,
               NEW p \in Plugin, p = owner[w], NEW id, id = payload'[w][x]
        PROVE  MintedAs(p, id, x)'
    <2>1. CASE id = payload[w][x]
      <3>1. MintedAs(p, id, x)
        BY <1>1, <2>1 DEF MintedExact
      <3> QED BY <3>1, MintedStays
    <2>2. CASE id # payload[w][x]
      <3>1. Minting(w, x) /\ id = NextPayloadId(w)
        BY <1>1, <2>2, PayloadSteps
      <3> QED BY <1>1, <3>1, MintedNew DEF Minting
    <2> QED BY <2>1, <2>2
  <1>2. ASSUME NEW w \in Window, NEW y \in pending'[w], NEW p \in Plugin, p = owner[w]
        PROVE  MintedAs(p, y.id, y.of)'
    <2>1. CASE y \in pending[w]
      <3>1. MintedAs(p, y.id, y.of)
        BY <1>2, <2>1 DEF MintedExact
      <3> QED BY <3>1, MintedStays
    <2>2. CASE y \notin pending[w]
      <3>1. PICK z \in Picture :
               /\ Minting(w, z)
               /\ pending'[w] = pending[w] \cup {[id |-> NextPayloadId(w), of |-> z]}
        BY <1>2, <2>2, PendingSteps
      <3>2. y.id = NextPayloadId(w) /\ y.of = z
        BY <1>2, <2>2, <3>1
      <3> QED BY <1>2, <3>1, <3>2, MintedNew DEF Minting
    <2> QED BY <2>1, <2>2
  <1>3. ASSUME NEW p \in Plugin, NEW id \in DOMAIN images'[p], NEW x, x = images'[p][id]
        PROVE  MintedAs(p, id, x)'
    <2>1. CASE id \in DOMAIN images[p] /\ x = images[p][id]
      <3>1. MintedAs(p, id, x)
        BY <2>1 DEF MintedExact
      <3> QED BY <3>1, MintedStays
    <2>2. CASE ~(id \in DOMAIN images[p] /\ x = images[p][id])
      <3>1. PICK q \in Plugin : Unpack(q)
        BY <1>3, <2>2, StepKinds
        DEF Quiet, Minting, Remove, Present, EndTurn, Trap, DropSurface, guestVars, hostVars
      <3>2. q = p
        BY <1>3, <2>2, <3>1, CacheFrom
      <3>3. PICK y \in Head(wire[p]).new : y.id = id /\ x = y.of
        BY <1>3, <2>2, <3>1, <3>2, CacheFrom
      <3>4. Out(p) # <<>> /\ Head(Out(p)) = Head(wire[p]) /\ Out(p) \in Seq(List)
        BY <3>1, <3>2, OutUnpack, OutTyped
      <3>5. 1 \in DOMAIN Out(p) /\ Out(p)[1] = Head(wire[p])
        BY <3>4
      <3>6. MintedAs(p, id, x)
        BY <3>3, <3>5 DEF MintedExact
      <3> QED BY <3>6, MintedStays
    <2> QED BY <2>1, <2>2
  <1>4. ASSUME NEW p \in Plugin, NEW i \in DOMAIN Out(p)', NEW y \in Out(p)'[i].new
        PROVE  MintedAs(p, y.id, y.of)'
    <2>1. ASSUME NEW j \in DOMAIN Out(p), Out(p)'[i] = Out(p)[j] PROVE MintedAs(p, y.id, y.of)
      BY <1>4, <2>1 DEF MintedExact
    <2>2. ASSUME NEW w \in Window, owner[w] = p, Out(p)'[i] = DisplayList(w)
          PROVE  MintedAs(p, y.id, y.of)
      <3>1. y \in pending[w]
        BY <1>4, <2>2 DEF DisplayList
      <3> QED BY <2>2, <3>1 DEF MintedExact
    <2>3. MintedAs(p, y.id, y.of)
      BY <2>1, <2>2, OutFrom
    <2> QED BY <2>3, MintedStays
  <1>5. \A w \in Window, x \in Picture :
           payload'[w][x] # 0 => MintedAs(owner[w], payload[w][x], x)'
    BY <1>0, <1>1
  <1>6. \A w \in Window : \A y \in pending'[w] : MintedAs(owner[w], y.id, y.of)'
    BY <1>0, <1>2
  <1>7. \A p \in Plugin : \A id \in DOMAIN images'[p] : MintedAs(p, id, images[p][id])'
    BY <1>3
  <1> QED BY <1>4, <1>5, <1>6, <1>7 DEF MintedExact
-----------------------------------------------------------------------------
(***************************************************************************)
(* What lists and surfaces say.                                            *)
(***************************************************************************)
LEMMA FontsGrow == TypeOK /\ [Next]_vars => FontsStay
  <1> SUFFICES ASSUME TypeOK, [Next]_vars PROVE FontsStay
    OBVIOUS
  <1>1. CASE UNCHANGED fontIds
    BY <1>1 DEF FontsStay
  <1>2. ASSUME NEW w \in Window, NEW d \in Draw, Paint(w, d) PROVE FontsStay
    <2>1. CASE d[1] \in Family /\ PaintText(w, d)
      <3>1. fontIds' = [fontIds EXCEPT ![owner[w]][d[1]] = FontId(owner[w], d[1])]
        BY <2>1 DEF PaintText
      <3> QED BY <3>1 DEF FontsStay, FontId, TypeOK
    <2> QED BY <1>1, <1>2, <2>1 DEF Paint, PaintShape, PaintPicture
  <1>3. ASSUME NEW w \in Window, WindowStep(w) PROVE FontsStay
    BY <1>1, <1>2, <1>3 DEF WindowStep, BeginFrame, Remove, Tint, Present
  <1> QED
    BY <1>1, <1>3
    DEF Next, PluginStep, EndTurn, Trap, Unpack, DropSurface, AddFont, vars, guestVars

LEMMA PrimStays ==
    ASSUME TypeOK, TypeOK', [Next]_vars, NEW p \in Plugin, NEW q \in Prim, PrimExact(p, q)
    PROVE  PrimExact(p, q)'
  <1>1. q.draw \in Picture => MintedAs(p, q.image, q.draw)'
    BY MintedStays DEF PrimExact
  <1>2. q.draw[1] \in Family => q.font # Nil /\ q.font = fontIds'[p][q.draw[1]]
    BY FontsGrow DEF PrimExact, FontsStay
  <1> QED BY <1>1, <1>2 DEF PrimExact

\* What the serialised sprites of a scene say.
LEMMA ListExact ==
    ASSUME TypeOK, TilesExact, MintedExact, NEW w \in Window, Untinted(w) = {},
           NEW p \in Plugin, p = owner[w], NEW q \in DisplayList(w).prims
    PROVE  PrimExact(p, q)
  <1>1. PICK i \in DOMAIN scene[w] :
           \/ scene[w][i].draw[1] \in Shape /\ q = Serialised(w, i, Nil, 0)
           \/ Shows(w, i)[1] \in Font /\ q = Serialised(w, i, Shows(w, i)[1], 0)
           \/ Shows(w, i) \in Picture /\ q = Serialised(w, i, Nil, payload[w][Shows(w, i)])
    BY DEF DisplayList, Shapes, Glyphs, Images
  <1>2. scene[w][i] \in Sprite
    BY DEF TypeOK
  <1>3. PICK s \in Sprite : s = scene[w][i]
    BY <1>2
  <1>4. s.draw \in Draw /\ q.draw = s.draw /\ SpriteExact(w, s)
    BY <1>1, <1>3 DEF Sprite, Serialised, TilesExact
  <1> DEFINE d == s.draw
             k == TileContent(w, s.tile)
  <1>5. Shows(w, i) = <<k, d[2]>>
    BY <1>3 DEF Shows
  <1>6. Nil \notin Font /\ Nil \notin Image /\ Nil \notin Svg
    BY DrawAssumption DEF Key
  <1>7. /\ fontIds[p] \in [Family -> Font \cup {Nil}]
        /\ d[1] \in Shape \cup Family \cup Image \cup Svg
        /\ d = <<d[1], d[2]>>
    BY <1>4, DrawPair DEF TypeOK
  <1>8. k # Nil => k \in Key /\ k = KeyOf(w, d) /\ tiles[w][k] # 0
    <2>1. k # Nil => k \in Key /\ tiles[w][k] = s.tile /\ s.tile # 0
      BY DEF TileContent
    <2> QED BY <1>4, <2>1 DEF SpriteExact
  <1>9. CASE scene[w][i].draw[1] \in Shape /\ q = Serialised(w, i, Nil, 0)
    <2>1. q.font = Nil /\ q.image = 0 /\ d[1] \in Shape
      BY <1>9, <1>3 DEF Serialised
    <2>2. d[1] \notin Family /\ d \notin Picture
      BY <1>4, <2>1, DrawAssumption, DrawPair DEF Key, Font
    <2> QED BY <1>4, <2>1, <2>2 DEF PrimExact
  <1>10. CASE Shows(w, i)[1] \in Font /\ q = Serialised(w, i, Shows(w, i)[1], 0)
    <2>1. q.font = k /\ q.image = 0 /\ k \in Font
      BY <1>10, <1>5 DEF Serialised
    <2>2. k = KeyOf(w, d) /\ k # Nil
      BY <1>6, <1>8, <2>1
    <2>3. d[1] \in Family
      BY <1>7, <2>1, <2>2, DrawAssumption DEF KeyOf, Key
    <2>4. d \notin Picture
      BY <1>4, <2>3, DrawAssumption, DrawPair DEF Font
    <2>5. k = fontIds[p][d[1]]
      BY <2>2, <2>3 DEF KeyOf
    <2> QED BY <1>4, <2>1, <2>2, <2>3, <2>4, <2>5 DEF PrimExact
  <1>11. CASE Shows(w, i) \in Picture /\ q = Serialised(w, i, Nil, payload[w][Shows(w, i)])
    <2>1. k \in Image \cup Svg /\ q.font = Nil /\ q.image = payload[w][Shows(w, i)]
      BY <1>11, <1>5 DEF Picture, Serialised
    <2>2. k = KeyOf(w, d) /\ k # Nil /\ tiles[w][k] # 0
      BY <1>6, <1>8, <2>1
    <2>3. d[1] \notin Family
      BY <1>7, <2>1, <2>2, <1>6, DrawAssumption DEF KeyOf
    <2>4. d[1] = k /\ Shows(w, i) = d
      BY <1>5, <1>7, <2>2, <2>3 DEF KeyOf
    <2>5. payload[w][d] # 0
      <3>1. CASE k \in Image
        <4>1. d = <<k, Nil>>
          BY <1>4, <1>7, <2>4, <3>1, DrawPair
        <4> QED BY <2>2, <3>1, <4>1 DEF TilesExact, AtlasExact
      <3>2. CASE k \in Svg
        BY <1>4, <1>5, <1>7, <2>4, <3>2, DrawPair DEF Untinted
      <3> QED BY <2>1, <3>1, <3>2
    <2>6. MintedAs(p, q.image, d)
      BY <1>11, <2>1, <2>4, <2>5 DEF MintedExact
    <2> QED BY <1>4, <1>11, <2>1, <2>3, <2>4, <2>6 DEF PrimExact
  <1> QED BY <1>1, <1>9, <1>10, <1>11

LEMMA InitPrims == Init => PrimsExact
  <1> SUFFICES ASSUME Init PROVE PrimsExact
    OBVIOUS
  <1>1. \A p \in Plugin : Out(p) = <<>>
    BY DEF Init, Out
  <1>2. \A s \in Surface : Showing(s) = {}
    BY DEF Init, Showing
  <1> QED BY <1>1, <1>2 DEF PrimsExact

\* What a surface shows it showed before, or comes from the list unpacked.
LEMMA ShownFrom ==
    ASSUME TypeOK, [Next]_vars, NEW s \in Surface, NEW q \in Showing(s)'
    PROVE  \/ q \in Showing(s) /\ display'[s].plugin = display[s].plugin
           \/ \E p \in Plugin : /\ Unpack(p) /\ display'[s].plugin = p
                                /\ 1 \in DOMAIN Out(p) /\ Out(p)[1] = Head(wire[p])
                                /\ q \in Head(wire[p]).prims
  <1>1. CASE display'[s] = display[s]
    BY <1>1 DEF Showing
  <1>2. ASSUME NEW p \in Plugin, Unpack(p), display'[s] # display[s]
        PROVE  /\ display'[s].plugin = p /\ q \in Head(wire[p]).prims
               /\ 1 \in DOMAIN Out(p) /\ Out(p)[1] = Head(wire[p])
    <2>1. display'[s] = [plugin |-> p, prims |-> Head(wire[p]).prims]
      BY <1>2 DEF Unpack, SetScene, TypeOK
    <2>2. display'[s].plugin = p /\ display'[s].prims = Head(wire[p]).prims
      BY <2>1
    <2>3. q \in Head(wire[p]).prims
      BY <2>2 DEF Showing
    <2>4. Out(p) # <<>> /\ Head(Out(p)) = Head(wire[p]) /\ Out(p) \in Seq(List)
      BY <1>2, OutUnpack, OutTyped
    <2> QED BY <2>2, <2>3, <2>4
  <1>3. ASSUME NEW r \in Surface, DropSurface(r), display'[s] # display[s] PROVE FALSE
    <2>1. display'[s] = Nil
      BY <1>3 DEF DropSurface, TypeOK
    <2> QED BY <2>1 DEF Showing
  <1> QED
    BY <1>1, <1>2, <1>3, StepKinds
    DEF Quiet, Minting, Remove, Present, EndTurn, Trap, hostVars

LEMMA ShownTyped ==
    ASSUME TypeOK, NEW s \in Surface, NEW q \in Showing(s)
    PROVE  q \in Prim /\ display[s] \in Shown /\ display[s].plugin \in Plugin
  BY DEF TypeOK, Showing, Shown

LEMMA OutPrims ==
    ASSUME TypeOK, NEW p \in Plugin, NEW i \in DOMAIN Out(p), NEW q \in Out(p)[i].prims
    PROVE  q \in Prim
  <1>1. Out(p)[i] \in List
    BY OutTyped
  <1> QED BY <1>1 DEF List

LEMMA NextPrims ==
    TypeOK /\ TypeOK' /\ TilesExact /\ MintedExact /\ PrimsExact /\ [Next]_vars => PrimsExact'
  <1> SUFFICES ASSUME TypeOK, TypeOK', TilesExact, MintedExact, PrimsExact, [Next]_vars
               PROVE  PrimsExact'
    OBVIOUS
  <1>1. ASSUME NEW p \in Plugin, NEW i \in DOMAIN Out(p)', NEW q \in Out(p)'[i].prims
        PROVE  PrimExact(p, q)'
    <2>1. ASSUME NEW j \in DOMAIN Out(p), Out(p)'[i] = Out(p)[j]
          PROVE  PrimExact(p, q) /\ q \in Prim
      BY <1>1, <2>1, OutPrims DEF PrimsExact
    <2>2. ASSUME NEW w \in Window, Present(w), owner[w] = p, Out(p)'[i] = DisplayList(w)
          PROVE  PrimExact(p, q) /\ q \in Prim
      <3>1. q \in DisplayList(w).prims /\ Untinted(w) = {}
        BY <1>1, <2>2 DEF Present
      <3>2. DisplayList(w) \in List
        BY ListType
      <3> QED BY <2>2, <3>1, <3>2, ListExact DEF List
    <2>3. PrimExact(p, q) /\ q \in Prim
      BY <2>1, <2>2, OutFrom
    <2> QED BY <2>3, PrimStays
  <1>2. ASSUME NEW s \in Surface, NEW q \in Showing(s)', NEW p, p = display'[s].plugin
        PROVE  PrimExact(p, q)'
    <2>1. CASE q \in Showing(s) /\ display'[s].plugin = display[s].plugin
      <3>1. PrimExact(p, q) /\ q \in Prim /\ p \in Plugin
        BY <1>2, <2>1, ShownTyped DEF PrimsExact
      <3> QED BY <3>1, PrimStays
    <2>2. ASSUME p \in Plugin, 1 \in DOMAIN Out(p), Out(p)[1] = Head(wire[p]),
                 q \in Head(wire[p]).prims
          PROVE  PrimExact(p, q)'
      <3>1. PrimExact(p, q) /\ q \in Prim
        BY <2>2, OutPrims DEF PrimsExact
      <3> QED BY <2>2, <3>1, PrimStays
    <2> QED BY <1>2, <2>1, <2>2, ShownFrom
  <1> QED BY <1>1, <1>2 DEF PrimsExact
-----------------------------------------------------------------------------
(***************************************************************************)
(* Images arrive, each of them once.                                       *)
(***************************************************************************)
LEMMA InitArriving == Init => Arriving /\ Separate
  <1> SUFFICES ASSUME Init PROVE Arriving /\ Separate
    OBVIOUS
  <1>1. \A p \in Plugin : Out(p) = <<>> /\ images[p] = <<>> /\ ~stopped[p]
    BY DEF Init, Out
  <1>2. \A s \in Surface : Showing(s) = {}
    BY DEF Init, Showing
  <1>3. \A w \in Window : /\ owner[w] \in Plugin /\ pending[w] = {} /\ Ids(pending[w]) = {}
                          /\ \A x \in Picture : payload[w][x] = 0
    BY DEF Init, Ids
  <1>4. Arriving
    BY <1>1, <1>2, <1>3 DEF Arriving
  <1>5. Separate
    <2>1. \A p \in Plugin : DOMAIN Out(p) = {}
      BY <1>1
    <2>2. \A w \in Window : \A T : Ids(pending[w]) \cap T = {}
      BY <1>3
    <2> QED BY <2>1, <2>2 DEF Separate
  <1> QED BY <1>4, <1>5

LEMMA StoppedIdle ==
    ASSUME TypeOK, Arriving, [Next]_vars, NEW p \in Plugin, stopped'[p]
    PROVE  frame'[p] = Nil
  <1>0. Nil \notin Frame
    BY DrawAssumption
  <1>1. CASE UNCHANGED <<stopped, frame>>
    BY <1>1 DEF Arriving
  <1>2. ASSUME NEW w \in Window, Painting(w) \/ Serialising(w) PROVE ~stopped[owner[w]]
    <2>1. frame[owner[w]] \in Frame /\ owner[w] \in Plugin
      BY <1>2 DEF Painting, Serialising, Frame, TypeOK
    <2> QED BY <1>0, <2>1 DEF Arriving
  <1>3. ASSUME NEW w \in Window, WindowStep(w) PROVE frame'[p] = Nil
    <2>1. ASSUME NEW m, NEW n, BeginFrame(w, m, n) PROVE frame'[p] = Nil
      <3>1. stopped' = stopped /\ ~stopped[owner[w]] /\ \A q \in Plugin : q # owner[w] => frame'[q] = frame[q]
        BY <2>1 DEF BeginFrame, Idle, TypeOK
      <3> QED BY <3>1 DEF Arriving
    <2>2. ASSUME NEW i, Tint(w, i) \/ Present(w) PROVE frame'[p] = Nil
      <3>1. stopped' = stopped /\ ~stopped[owner[w]] /\ \A q \in Plugin : q # owner[w] => frame'[q] = frame[q]
        BY <1>2, <2>2 DEF Tint, Present, TypeOK
      <3> QED BY <3>1 DEF Arriving
    <2> QED BY <1>1, <1>3, <2>1, <2>2 DEF WindowStep, Paint, Remove
  <1>4. ASSUME NEW q \in Plugin, Trap(q) PROVE frame'[p] = Nil
    BY <1>4 DEF Trap, Arriving, TypeOK
  <1> QED
    BY <1>1, <1>3, <1>4
    DEF Next, PluginStep, EndTurn, Unpack, DropSurface, AddFont, vars, guestVars

\* What is at the host or on its way stays so, but for what a trap loses.
LEMMA SentStays ==
    ASSUME TypeOK, [Next]_vars, NEW p \in Plugin, ~stopped'[p], NEW id \in Sent(p)
    PROVE  id \in Sent(p)'
  <1>1. CASE Out(p)' = Out(p) /\ images' = images
    BY <1>1 DEF Sent
  <1>2. ASSUME NEW w \in Window, Present(w), p = owner[w] PROVE id \in Sent(p)'
    <2>1. /\ Out(p)' = Append(Out(p), DisplayList(w)) /\ images' = images
          /\ Out(p) \in Seq(List) /\ DisplayList(w) \in List
      BY <1>2, OutPresent, OutTyped, ListType DEF Present, hostVars
    <2>2. \A i \in DOMAIN Out(p) : i \in DOMAIN Out(p)' /\ Out(p)'[i] = Out(p)[i]
      BY <2>1
    <2> QED BY <2>1, <2>2 DEF Sent
  <1>3. ASSUME NEW q \in Plugin, Unpack(q) PROVE id \in Sent(p)'
    <2>1. CASE p # q
      <3>1. Out(p)' = Out(p) /\ images'[p] = images[p]
        BY <1>3, <2>1, OutUnpack, CacheFrom
      <3> QED BY <3>1 DEF Sent
    <2>2. CASE p = q
      <3>1. /\ Out(p)' = Tail(Out(p)) /\ Out(p) # <<>> /\ Out(p) \in Seq(List)
            /\ Head(Out(p)) = Head(wire[p])
            /\ DOMAIN images'[p] = DOMAIN images[p] \cup Ids(Head(wire[p]).new)
        BY <1>3, <2>2, OutUnpack, OutTyped, CacheFrom
      <3>2. \A i \in DOMAIN Out(p) :
               \/ i = 1 /\ Out(p)[i] = Head(wire[p])
               \/ i - 1 \in DOMAIN Out(p)' /\ Out(p)'[i - 1] = Out(p)[i]
        BY <3>1
      <3> QED BY <3>1, <3>2 DEF Sent
    <2> QED BY <2>1, <2>2
  <1>4. ASSUME NEW q \in Plugin, Trap(q) PROVE Out(p)' = Out(p) /\ images' = images
    BY <1>4 DEF Trap, TypeOK, Out, hostVars
  <1> QED
    BY <1>1, <1>2, <1>3, <1>4, StepKinds, OutSame, OutEndTurn, OutPresent, RemoveFacts
    DEF Quiet, Minting, Present, EndTurn, DropSurface, guestVars, hostVars

\* What becomes so was pending at a window that has now drawn.
LEMMA SentFrom ==
    ASSUME TypeOK, [Next]_vars, NEW p \in Plugin, NEW id \in Sent(p)'
    PROVE  \/ id \in Sent(p)
           \/ \E w \in Window : Present(w) /\ owner[w] = p /\ id \in Ids(pending[w])
  <1>1. CASE id \in DOMAIN images'[p]
    <2>1. CASE id \in DOMAIN images[p]
      BY <2>1 DEF Sent
    <2>2. CASE id \notin DOMAIN images[p]
      <3>1. PICK q \in Plugin : Unpack(q)
        BY <1>1, <2>2, StepKinds
        DEF Quiet, Minting, Remove, Present, EndTurn, Trap, DropSurface, guestVars, hostVars
      <3>2. q = p /\ id \in Ids(Head(wire[p]).new)
        BY <1>1, <2>2, <3>1, CacheFrom
      <3>3. Out(p) # <<>> /\ Head(Out(p)) = Head(wire[p]) /\ Out(p) \in Seq(List)
        BY <3>1, <3>2, OutUnpack, OutTyped
      <3>4. 1 \in DOMAIN Out(p) /\ Out(p)[1] = Head(wire[p])
        BY <3>3
      <3> QED BY <3>2, <3>4 DEF Sent
    <2> QED BY <2>1, <2>2
  <1>2. ASSUME NEW i \in DOMAIN Out(p)', id \in Ids(Out(p)'[i].new)
        PROVE  \/ id \in Sent(p)
               \/ \E w \in Window : Present(w) /\ owner[w] = p /\ id \in Ids(pending[w])
    BY <1>2, OutFrom DEF Sent, DisplayList
  <1> QED BY <1>1, <1>2 DEF Sent

\* A list whose images arrive with it or before goes on to be so.
LEMMA ArrivesStays ==
    ASSUME TypeOK, [Next]_vars, NEW p \in Plugin, NEW i \in DOMAIN Out(p)
    PROVE  \/ \E q \in Plugin : Unpack(q) /\ q = p
           \/ i \notin DOMAIN Out(p)'
           \/ Out(p)'[i] = Out(p)[i] /\ \A id : ArrivesWith(p, i, id) => ArrivesWith(p, i, id)'
  <1>1. Out(p) \in Seq(List) /\ i \in 1..Len(Out(p)) /\ 1..i \subseteq DOMAIN Out(p)
    BY OutTyped
  <1>2. CASE Out(p)' = Out(p) /\ images'[p] = images[p]
    BY <1>2 DEF ArrivesWith
  <1>3. ASSUME NEW w \in Window, Present(w), p = owner[w]
        PROVE  Out(p)'[i] = Out(p)[i] /\ \A id : ArrivesWith(p, i, id) => ArrivesWith(p, i, id)'
    <2>1. /\ Out(p)' = Append(Out(p), DisplayList(w)) /\ images' = images
          /\ DisplayList(w) \in List
      BY <1>3, OutPresent, ListType DEF Present, hostVars
    <2>2. \A j \in 1..i : Out(p)'[j] = Out(p)[j]
      BY <1>1, <2>1
    <2> QED BY <1>1, <2>1, <2>2 DEF ArrivesWith
  <1>4. ASSUME NEW q \in Plugin, Trap(q), i \in DOMAIN Out(p)'
        PROVE  Out(p)'[i] = Out(p)[i] /\ \A id : ArrivesWith(p, i, id) => ArrivesWith(p, i, id)'
    <2>1. images' = images /\ \A j \in DOMAIN Out(p)' : Out(p)'[j] = Out(p)[j]
      BY <1>4, OutTrap DEF Trap, hostVars
    <2>2. 1..i \subseteq DOMAIN Out(p)'
      <3>1. CASE p = q
        <4>1. wire[q] \in Seq(List) /\ wire'[q] = wire[q] /\ scenes'[q] = <<>>
          BY <1>4, OutTyped DEF Trap, TypeOK
        <4>2. Out(p)' = wire[q]
          BY <3>1, <4>1 DEF Out
        <4> QED BY <1>4, <4>1, <4>2
      <3>2. CASE p # q
        <4>1. Out(p)' = Out(p)
          BY <1>4, <3>2 DEF Trap, TypeOK, Out
        <4> QED BY <1>1, <4>1
      <3> QED BY <3>1, <3>2
    <2>3. i \in 1..i
      BY <1>1
    <2> QED BY <2>1, <2>2, <2>3 DEF ArrivesWith
  <1>5. ASSUME NEW q \in Plugin, Unpack(q), p # q
        PROVE  Out(p)' = Out(p) /\ images'[p] = images[p]
    BY <1>5, OutUnpack, CacheFrom
  <1> QED
    BY <1>2, <1>3, <1>4, <1>5, StepKinds, OutSame, OutEndTurn, OutPresent, RemoveFacts
    DEF Quiet, Minting, Present, EndTurn, DropSurface, guestVars, hostVars

\* The pictures of a list just drawn are with it, or were sent before.
LEMMA ListArrives ==
    ASSUME TypeOK, Arriving, NEW w \in Window, Untinted(w) = {}, ~stopped[owner[w]],
           NEW q \in DisplayList(w).prims, q.image # 0
    PROVE  q.image \in Ids(pending[w]) \cup Sent(owner[w])
  <1>1. PICK i \in DOMAIN scene[w] :
           Shows(w, i) \in Picture /\ q = Serialised(w, i, Nil, payload[w][Shows(w, i)])
    BY DEF DisplayList, Shapes, Glyphs, Images, Serialised
  <1>2. q.image = payload[w][Shows(w, i)]
    BY <1>1 DEF Serialised
  <1> QED BY <1>1, <1>2 DEF Arriving

LEMMA NextArriving ==
    TypeOK /\ TypeOK' /\ MintedExact /\ Arriving /\ [Next]_vars => Arriving'
  <1> SUFFICES ASSUME TypeOK, TypeOK', MintedExact, Arriving, [Next]_vars PROVE Arriving'
    OBVIOUS
  <1>0. UNCHANGED owner /\ \A w \in Window : owner[w] \in Plugin
    BY StepKinds DEF TypeOK
  <1>1. ASSUME NEW p \in Plugin, NEW i \in DOMAIN Out(p)', NEW q \in Out(p)'[i].prims, q.image # 0
        PROVE  ArrivesWith(p, i, q.image)'
    <2>1. CASE \E u \in Plugin : Unpack(u) /\ u = p
      <3>1. /\ Out(p)' = Tail(Out(p)) /\ Out(p) # <<>> /\ Out(p) \in Seq(List)
            /\ Head(Out(p)) = Head(wire[p])
            /\ DOMAIN images'[p] = DOMAIN images[p] \cup Ids(Head(wire[p]).new)
        BY <2>1, OutUnpack, OutTyped, CacheFrom
      <3>2. i \in Nat \ {0} /\ i + 1 \in DOMAIN Out(p) /\ Out(p)'[i] = Out(p)[i + 1]
        BY <3>1
      <3>3. ArrivesWith(p, i + 1, q.image)
        BY <1>1, <3>2 DEF Arriving
      <3>4. \A j \in 1..i + 1 : \/ j = 1 /\ Out(p)[j] = Head(wire[p])
                                \/ j - 1 \in 1..i /\ Out(p)'[j - 1] = Out(p)[j]
        BY <3>1, <3>2
      <3> QED BY <3>1, <3>3, <3>4 DEF ArrivesWith
    <2>2. CASE i \in DOMAIN Out(p) /\ ~\E u \in Plugin : Unpack(u) /\ u = p
      <3>1. Out(p)'[i] = Out(p)[i] /\ \A id : ArrivesWith(p, i, id) => ArrivesWith(p, i, id)'
        BY <1>1, <2>2, ArrivesStays
      <3>2. ArrivesWith(p, i, q.image)
        BY <1>1, <2>2, <3>1 DEF Arriving
      <3> QED BY <3>1, <3>2
    <2>3. CASE i \notin DOMAIN Out(p) /\ ~\E u \in Plugin : Unpack(u) /\ u = p
      <3>1. Out(p)' # Out(p)
        BY <1>1, <2>3
      <3>2. ~\E u \in Plugin : Trap(u)
        BY <1>1, <2>3, OutTrap
      <3>3. PICK w \in Window : Present(w) /\ owner[w] = p
        BY <2>3, <3>1, <3>2, StepKinds, OutSame, OutEndTurn, OutPresent, OutUnpack
        DEF Quiet, Minting, Remove, DropSurface, guestVars
      <3>4. /\ Out(p)' = Append(Out(p), DisplayList(w)) /\ images' = images
            /\ Out(p) \in Seq(List) /\ DisplayList(w) \in List
        BY <3>3, OutPresent, OutTyped, ListType DEF Present, hostVars
      <3>5. /\ i = Len(Out(p)) + 1 /\ i \in 1..i /\ Out(p)'[i] = DisplayList(w)
            /\ \A j \in DOMAIN Out(p) : j \in 1..i /\ Out(p)'[j] = Out(p)[j]
        BY <1>1, <2>3, <3>4
      <3>6. ~stopped[owner[w]]
        <4>1. frame[owner[w]] \in Frame
          BY <3>3 DEF Present, Painting, Serialising, Frame
        <4>2. Nil \notin Frame
          BY DrawAssumption
        <4> QED BY <1>0, <4>1, <4>2 DEF Arriving
      <3>7. q.image \in Ids(pending[w]) \cup Sent(p)
        BY <1>1, <3>3, <3>5, <3>6, ListArrives DEF Present
      <3>8. CASE q.image \in Ids(pending[w])
        <4>1. Out(p)'[i].new = pending[w]
          BY <3>5 DEF DisplayList
        <4> QED BY <3>5, <3>8, <4>1 DEF ArrivesWith
      <3>9. CASE q.image \in Sent(p)
        BY <3>4, <3>5, <3>9 DEF Sent, ArrivesWith
      <3> QED BY <3>7, <3>8, <3>9
    <2> QED BY <2>1, <2>2, <2>3
  <1>2. ASSUME NEW s \in Surface, NEW q \in Showing(s)', q.image # 0,
               NEW p, p = display'[s].plugin
        PROVE  q.image \in DOMAIN images'[p]
    <2>1. CASE q \in Showing(s) /\ display'[s].plugin = display[s].plugin
      <3>1. q.image \in DOMAIN images[p] /\ p \in Plugin
        BY <1>2, <2>1, ShownTyped DEF Arriving, Cache
      <3> QED
        BY <3>1, StepKinds, CacheFrom, RemoveFacts
        DEF Quiet, Minting, Present, EndTurn, Trap, DropSurface, hostVars
    <2>2. ASSUME p \in Plugin, Unpack(p), 1 \in DOMAIN Out(p), Out(p)[1] = Head(wire[p]),
                 q \in Head(wire[p]).prims
          PROVE  q.image \in DOMAIN images'[p]
      <3>1. ArrivesWith(p, 1, q.image)
        BY <1>2, <2>2 DEF Arriving
      <3>2. q.image \in DOMAIN images[p] \cup Ids(Head(wire[p]).new)
        BY <2>2, <3>1 DEF ArrivesWith
      <3> QED BY <2>2, <3>2, CacheFrom
    <2> QED BY <1>2, <2>1, <2>2, ShownFrom
  <1>3. ASSUME NEW w \in Window, NEW x \in Picture, NEW p \in Plugin, p = owner[w],
               ~stopped'[p], payload'[w][x] # 0
        PROVE  payload'[w][x] \in Ids(pending'[w]) \cup Sent(p)'
    <2>1. CASE payload'[w][x] = payload[w][x]
      <3>1. ~stopped[p]
        BY <1>3, StepKinds, RemoveFacts
        DEF Quiet, Minting, Present, EndTurn, Trap, Unpack, DropSurface, guestVars, TypeOK
      <3>2. payload'[w][x] \in Ids(pending[w]) \cup Sent(p)
        BY <1>3, <2>1, <3>1 DEF Arriving
      <3>3. CASE payload'[w][x] \in Sent(p)
        BY <1>3, <3>3, SentStays
      <3>4. CASE payload'[w][x] \in Ids(pending[w]) /\ ~Present(w)
        <4>1. pending[w] \subseteq pending'[w]
          BY <3>4, PendingSteps
        <4> QED BY <3>4, <4>1 DEF Ids
      <3>5. CASE payload'[w][x] \in Ids(pending[w]) /\ Present(w)
        <4>1. /\ Out(p)' = Append(Out(p), DisplayList(w))
              /\ Out(p) \in Seq(List) /\ DisplayList(w) \in List
          BY <1>3, <3>5, OutPresent, OutTyped, ListType
        <4>2. Len(Out(p)) + 1 \in DOMAIN Out(p)' /\ Out(p)'[Len(Out(p)) + 1] = DisplayList(w)
          BY <4>1
        <4>3. DisplayList(w).new = pending[w]
          BY DEF DisplayList
        <4> QED BY <3>5, <4>2, <4>3 DEF Sent
      <3> QED BY <3>2, <3>3, <3>4, <3>5
    <2>2. CASE payload'[w][x] # payload[w][x]
      <3>1. Minting(w, x) /\ payload'[w][x] = NextPayloadId(w)
        BY <1>3, <2>2, PayloadSteps
      <3>2. pending'[w] = pending[w] \cup {[id |-> NextPayloadId(w), of |-> x]}
        BY <3>1, MintPending
      <3> QED BY <3>1, <3>2 DEF Ids
    <2> QED BY <2>1, <2>2
  <1>4. \A p \in Plugin : stopped'[p] => frame'[p] = Nil
    BY StoppedIdle
  <1>5. \A s \in Surface : \A q \in Showing(s)' : q.image # 0 => q.image \in DOMAIN Cache(s)'
    BY <1>2 DEF Cache
  <1>6. \A w \in Window, x \in Picture : ~stopped'[owner[w]] /\ payload'[w][x] # 0 =>
           payload'[w][x] \in Ids(pending'[w]) \cup Sent(owner[w])'
    BY <1>0, <1>3
  <1> QED BY <1>0, <1>1, <1>4, <1>5, <1>6 DEF Arriving

\* An id that is pending or sent was handed out.
LEMMA HandedOut ==
    ASSUME TypeOK, MintedExact, NEW p \in Plugin, NEW id,
           \/ id \in Sent(p)
           \/ \E w \in Window : owner[w] = p /\ id \in Ids(pending[w])
    PROVE  id \in 1..Len(minted[p])
  <1>1. ASSUME NEW w \in Window, owner[w] = p, id \in Ids(pending[w])
        PROVE  id \in 1..Len(minted[p])
    <2>1. PICK y \in pending[w] : y.id = id
      BY <1>1 DEF Ids
    <2> QED BY <1>1, <2>1 DEF MintedExact, MintedAs
  <1>2. ASSUME NEW i \in DOMAIN Out(p), id \in Ids(Out(p)[i].new)
        PROVE  id \in 1..Len(minted[p])
    <2>1. PICK y \in Out(p)[i].new : y.id = id
      BY <1>2 DEF Ids
    <2> QED BY <1>2, <2>1 DEF MintedExact, MintedAs
  <1>3. CASE id \in DOMAIN images[p]
    BY <1>3 DEF MintedExact, MintedAs
  <1> QED BY <1>1, <1>2, <1>3 DEF Sent

\* What a window has pending was pending before, or is new.
LEMMA PendingFrom ==
    ASSUME TypeOK, [Next]_vars, NEW w \in Window, NEW id \in Ids(pending'[w])
    PROVE  \/ id \in Ids(pending[w]) /\ ~Present(w)
           \/ /\ id = Len(minted[owner[w]]) + 1
              /\ \A v \in Window : v # w => pending'[v] = pending[v]
              /\ \A p \in Plugin : Sent(p)' = Sent(p)
  <1>1. CASE Present(w)
    <2>1. pending'[w] = {}
      BY <1>1 DEF Present, TakePending, TypeOK
    <2> QED BY <2>1 DEF Ids
  <1>2. CASE ~Present(w) /\ pending'[w] = pending[w]
    BY <1>2
  <1>3. CASE ~Present(w) /\ pending'[w] # pending[w]
    <2>0. PICK x \in Picture : Minting(w, x)
      BY <1>3, PendingSteps
    <2>1. Mint(w, x)
      BY <2>0 DEF Minting
    <2>2. /\ pending'[w] = pending[w] \cup {[id |-> NextPayloadId(w), of |-> x]}
          /\ \A v \in Window : v # w => pending'[v] = pending[v]
      BY <2>0, MintPending
    <2>3. \A p \in Plugin : Sent(p)' = Sent(p)
      BY <2>0 DEF Minting, Sent, Out
    <2>4. id \in Ids(pending[w]) \/ id = NextPayloadId(w)
      BY <2>2 DEF Ids
    <2> QED BY <1>3, <2>2, <2>3, <2>4 DEF NextPayloadId
  <1> QED BY <1>1, <1>2, <1>3

LEMMA NextSeparate ==
    TypeOK /\ TypeOK' /\ MintedExact /\ Separate /\ [Next]_vars => Separate'
  <1> SUFFICES ASSUME TypeOK, TypeOK', MintedExact, Separate, [Next]_vars PROVE Separate'
    OBVIOUS
  <1>0. /\ UNCHANGED owner
        /\ \A w \in Window : owner[w] \in Plugin
        /\ \A p \in Plugin : Len(minted[p]) \in Nat
    <2>1. \A p \in Plugin : minted[p] \in Seq(Picture)
      BY DEF TypeOK
    <2>2. \A p \in Plugin : Len(minted[p]) \in Nat
      BY <2>1
    <2>3. UNCHANGED owner /\ \A w \in Window : owner[w] \in Plugin
      BY StepKinds DEF TypeOK
    <2> QED BY <2>2, <2>3
  <1>1. ASSUME NEW w \in Window, NEW id \in Ids(pending'[w]), NEW p \in Plugin, p = owner[w]
        PROVE  /\ id \notin Sent(p)'
               /\ \A v \in Window : v # w /\ owner[v] = p => id \notin Ids(pending'[v])
    <2>1. CASE /\ id = Len(minted[p]) + 1
               /\ \A v \in Window : v # w => pending'[v] = pending[v]
               /\ Sent(p)' = Sent(p)
      <3>1. id \notin 1..Len(minted[p])
        BY <1>0, <2>1
      <3> QED BY <2>1, <3>1, HandedOut
    <2>2. CASE id \in Ids(pending[w]) /\ ~Present(w)
      <3>1. id \in 1..Len(minted[p]) /\ id \notin Sent(p)
        BY <1>1, <2>2, HandedOut DEF Separate
      <3>2. \A v \in Window : v # w /\ owner[v] = p => id \notin Ids(pending[v])
        BY <1>1, <2>2 DEF Separate
      <3>3. id \notin Sent(p)'
        BY <2>2, <3>1, <3>2, SentFrom
      <3>4. ASSUME NEW v \in Window, v # w, owner[v] = p PROVE id \notin Ids(pending'[v])
        <4>1. id # Len(minted[p]) + 1
          BY <1>0, <3>1
        <4> QED BY <3>2, <3>4, <4>1, PendingFrom
      <3> QED BY <3>3, <3>4
    <2> QED BY <1>1, <2>1, <2>2, PendingFrom
  <1>2. ASSUME NEW p \in Plugin, NEW i \in DOMAIN Out(p)'
        PROVE  /\ Ids(Out(p)'[i].new) \cap DOMAIN images'[p] = {}
               /\ \A j \in DOMAIN Out(p)' :
                     i # j => Ids(Out(p)'[i].new) \cap Ids(Out(p)'[j].new) = {}
    <2>1. ASSUME NEW u \in Plugin, Unpack(u), u = p
          PROVE  /\ Ids(Out(p)'[i].new) \cap DOMAIN images'[p] = {}
                 /\ \A j \in DOMAIN Out(p)' :
                       i # j => Ids(Out(p)'[i].new) \cap Ids(Out(p)'[j].new) = {}
      <3>1. /\ Out(p)' = Tail(Out(p)) /\ Out(p) # <<>> /\ Out(p) \in Seq(List)
            /\ Head(Out(p)) = Head(wire[p])
            /\ DOMAIN images'[p] = DOMAIN images[p] \cup Ids(Head(wire[p]).new)
        BY <2>1, OutUnpack, OutTyped, CacheFrom
      <3>2. /\ \A j \in DOMAIN Out(p)' : /\ j + 1 \in DOMAIN Out(p) /\ j + 1 # 1
                                         /\ Out(p)'[j] = Out(p)[j + 1] /\ j \in Nat
            /\ 1 \in DOMAIN Out(p) /\ Out(p)[1] = Head(wire[p])
        BY <3>1
      <3>3. /\ Ids(Out(p)[i + 1].new) \cap DOMAIN images[p] = {}
            /\ Ids(Out(p)[i + 1].new) \cap Ids(Out(p)[1].new) = {}
        BY <3>2 DEF Separate
      <3>4. ASSUME NEW j \in DOMAIN Out(p)', i # j
            PROVE  Ids(Out(p)'[i].new) \cap Ids(Out(p)'[j].new) = {}
        <4>1. i + 1 # j + 1 /\ i + 1 \in DOMAIN Out(p) /\ j + 1 \in DOMAIN Out(p)
          BY <3>2, <3>4
        <4> QED BY <3>2, <4>1 DEF Separate
      <3> QED BY <3>1, <3>2, <3>3, <3>4
    <2>2. ASSUME NEW w \in Window, Present(w), owner[w] = p
          PROVE  /\ Ids(Out(p)'[i].new) \cap DOMAIN images'[p] = {}
                 /\ \A j \in DOMAIN Out(p)' :
                       i # j => Ids(Out(p)'[i].new) \cap Ids(Out(p)'[j].new) = {}
      <3>1. /\ Out(p)' = Append(Out(p), DisplayList(w)) /\ images' = images
            /\ Out(p) \in Seq(List) /\ DisplayList(w) \in List
        BY <2>2, OutPresent, OutTyped, ListType DEF Present, hostVars
      <3>2. \A j \in DOMAIN Out(p)' : \/ j \in DOMAIN Out(p) /\ Out(p)'[j] = Out(p)[j]
                                      \/ j = Len(Out(p)) + 1 /\ Out(p)'[j] = DisplayList(w)
        BY <3>1
      <3>3. /\ DisplayList(w).new = pending[w]
            /\ Ids(pending[w]) \cap DOMAIN images[p] = {}
            /\ \A j \in DOMAIN Out(p) : Ids(pending[w]) \cap Ids(Out(p)[j].new) = {}
        BY <2>2 DEF DisplayList, Separate, Sent
      <3>4. \A j \in DOMAIN Out(p) :
               /\ Ids(Out(p)[j].new) \cap DOMAIN images[p] = {}
               /\ \A k \in DOMAIN Out(p) :
                     j # k => Ids(Out(p)[j].new) \cap Ids(Out(p)[k].new) = {}
        BY DEF Separate
      <3> QED BY <3>1, <3>2, <3>3, <3>4
    <2>3. CASE /\ images'[p] = images[p]
               /\ \A j \in DOMAIN Out(p)' : j \in DOMAIN Out(p) /\ Out(p)'[j] = Out(p)[j]
      BY <2>3 DEF Separate
    <2>4. ASSUME NEW u \in Plugin, Unpack(u), u # p
          PROVE  Out(p)' = Out(p) /\ images'[p] = images[p]
      BY <2>4, OutUnpack, CacheFrom
    <2>5. ASSUME NEW u \in Plugin, Trap(u)
          PROVE  /\ images'[p] = images[p]
                 /\ \A j \in DOMAIN Out(p)' : j \in DOMAIN Out(p) /\ Out(p)'[j] = Out(p)[j]
      BY <2>5, OutTrap DEF Trap, hostVars
    <2> QED
      BY <2>1, <2>2, <2>3, <2>4, <2>5, StepKinds, OutSame, OutEndTurn, OutPresent, RemoveFacts
      DEF Quiet, Minting, Present, EndTurn, DropSurface, guestVars, hostVars
  <1>3. \A w \in Window : Ids(pending'[w]) \cap Sent(owner[w])' = {}
    BY <1>0, <1>1
  <1>4. \A v, w \in Window : v # w /\ owner'[v] = owner'[w] =>
           Ids(pending'[v]) \cap Ids(pending'[w]) = {}
    BY <1>0, <1>1
  <1> QED BY <1>2, <1>3, <1>4 DEF Separate
-----------------------------------------------------------------------------
IInv == TypeOK /\ TilesExact /\ MintedExact /\ PrimsExact /\ Arriving /\ Separate

LEMMA Inductive == Spec => []IInv
  <1>1. Init => IInv
    BY InitType, InitTiles, InitMinted, InitPrims, InitArriving DEF IInv
  <1>2. IInv /\ [Next]_vars => IInv'
    BY NextType, NextTiles, NextMinted, NextPrims, NextArriving, NextSeparate DEF IInv
  <1> QED BY <1>1, <1>2, PTL DEF Spec

\* Replay never finds an image missing, for any number of windows, turns
\* and surfaces: apply_scenes keeps the images of every list.
THEOREM ImagesAlwaysArrive == Spec => []ImagesArrive
  <1>1. IInv => ImagesArrive
    <2> SUFFICES ASSUME IInv, NEW s \in Surface, NEW q \in Showing(s), q.draw \in Picture
                 PROVE  q.image \in DOMAIN Cache(s)
      BY DEF ImagesArrive
    <2>1. MintedAs(display[s].plugin, q.image, q.draw)
      BY DEF IInv, PrimsExact, PrimExact
    <2>2. q.image # 0
      BY <2>1 DEF MintedAs
    <2> QED BY <2>2 DEF IInv, Arriving
  <1> QED BY <1>1, Inductive, PTL

\* Ids of tiles, payloads and fonts never come to mean another thing.
THEOREM PaintIsExact == Spec => []PaintsWhatWasDrawn
  <1>1. IInv => PaintsWhatWasDrawn
    <2> SUFFICES ASSUME IInv, NEW s \in Surface, NEW q \in Showing(s)
                 PROVE  Painted(q, Cache(s)) \in Faithful(q.draw) \cup {Nil}
      BY DEF PaintsWhatWasDrawn
    <2>1. PrimExact(display[s].plugin, q) /\ display[s].plugin \in Plugin
      BY ShownTyped DEF IInv, PrimsExact
    <2>2. CASE q.image # 0 /\ q.image \in DOMAIN Cache(s)
      <3>1. MintedAs(display[s].plugin, q.image, Cache(s)[q.image])
        BY <2>1, <2>2 DEF IInv, MintedExact, Cache
      <3>2. Cache(s)[q.image] = q.draw /\ q.draw[1] \notin Family
        BY <2>1, <2>2, <3>1, DrawAssumption DEF PrimExact, MintedAs, Picture, Font
      <3> QED BY <2>2, <3>2 DEF Painted, Faithful
    <2>3. CASE q.image # 0 /\ q.image \notin DOMAIN Cache(s)
      BY <2>3 DEF Painted
    <2>4. CASE q.image = 0 /\ q.font # Nil
      <3>1. q.draw[1] \in Family /\ q.font \in {q.draw[1], Fallback}
        BY <2>1, <2>4 DEF PrimExact, IInv, TilesExact
      <3> QED BY <2>4, <3>1 DEF Painted, Faithful
    <2>5. CASE q.image = 0 /\ q.font = Nil
      BY <2>1, <2>5 DEF PrimExact, Painted, Faithful
    <2> QED BY <2>2, <2>3, <2>4, <2>5
  <1> QED BY <1>1, Inductive, PTL

\* take_pending_payloads and the plugin's one counter: nothing is shipped
\* twice.
THEOREM NothingShippedTwice == Spec => []ShippedOnce
  <1>1. IInv => ShippedOnce
    <2> SUFFICES ASSUME IInv, NEW p \in Plugin, wire[p] # <<>>
                 PROVE  Ids(Head(wire[p]).new) \cap DOMAIN images[p] = {}
      BY DEF ShippedOnce
    <2>1. wire[p] \in Seq(List) /\ scenes[p] \in Seq(List)
      BY OutTyped DEF IInv
    <2>2. Out(p) \in Seq(List) /\ Out(p) # <<>> /\ Head(Out(p)) = Head(wire[p])
      BY <2>1, ConcatHead, OutTyped DEF Out, IInv
    <2>3. 1 \in DOMAIN Out(p) /\ Out(p)[1] = Head(wire[p])
      BY <2>2
    <2> QED BY <2>3 DEF IInv, Separate
  <1> QED BY <1>1, Inductive, PTL

\* PluginTextSystem.font_ids: a family keeps the font it resolved to first.
THEOREM OneFont == Spec => []OneFontPerFamily
  <1>1. IInv => OneFontPerFamily
    <2> SUFFICES ASSUME IInv, NEW s \in Surface, NEW t \in Surface,
                        NEW q \in Showing(s), NEW r \in Showing(t),
                        display[s].plugin = display[t].plugin, q.draw = r.draw
                 PROVE  q.font = r.font
      BY DEF OneFontPerFamily
    <2>1. PrimExact(display[s].plugin, q) /\ PrimExact(display[t].plugin, r)
      BY DEF IInv, PrimsExact
    <2> QED BY <2>1 DEF PrimExact
  <1> QED BY <1>1, Inductive, PTL
=============================================================================
