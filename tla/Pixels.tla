------------------------------- MODULE Pixels -------------------------------
(***************************************************************************)
(* How what a plugin draws gets onto the host's surfaces: the guest's text *)
(* system and sprite atlas (guest/text_system.rs), the display lists that  *)
(* its windows serialise (guest/window.rs) and collect in turns            *)
(* (guest/objects.rs), and the host's image cache, fonts and surfaces      *)
(* (host.rs apply_scenes and ingest_images, host/surface.rs).              *)
(*                                                                         *)
(* A scene is what GPUI painted: a sequence in painting order, of which a  *)
(* redraw repeats a part as it was, tiles included, when it reuses the     *)
(* views in it.  Pixels, geometry, glyphs and what the wire has no form    *)
(* for are abstracted; what a primitive was drawn as travels with it as a  *)
(* history.  A window stands for one opening of a window, with its atlas;  *)
(* SurfaceView says when views attach, which empties a surface, and when   *)
(* they draw, PluginHost how turns travel.  Here a window draws whenever   *)
(* it likes, and the host unpacks a turn one list at a time.               *)
(***************************************************************************)
EXTENDS Naturals, Sequences, FiniteSets

CONSTANTS
    Plugin, Window, Surface,
    Shape,          \* quads, shadows, underlines and paths
    Family,         \* font families
    Fallback,       \* the font that stands in for a missing family
    Image, Svg,
    Color,          \* tints of an SVG
    Nil,
    MaxSprites,     \* bound: primitives of a scene
    MaxTiles,       \* bound: tiles that one atlas hands out
    MaxMinted,      \* bound: image payloads of one plugin
    MaxRedraws,     \* bound: redraws of all windows
    MaxWire         \* bound: lists on their way when a turn ends

Font == Family \cup {Fallback}
\* AtlasKey
Key == Image \cup Svg \cup Font
\* What an image payload can show: a bitmap, or an SVG in one tint.
Picture == (Image \X {Nil}) \cup (Svg \X Color)
\* What a view can paint.
Draw == ((Shape \cup Family) \X {Nil}) \cup Picture

\* A window that draws, and how far it is.
Frame == [window : Window, at : {"paint", "serialise"}]

ASSUME DrawAssumption ==
    /\ Nil \notin Key \cup Shape \cup Color \cup Window \cup Surface \cup Frame
    /\ Shape \cap Key = {} /\ Image \cap (Svg \cup Font) = {} /\ Svg \cap Font = {}
ASSUME BoundsAssumption ==
    {MaxSprites, MaxTiles, MaxMinted, MaxRedraws, MaxWire} \subseteq Nat

VARIABLES
    owner,          \* owner[w]: the plugin that window w belongs to
    on,             \* on[w]: the surface that w draws on
    redraws,        \* bound counter: redraws so far
    frame,          \* frame[p]: the window that is drawing, and how far; or Nil
    scene,          \* scene[w]: Scene, the last one that w painted
    tiles,          \* tiles[w][k]: AtlasState.tiles, 0 for no tile
    nextTile,       \* nextTile[w]: AtlasState.next_id
    payload,        \* payload[w][x]: the payload id of picture x, or 0
    pending,        \* pending[w]: AtlasState.pending_payloads
    minted,         \* minted[p][id]: the picture of payload id; its length is
                    \* the counter in next_payload_id
    fontIds,        \* fontIds[p][f]: PluginTextSystem.font_ids, or Nil
    scenes,         \* SCENES, the display lists of the turn
    stopped,        \* the plugin trapped
    wire,           \* lists of ended turns that the host has yet to unpack
    images,         \* PluginHost.images
    display,        \* Surface.display_list, or Nil
    alive,          \* surfaces that their owners hold
    fonts           \* families that the host can resolve

atlasVars == <<tiles, nextTile, payload, pending, minted>>
guestVars == <<owner, on, redraws, frame, scene, atlasVars, fontIds, scenes, stopped>>
hostVars == <<images, display, alive, fonts>>
vars == <<guestVars, wire, hostVars>>

Payload == [id : Nat \ {0}, of : Picture]
Prim == [order : Nat \ {0}, draw : Draw, font : Font \cup {Nil}, image : Nat]
\* A display list, the window that drew it, the surface it is for, and the
\* images it ships.
List == [from : Window, surface : Surface, prims : SUBSET Prim, new : SUBSET Payload]
-----------------------------------------------------------------------------
Init ==
    /\ owner \in [Window -> Plugin]
    /\ on \in [Window -> Surface]
    /\ redraws = 0
    /\ frame = [p \in Plugin |-> Nil]
    /\ scene = [w \in Window |-> <<>>]
    /\ tiles = [w \in Window |-> [k \in Key |-> 0]]
    /\ nextTile = [w \in Window |-> 1]
    /\ payload = [w \in Window |-> [x \in Picture |-> 0]]
    /\ pending = [w \in Window |-> {}]
    /\ minted = [p \in Plugin |-> <<>>]
    /\ fontIds = [p \in Plugin |-> [f \in Family |-> Nil]]
    /\ scenes = [p \in Plugin |-> <<>>]
    /\ stopped = [p \in Plugin |-> FALSE]
    /\ wire = [p \in Plugin |-> <<>>]
    /\ images = [p \in Plugin |-> <<>>]
    /\ display = [s \in Surface |-> Nil]
    /\ alive = Surface
    /\ fonts \in SUBSET Family
-----------------------------------------------------------------------------
(***************************************************************************)
(* The guest paints its windows.  It has one thread: while one of them     *)
(* draws, nothing else of the plugin runs.                                 *)
(***************************************************************************)
Idle(p) == ~stopped[p] /\ frame[p] = Nil
Painting(w) == frame[owner[w]] = [window |-> w, at |-> "paint"]
Serialising(w) == frame[owner[w]] = [window |-> w, at |-> "serialise"]

\* A redraw repeats a range of the scene before; a turn has one of each
\* window.
BeginFrame(w, first, last) ==
    /\ Idle(owner[w])
    /\ \A i \in DOMAIN scenes[owner[w]] : scenes[owner[w]][i].from # w
    /\ redraws < MaxRedraws
    /\ redraws' = redraws + 1
    /\ frame' = [frame EXCEPT ![owner[w]] = [window |-> w, at |-> "paint"]]
    /\ scene' = [scene EXCEPT ![w] = SubSeq(@, first, last)]
    /\ UNCHANGED <<owner, on, atlasVars, fontIds, scenes, stopped, wire, hostVars>>

\* PluginTextSystem::font_id and the host's resolve_font
ResolveFont(f) == IF f \in fonts THEN f ELSE Fallback
\* A slip: the host is asked each time.
FontIdAfresh(p, f) == ResolveFont(f)

FontId(p, f) == IF fontIds[p][f] # Nil THEN fontIds[p][f] ELSE ResolveFont(f)

\* A slip: a counter for each window.
NextPayloadIdOfWindow(w) == 1 + Cardinality({x \in Picture : payload[w][x] # 0})

\* next_payload_id: one counter for all windows of the plugin.
NextPayloadId(w) == Len(minted[owner[w]]) + 1

\* fabricate_tile
FabricateTile(w, k) ==
    /\ nextTile[w] <= MaxTiles
    /\ tiles' = [tiles EXCEPT ![w][k] = nextTile[w]]
    /\ nextTile' = [nextTile EXCEPT ![w] = @ + 1]

\* A payload gets its id, and its bytes wait for the next display list.
Mint(w, x) ==
    /\ Len(minted[owner[w]]) < MaxMinted
    /\ minted' = [minted EXCEPT ![owner[w]] = Append(@, x)]
    /\ payload' = [payload EXCEPT ![w][x] = NextPayloadId(w)]
    /\ pending' = [pending EXCEPT ![w] = @ \cup {[id |-> NextPayloadId(w), of |-> x]}]

\* get_or_insert_with: glyphs and masks are only remembered, a bitmap is
\* shipped as it is.
GetOrInsert(w, k) ==
    IF tiles[w][k] # 0 THEN UNCHANGED atlasVars
    ELSE /\ FabricateTile(w, k)
         /\ IF k \in Image THEN Mint(w, <<k, Nil>>)
                           ELSE UNCHANGED <<payload, pending, minted>>

\* A sprite remembers its tile, and the atlas is not asked again.
PaintSprite(w, d, k) ==
    /\ GetOrInsert(w, k)
    /\ scene' = [scene EXCEPT ![w] = Append(@, [draw |-> d, tile |-> tiles'[w][k]])]

PaintShape(w, d) ==
    /\ scene' = [scene EXCEPT ![w] = Append(@, [draw |-> d, tile |-> 0])]
    /\ UNCHANGED <<atlasVars, fontIds>>

PaintText(w, d) ==
    LET p == owner[w]
        font == FontId(p, d[1])
    IN  /\ fontIds' = [fontIds EXCEPT ![p][d[1]] = font]
        /\ PaintSprite(w, d, font)

PaintPicture(w, d) == PaintSprite(w, d, d[1]) /\ UNCHANGED fontIds

\* The views of a window paint, one primitive after the other.
Paint(w, d) ==
    /\ Painting(w) /\ Len(scene[w]) < MaxSprites
    /\ \/ d[1] \in Shape /\ PaintShape(w, d)
       \/ d[1] \in Family /\ PaintText(w, d)
       \/ d \in Picture /\ PaintPicture(w, d)
    /\ UNCHANGED <<owner, on, redraws, frame, scenes, stopped, wire, hostVars>>

\* PlatformAtlas::remove, when GPUI drops an image.
Remove(w, k) ==
    /\ Idle(owner[w]) /\ tiles[w][k] # 0
    /\ tiles' = [tiles EXCEPT ![w][k] = 0]
    /\ payload' = [payload EXCEPT ![w] = [x \in Picture |-> IF x[1] = k THEN 0 ELSE @[x]]]
    /\ UNCHANGED <<owner, on, redraws, frame, scene, nextTile, pending, minted,
                   fontIds, scenes, stopped, wire, hostVars>>
-----------------------------------------------------------------------------
(***************************************************************************)
(* PluginWindow::draw serialises the scene and pushes it.                  *)
(***************************************************************************)
\* tile_content: what an atlas has under a tile id, or Nil.
TileContent(w, t) ==
    IF \E k \in Key : t # 0 /\ tiles[w][k] = t
    THEN CHOOSE k \in Key : tiles[w][k] = t ELSE Nil

\* What sprite i stands for in the atlas: its tile, in its color.
Shows(w, i) == <<TileContent(w, scene[w][i].tile), scene[w][i].draw[2]>>

\* tinted_payload: the first sprite of a mask in a color bakes it.
Untinted(w) ==
    {i \in DOMAIN scene[w] : Shows(w, i) \in Svg \X Color /\ payload[w][Shows(w, i)] = 0}
Tint(w, i) ==
    /\ Painting(w) \/ Serialising(w)
    /\ i \in Untinted(w)
    /\ frame' = [frame EXCEPT ![owner[w]] = [window |-> w, at |-> "serialise"]]
    /\ Mint(w, Shows(w, i))
    /\ UNCHANGED <<owner, on, redraws, scene, tiles, nextTile, fontIds, scenes,
                   stopped, wire, hostVars>>

Serialised(w, i, font, image) ==
    [order |-> i, draw |-> scene[w][i].draw, font |-> font, image |-> image]

Shapes(w) == {Serialised(w, i, Nil, 0) :
                 i \in {j \in DOMAIN scene[w] : scene[w][j].draw[1] \in Shape}}
Glyphs(w) == {Serialised(w, i, Shows(w, i)[1], 0) :
                 i \in {j \in DOMAIN scene[w] : Shows(w, j)[1] \in Font}}
Images(w) == {Serialised(w, i, Nil, payload[w][Shows(w, i)]) :
                 i \in {j \in DOMAIN scene[w] : Shows(w, j) \in Picture}}

\* serialize_scene: a sprite whose tile is gone is skipped.
DisplayList(w) == [from |-> w, surface |-> on[w], new |-> pending[w],
                   prims |-> Shapes(w) \cup Glyphs(w) \cup Images(w)]

\* A slip: the payloads are read and not taken.
KeepPending(w) == UNCHANGED pending

\* take_pending_payloads
TakePending(w) == pending' = [pending EXCEPT ![w] = {}]

Present(w) ==
    LET p == owner[w] IN
    /\ Painting(w) \/ Serialising(w)
    /\ Untinted(w) = {}
    /\ frame' = [frame EXCEPT ![p] = Nil]
    /\ scenes' = [scenes EXCEPT ![p] = Append(@, DisplayList(w))]
    /\ TakePending(w)
    /\ UNCHANGED <<owner, on, redraws, scene, tiles, nextTile, payload, minted,
                   fontIds, stopped, wire, hostVars>>
-----------------------------------------------------------------------------
(***************************************************************************)
(* A turn takes the scenes along; a trap loses those of the turn it        *)
(* happens in.                                                             *)
(***************************************************************************)
EndTurn(p) ==
    /\ Idle(p) /\ scenes[p] # <<>>
    /\ Len(wire[p]) < MaxWire
    /\ wire' = [wire EXCEPT ![p] = @ \o scenes[p]]
    /\ scenes' = [scenes EXCEPT ![p] = <<>>]
    /\ UNCHANGED <<owner, on, redraws, frame, scene, atlasVars, fontIds, stopped,
                   hostVars>>

Trap(p) ==
    /\ ~stopped[p]
    /\ frame[p] # Nil \/ scenes[p] # <<>>
    /\ stopped' = [stopped EXCEPT ![p] = TRUE]
    /\ frame' = [frame EXCEPT ![p] = Nil]
    /\ scenes' = [scenes EXCEPT ![p] = <<>>]
    /\ UNCHANGED <<owner, on, redraws, scene, atlasVars, fontIds, wire, hostVars>>
-----------------------------------------------------------------------------
(***************************************************************************)
(* The host unpacks turns, list by list.  Nothing else of its thread runs  *)
(* within a turn; a surface dropped there is as if dropped after it.       *)
(***************************************************************************)
Ids(P) == {x.id : x \in P}

Ingested(cache, new) ==
    [id \in DOMAIN cache \cup Ids(new) |->
        IF id \in Ids(new) THEN (CHOOSE x \in new : x.id = id).of ELSE cache[id]]

\* A slip: a list that another one is about to replace is not looked into.
IngestNewestImages(p, list) ==
    images' = [images EXCEPT ![p] =
                  IF \E i \in 2..Len(wire[p]) : wire[p][i].surface = list.surface
                  THEN @ ELSE Ingested(@, list.new)]

\* ingest_images
IngestImages(p, list) == images' = [images EXCEPT ![p] = Ingested(@, list.new)]

\* set_scene, if the surface is still there.
SetScene(p, list) ==
    display' = IF list.surface \in alive
               THEN [display EXCEPT ![list.surface] = [plugin |-> p, prims |-> list.prims]]
               ELSE display

\* apply_scenes: the images of a list are kept also if its surface is gone.
Unpack(p) ==
    LET list == Head(wire[p]) IN
    /\ wire[p] # <<>>
    /\ wire' = [wire EXCEPT ![p] = Tail(@)]
    /\ IngestImages(p, list)
    /\ SetScene(p, list)
    /\ UNCHANGED <<guestVars, alive, fonts>>

DropSurface(s) ==
    /\ s \in alive
    /\ alive' = alive \ {s}
    /\ display' = [display EXCEPT ![s] = Nil]
    /\ UNCHANGED <<guestVars, wire, images, fonts>>

\* The host application installs a font.
AddFont(f) ==
    /\ f \notin fonts
    /\ fonts' = fonts \cup {f}
    /\ UNCHANGED <<guestVars, wire, images, display, alive>>
-----------------------------------------------------------------------------
WindowStep(w) ==
    \/ \E first \in 1..Len(scene[w])+1, last \in 0..Len(scene[w]) : BeginFrame(w, first, last)
    \/ \E d \in Draw : Paint(w, d)
    \/ \E k \in Image : Remove(w, k)
    \/ \E i \in DOMAIN scene[w] : Tint(w, i)
    \/ Present(w)

PluginStep(p) == EndTurn(p) \/ Trap(p) \/ Unpack(p)

Next == \/ \E w \in Window : WindowStep(w)
        \/ \E p \in Plugin : PluginStep(p)
        \/ \E s \in Surface : DropSurface(s)
        \/ \E f \in Family : AddFont(f)

Spec == Init /\ [][Next]_vars
-----------------------------------------------------------------------------
Sprite == [draw : Draw, tile : Nat]
Shown == [plugin : Plugin, prims : SUBSET Prim]

TypeOK ==
    /\ owner \in [Window -> Plugin]
    /\ on \in [Window -> Surface]
    /\ redraws \in Nat
    /\ frame \in [Plugin -> Frame \cup {Nil}]
    /\ scene \in [Window -> Seq(Sprite)]
    /\ tiles \in [Window -> [Key -> Nat]]
    /\ nextTile \in [Window -> Nat \ {0}]
    /\ payload \in [Window -> [Picture -> Nat]]
    /\ pending \in [Window -> SUBSET Payload]
    /\ minted \in [Plugin -> Seq(Picture)]
    /\ fontIds \in [Plugin -> [Family -> Font \cup {Nil}]]
    /\ scenes \in [Plugin -> Seq(List)]
    /\ stopped \in [Plugin -> BOOLEAN]
    /\ wire \in [Plugin -> Seq(List)]
    /\ images = [p \in Plugin |-> images[p]]
    /\ display \in [Surface -> Shown \cup {Nil}]
    /\ alive \in SUBSET Surface
    /\ fonts \in SUBSET Family

\* replay: a surface paints its list, with the images of its plugin.
Showing(s) == IF display[s] = Nil THEN {} ELSE display[s].prims
Cache(s) == images[display[s].plugin]

\* paint_primitive: what q puts on the screen, Nil if it is skipped.
Painted(q, cache) ==
    IF q.image # 0 THEN IF q.image \in DOMAIN cache THEN cache[q.image] ELSE Nil
    ELSE IF q.font # Nil THEN <<q.font, Nil>> ELSE q.draw

(***************************************************************************)
(* Every image that a surface's list names is in the cache of the plugin   *)
(* that drew it: replay never finds an image "before its payload arrived", *)
(* though a list names what earlier ones shipped, and those may have been  *)
(* replaced before anyone saw them.                                        *)
(***************************************************************************)
ImagesArrive ==
    \A s \in Surface : \A q \in Showing(s) :
        q.draw \in Picture => q.image \in DOMAIN Cache(s)

(***************************************************************************)
(* The host paints what the guest drew: for an image, the picture and the  *)
(* tint; for text, the family or the fallback.  Ids of tiles and payloads  *)
(* never come to mean another thing, with windows that share a cache,      *)
(* images removed from an atlas, and scenes repeated with their old tiles. *)
(***************************************************************************)
Faithful(d) == IF d[1] \in Family THEN {<<d[1], Nil>>, <<Fallback, Nil>>} ELSE {d}

PaintsWhatWasDrawn ==
    \A s \in Surface : \A q \in Showing(s) :
        Painted(q, Cache(s)) \in Faithful(q.draw) \cup {Nil}

(***************************************************************************)
(* No payload is shipped twice ("premultiplied-BGRA payloads shipped      *)
(* once"): what the host unpacks is never in its cache already.           *)
(***************************************************************************)
ShippedOnce ==
    \A p \in Plugin : wire[p] # <<>> => Ids(Head(wire[p]).new) \cap DOMAIN images[p] = {}

(***************************************************************************)
(* Text of one family is painted in one font on all surfaces of a plugin,  *)
(* although the host installs the family's font after a part of it was     *)
(* laid out.                                                               *)
(***************************************************************************)
OneFontPerFamily ==
    \A s, t \in Surface : \A q \in Showing(s), r \in Showing(t) :
        display[s].plugin = display[t].plugin /\ q.draw = r.draw => q.font = r.font
=============================================================================
