------------------------------- MODULE Canvas -------------------------------
(***************************************************************************)
(* The indexed pixel buffer a page is drawn into (bk-render/src/canvas.rs, *)
(* and encode of lib.rs).  A pixel holds a palette index: transparent,     *)
(* background, or one of Levels strengths of the color of a token kind.    *)
(* Only blend and round_corners write pixels, blend while the glyphs are   *)
(* drawn and round_corners once after them.                                *)
(***************************************************************************)
EXTENDS Integers, Sequences, FiniteSets

CONSTANTS
    Width, Height,  \* of the canvas, at least one each (render_page)
    Kinds,          \* TokenKind::COUNT, kinds are 0..Kinds - 1
    Levels,         \* LEVELS
    FullCoverage,   \* 255, the coverage of a wholly inked pixel
    Coverages,      \* the coverages glyphs have
    Theme,          \* the color of each kind; kinds may share one
    Background,     \* theme.background
    Radii           \* the corner radii callers ask for

TransparentIndex == 0
BackgroundIndex == 1
FirstColorIndex == 2

\* canvas.rs asserts the second conjunct at compile time.
ASSUME CanvasAssumption ==
    /\ {Width, Height, Kinds, Levels, FullCoverage} \subseteq Nat \ {0}
    /\ FirstColorIndex + Kinds * Levels <= 256
    /\ Coverages \subseteq 0..FullCoverage
    /\ Radii \subseteq Nat
    /\ DOMAIN Theme = 0..(Kinds - 1)

VARIABLES
    pixels,     \* palette index of each <<x, y>>
    phase,      \* "drawing", "rounded", "encoded"
    radius,     \* the radius round_corners was called with
    declared,   \* encode wrote the alpha table
    palette,    \* the palette encode wrote
    marks       \* history: the kinds and levels blended at each pixel

canvasVars == <<pixels, phase, radius, declared, palette, marks>>

Grid == (0..(Width - 1)) \X (0..(Height - 1))
-----------------------------------------------------------------------------
Quantized(coverage) == (coverage * Levels + FullCoverage \div 2) \div FullCoverage

ColorIndex(kind, level) == FirstColorIndex + kind * Levels + level - 1

\* Mutant: the glyph drawn last wins.
OverwritesAlways(index, current) == TRUE

\* A glyph pixel is written where nothing was, or over a lower index.
Overwrites(index, current) == current = BackgroundIndex \/ index > current

Min2(a, b) == IF a <= b THEN a ELSE b

\* The radius round_corners uses: never more than half of a side.
Clamped(r) == Min2(r, Min2(Width \div 2, Height \div 2))

\* dx * dx + dy * dy > r * r with r = radius - 0.5, all terms doubled.
OutsideArc(cx, cy, r) ==
    LET a == 2 * r - 1 - 2 * cx
        b == 2 * r - 1 - 2 * cy
    IN  a * a + b * b > (2 * r - 1) * (2 * r - 1)

\* Mutant: the opposite corner is mirrored one pixel short.
MirrorsShort(cx, cy) ==
    {<<cx, cy>>, <<Width - 2 - cx, cy>>, <<cx, Height - 2 - cy>>,
     <<Width - 2 - cx, Height - 2 - cy>>}

\* The same offset from each of the four corners.
Mirrors(cx, cy) ==
    {<<cx, cy>>, <<Width - 1 - cx, cy>>, <<cx, Height - 1 - cy>>,
     <<Width - 1 - cx, Height - 1 - cy>>}

\* An entry of the palette: so much of a color over the background.
Entry(color, strength, opaque) == [color |-> color, strength |-> strength, opaque |-> opaque]

\* Mutant: levels are counted from none, as array indices are.
PaletteFromNone ==
    <<Entry(Background, 0, FALSE), Entry(Background, 0, TRUE)>>
    \o [i \in 1..(Kinds * Levels) |->
           Entry(Theme[(i - 1) \div Levels], (i - 1) % Levels, TRUE)]

\* Canvas::palette: nothing, the background, and the levels of each kind.
Palette ==
    <<Entry(Background, 0, FALSE), Entry(Background, 0, TRUE)>>
    \o [i \in 1..(Kinds * Levels) |->
           Entry(Theme[(i - 1) \div Levels], 1 + ((i - 1) % Levels), TRUE)]

Punched(r) ==
    UNION {Mirrors(c[1], c[2]) :
               c \in {d \in (0..(r - 1)) \X (0..(r - 1)) : OutsideArc(d[1], d[2], r)}}
-----------------------------------------------------------------------------
CanvasInit ==
    /\ pixels = [p \in Grid |-> BackgroundIndex]
    /\ phase = "drawing"
    /\ radius = 0
    /\ declared = FALSE
    /\ palette = <<>>
    /\ marks = [p \in Grid |-> {}]

\* blend: off the canvas, or with coverage that quantizes to nothing, it
\* returns early; otherwise the pixel may take the new index.
Blend(x, y, kind, coverage) ==
    LET level == Quantized(coverage)
        index == ColorIndex(kind, level)
        p     == <<x, y>>
    IN  /\ phase = "drawing"
        /\ p \in Grid
        /\ coverage # 0
        /\ level # 0
        /\ pixels' = IF Overwrites(index, pixels[p])
                     THEN [pixels EXCEPT ![p] = index] ELSE pixels
        /\ marks' = [marks EXCEPT ![p] = @ \cup {[kind |-> kind, level |-> level]}]
        /\ UNCHANGED <<phase, radius, declared, palette>>

RoundCorners(r) ==
    /\ phase = "drawing"
    /\ phase' = "rounded"
    /\ radius' = r
    /\ pixels' = [p \in Grid |-> IF p \in Punched(Clamped(r))
                                 THEN TransparentIndex ELSE pixels[p]]
    /\ UNCHANGED <<declared, palette, marks>>

\* encode: the palette, and the alpha table only when some pixel needs it.
Encode ==
    /\ phase = "rounded"
    /\ phase' = "encoded"
    /\ palette' = Palette
    /\ declared' = \E p \in Grid : pixels[p] = TransparentIndex
    /\ UNCHANGED <<pixels, radius, marks>>

\* Glyph boxes may reach one pixel beyond each edge.
CanvasNext ==
    \/ \E x \in (-1)..Width, y \in (-1)..Height, k \in 0..(Kinds - 1), c \in Coverages :
           Blend(x, y, k, c)
    \/ \E r \in Radii : RoundCorners(r)
    \/ Encode

CanvasSpec == CanvasInit /\ [][CanvasNext]_canvasVars
-----------------------------------------------------------------------------
(***************************************************************************)
(* Properties.                                                             *)
(***************************************************************************)
\* The image does not depend on the order in which overlapping glyphs are
\* drawn: a pixel is the highest index ever blended there, or background.
PixelIsHighestMark ==
    phase = "drawing" =>
        \A p \in Grid :
            IF marks[p] = {} THEN pixels[p] = BackgroundIndex
            ELSE LET blended == {ColorIndex(m.kind, m.level) : m \in marks[p]}
                 IN  pixels[p] \in blended /\ \A i \in blended : i <= pixels[p]

\* What a viewer of the image sees is what was drawn: the palette gives each
\* pixel the color of the kind of one of its marks, as strong as that mark,
\* and the background where there is none; only corners are transparent.
ColorsAreThoseOfTheInk ==
    phase = "encoded" =>
        LET corners == Punched(Clamped(radius))
        IN  \A p \in Grid :
            LET seen == palette[pixels[p] + 1]
            IN  IF p \in corners THEN declared /\ ~seen.opaque
                ELSE /\ seen.opaque
                     /\ IF marks[p] = {} THEN seen.color = Background
                        ELSE \E m \in marks[p] :
                                 seen.color = Theme[m.kind] /\ seen.strength = m.level

\* Corners are punched alike on all four sides, within the radius asked for,
\* and a side is never punched away: its middle stays.
CornersAreSymmetric ==
    \A p \in Grid :
        pixels[p] = TransparentIndex =>
            /\ \A q \in {<<Width - 1 - p[1], p[2]>>, <<p[1], Height - 1 - p[2]>>} :
                   pixels[q] = TransparentIndex
            /\ Min2(p[1], Width - 1 - p[1]) < radius
            /\ Min2(p[2], Height - 1 - p[2]) < radius
            /\ Min2(p[1], Width - 1 - p[1]) + Min2(p[2], Height - 1 - p[2]) < radius

\* The alpha table is there exactly when the caller asked for round corners
\* and the canvas has room for them, however small the radius.
AlphaMatchesRadius ==
    phase = "encoded" => (declared <=> Clamped(radius) > 0)

\* The image is what was drawn, pixel by pixel, at every stage.
EveryPixelIsItsInk == PixelIsHighestMark /\ ColorsAreThoseOfTheInk

\* Rounding corners takes the same pixels from each of them, no more than was
\* asked for, and leaves an image that declares it has them.
CornersAreRound == CornersAreSymmetric /\ AlphaMatchesRadius
=============================================================================
