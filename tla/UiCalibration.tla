----------------------------- MODULE UiCalibration -----------------------------
(***************************************************************************)
(* How the interface of a game is found and kept out of the neural pass:   *)
(* the two captures of the calibrator (Pipeline::CalibrationCapture), the  *)
(* rectangles made of their difference (src/common/core/UiCalibration.cpp) *)
(* and the mask made of the rectangles (src/common/gpu/MaskMath.h,         *)
(* UiMask::Rasterise).                                                     *)
(*                                                                         *)
(* The owner thread leaves a request; the render thread serves it after a  *)
(* present, stage by stage here.  The player hides and shows the interface *)
(* and resizes the window, which has the owner thread rebuild: the device  *)
(* state goes, the first capture stays.                                    *)
(*                                                                         *)
(* A frame is the set of its pixels, numbered row by row as in the code,   *)
(* that do not look like the plain world: those the interface covers and   *)
(* those that flicker.                                                     *)
(***************************************************************************)
EXTENDS Integers, FiniteSets, FiniteSetsExt

CONSTANTS
  Sizes,              \* of a window, [w, h]
  Panels,             \* what an interface may be made of, rectangles
  Flickers,           \* what may move in the world, sets of <<x, y>>
  None,
  Cell, CellPercent, MinComponentCells, DilateCells, MaxRects,  \* UiCalibrationParams
  Feather,            \* uiMaskFeather
  MaxActs             \* bound of the model: what player and operator do

Rects == [left : Nat, top : Nat, right : Nat, bottom : Nat]

ASSUME CalibrationAssumption ==
  /\ Sizes \subseteq [w : Nat \ {0}, h : Nat \ {0}]
  /\ Panels \subseteq Rects
  /\ Cell \in Nat \ {0} /\ CellPercent \in 1 .. 100
  /\ MinComponentCells \in Nat /\ DilateCells \in Nat /\ MaxRects \in Nat
  /\ Feather \in Nat
  /\ MaxActs \in Nat

VARIABLES
  size,       \* of the window and of the ring
  panels,     \* the interface of this game
  shown,      \* whether it is drawn
  request,    \* calibrationRequest_
  first,      \* calibrationWithUi_
  at,         \* the render thread: between frames, or in a calibration
  second,     \* the frame it compares the first one with
  grown,      \* the marked cells, dilated
  cy, runs,   \* rows of cells read so far, and the runs of cells in them
  found,      \* ui_mask_calibration.toml
  maskRects,  \* the configuration's rectangles
  mask,       \* the rectangles of the mask texture
  compared,   \* history: the two frames the rectangles come from
  acts

calibrationVars == <<first, at, second, grown, cy, runs, found, compared>>
maskVars == <<maskRects, mask>>
vars == <<size, panels, shown, request, calibrationVars, maskVars, acts>>

-------------------------------------------------------------------------------
(* Pixels and cells.                                                       *)

Covers(r, x, y) == r.left <= x /\ x < r.right /\ r.top <= y /\ y < r.bottom
Pixels(s) == (0 .. s.w - 1) \X (0 .. s.h - 1)
CellsAcross(s) == (s.w + Cell - 1) \div Cell
CellsDown(s) == (s.h + Cell - 1) \div Cell
Cells(s) == (0 .. CellsAcross(s) - 1) \X (0 .. CellsDown(s) - 1)

\* What a capture of the window shows while `flicker` moves.
FrameOf(s, flicker) ==
  [size |-> s,
   pixels |-> {p[2] * s.w + p[1] : p \in
     {q \in Pixels(s) : q \in flicker \/ (shown /\ \E r \in panels : Covers(r, q[1], q[2]))}}]

\* The pixels that differ, compared number by number.
Differ(a, b) ==
  ((a.pixels \ b.pixels) \cup (b.pixels \ a.pixels)) \cap 0 .. (b.size.w * b.size.h - 1)

Least(a, b) == IF a <= b THEN a ELSE b
Most(a, b) == IF a <= b THEN b ELSE a

\* A cell counts when enough of it differed; one at the edge is smaller.
Area(c, s) == Least(Cell, s.w - c[1] * Cell) * Least(Cell, s.h - c[2] * Cell)
PixelsIn(c, diff, s) == {p \in diff : (p % s.w) \div Cell = c[1] /\ (p \div s.w) \div Cell = c[2]}

\* Mutant: the fraction is of a whole cell.
MarkedOfWholeCell(diff, s) ==
  {c \in Cells(s) : 100 * Cardinality(PixelsIn(c, diff, s)) >= CellPercent * Cell * Cell}
Marked(diff, s) ==
  {c \in Cells(s) : 100 * Cardinality(PixelsIn(c, diff, s)) >= CellPercent * Area(c, s)}

Adjacent(a, b) ==
  \/ a[2] = b[2] /\ (a[1] = b[1] + 1 \/ b[1] = a[1] + 1)
  \/ a[1] = b[1] /\ (a[2] = b[2] + 1 \/ b[2] = a[2] + 1)

\* The groups of marked cells that hang together, which the flood fill labels.
Components(marked) ==
  FoldSet(LAMBDA c, groups :
            LET touching == {g \in groups : \E m \in g : Adjacent(m, c)}
            IN (groups \ touching) \cup {(UNION touching) \cup {c}},
          {}, marked)

Kept(marked) == UNION {g \in Components(marked) : Cardinality(g) >= MinComponentCells}

Reach(v) == v - DilateCells .. v + DilateCells

\* Mutant: a cell is grown sideways only.
DilatedAcross(kept, s) == Cells(s) \cap UNION {Reach(k[1]) \X {k[2]} : k \in kept}
Dilated(kept, s) == Cells(s) \cap UNION {Reach(k[1]) \X Reach(k[2]) : k \in kept}

-------------------------------------------------------------------------------
(* Rectangles.                                                             *)

\* The maximal runs of one row of cells.
RunsOfRow(cells, y, across) ==
  {r \in [x0 : 0 .. across, x1 : 0 .. across] :
     /\ r.x0 < r.x1
     /\ \A x \in r.x0 .. r.x1 - 1 : <<x, y>> \in cells
     /\ <<r.x0 - 1, y>> \notin cells /\ <<r.x1, y>> \notin cells}

\* The run of the row above that has the same columns.
Above(r, y) == {a \in runs : a.y1 = y /\ a.x0 = r.x0 /\ a.x1 = r.x1}

\* The run of cells as pixels of the frame.
RectOf(r, s) == [left |-> r.x0 * Cell, top |-> r.y0 * Cell,
                 right |-> Least(r.x1 * Cell, s.w), bottom |-> Least(r.y1 * Cell, s.h)]
RectArea(r) == (r.right - r.left) * (r.bottom - r.top)

\* The largest; std::sort leaves open which of two equal ones.
Limited(rects) ==
  IF Cardinality(rects) <= MaxRects THEN {rects}
  ELSE {k \in kSubset(MaxRects, rects) :
          \A r \in k, o \in rects \ k : RectArea(r) >= RectArea(o)}

-------------------------------------------------------------------------------
(* The mask.                                                               *)

IsEmpty(r) == r.right <= r.left \/ r.bottom <= r.top
Clamp(v, low, high) == Least(Most(v, low), high)

ClampToFrame(r, s) ==
  [left |-> Clamp(r.left, 0, s.w), top |-> Clamp(r.top, 0, s.h),
   right |-> Clamp(r.right, 0, s.w), bottom |-> Clamp(r.bottom, 0, s.h)]

\* Rounded outward, and a rectangle that is not empty keeps a pixel.
ScaleRect(r, from, to) ==
  LET left == (r.left * to.w) \div from.w
      top == (r.top * to.h) \div from.h
      right == (r.right * to.w + from.w - 1) \div from.w
      bottom == (r.bottom * to.h + from.h - 1) \div from.h
  IN IF from = to THEN r
     ELSE [left |-> left, top |-> top,
           right |-> IF ~IsEmpty(r) /\ right <= left THEN left + 1 ELSE right,
           bottom |-> IF ~IsEmpty(r) /\ bottom <= top THEN top + 1 ELSE bottom]

\* Rasterise, up to the coverage of a pixel.
MaskOf(rects, from, to) ==
  {r \in {ClampToFrame(ScaleRect(q, from, to), to) : q \in rects} : ~IsEmpty(r)}

\* CoverageAt in parts of Feather + 1, which is all of the original pixel.
Coverage(r, x, y) ==
  IF ~Covers(r, x, y) THEN 0
  ELSE LET d == Least(Least(x - r.left, r.right - 1 - x), Least(y - r.top, r.bottom - 1 - y))
       IN Least(d + 1, Feather + 1)
CoverageAtAny(rects, x, y) == Max({0} \cup {Coverage(r, x, y) : r \in rects})

-------------------------------------------------------------------------------
(* The game and the operator.                                              *)

Init ==
  /\ size \in Sizes /\ panels \in SUBSET Panels /\ shown = TRUE
  /\ request = 0 /\ first = None /\ at = "frame" /\ second = None
  /\ grown = {} /\ cy = 0 /\ runs = {}
  /\ found = None /\ compared = None
  /\ maskRects = {} /\ mask = None
  /\ acts = 0

Act == acts < MaxActs /\ acts' = acts + 1

\* Alt+Z.
ToggleInterface ==
  /\ Act
  /\ shown' = ~ shown
  /\ UNCHANGED <<size, panels, request, calibrationVars, maskVars>>

\* The two commands; the later one replaces one not served yet.
RequestCalibrationCapture ==
  /\ Act
  /\ request' \in {1, 2}
  /\ UNCHANGED <<size, panels, shown, calibrationVars, maskVars>>

\* A rebuild, for whatever reason, finds the window at another size: the owner
\* thread joins the render thread and replaces the device state, and with it
\* the mask.
Resize ==
  /\ Act /\ at = "frame"
  /\ size' \in Sizes \ {size}
  /\ mask' = None
  /\ UNCHANGED <<panels, shown, request, calibrationVars, maskRects>>

\* The operator takes the rectangles over, and the settings are reloaded:
\* changed ones mean a rebuild.
TakeOver ==
  /\ Act /\ at = "frame" /\ found # None
  /\ maskRects' = found.rects
  /\ mask' = IF found.rects = maskRects THEN mask ELSE None
  /\ UNCHANGED <<size, panels, shown, request, calibrationVars>>

-------------------------------------------------------------------------------
(* The render thread.                                                      *)

\* No first capture, so nothing to compare with.
NothingToCompare ==
  /\ at = "frame" /\ request = 2 /\ first = None
  /\ request' = 0
  /\ UNCHANGED <<size, panels, shown, calibrationVars, maskVars, acts>>

\* The frame could not be read back, or there is no widened one.
ReadbackFails ==
  /\ at = "frame" /\ request # 0
  /\ request' = 0
  /\ UNCHANGED <<size, panels, shown, calibrationVars, maskVars, acts>>

CaptureWithInterface ==
  /\ at = "frame" /\ request = 1
  /\ \E f \in Flickers : first' = FrameOf(size, f)
  /\ request' = 0
  /\ UNCHANGED <<size, panels, shown, at, second, grown, cy, runs, found, compared,
                 maskVars, acts>>

\* Steps 1 to 4 of RectsFromDiff.  A first capture with fewer pixels is refused.
CaptureWithout ==
  /\ at = "frame" /\ request = 2 /\ first # None
  /\ request' = 0
  /\ \E f \in Flickers : second' = FrameOf(size, f)
  /\ IF first.size.w * first.size.h < size.w * size.h
     THEN at' = "write" /\ grown' = {}
     ELSE at' = "rows" /\ grown' = Dilated(Kept(Marked(Differ(first, second'), size)), size)
  /\ cy' = 0 /\ runs' = {}
  /\ UNCHANGED <<size, panels, shown, first, found, compared, maskVars, acts>>

\* Mutant: a run is merged with one that begins where it begins.
ScanRowByStart ==
  /\ at = "rows" /\ cy < CellsDown(second.size)
  /\ LET row == RunsOfRow(grown, cy, CellsAcross(second.size))
         above(r) == {a \in runs : a.y1 = cy /\ a.x0 = r.x0}
     IN runs' = (runs \ UNION {above(r) : r \in row}) \cup
          {[x0 |-> r.x0, x1 |-> r.x1, y1 |-> cy + 1,
            y0 |-> IF above(r) = {} THEN cy ELSE (CHOOSE a \in above(r) : TRUE).y0] : r \in row}
  /\ cy' = cy + 1
  /\ UNCHANGED <<size, panels, shown, request, first, at, second, grown, found, compared,
                 maskVars, acts>>

\* Step 5, a row of cells: each run extends the one above or begins its own.
ScanRow ==
  /\ at = "rows" /\ cy < CellsDown(second.size)
  /\ LET row == RunsOfRow(grown, cy, CellsAcross(second.size))
     IN runs' = (runs \ UNION {Above(r, cy) : r \in row}) \cup
          {[x0 |-> r.x0, x1 |-> r.x1, y1 |-> cy + 1,
            y0 |-> IF Above(r, cy) = {} THEN cy ELSE (CHOOSE a \in Above(r, cy) : TRUE).y0]
           : r \in row}
  /\ cy' = cy + 1
  /\ UNCHANGED <<size, panels, shown, request, first, at, second, grown, found, compared,
                 maskVars, acts>>

\* The largest rectangles go to the file, and the first capture is let go.
WriteRects ==
  /\ \/ at = "write"
     \/ at = "rows" /\ cy = CellsDown(second.size)
  /\ at' = "frame"
  /\ \E kept \in Limited({RectOf(r, second.size) : r \in runs}) :
       found' = [rects |-> kept, size |-> second.size, limited |-> Cardinality(runs) > MaxRects]
  /\ compared' = <<first, second>>
  /\ first' = None /\ second' = None
  /\ grown' = {} /\ cy' = 0 /\ runs' = {}
  /\ UNCHANGED <<size, panels, shown, request, maskVars, acts>>

\* The first frame with a mask.  Nobody sets uiMaskWidth: the rectangles count
\* as those of the present size.
Rasterise ==
  /\ at = "frame" /\ maskRects # {} /\ mask = None
  /\ mask' = MaskOf(maskRects, size, size)
  /\ UNCHANGED <<size, panels, shown, request, calibrationVars, maskRects, acts>>

-------------------------------------------------------------------------------

Player == ToggleInterface \/ Resize
Operator == RequestCalibrationCapture \/ TakeOver
RenderThread == NothingToCompare \/ ReadbackFails \/ CaptureWithInterface \/ CaptureWithout
                \/ ScanRow \/ WriteRects \/ Rasterise

Next == Player \/ Operator \/ RenderThread

Spec == Init /\ [][Next]_vars

-------------------------------------------------------------------------------
(* Properties.                                                             *)

Frames == [size : Sizes, pixels : SUBSET Nat]
Runs == [x0 : Nat, x1 : Nat, y0 : Nat, y1 : Nat]

\* The variables hold what the code's types allow.
TypeOK ==
  /\ size \in Sizes /\ panels \subseteq Panels /\ shown \in BOOLEAN
  /\ request \in 0 .. 2 /\ at \in {"frame", "rows", "write"}
  /\ first \in Frames \cup {None} /\ second \in Frames \cup {None}
  /\ at # "frame" => first \in Frames /\ second \in Frames
  /\ at = "rows" => grown \subseteq Cells(second.size)
  /\ cy \in Nat /\ runs \in SUBSET Runs
  /\ found = None \/ found \in [rects : SUBSET Rects, size : Sizes, limited : BOOLEAN]
  /\ maskRects \in SUBSET Rects /\ (mask = None \/ mask \in SUBSET Rects)
  /\ acts \in 0 .. MaxActs

Holds(r, c) == r.x0 <= c[1] /\ c[1] < r.x1 /\ r.y0 <= c[2] /\ c[2] < r.y1

\* Row by row, the runs tile the marked cells read so far: each of those cells is
\* in one run, and a run has no other cell.
RunsTileTheCells ==
  at = "rows" =>
    /\ \A c \in Cells(second.size) : c[2] < cy => (c \in grown <=> \E r \in runs : Holds(r, c))
    /\ \A r, o \in runs : \A c \in Cells(second.size) : Holds(r, c) /\ Holds(o, c) => r = o

\* No cell of the group is next to a marked one outside it.
Closed(group, marked) == \A a \in group, b \in marked \ group : ~ Adjacent(a, b)

\* The cell hangs together with enough others: no smaller group that nothing
\* continues has it.
InGroup(c, marked) ==
  \A g \in SUBSET marked : c \in g /\ Closed(g, marked) => Cardinality(g) >= MinComponentCells

\* Both captures were taken of the window at one size, as the caller must see to.
SameSize == found # None /\ compared[1].size = compared[2].size

\* The cells of which enough pixels differ between two frames of a size.
PixelsOf(c, s) == {p \in Pixels(s) : <<p[1] \div Cell, p[2] \div Cell>> = c}
Changed(a, b, s) ==
  LET shows(f, p) == p[2] * s.w + p[1] \in f.pixels
      differ(c) == {p \in PixelsOf(c, s) : shows(a, p) # shows(b, p)}
  IN {c \in Cells(s) :
        100 * Cardinality(differ(c)) >= CellPercent * Cardinality(PixelsOf(c, s))}

\* Those of them that are in groups, and the pixels at most DilateCells cells away.
Interface ==
  LET changed == Changed(compared[1], compared[2], found.size)
  IN {c \in changed : InGroup(c, changed)}
Near ==
  LET side(v) == (v - DilateCells) * Cell .. (v + DilateCells + 1) * Cell - 1
  IN Pixels(found.size) \cap UNION {side(c[1]) \X side(c[2]) : c \in Interface}
Held == UNION {(r.left .. r.right - 1) \X (r.top .. r.bottom - 1) : r \in found.rects}

\* The rectangles hold what the two captures show of the interface: no pixel
\* further than DilateCells cells from a group of marked cells, and each pixel
\* that near unless there were too many rectangles.
RectsHoldTheInterface ==
  SameSize => Held \subseteq Near /\ (Held = Near \/ found.limited)

\* The neural pass leaves the interface alone: its pixels keep some of the original,
\* and all of it unless the feather of an edge reaches them that is an edge of the
\* frame or between two rectangles, or is wider than the interface was grown.
MaskKeepsTheInterface ==
  SameSize /\ ~found.limited /\ mask # None /\ maskRects = found.rects /\ size = found.size =>
    \A c \in Interface :
      \A p \in PixelsOf(c, size) :
        LET around == (p[1] - Feather .. p[1] + Feather) \X (p[2] - Feather .. p[2] + Feather)
            otherRect(q) == \E r \in mask : Covers(r, q[1], q[2]) /\ ~Covers(r, p[1], p[2])
            coverage == CoverageAtAny(mask, p[1], p[2])
        IN /\ coverage > 0
           /\ Feather <= DilateCells * Cell
                /\ (\A q \in around : q \in Pixels(size) /\ ~otherRect(q))
              => coverage = Feather + 1
===============================================================================
