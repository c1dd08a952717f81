-------------------------- MODULE UiCalibrationProofs --------------------------
(***************************************************************************)
(* For every size of frame and cell, every pair of captures and every set  *)
(* of parameters: the runs of cells read so far tile the marked cells of   *)
(* those rows (RunsTile), the rectangles made of them hold the interface   *)
(* (RectsHold), and the mask made of the rectangles keeps it (MaskKeeps).  *)
(*                                                                         *)
(* The last two rest on what a pixel's number says of its place            *)
(* (DifferInACell, AreaCounts), on what the flood fill's groups are        *)
(* (ComponentsPart), on what a run covers (RunCovers) and on how far a     *)
(* feather reaches (CoveredPixel).                                         *)
(***************************************************************************)
EXTENDS UiCalibration, FiniteSetTheorems, WellFoundedInduction, TLAPS

\* A run is a block of marked cells that no marked cell continues sideways.
Block(r) ==
  /\ r \in Runs /\ r.x0 < r.x1 /\ r.y0 < r.y1 /\ r.y1 <= cy
  /\ \A x \in r.x0 .. r.x1 - 1, y \in r.y0 .. r.y1 - 1 : <<x, y>> \in grown
  /\ \A y \in r.y0 .. r.y1 - 1 : <<r.x0 - 1, y>> \notin grown /\ <<r.x1, y>> \notin grown

\* The runs tile what was read.
Tiling ==
  /\ \A c \in grown : c[2] < cy => \E r \in runs : Holds(r, c)
  /\ \A r, o \in runs : \A c \in Cells(second.size) : Holds(r, c) /\ Holds(o, c) => r = o

ScanInv ==
  /\ size \in Sizes
  /\ at = "rows" =>
       /\ second.size \in Sizes /\ cy \in Nat
       /\ grown \subseteq Cells(second.size)
       /\ \A r \in runs : Block(r)
       /\ Tiling

-------------------------------------------------------------------------------

\* A set of natural numbers has a least one.
LEMMA LeastOne ==
  ASSUME NEW I, I \subseteq Nat, I # {}
  PROVE  \E x \in I : \A y \in I : x <= y
<1>1. ASSUME NEW x \in Nat, NEW y \in Nat, y < x
      PROVE  <<y, x>> \in OpToRel(<, Nat)
  <2> DEFINE ss == <<y, x>>
  <2>1. ss \in Nat \X Nat /\ ss[1] < ss[2]
        BY <1>1
  <2> HIDE DEF ss
  <2>2. ss \in OpToRel(<, Nat)
        BY <2>1, Zenon DEF OpToRel
  <2> QED BY <2>2 DEF ss
<1> DEFINE R == OpToRel(<, Nat)
<1> HIDE DEF R
<1>2. IsWellFoundedOn(R, Nat)
      BY NatLessThanWellFounded, Zenon DEF R
<1>3. PICK x \in I : \A y \in I : ~ (<<y, x>> \in R)
      BY <1>2, WFMin
<1>4. \A y, z \in Nat : y < z => <<y, z>> \in R
      BY <1>1, Zenon DEF R
<1>5. ASSUME NEW y \in I PROVE x <= y
  <2>1. x \in Nat /\ y \in Nat
        OBVIOUS
  <2>2. ~ (y < x)
        BY <2>1, <1>3, <1>4
  <2> QED BY <2>1, <2>2
<1> QED BY <1>5

\* A cell has a column and a row among those of the frame.
LEMMA CellsOfAFrame ==
  ASSUME NEW s \in Sizes
  PROVE  /\ CellsAcross(s) \in Int /\ CellsDown(s) \in Int
         /\ \A c \in Cells(s) :
              /\ c = <<c[1], c[2]>>
              /\ c[1] \in 0 .. CellsAcross(s) - 1
              /\ c[2] \in 0 .. CellsDown(s) - 1
<1>1. s.w \in Int /\ s.h \in Int /\ Cell \in Nat \ {0}
      BY CalibrationAssumption
<1>2. CellsAcross(s) \in Int /\ CellsDown(s) \in Int
      BY <1>1 DEF CellsAcross, CellsDown
<1> QED BY <1>2 DEF Cells

\* Every marked cell of a row is in one of its maximal runs.
LEMMA InSomeRun ==
  ASSUME NEW s \in Sizes, NEW cells \in SUBSET Cells(s), NEW x, NEW y, <<x, y>> \in cells
  PROVE  \E r \in RunsOfRow(cells, y, CellsAcross(s)) : r.x0 <= x /\ x < r.x1
<1> DEFINE across == CellsAcross(s)
           Left == {l \in 0 .. x : \A k \in l .. x : <<k, y>> \in cells}
           Right == {r \in Nat : x < r /\ <<r, y>> \notin cells}
<1>1. across \in Int /\ x \in 0 .. across - 1
  <2>1. <<x, y>> \in Cells(s)
        OBVIOUS
  <2> QED BY <2>1, CellsOfAFrame
<1>2. \A k : <<k, y>> \in cells => k \in 0 .. across - 1
  <2>1. ASSUME NEW k, <<k, y>> \in cells PROVE k \in 0 .. across - 1
    <3>1. <<k, y>> \in Cells(s)
          BY <2>1
    <3> QED BY <3>1, CellsOfAFrame
  <2> QED BY <2>1
<1> HIDE DEF across
<1>3. PICK l \in Left : \A o \in Left : l <= o
  <2>1. x \in Left
    <3>1. \A k \in x .. x : k = x
          BY <1>1
    <3> QED BY <1>1, <3>1
  <2>2. Left \subseteq Nat
        BY <1>1
  <2> HIDE DEF Left
  <2> QED BY <2>1, <2>2, LeastOne
<1>4. PICK r \in Right : \A o \in Right : r <= o
  <2>1. across \in Right
        BY <1>1, <1>2
  <2>2. Right \subseteq Nat
        OBVIOUS
  <2> HIDE DEF Right
  <2> QED BY <2>1, <2>2, LeastOne
<1>5. l \in 0 .. x /\ (\A k \in l .. x : <<k, y>> \in cells) /\ <<l - 1, y>> \notin cells
  <2>1. l \in 0 .. x /\ \A k \in l .. x : <<k, y>> \in cells
        OBVIOUS
  <2>2. ASSUME <<l - 1, y>> \in cells PROVE FALSE
    <3>1. l - 1 \in 0 .. x
          BY <1>1, <1>2, <2>1, <2>2
    <3>2. \A k \in l - 1 .. x : k = l - 1 \/ k \in l .. x
          BY <1>1, <2>1
    <3>3. l - 1 \in Left
          BY <3>1, <3>2, <2>1, <2>2
    <3>4. l <= l - 1
          BY <1>3, <3>3
    <3> QED BY <3>4, <2>1, <1>1
  <2> QED BY <2>1, <2>2
<1>6. r \in Nat /\ x < r /\ <<r, y>> \notin cells /\ r <= across
      /\ \A k \in x + 1 .. r - 1 : <<k, y>> \in cells
  <2>1. r \in Nat /\ x < r /\ <<r, y>> \notin cells
        OBVIOUS
  <2>2. r <= across
    <3>1. across \in Nat /\ x < across /\ <<across, y>> \notin cells
          BY <1>1, <1>2
    <3>2. across \in Right
          BY <3>1
    <3> QED BY <3>2, <1>4
  <2>3. ASSUME NEW k \in x + 1 .. r - 1, <<k, y>> \notin cells PROVE FALSE
    <3>1. k \in Nat /\ x < k /\ k < r
          BY <1>1, <2>1
    <3>2. k \in Right
          BY <3>1, <2>3
    <3> QED BY <3>1, <3>2, <2>1, <1>4
  <2> QED BY <2>1, <2>2, <2>3
<1> DEFINE run == [x0 |-> l, x1 |-> r]
<1> HIDE DEF Left, Right
<1>7. \A k \in l .. r - 1 : k \in l .. x \/ k \in x + 1 .. r - 1
      BY <1>1, <1>5, <1>6
<1>8. run \in [x0 : 0 .. across, x1 : 0 .. across] /\ l < r /\ l <= x
      BY <1>1, <1>5, <1>6
<1>9. run \in RunsOfRow(cells, y, across)
      BY <1>5, <1>6, <1>7, <1>8 DEF RunsOfRow
<1> QED BY <1>8, <1>9, <1>6 DEF across

\* Two maximal runs of a row that share a column are the same.
LEMMA RunsAreApart ==
  ASSUME NEW cells, NEW y, NEW n \in Int,
         NEW r \in RunsOfRow(cells, y, n), NEW o \in RunsOfRow(cells, y, n),
         NEW x \in Int, r.x0 <= x, x < r.x1, o.x0 <= x, x < o.x1
  PROVE  r = o
<1>1. /\ r \in [x0 : 0 .. n, x1 : 0 .. n] /\ o \in [x0 : 0 .. n, x1 : 0 .. n]
      /\ \A k \in r.x0 .. r.x1 - 1 : <<k, y>> \in cells
      /\ \A k \in o.x0 .. o.x1 - 1 : <<k, y>> \in cells
      /\ <<r.x0 - 1, y>> \notin cells /\ <<r.x1, y>> \notin cells
      /\ <<o.x0 - 1, y>> \notin cells /\ <<o.x1, y>> \notin cells
      BY DEF RunsOfRow
<1>2. r.x0 \in Int /\ r.x1 \in Int /\ o.x0 \in Int /\ o.x1 \in Int
      BY <1>1
<1>3. ~ (r.x0 < o.x0)
  <2>1. r.x0 < o.x0 => o.x0 - 1 \in r.x0 .. r.x1 - 1
        BY <1>2
  <2> QED BY <2>1, <1>1
<1>4. ~ (o.x0 < r.x0)
  <2>1. o.x0 < r.x0 => r.x0 - 1 \in o.x0 .. o.x1 - 1
        BY <1>2
  <2> QED BY <2>1, <1>1
<1>5. ~ (r.x1 < o.x1)
  <2>1. r.x1 < o.x1 => r.x1 \in o.x0 .. o.x1 - 1
        BY <1>2
  <2> QED BY <2>1, <1>1
<1>6. ~ (o.x1 < r.x1)
  <2>1. o.x1 < r.x1 => o.x1 \in r.x0 .. r.x1 - 1
        BY <1>2
  <2> QED BY <2>1, <1>1
<1>7. r.x0 = o.x0 /\ r.x1 = o.x1
      BY <1>2, <1>3, <1>4, <1>5, <1>6
<1> QED BY <1>1, <1>7

\* The runs that the runs of the present row become: each with the rows of the
\* one above, when there is one of its columns.
Row == RunsOfRow(grown, cy, CellsAcross(second.size))
Top(r) == IF Above(r, cy) = {} THEN cy ELSE (CHOOSE a \in Above(r, cy) : TRUE).y0
Grown(r) == [x0 |-> r.x0, x1 |-> r.x1, y1 |-> cy + 1, y0 |-> Top(r)]

\* What a run of the row is before it is merged.
LEMMA RowsOfTheGrid ==
  ASSUME ScanInv, at = "rows", NEW r \in Row
  PROVE  /\ r.x0 \in Nat /\ r.x1 \in Nat /\ r.x0 < r.x1
         /\ \A x \in r.x0 .. r.x1 - 1 : <<x, cy>> \in grown
         /\ <<r.x0 - 1, cy>> \notin grown /\ <<r.x1, cy>> \notin grown
<1>1. CellsAcross(second.size) \in Int
      BY CellsOfAFrame DEF ScanInv
<1> QED BY <1>1 DEF Row, RunsOfRow

\* At most one run above has the columns of r, and it ends where the row begins.
LEMMA OneAbove ==
  ASSUME ScanInv, at = "rows", NEW r \in Row, NEW a \in Above(r, cy)
  PROVE  /\ a \in runs /\ Block(a)
         /\ a.y1 = cy /\ a.x0 = r.x0 /\ a.x1 = r.x1
         /\ Top(r) = a.y0
<1>1. \A b \in Above(r, cy) : b \in runs /\ Block(b) /\ b.y1 = cy /\ b.x0 = r.x0 /\ b.x1 = r.x1
      BY DEF Above, ScanInv
<1>2. ASSUME NEW b \in Above(r, cy) PROVE b = a
  <2> DEFINE c == <<r.x0, cy - 1>>
  <2>1. /\ a.x0 \in Nat /\ a.x1 \in Nat /\ a.y0 \in Nat /\ a.x0 < a.x1 /\ a.y0 < cy
        /\ b.y0 \in Nat /\ b.y0 < cy /\ cy \in Nat
        /\ a.x0 = r.x0 /\ a.x1 = r.x1 /\ a.y1 = cy
        /\ b.x0 = r.x0 /\ b.x1 = r.x1 /\ b.y1 = cy
        BY <1>1 DEF Block, Runs, ScanInv
  <2>2. a.x0 \in a.x0 .. a.x1 - 1 /\ cy - 1 \in a.y0 .. a.y1 - 1
        BY <2>1
  <2>3. c \in grown
        BY <1>1, <2>1, <2>2 DEF Block
  <2>4. c \in Cells(second.size)
        BY <2>3 DEF ScanInv
  <2>5. Holds(a, c) /\ Holds(b, c)
        BY <2>1 DEF Holds
  <2> QED BY <1>1, <2>4, <2>5 DEF ScanInv, Tiling
<1>3. (CHOOSE b \in Above(r, cy) : TRUE) \in Above(r, cy)
      OBVIOUS
<1>4. Top(r) = a.y0
      BY <1>2, <1>3 DEF Top
<1> QED BY <1>1, <1>4

\* A merged run is a block, and holds what the run above held.
LEMMA MergedIsBlock ==
  ASSUME ScanInv, at = "rows", NEW r \in Row
  PROVE  /\ Top(r) \in Nat /\ Top(r) <= cy
         /\ \A x \in r.x0 .. r.x1 - 1, y \in Top(r) .. cy : <<x, y>> \in grown
         /\ \A y \in Top(r) .. cy : <<r.x0 - 1, y>> \notin grown /\ <<r.x1, y>> \notin grown
<1>1. cy \in Nat
      BY DEF ScanInv
<1>2. CASE Above(r, cy) = {}
  <2>1. Top(r) = cy /\ \A y \in cy .. cy : y = cy
        BY <1>1, <1>2 DEF Top
  <2> QED BY <1>1, <2>1, RowsOfTheGrid
<1>3. CASE Above(r, cy) # {}
  <2>1. PICK a \in Above(r, cy) : TRUE
        BY <1>3
  <2>2. /\ Block(a) /\ a.y1 = cy /\ a.x0 = r.x0 /\ a.x1 = r.x1 /\ Top(r) = a.y0
        BY <2>1, OneAbove
  <2>3. a.y0 \in Nat /\ a.y0 < cy
        BY <2>2 DEF Block, Runs
  <2>4. \A y \in a.y0 .. cy : y \in a.y0 .. a.y1 - 1 \/ y = cy
        BY <1>1, <2>2, <2>3
  <2>5. /\ \A x \in r.x0 .. r.x1 - 1 : <<x, cy>> \in grown
        /\ <<r.x0 - 1, cy>> \notin grown /\ <<r.x1, cy>> \notin grown
        BY RowsOfTheGrid
  <2>6. \A x \in r.x0 .. r.x1 - 1, y \in a.y0 .. cy : <<x, y>> \in grown
        BY <2>2, <2>4, <2>5 DEF Block
  <2>7. \A y \in a.y0 .. cy : <<r.x0 - 1, y>> \notin grown /\ <<r.x1, y>> \notin grown
        BY <2>2, <2>4, <2>5 DEF Block
  <2> QED BY <1>1, <2>2, <2>3, <2>6, <2>7
<1> QED BY <1>2, <1>3

\* One more row is read: the runs tile that one too.
LEMMA ScanStep == ScanInv /\ ScanRow => ScanInv'
<1> SUFFICES ASSUME ScanInv, ScanRow PROVE ScanInv'
    OBVIOUS
<1>1. /\ at = "rows" /\ at' = "rows" /\ second' = second /\ grown' = grown /\ size' = size
      /\ cy' = cy + 1 /\ cy \in Nat /\ second.size \in Sizes
      BY DEF ScanRow, ScanInv
<1>2. runs' = (runs \ UNION {Above(r, cy) : r \in Row}) \cup {Grown(r) : r \in Row}
      BY DEF ScanRow, Row, Grown, Top
<1>3. CellsAcross(second.size) \in Int
      BY <1>1, CellsOfAFrame
<1>4. \A r \in runs' :
        \/ r \in runs /\ \A q \in Row : r \notin Above(q, cy)
        \/ \E q \in Row : r = Grown(q)
      BY <1>2
<1>5. ASSUME NEW q \in Row
      PROVE  /\ Grown(q).x0 = q.x0 /\ Grown(q).x1 = q.x1
             /\ Grown(q).y0 = Top(q) /\ Grown(q).y1 = cy + 1
      BY DEF Grown
<1>6. ASSUME NEW r \in runs' PROVE Block(r)'
  <2>1. CASE r \in runs
    <3>1. Block(r)
          BY <2>1, <1>1 DEF ScanInv
    <3> QED BY <3>1, <1>1 DEF Block, Runs
  <2>2. ASSUME NEW q \in Row, r = Grown(q) PROVE Block(r)'
    <3>1. /\ r.x0 = q.x0 /\ r.x1 = q.x1 /\ r.y0 = Top(q) /\ r.y1 = cy + 1
          BY <2>2, <1>5
    <3>2. Top(q) \in Nat /\ Top(q) < cy + 1 /\ q.x0 \in Nat /\ q.x1 \in Nat /\ q.x0 < q.x1
      <4>1. Top(q) \in Nat /\ Top(q) <= cy
            BY <1>1, MergedIsBlock
      <4>2. q.x0 \in Nat /\ q.x1 \in Nat /\ q.x0 < q.x1
            BY <1>1, RowsOfTheGrid
      <4> QED BY <1>1, <4>1, <4>2
    <3>3. r \in Runs
          BY <2>2, <3>2, <1>1 DEF Runs, Grown
    <3>4. \A y \in r.y0 .. r.y1 - 1 : y \in Top(q) .. cy
          BY <3>1, <3>2, <1>1
    <3> HIDE DEF Row
    <3>5. \A x \in r.x0 .. r.x1 - 1, y \in r.y0 .. r.y1 - 1 : <<x, y>> \in grown
          BY <3>1, <3>4, <1>1, MergedIsBlock
    <3>6. \A y \in r.y0 .. r.y1 - 1 : <<r.x0 - 1, y>> \notin grown /\ <<r.x1, y>> \notin grown
          BY <3>1, <3>4, <1>1, MergedIsBlock
    <3> QED BY <3>1, <3>2, <3>3, <3>5, <3>6, <1>1 DEF Block
  <2> QED BY <1>4, <2>1, <2>2
<1>7. ASSUME NEW c \in grown, c[2] < cy + 1 PROVE \E r \in runs' : Holds(r, c)
  <2>1. /\ c = <<c[1], c[2]>> /\ c[1] \in Int /\ c[2] \in Nat
    <3>1. c \in Cells(second.size)
          BY <1>1 DEF ScanInv
    <3> QED BY <3>1, <1>1, CellsOfAFrame
  <2>2. CASE c[2] = cy
    <3>1. PICK q \in Row : q.x0 <= c[1] /\ c[1] < q.x1
          BY <2>1, <2>2, <1>1, InSomeRun DEF Row, ScanInv
    <3>2. Top(q) \in Nat /\ Top(q) <= cy
          BY <1>1, MergedIsBlock
    <3>3. Holds(Grown(q), c)
          BY <3>1, <3>2, <1>1, <1>5, <2>2 DEF Holds
    <3> QED BY <3>3, <1>2
  <2>3. CASE c[2] < cy
    <3>1. PICK o \in runs : Holds(o, c)
          BY <2>3, <1>1 DEF ScanInv, Tiling
    <3>2. CASE \A q \in Row : o \notin Above(q, cy)
      <4>1. o \in runs'
            BY <3>2, <1>2
      <4> QED BY <3>1, <4>1
    <3>3. ASSUME NEW q \in Row, o \in Above(q, cy) PROVE \E r \in runs' : Holds(r, c)
      <4>1. o.x0 = q.x0 /\ o.x1 = q.x1 /\ Top(q) = o.y0
            BY <3>3, <1>1, OneAbove
      <4>2. Holds(Grown(q), c)
            BY <3>1, <4>1, <1>1, <1>5, <2>1, <2>3 DEF Holds
      <4> QED BY <4>2, <1>2
    <3> QED BY <3>2, <3>3
  <2> QED BY <1>1, <1>7, <2>1, <2>2, <2>3
<1>8. ASSUME NEW r \in runs', NEW o \in runs', NEW c \in Cells(second.size),
             Holds(r, c), Holds(o, c)
      PROVE  r = o
  <2>1. c[1] \in Int /\ c[2] \in Int
        BY <1>1, CellsOfAFrame
  <2>2. CASE r \in runs /\ o \in runs
        BY <2>2, <1>1, <1>8 DEF ScanInv, Tiling
  <2>3. ASSUME NEW k \in runs, \A q \in Row : k \notin Above(q, cy), NEW q \in Row,
               Holds(k, c), Holds(Grown(q), c)
        PROVE  FALSE
    <3>1. c[2] < cy
      <4>1. Block(k)
            BY <1>1 DEF ScanInv
      <4> QED BY <4>1, <2>1, <2>3, <1>1 DEF Block, Runs, Holds
    <3>2. Top(q) <= c[2] /\ q.x0 <= c[1] /\ c[1] < q.x1
          BY <2>3, <1>5 DEF Holds
    <3>3. Above(q, cy) # {}
          BY <3>1, <3>2, <2>1, <1>1 DEF Top
    <3>4. PICK a \in Above(q, cy) : TRUE
          BY <3>3
    <3>5. a \in runs /\ a.y1 = cy /\ a.x0 = q.x0 /\ a.x1 = q.x1 /\ Top(q) = a.y0
          BY <3>4, <1>1, OneAbove
    <3>6. Holds(a, c)
          BY <3>1, <3>2, <3>5 DEF Holds
    <3>7. a = k
          BY <3>5, <3>6, <2>3, <1>1 DEF ScanInv, Tiling
    <3> QED BY <3>4, <3>7, <2>3
  <2>4. ASSUME NEW p \in Row, NEW q \in Row, Holds(Grown(p), c), Holds(Grown(q), c)
        PROVE  p = q
    <3>1. p.x0 <= c[1] /\ c[1] < p.x1 /\ q.x0 <= c[1] /\ c[1] < q.x1
          BY <2>4, <1>5 DEF Holds
    <3> QED BY <3>1, <2>1, <1>3, RunsAreApart DEF Row
  <2>5. (r \in runs /\ \A q \in Row : r \notin Above(q, cy)) \/ \E q \in Row : r = Grown(q)
        BY <1>4
  <2>6. (o \in runs /\ \A q \in Row : o \notin Above(q, cy)) \/ \E q \in Row : o = Grown(q)
        BY <1>4
  <2> QED BY <1>8, <2>2, <2>3, <2>4, <2>5, <2>6
<1>9. Tiling'
      BY <1>1, <1>7, <1>8 DEF Tiling, Holds
<1> QED BY <1>1, <1>6, <1>9 DEF ScanInv

\* A new calibration has read no row yet.
LEMMA CaptureStep == ScanInv /\ CaptureWithout => ScanInv'
<1> SUFFICES ASSUME ScanInv, CaptureWithout PROVE ScanInv'
    OBVIOUS
<1>1. size' = size /\ size \in Sizes /\ cy' = 0 /\ runs' = {}
      BY DEF CaptureWithout, ScanInv
<1>2. second'.size = size
      BY DEF CaptureWithout, FrameOf
<1>3. at' = "rows" => grown' \subseteq Cells(size)
      BY DEF CaptureWithout, Dilated
<1>4. ASSUME at' = "rows" PROVE Tiling'
  <2>1. \A c \in grown' : ~ (c[2] < 0)
    <3>1. \A c \in Cells(size) : c[2] \in 0 .. CellsDown(size) - 1
          BY <1>1, CellsOfAFrame
    <3>2. CellsDown(size) \in Int
          BY <1>1, CellsOfAFrame
    <3> QED BY <3>1, <3>2, <1>3, <1>4
  <2> QED BY <2>1, <1>1 DEF Tiling
<1> QED BY <1>1, <1>2, <1>3, <1>4 DEF ScanInv

\* Nobody else touches the scan.
LEMMA OtherSteps ==
  ASSUME ScanInv, Next \/ UNCHANGED vars, ~ ScanRow, ~ CaptureWithout
  PROVE  ScanInv'
<1>1. CASE UNCHANGED <<size, at, second, grown, cy, runs>>
      BY <1>1 DEF ScanInv, Tiling, Block, Holds
<1>2. CASE at' = "frame" /\ size' \in Sizes
      BY <1>2 DEF ScanInv
<1>3. ToggleInterface \/ RequestCalibrationCapture \/ TakeOver
        => UNCHANGED <<size, at, second, grown, cy, runs>>
      BY DEF ToggleInterface, RequestCalibrationCapture, TakeOver, calibrationVars
<1>4. NothingToCompare \/ ReadbackFails \/ CaptureWithInterface \/ Rasterise
        => UNCHANGED <<size, at, second, grown, cy, runs>>
      BY DEF NothingToCompare, ReadbackFails, CaptureWithInterface, Rasterise, calibrationVars
<1>5. Resize => at' = "frame" /\ size' \in Sizes
      BY DEF Resize, calibrationVars
<1>6. WriteRects => at' = "frame" /\ size' \in Sizes
      BY DEF WriteRects, ScanInv
<1>7. UNCHANGED vars => UNCHANGED <<size, at, second, grown, cy, runs>>
      BY DEF vars, calibrationVars
<1> QED BY <1>1, <1>2, <1>3, <1>4, <1>5, <1>6, <1>7
       DEF Next, Player, Operator, RenderThread

\* Row by row, the runs tile the marked cells read so far.
THEOREM RunsTile == Spec => []RunsTileTheCells
<1>1. Init => ScanInv
      BY DEF Init, ScanInv
<1>2. ScanInv /\ [Next]_vars => ScanInv'
      BY ScanStep, CaptureStep, OtherSteps
<1>3. ScanInv => RunsTileTheCells
  <2> SUFFICES ASSUME ScanInv, at = "rows"
               PROVE  /\ \A c \in Cells(second.size) :
                           c[2] < cy => (c \in grown <=> \E r \in runs : Holds(r, c))
                      /\ Tiling
      BY DEF RunsTileTheCells, Tiling
  <2>1. Tiling
        BY DEF ScanInv
  <2>2. ASSUME NEW c \in Cells(second.size), NEW r \in runs, Holds(r, c) PROVE c \in grown
    <3>1. c = <<c[1], c[2]>> /\ c[1] \in Int /\ c[2] \in Int
          BY CellsOfAFrame DEF ScanInv
    <3>2. Block(r)
          BY DEF ScanInv
    <3>3. c[1] \in r.x0 .. r.x1 - 1 /\ c[2] \in r.y0 .. r.y1 - 1
          BY <2>2, <3>1, <3>2 DEF Holds, Block, Runs
    <3>4. <<c[1], c[2]>> \in grown
          BY <3>2, <3>3 DEF Block
    <3> QED BY <3>1, <3>4
  <2> QED BY <2>1, <2>2 DEF Tiling
<1> QED BY <1>1, <1>2, <1>3, PTL DEF Spec

-------------------------------------------------------------------------------
(* Division.                                                               *)

\* What a quotient and a remainder are.
LEMMA Division ==
  ASSUME NEW n \in Int, NEW d \in Nat \ {0}
  PROVE  n \div d \in Int /\ n % d \in 0 .. d - 1 /\ n = d * (n \div d) + (n % d)
OBVIOUS

\* A product grows with its factor.
LEMMA Multiples ==
  ASSUME NEW a \in Int, NEW b \in Int, a < b, NEW d \in Nat
  PROVE  a * d + d <= b * d
<1>1. a * d + d = (a + 1) * d /\ b * d = (a + 1) * d + (b - a - 1) * d
      OBVIOUS
<1>2. (b - a - 1) * d >= 0
  <2>1. b - a - 1 \in Nat
        OBVIOUS
  <2>2. \A m \in Nat : m * d >= 0
        OBVIOUS
  <2> QED BY <2>1, <2>2
<1>3. (a + 1) * d \in Int /\ (b - a - 1) * d \in Int
      OBVIOUS
<1> QED BY <1>1, <1>2, <1>3

\* A number is in the block of its quotient.
LEMMA Quotient ==
  ASSUME NEW n \in Int, NEW d \in Nat \ {0}, NEW a \in Int
  PROVE  /\ a <= n \div d <=> a * d <= n
         /\ n \div d < a <=> n < a * d
<1> DEFINE q == n \div d
           r == n % d
<1>1. q \in Int /\ r \in Int /\ 0 <= r /\ r < d /\ n = d * q + r /\ d \in Nat
      BY Division
<1> HIDE DEF q, r
<1>2. d * q = q * d /\ q * d \in Int /\ a * d \in Int
      BY <1>1
<1>3. ASSUME a <= q PROVE a * d <= n
  <2>1. a = q \/ a * d + d <= q * d
        BY <1>1, <1>3, Multiples
  <2> QED BY <1>1, <1>2, <2>1
<1>4. ASSUME q < a PROVE n < a * d
  <2>1. q * d + d <= a * d
        BY <1>1, <1>4, Multiples
  <2> QED BY <1>1, <1>2, <2>1
<1> QED BY <1>1, <1>2, <1>3, <1>4 DEF q

\* A row and a column make one number, and the number gives them back.
LEMMA Numbered ==
  ASSUME NEW d \in Nat \ {0}, NEW x \in 0 .. d - 1, NEW y \in Nat
  PROVE  /\ y * d + x \in Nat
         /\ (y * d + x) \div d = y /\ (y * d + x) % d = x
<1> DEFINE n == y * d + x
<1>1. n \in Nat /\ y * d \in Nat
      OBVIOUS
<1>2. n = y * d + x
      OBVIOUS
<1> HIDE DEF n
<1>3. y + 1 \in Int /\ (y + 1) * d = y * d + d
      OBVIOUS
<1>4. y <= n \div d /\ n \div d < y + 1
      BY <1>1, <1>2, <1>3, Quotient
<1>5. n \div d = y
      BY <1>1, <1>4, Division
<1>6. n = d * (n \div d) + (n % d) /\ n % d \in 0 .. d - 1
      BY <1>1, Division
<1>7. d * (n \div d) = y * d
      BY <1>5
<1>8. n % d = x
      BY <1>1, <1>2, <1>6, <1>7
<1> QED BY <1>1, <1>5, <1>8 DEF n

-------------------------------------------------------------------------------
(* The groups of cells.  The flood fill's are those that nothing continues  *)
(* and that have no smaller one among them.                                 *)

\* What holds from zero up, in steps of one, holds of every natural number.
LEMMA Induction ==
  ASSUME NEW I, 0 \in I, \A n \in Nat : n \in I => n + 1 \in I
  PROVE  Nat \subseteq I
<1> DEFINE Bad == {n \in Nat : n \notin I}
<1>1. SUFFICES ASSUME Bad # {} PROVE FALSE
      OBVIOUS
<1>2. PICK x \in Bad : \A y \in Bad : x <= y
  <2>1. Bad \subseteq Nat
        OBVIOUS
  <2> HIDE DEF Bad
  <2> QED BY <1>1, <2>1, LeastOne
<1>3. x \in Nat /\ x # 0 /\ x \notin I
      OBVIOUS
<1>4. x - 1 \in Nat /\ ~ (x <= x - 1)
      BY <1>3
<1>5. x - 1 \in I
      BY <1>2, <1>4
<1>6. (x - 1) + 1 = x
      BY <1>3
<1> QED BY <1>3, <1>4, <1>5, <1>6

\* How Components takes in one more cell.
Touching(c, groups) == {g \in groups : \E m \in g : Adjacent(m, c)}
Join(c, groups) ==
  (groups \ Touching(c, groups)) \cup {(UNION Touching(c, groups)) \cup {c}}
Some(S) == CHOOSE x \in S : TRUE

\* What Components makes of S is F[S], for the sets of cells in D.
Joined(F, S) == IF S = {} THEN {} ELSE Join(Some(S), F[S \ {Some(S)}])
Joins(F, D) == F = [S \in D |-> Joined(F, S)]
Upto(n, marked) == {S \in SUBSET marked : Cardinality(S) <= n}

\* Such a function gives each set what its definition says.
LEMMA JoinedSo ==
  ASSUME NEW F, NEW D, Joins(F, D), NEW S \in D
  PROVE  F[S] = Joined(F, S)
<1>1. F = [T \in D |-> Joined(F, T)]
      BY DEF Joins
<1> DEFINE R(T) == Joined(F, T)
<1>2. F = [T \in D |-> R(T)]
      BY <1>1
<1> HIDE DEF R
<1>3. F[S] = R(S)
      BY <1>2
<1> QED BY <1>3 DEF R

\* A finite set less one of its elements.
LEMMA OneLess ==
  ASSUME NEW marked, IsFiniteSet(marked), NEW S \in SUBSET marked
  PROVE  /\ IsFiniteSet(S) /\ Cardinality(S) \in Nat
         /\ S # {} => /\ Some(S) \in S
                      /\ S \ {Some(S)} \in SUBSET marked
                      /\ Cardinality(S \ {Some(S)}) = Cardinality(S) - 1
<1>1. IsFiniteSet(S) /\ Cardinality(S) \in Nat
      BY FS_Subset, FS_CardinalityType
<1>2. S # {} => Some(S) \in S
      BY DEF Some
<1>3. S # {} => Cardinality(S \ {Some(S)}) = Cardinality(S) - 1
      BY <1>1, <1>2, FS_RemoveElement
<1> QED BY <1>1, <1>2, <1>3

\* There is such a function for all subsets of a finite set.
LEMMA JoinsExist ==
  ASSUME NEW marked, IsFiniteSet(marked)
  PROVE  \E F : Joins(F, SUBSET marked)
<1> DEFINE I == {n \in Nat : \E F : Joins(F, Upto(n, marked))}
<1>1. 0 \in I
  <2> DEFINE F == [S \in Upto(0, marked) |-> {}]
  <2>1. ASSUME NEW S \in Upto(0, marked) PROVE S = {}
    <3>1. S \in SUBSET marked /\ Cardinality(S) <= 0
          BY DEF Upto
    <3>2. IsFiniteSet(S) /\ Cardinality(S) \in Nat
          BY <3>1, FS_Subset, FS_CardinalityType
    <3>3. Cardinality(S) = 0
          BY <3>1, <3>2
    <3> QED BY <3>2, <3>3, FS_EmptySet
  <2>2. \A S \in Upto(0, marked) : Joined(F, S) = {}
        BY <2>1, Zenon DEF Joined
  <2> HIDE DEF F
  <2>3. [S \in Upto(0, marked) |-> Joined(F, S)] = [S \in Upto(0, marked) |-> {}]
        BY <2>2
  <2>4. Joins(F, Upto(0, marked))
        BY <2>3 DEF Joins, F
  <2> QED BY <2>4
<1>2. ASSUME NEW n \in Nat, n \in I PROVE n + 1 \in I
  <2>1. PICK F : Joins(F, Upto(n, marked))
        BY <1>2
  <2> DEFINE G == [S \in Upto(n + 1, marked) |-> Joined(F, S)]
  <2>2. ASSUME NEW S \in Upto(n, marked) PROVE G[S] = F[S]
    <3>1. S \in SUBSET marked /\ Cardinality(S) <= n
          BY DEF Upto
    <3>2. Cardinality(S) \in Nat
          BY <3>1, OneLess
    <3>3. Cardinality(S) <= n + 1
          BY <3>1, <3>2
    <3>4. S \in Upto(n + 1, marked)
          BY <3>1, <3>3 DEF Upto
    <3>5. G[S] = Joined(F, S)
          BY <3>4
    <3> QED BY <2>1, <3>5, JoinedSo
  <2>3. ASSUME NEW S \in Upto(n + 1, marked) PROVE Joined(F, S) = Joined(G, S)
    <3>1. CASE S = {}
          BY <3>1, Zenon DEF Joined
    <3>2. CASE S # {}
      <4>1. S \in SUBSET marked /\ Cardinality(S) <= n + 1
            BY DEF Upto
      <4>2. /\ Cardinality(S) \in Nat /\ S \ {Some(S)} \in SUBSET marked
            /\ Cardinality(S \ {Some(S)}) = Cardinality(S) - 1
            BY <3>2, <4>1, OneLess
      <4>3. Cardinality(S \ {Some(S)}) <= n
            BY <4>1, <4>2
      <4>4. S \ {Some(S)} \in Upto(n, marked)
            BY <4>2, <4>3 DEF Upto
      <4>5. F[S \ {Some(S)}] = G[S \ {Some(S)}]
            BY <2>2, <4>4
      <4> HIDE DEF G
      <4> QED BY <4>5, Zenon DEF Joined
    <3> QED BY <3>1, <3>2
  <2>4. G = [S \in Upto(n + 1, marked) |-> Joined(F, S)]
        OBVIOUS
  <2> HIDE DEF G
  <2>5. [S \in Upto(n + 1, marked) |-> Joined(F, S)] = [S \in Upto(n + 1, marked) |-> Joined(G, S)]
        BY <2>3
  <2>6. Joins(G, Upto(n + 1, marked))
        BY <2>4, <2>5 DEF Joins
  <2>7. \E H : Joins(H, Upto(n + 1, marked))
        BY <2>6
  <2> QED BY <2>7
<1>3. Cardinality(marked) \in Nat
      BY FS_CardinalityType
<1>4. Cardinality(marked) \in I
  <2> HIDE DEF I
  <2>1. Nat \subseteq I
        BY <1>1, <1>2, Induction
  <2> QED BY <1>3, <2>1
<1>5. Upto(Cardinality(marked), marked) = SUBSET marked
  <2>1. \A S \in SUBSET marked : Cardinality(S) <= Cardinality(marked)
        BY FS_Subset
  <2> QED BY <2>1 DEF Upto
<1>6. PICK F : Joins(F, Upto(Cardinality(marked), marked))
      BY <1>4
<1> QED BY <1>5, <1>6

\* Components is that fold.
LEMMA ComponentsJoin ==
  ASSUME NEW marked, IsFiniteSet(marked)
  PROVE  \E F : Joins(F, SUBSET marked) /\ Components(marked) = F[marked]
<1> DEFINE It == CHOOSE F : Joins(F, SUBSET marked)
<1>1. Joins(It, SUBSET marked)
      BY JoinsExist, Zenon
<1>2. Components(marked) = It[marked]
      BY Zenon DEF Components, FoldSet, MapThenFoldSet, Joins, Joined, Join, Touching, Some
<1> HIDE DEF It
<1> QED BY <1>1, <1>2

\* The sets of a partition into what hangs together: none is continued, and a set
\* that is not continued has the whole of each that it meets.
Partition(groups, marked) ==
  /\ UNION groups = marked
  /\ \A g \in groups : Closed(g, marked)
  /\ \A g \in groups, h \in SUBSET marked : Closed(h, marked) /\ h \cap g # {} => g \subseteq h

\* One more cell joins the groups it is next to.
LEMMA JoinParts ==
  ASSUME NEW marked, NEW c, c \notin marked, NEW groups, Partition(groups, marked)
  PROVE  Partition(Join(c, groups), marked \cup {c})
<1> DEFINE touching == Touching(c, groups)
           joined == (UNION touching) \cup {c}
           all == marked \cup {c}
<1>1. /\ \A x : x \in marked <=> \E g \in groups : x \in g
      /\ \A g \in groups : \A a \in g, b \in marked \ g : ~ Adjacent(a, b)
      /\ \A g \in groups, h \in SUBSET marked : Closed(h, marked) /\ h \cap g # {} => g \subseteq h
      BY DEF Partition, Closed
<1>2. /\ touching \subseteq groups
      /\ \A g \in touching : \E m \in g : Adjacent(m, c)
      /\ \A g \in groups \ touching : \A m \in g : ~ Adjacent(m, c)
      BY DEF Touching
<1>3. \A a, b : Adjacent(a, b) => Adjacent(b, a)
      BY DEF Adjacent
<1>4. Join(c, groups) = (groups \ touching) \cup {joined}
      BY DEF Join
<1> HIDE DEF touching
<1>5. /\ \A x : x \in joined <=> x = c \/ \E g \in touching : x \in g
      /\ \A x : x \in all <=> x \in marked \/ x = c
  <2>1. \A x : x \in joined <=> (x = c \/ \E g \in touching : x \in g)
        BY Zenon
  <2>2. \A x : x \in all <=> (x \in marked \/ x = c)
        BY Zenon
  <2> QED BY <2>1, <2>2
<1> HIDE DEF joined, all
<1>6. UNION ((groups \ touching) \cup {joined}) = all
      BY <1>1, <1>2, <1>5
<1>7. ASSUME NEW g \in groups \ touching PROVE Closed(g, all)
      BY <1>1, <1>2, <1>5 DEF Closed
<1>8. Closed(joined, all)
  <2> SUFFICES ASSUME NEW a \in joined, NEW b \in all \ joined, Adjacent(a, b) PROVE FALSE
      BY DEF Closed
  <2>1. b \in marked
        BY <1>5
  <2>2. CASE a = c
    <3>1. PICK g \in groups : b \in g
          BY <1>1, <2>1
    <3>2. Adjacent(b, c)
          BY <1>3, <2>2
    <3>3. g \in touching
          BY <1>2, <3>1, <3>2
    <3> QED BY <1>5, <3>1, <3>3
  <2>3. ASSUME NEW g \in touching, a \in g PROVE FALSE
        BY <1>1, <1>2, <1>5, <2>1, <2>3
  <2> QED BY <1>5, <2>2, <2>3
<1>9. ASSUME NEW h \in SUBSET all, Closed(h, all), NEW g \in groups, h \cap g # {}
      PROVE  g \subseteq h
  <2>1. Closed(h \cap marked, marked)
        BY <1>5, <1>9 DEF Closed
  <2>2. (h \cap marked) \cap g # {}
        BY <1>1, <1>9
  <2>3. h \cap marked \in SUBSET marked
        OBVIOUS
  <2>4. g \subseteq h \cap marked
        BY <1>1, <2>1, <2>2, <2>3
  <2> QED BY <2>4
<1>10. ASSUME NEW h \in SUBSET all, Closed(h, all), h \cap joined # {} PROVE joined \subseteq h
  <2>1. \A a \in h, b \in all : Adjacent(a, b) => b \in h
        BY <1>10 DEF Closed
  <2>2. c \in h
    <3>1. PICK e \in h : e \in joined
          BY <1>10
    <3>2. ASSUME NEW g \in touching, e \in g PROVE c \in h
      <4>1. g \subseteq h
            BY <1>2, <1>9, <1>10, <3>1, <3>2
      <4>2. PICK m \in g : Adjacent(m, c)
            BY <1>2
      <4> QED BY <1>5, <2>1, <4>1, <4>2
    <3> QED BY <1>5, <3>1, <3>2
  <2>3. ASSUME NEW g \in touching PROVE g \subseteq h
    <3>1. PICK m \in g : Adjacent(m, c)
          BY <1>2
    <3>2. m \in all
          BY <1>1, <1>2, <1>5
    <3>3. m \in h
          BY <1>3, <2>1, <2>2, <3>1, <3>2
    <3> QED BY <1>2, <1>9, <1>10, <3>3
  <2> QED BY <1>5, <2>2, <2>3
<1>11. Partition((groups \ touching) \cup {joined}, all)
       BY <1>6, <1>7, <1>8, <1>9, <1>10 DEF Partition
<1> QED BY <1>4, <1>11 DEF all

\* The groups of the flood fill are that partition.
LEMMA ComponentsPart ==
  ASSUME NEW marked, IsFiniteSet(marked)
  PROVE  Partition(Components(marked), marked)
<1>1. PICK F : Joins(F, SUBSET marked) /\ Components(marked) = F[marked]
      BY ComponentsJoin
<1> DEFINE I == {n \in Nat : \A S \in SUBSET marked : Cardinality(S) = n => Partition(F[S], S)}
<1>2. \A S \in SUBSET marked : F[S] = Joined(F, S)
      BY <1>1, JoinedSo
<1>3. 0 \in I
  <2>1. ASSUME NEW S \in SUBSET marked, Cardinality(S) = 0 PROVE Partition(F[S], S)
    <3>1. IsFiniteSet(S)
          BY FS_Subset
    <3>2. S = {}
          BY <2>1, <3>1, FS_EmptySet
    <3>3. F[S] = {}
          BY <1>2, <3>2, Zenon DEF Joined
    <3> QED BY <3>2, <3>3 DEF Partition
  <2> QED BY <2>1
<1>4. ASSUME NEW n \in Nat, n \in I PROVE n + 1 \in I
  <2>1. ASSUME NEW S \in SUBSET marked, Cardinality(S) = n + 1 PROVE Partition(F[S], S)
    <3>1. S # {}
          BY <2>1, FS_EmptySet
    <3>2. /\ Some(S) \in S /\ S \ {Some(S)} \in SUBSET marked
          /\ Cardinality(S \ {Some(S)}) = n + 1 - 1
          BY <2>1, <3>1, OneLess
    <3>3. n + 1 - 1 = n
          OBVIOUS
    <3>4. Partition(F[S \ {Some(S)}], S \ {Some(S)})
          BY <1>4, <3>2, <3>3
    <3>5. F[S] = Join(Some(S), F[S \ {Some(S)}])
          BY <1>2, <3>1, Zenon DEF Joined
    <3>6. Partition(F[S], (S \ {Some(S)}) \cup {Some(S)})
          BY <3>4, <3>5, JoinParts
    <3>7. (S \ {Some(S)}) \cup {Some(S)} = S
          BY <3>2
    <3> QED BY <3>6, <3>7
  <2> QED BY <2>1
<1>5. Cardinality(marked) \in I
  <2>1. Cardinality(marked) \in Nat
        BY FS_CardinalityType
  <2> HIDE DEF I
  <2>2. Nat \subseteq I
        BY <1>3, <1>4, Induction
  <2> QED BY <2>1, <2>2
<1> QED BY <1>1, <1>5

\* What the flood fill keeps are the cells that hang together with enough others.
LEMMA KeptAreInGroups ==
  ASSUME NEW marked, IsFiniteSet(marked)
  PROVE  Kept(marked) = {c \in marked : InGroup(c, marked)}
<1>1. Partition(Components(marked), marked)
      BY ComponentsPart
<1>2. \A S, T : T \in SUBSET marked /\ S \in SUBSET T =>
        Cardinality(S) \in Nat /\ Cardinality(T) \in Nat /\ Cardinality(S) <= Cardinality(T)
  <2> SUFFICES ASSUME NEW T \in SUBSET marked, NEW S \in SUBSET T
               PROVE  Cardinality(S) \in Nat /\ Cardinality(T) \in Nat
                      /\ Cardinality(S) <= Cardinality(T)
      BY Zenon
  <2>1. IsFiniteSet(T)
        BY FS_Subset
  <2>2. IsFiniteSet(S) /\ Cardinality(S) <= Cardinality(T)
        BY <2>1, FS_Subset
  <2> QED BY <2>1, <2>2, FS_CardinalityType
<1>3. ASSUME NEW c \in Kept(marked) PROVE c \in marked /\ InGroup(c, marked)
  <2>1. PICK g \in Components(marked) : c \in g /\ Cardinality(g) >= MinComponentCells
        BY DEF Kept
  <2>2. g \in SUBSET marked
        BY <1>1 DEF Partition
  <2>3. ASSUME NEW h \in SUBSET marked, c \in h, Closed(h, marked)
        PROVE  Cardinality(h) >= MinComponentCells
    <3>1. g \in SUBSET h
          BY <1>1, <2>1, <2>3 DEF Partition
    <3>2. Cardinality(g) \in Nat /\ Cardinality(h) \in Nat /\ Cardinality(g) <= Cardinality(h)
          BY <1>2, <3>1
    <3>3. MinComponentCells \in Nat
          BY CalibrationAssumption
    <3> QED BY <2>1, <3>2, <3>3
  <2> QED BY <2>1, <2>2, <2>3 DEF InGroup
<1>4. ASSUME NEW c \in marked, InGroup(c, marked) PROVE c \in Kept(marked)
  <2>1. PICK g \in Components(marked) : c \in g
        BY <1>1 DEF Partition
  <2>2. g \in SUBSET marked /\ Closed(g, marked)
        BY <1>1 DEF Partition
  <2>3. Cardinality(g) >= MinComponentCells
        BY <1>4, <2>1, <2>2 DEF InGroup
  <2> QED BY <2>1, <2>3 DEF Kept
<1> QED BY <1>3, <1>4

-------------------------------------------------------------------------------
(* Cells and pixels.                                                       *)

\* The cells and the pixels of a frame are finitely many.
LEMMA FrameIsFinite ==
  ASSUME NEW s \in Sizes
  PROVE  IsFiniteSet(Cells(s)) /\ IsFiniteSet(Pixels(s))
<1>1. s.w \in Int /\ s.h \in Int /\ CellsAcross(s) \in Int /\ CellsDown(s) \in Int
      BY CalibrationAssumption, CellsOfAFrame
<1>2. /\ IsFiniteSet(0 .. s.w - 1) /\ IsFiniteSet(0 .. s.h - 1)
      /\ IsFiniteSet(0 .. CellsAcross(s) - 1) /\ IsFiniteSet(0 .. CellsDown(s) - 1)
      BY <1>1, FS_Interval
<1> QED BY <1>2, FS_Product DEF Cells, Pixels

\* A pixel has a column and a row, and is in a cell of the frame.
LEMMA PixelsOfAFrame ==
  ASSUME NEW s \in Sizes, NEW p \in Pixels(s)
  PROVE  /\ s.w \in Nat \ {0} /\ s.h \in Nat \ {0} /\ Cell \in Nat \ {0}
         /\ p = <<p[1], p[2]>> /\ p[1] \in 0 .. s.w - 1 /\ p[2] \in 0 .. s.h - 1
         /\ p[1] \div Cell \in Nat /\ p[2] \div Cell \in Nat
         /\ <<p[1] \div Cell, p[2] \div Cell>> \in Cells(s)
<1>1. /\ s.w \in Nat \ {0} /\ s.h \in Nat \ {0} /\ Cell \in Nat \ {0}
      BY CalibrationAssumption
<1>2. p = <<p[1], p[2]>> /\ p[1] \in 0 .. s.w - 1 /\ p[2] \in 0 .. s.h - 1
      BY DEF Pixels
<1>3. ASSUME NEW v \in Nat, NEW n \in Nat \ {0}, v < n
      PROVE  v \div Cell \in 0 .. ((n + Cell - 1) \div Cell) - 1
  <2> DEFINE q == v \div Cell
             across == (n + Cell - 1) \div Cell
  <2>1. q \in Int /\ 0 <= q /\ q * Cell <= v
    <3>1. 0 * Cell <= v
          BY <1>1
    <3>2. q \in Int
          BY <1>1, Division
    <3> QED BY <1>1, <3>1, <3>2, Quotient
  <2>2. n + Cell - 1 \in Int /\ across \in Int
        BY <1>1, <1>3, Division
  <2> HIDE DEF q
  <2>3. q + 1 \in Int /\ (q + 1) * Cell = q * Cell + Cell
        BY <1>1, <2>1
  <2>4. q * Cell \in Int
        BY <1>1, <2>1
  <2>5. (q + 1) * Cell <= n + Cell - 1
        BY <1>1, <1>3, <2>1, <2>3, <2>4
  <2>6. q + 1 <= across
        BY <1>1, <2>2, <2>3, <2>5, Quotient
  <2> HIDE DEF across
  <2>7. q \in 0 .. across - 1
        BY <2>1, <2>2, <2>6
  <2> QED BY <2>7 DEF q, across
<1>4. /\ p[1] \div Cell \in 0 .. CellsAcross(s) - 1
      /\ p[2] \div Cell \in 0 .. CellsDown(s) - 1
  <2>1. p[1] \in Nat /\ p[1] < s.w /\ p[2] \in Nat /\ p[2] < s.h
        BY <1>1, <1>2
  <2> QED BY <1>1, <1>3, <2>1 DEF CellsAcross, CellsDown
<1> QED BY <1>1, <1>2, <1>4 DEF Cells

\* A pixel is in a cell when it is in the square of the cell.
LEMMA SquareOfACell ==
  ASSUME NEW v \in Int, NEW k \in Int, NEW d \in Nat
  PROVE  v \div Cell \in k - d .. k + d <=> v \in (k - d) * Cell .. (k + d + 1) * Cell - 1
<1>1. Cell \in Nat \ {0} /\ v \div Cell \in Int
      BY CalibrationAssumption, Division
<1>2. k - d \in Int /\ k + d + 1 \in Int
      OBVIOUS
<1>3. /\ k - d <= v \div Cell <=> (k - d) * Cell <= v
      /\ v \div Cell < k + d + 1 <=> v < (k + d + 1) * Cell
      BY <1>1, <1>2, Quotient
<1>4. (k - d) * Cell \in Int /\ (k + d + 1) * Cell \in Int
      BY <1>1, <1>2
<1> QED BY <1>1, <1>3, <1>4

\* A cell has as many pixels as Area says, also at the edge of the frame.
LEMMA AreaCounts ==
  ASSUME NEW s \in Sizes, NEW c \in Cells(s)
  PROVE  IsFiniteSet(PixelsOf(c, s)) /\ Cardinality(PixelsOf(c, s)) = Area(c, s)
<1>1. /\ s.w \in Nat \ {0} /\ s.h \in Nat \ {0} /\ Cell \in Nat \ {0}
      BY CalibrationAssumption
<1>2. /\ c = <<c[1], c[2]>>
      /\ c[1] \in 0 .. CellsAcross(s) - 1 /\ c[2] \in 0 .. CellsDown(s) - 1
      /\ CellsAcross(s) \in Int /\ CellsDown(s) \in Int
      BY CellsOfAFrame
<1> DEFINE Side(k, n) == {v \in 0 .. n - 1 : v \div Cell = k}
<1>3. ASSUME NEW n \in Nat \ {0}, NEW k \in Nat, k < (n + Cell - 1) \div Cell
      PROVE  /\ IsFiniteSet(Side(k, n))
             /\ Cardinality(Side(k, n)) = Least(Cell, n - k * Cell)
  <2> DEFINE low == k * Cell
             size1 == Least(Cell, n - low)
  <2>1. k + 1 \in Int /\ (k + 1) * Cell = low + Cell /\ low \in Nat
        BY <1>1
  <2>2. low + Cell <= n + Cell - 1
    <3>1. k + 1 <= (n + Cell - 1) \div Cell
      <4>1. (n + Cell - 1) \div Cell \in Int
            BY <1>1, Division
      <4> QED BY <1>3, <4>1
    <3>2. n + Cell - 1 \in Int
          BY <1>1
    <3>3. (k + 1) * Cell <= n + Cell - 1
          BY <1>1, <2>1, <3>1, <3>2, Quotient
    <3> QED BY <2>1, <3>3
  <2>3. low < n
        BY <1>1, <2>1, <2>2
  <2>4. ASSUME NEW v \in 0 .. n - 1
        PROVE  v \div Cell = k <=> v \in low .. low + size1 - 1
    <3>1. v \in Int /\ v < n /\ v \div Cell \in Int
          BY <1>1, Division
    <3>2. /\ k <= v \div Cell <=> low <= v
          /\ v \div Cell < k + 1 <=> v < (k + 1) * Cell
      <4>1. k \in Int /\ k + 1 \in Int
            OBVIOUS
      <4> QED BY <1>1, <3>1, <4>1, Quotient
    <3> HIDE DEF low
    <3> QED BY <1>1, <2>1, <2>3, <3>1, <3>2 DEF Least
  <2>5. Side(k, n) = low .. low + size1 - 1
    <3> HIDE DEF low
    <3>1. low .. low + size1 - 1 \subseteq 0 .. n - 1
          BY <1>1, <2>1, <2>3 DEF Least
    <3> HIDE DEF size1
    <3> QED BY <2>4, <3>1
  <2>6. size1 \in Nat \ {0}
    <3> HIDE DEF low
    <3> QED BY <1>1, <2>1, <2>3 DEF Least
  <2> HIDE DEF low, size1
  <2>7. low \in Int /\ low + size1 - 1 \in Int /\ ~ (low > low + size1 - 1)
        /\ (low + size1 - 1) - low + 1 = size1
        BY <2>1, <2>6
  <2>8. IsFiniteSet(low .. low + size1 - 1) /\ Cardinality(low .. low + size1 - 1) = size1
        BY <2>7, FS_Interval
  <2>9. IsFiniteSet(Side(k, n)) /\ Cardinality(Side(k, n)) = size1
        BY <2>5, <2>8
  <2> QED BY <2>9 DEF low, size1
<1>4. PixelsOf(c, s) = Side(c[1], s.w) \X Side(c[2], s.h)
      BY <1>2 DEF PixelsOf, Pixels
<1>5. c[1] \in Nat /\ c[2] \in Nat
      /\ c[1] < (s.w + Cell - 1) \div Cell /\ c[2] < (s.h + Cell - 1) \div Cell
      BY <1>2 DEF CellsAcross, CellsDown
<1>6. /\ IsFiniteSet(Side(c[1], s.w)) /\ Cardinality(Side(c[1], s.w)) = Least(Cell, s.w - c[1] * Cell)
      /\ IsFiniteSet(Side(c[2], s.h)) /\ Cardinality(Side(c[2], s.h)) = Least(Cell, s.h - c[2] * Cell)
      BY <1>1, <1>3, <1>5
<1> HIDE DEF Side
<1> QED BY <1>4, <1>6, FS_Product DEF Area

\* The numbers that differ and lie in a cell are those of its pixels that do.
LEMMA DifferInACell ==
  ASSUME NEW s \in Sizes, NEW c \in Cells(s), NEW a, NEW b, b.size = s
  PROVE  LET shows(f, p) == p[2] * s.w + p[1] \in f.pixels
             differ == {p \in PixelsOf(c, s) : shows(a, p) # shows(b, p)}
         IN Cardinality(PixelsIn(c, Differ(a, b), s)) = Cardinality(differ)
<1> DEFINE shows(f, p) == p[2] * s.w + p[1] \in f.pixels
           differ == {p \in PixelsOf(c, s) : shows(a, p) # shows(b, p)}
           numbers == PixelsIn(c, Differ(a, b), s)
           pixel(n) == <<n % s.w, n \div s.w>>
           f == [n \in numbers |-> pixel(n)]
<1>1. s.w \in Nat \ {0} /\ s.h \in Nat \ {0} /\ Cell \in Nat \ {0}
      BY CalibrationAssumption
<1>2. c = <<c[1], c[2]>>
      BY CellsOfAFrame
<1>3. \A n : n \in numbers <=>
        /\ n \in 0 .. s.w * s.h - 1
        /\ (n \in a.pixels) # (n \in b.pixels)
        /\ (n % s.w) \div Cell = c[1] /\ (n \div s.w) \div Cell = c[2]
      BY DEF PixelsIn, Differ
<1>4. \A p : p \in differ <=>
        /\ p \in Pixels(s) /\ <<p[1] \div Cell, p[2] \div Cell>> = c
        /\ shows(a, p) # shows(b, p)
      BY DEF PixelsOf
<1>5. ASSUME NEW n \in 0 .. s.w * s.h - 1
      PROVE  /\ pixel(n) \in Pixels(s)
             /\ pixel(n)[1] = n % s.w /\ pixel(n)[2] = n \div s.w
             /\ (n \div s.w) * s.w + (n % s.w) = n
  <2>1. /\ n \in Int /\ n % s.w \in 0 .. s.w - 1 /\ n \div s.w \in Int
        /\ n = s.w * (n \div s.w) + (n % s.w)
    <3>1. n \in Int
          OBVIOUS
    <3> QED BY <1>1, <3>1, Division
  <2>2. n < s.h * s.w /\ 0 * s.w <= n
        BY <1>1
  <2>3. 0 <= n \div s.w /\ n \div s.w < s.h
    <3>1. 0 \in Int /\ s.h \in Int
          BY <1>1
    <3> QED BY <1>1, <2>1, <2>2, <3>1, Quotient
  <2>4. s.w * (n \div s.w) = (n \div s.w) * s.w
        BY <1>1, <2>1
  <2>5. n \div s.w \in 0 .. s.h - 1
        BY <1>1, <2>1, <2>3
  <2> QED BY <2>1, <2>4, <2>5 DEF Pixels
<1>6. ASSUME NEW p \in Pixels(s)
      PROVE  /\ p[2] * s.w + p[1] \in 0 .. s.w * s.h - 1
             /\ pixel(p[2] * s.w + p[1]) = p
  <2>1. p = <<p[1], p[2]>> /\ p[1] \in 0 .. s.w - 1 /\ p[2] \in 0 .. s.h - 1
        BY PixelsOfAFrame
  <2>2. /\ p[2] * s.w + p[1] \in Nat
        /\ (p[2] * s.w + p[1]) \div s.w = p[2] /\ (p[2] * s.w + p[1]) % s.w = p[1]
    <3>1. p[2] \in Nat
          BY <2>1
    <3> QED BY <1>1, <2>1, <3>1, Numbered
  <2>3. p[2] * s.w + s.w <= s.h * s.w
    <3>1. p[2] \in Int /\ s.h \in Int /\ p[2] < s.h /\ s.w \in Nat
          BY <1>1, <2>1
    <3> QED BY <3>1, Multiples
  <2>4. s.h * s.w = s.w * s.h /\ s.w * s.h \in Int /\ p[2] * s.w \in Int
        BY <1>1, <2>1
  <2>5. p[2] * s.w + p[1] < s.w * s.h
        BY <1>1, <2>1, <2>3, <2>4
  <2>6. p[2] * s.w + p[1] \in 0 .. s.w * s.h - 1
        BY <2>2, <2>4, <2>5
  <2> QED BY <2>1, <2>2, <2>6
<1>7. \A n \in numbers : pixel(n) \in differ
  <2>1. ASSUME NEW n \in numbers PROVE pixel(n) \in differ
    <3>1. /\ n \in 0 .. s.w * s.h - 1
          /\ (n \in a.pixels) # (n \in b.pixels)
          /\ (n % s.w) \div Cell = c[1] /\ (n \div s.w) \div Cell = c[2]
          BY <1>3
    <3>2. /\ pixel(n) \in Pixels(s)
          /\ pixel(n)[1] = n % s.w /\ pixel(n)[2] = n \div s.w
          /\ pixel(n)[2] * s.w + pixel(n)[1] = n
          BY <1>5, <3>1
    <3> HIDE DEF pixel, differ
    <3>3. shows(a, pixel(n)) # shows(b, pixel(n))
          BY <3>1, <3>2
    <3>4. <<pixel(n)[1] \div Cell, pixel(n)[2] \div Cell>> = c
          BY <1>2, <3>1, <3>2
    <3> QED BY <1>4, <3>2, <3>3, <3>4
  <2> QED BY <2>1
<1>8. \A n, m \in numbers : pixel(n) = pixel(m) => n = m
  <2>1. ASSUME NEW n \in numbers, NEW m \in numbers, pixel(n) = pixel(m) PROVE n = m
    <3>1. n \in 0 .. s.w * s.h - 1 /\ m \in 0 .. s.w * s.h - 1
          BY <1>3
    <3>2. /\ pixel(n)[1] = n % s.w /\ pixel(n)[2] = n \div s.w
          /\ pixel(m)[1] = m % s.w /\ pixel(m)[2] = m \div s.w
          /\ (n \div s.w) * s.w + (n % s.w) = n /\ (m \div s.w) * s.w + (m % s.w) = m
          BY <1>5, <3>1
    <3>3. n % s.w = m % s.w /\ n \div s.w = m \div s.w
          BY <2>1, <3>2
    <3> QED BY <3>2, <3>3
  <2> QED BY <2>1
<1>9. \A p \in differ : \E n \in numbers : pixel(n) = p
  <2>1. ASSUME NEW p \in differ PROVE \E n \in numbers : pixel(n) = p
    <3> DEFINE n == p[2] * s.w + p[1]
    <3>1. p \in Pixels(s) /\ <<p[1] \div Cell, p[2] \div Cell>> = c /\ shows(a, p) # shows(b, p)
          BY <1>4
    <3>2. n \in 0 .. s.w * s.h - 1 /\ pixel(n) = p
          BY <1>6, <3>1
    <3>3. n % s.w = p[1] /\ n \div s.w = p[2]
          BY <1>5, <3>2
    <3>4. (n \in a.pixels) # (n \in b.pixels)
          BY <3>1
    <3>5. p[1] \div Cell = c[1] /\ p[2] \div Cell = c[2]
          BY <3>1
    <3> HIDE DEF n, pixel, numbers
    <3>6. n \in numbers
          BY <1>3, <3>2, <3>3, <3>4, <3>5
    <3> QED BY <3>2, <3>6
  <2> QED BY <2>1
<1> HIDE DEF pixel, differ
<1>10. IsFiniteSet(numbers)
  <2>1. numbers \in SUBSET (0 .. s.w * s.h - 1)
        BY <1>3
  <2>2. 0 \in Int /\ s.w * s.h - 1 \in Int
        BY <1>1
  <2>3. IsFiniteSet(0 .. s.w * s.h - 1)
        BY <2>2, FS_Interval
  <2> HIDE DEF numbers
  <2> QED BY <2>1, <2>3, FS_Subset
<1> HIDE DEF numbers
<1>11. f \in Bijection(numbers, differ)
  <2>1. f \in [numbers -> differ] /\ \A n \in numbers : f[n] = pixel(n)
        BY <1>7
  <2> HIDE DEF f
  <2>2. f \in Injection(numbers, differ)
        BY <1>8, <2>1 DEF Injection, IsInjective
  <2>3. f \in Surjection(numbers, differ)
        BY <1>9, <2>1 DEF Surjection
  <2> QED BY <2>2, <2>3 DEF Bijection
<1>12. Cardinality(numbers) = Cardinality(differ)
       BY <1>10, <1>11, FS_Bijection DEF ExistsBijection
<1> QED BY <1>12 DEF numbers, differ

\* The marked cells are those of which enough pixels changed.
LEMMA MarkedChanged ==
  ASSUME NEW s \in Sizes, NEW a, NEW b, b.size = s
  PROVE  Marked(Differ(a, b), s) = Changed(a, b, s)
<1> DEFINE shows(f, p) == p[2] * s.w + p[1] \in f.pixels
           differ(c) == {p \in PixelsOf(c, s) : shows(a, p) # shows(b, p)}
<1>1. \A c \in Cells(s) :
        /\ Cardinality(PixelsIn(c, Differ(a, b), s)) = Cardinality(differ(c))
        /\ Cardinality(PixelsOf(c, s)) = Area(c, s)
      BY DifferInACell, AreaCounts
<1>2. Changed(a, b, s) = {c \in Cells(s) : 100 * Cardinality(differ(c))
                                             >= CellPercent * Cardinality(PixelsOf(c, s))}
      BY DEF Changed
<1> HIDE DEF differ
<1> QED BY <1>1, <1>2 DEF Marked

-------------------------------------------------------------------------------
(* From runs to rectangles.                                                *)

\* The values of a function on a finite set are finitely many, and no more.
LEMMA FiniteImage ==
  ASSUME NEW S, IsFiniteSet(S), NEW f, NEW T, T = {f[x] : x \in S}, f \in [S -> T]
  PROVE  IsFiniteSet(T) /\ Cardinality(T) <= Cardinality(S)
<1>1. f \in Surjection(S, T)
      BY DEF Surjection
<1> QED BY <1>1, FS_Surjection

\* A row of cells has finitely many runs.
LEMMA RowIsFinite ==
  ASSUME NEW cells, NEW y, NEW n \in Nat
  PROVE  IsFiniteSet(RunsOfRow(cells, y, n))
<1> DEFINE ends == (0 .. n) \X (0 .. n)
           run(p) == [x0 |-> p[1], x1 |-> p[2]]
           f == [p \in ends |-> run(p)]
           all == {f[p] : p \in ends}
<1>1. IsFiniteSet(ends)
  <2>1. 0 \in Int /\ n \in Int
        OBVIOUS
  <2>2. IsFiniteSet(0 .. n)
        BY <2>1, FS_Interval
  <2> QED BY <2>2, FS_Product
<1>2. IsFiniteSet(all)
  <2>1. f \in [ends -> all]
        OBVIOUS
  <2> HIDE DEF ends, f
  <2> QED BY <1>1, <2>1, FiniteImage
<1>3. RunsOfRow(cells, y, n) \in SUBSET all
  <2>1. ASSUME NEW r \in RunsOfRow(cells, y, n) PROVE r \in all
    <3>1. r \in [x0 : 0 .. n, x1 : 0 .. n]
          BY DEF RunsOfRow
    <3>2. r = [x0 |-> r.x0, x1 |-> r.x1] /\ <<r.x0, r.x1>> \in ends
          BY <3>1
    <3>3. f[<<r.x0, r.x1>>] = [x0 |-> r.x0, x1 |-> r.x1]
          BY <3>2
    <3> QED BY <3>2, <3>3
  <2> QED BY <2>1
<1> HIDE DEF all
<1> QED BY <1>2, <1>3, FS_Subset

\* The runs stay finitely many.
LEMMA ScanFinite ==
  ASSUME ScanInv, IsFiniteSet(runs), ScanRow
  PROVE  IsFiniteSet(runs')
<1>1. runs' = (runs \ UNION {Above(r, cy) : r \in Row}) \cup {Grown(r) : r \in Row}
      BY DEF ScanRow, Row, Grown, Top
<1>2. IsFiniteSet(Row)
  <2>1. second.size \in Sizes
        BY DEF ScanRow, ScanInv
  <2>2. CellsAcross(second.size) \in Nat
    <3>1. second.size.w \in Nat \ {0} /\ Cell \in Nat \ {0}
          BY <2>1, CalibrationAssumption
    <3>2. second.size.w + Cell - 1 \in Int /\ 0 * Cell <= second.size.w + Cell - 1 /\ 0 \in Int
          BY <3>1
    <3>3. 0 <= (second.size.w + Cell - 1) \div Cell
          BY <3>1, <3>2, Quotient
    <3> QED BY <2>1, <3>3, CellsOfAFrame DEF CellsAcross
  <2> QED BY <2>2, RowIsFinite DEF Row
<1> DEFINE f == [r \in Row |-> Grown(r)]
           T == {f[r] : r \in Row}
<1>3. IsFiniteSet(T)
  <2>1. f \in [Row -> T]
        OBVIOUS
  <2> HIDE DEF f
  <2> QED BY <1>2, <2>1, FiniteImage
<1>4. T = {Grown(r) : r \in Row}
      OBVIOUS
<1>5. IsFiniteSet(runs \ UNION {Above(r, cy) : r \in Row})
      BY FS_Difference
<1> HIDE DEF T
<1> QED BY <1>1, <1>3, <1>4, <1>5, FS_Union

\* The first pixel of a cell is in the frame.
LEMMA CellBegins ==
  ASSUME NEW n \in Nat \ {0}, NEW k \in Nat, k < (n + Cell - 1) \div Cell
  PROVE  k * Cell \in Nat /\ k * Cell < n
<1>1. Cell \in Nat \ {0} /\ n + Cell - 1 \in Int /\ k + 1 \in Int
      BY CalibrationAssumption
<1>2. (n + Cell - 1) \div Cell \in Int
      BY <1>1, Division
<1>3. k + 1 <= (n + Cell - 1) \div Cell
      BY <1>2
<1>4. (k + 1) * Cell <= n + Cell - 1
      BY <1>1, <1>3, Quotient
<1>5. (k + 1) * Cell = k * Cell + Cell /\ k * Cell \in Nat
      BY <1>1
<1> QED BY <1>1, <1>4, <1>5

\* A run covers the pixels of its cells, as far as the frame goes.
LEMMA RunCovers ==
  ASSUME NEW s \in Sizes, NEW r \in Runs, NEW x \in Nat, NEW y \in Nat
  PROVE  Covers(RectOf(r, s), x, y)
           <=> x < s.w /\ y < s.h /\ Holds(r, <<x \div Cell, y \div Cell>>)
<1>1. /\ r.x0 \in Int /\ r.x1 \in Int /\ r.y0 \in Int /\ r.y1 \in Int
      /\ s.w \in Int /\ s.h \in Int /\ Cell \in Nat \ {0}
      BY CalibrationAssumption DEF Runs
<1>2. /\ r.x0 <= x \div Cell <=> r.x0 * Cell <= x
      /\ x \div Cell < r.x1 <=> x < r.x1 * Cell
      /\ r.y0 <= y \div Cell <=> r.y0 * Cell <= y
      /\ y \div Cell < r.y1 <=> y < r.y1 * Cell
      BY <1>1, Quotient
<1>3. r.x0 * Cell \in Int /\ r.x1 * Cell \in Int /\ r.y0 * Cell \in Int /\ r.y1 * Cell \in Int
      BY <1>1
<1>4. /\ x < Least(r.x1 * Cell, s.w) <=> x < r.x1 * Cell /\ x < s.w
      /\ y < Least(r.y1 * Cell, s.h) <=> y < r.y1 * Cell /\ y < s.h
      BY <1>1, <1>3 DEF Least
<1> QED BY <1>2, <1>4 DEF Covers, RectOf, Holds

\* A rectangle of a frame, with a pixel at least.
Fits(r, s) ==
  /\ r \in Rects
  /\ r.left < r.right /\ r.right <= s.w /\ r.top < r.bottom /\ r.bottom <= s.h

\* Two rectangles share no pixel.
Apart(rects) ==
  \A r, o \in rects : \A x, y \in Nat : Covers(r, x, y) /\ Covers(o, x, y) => r = o

\* When the last row is read, the rectangles of the runs fit, are apart, and cover
\* the pixels of the cells that were grown.
LEMMA RectsOfRuns ==
  ASSUME ScanInv, at = "rows", cy = CellsDown(second.size)
  PROVE  /\ \A r \in runs : Fits(RectOf(r, second.size), second.size)
         /\ Apart({RectOf(r, second.size) : r \in runs})
         /\ \A p \in Pixels(second.size) :
              (\E r \in runs : Covers(RectOf(r, second.size), p[1], p[2]))
                <=> <<p[1] \div Cell, p[2] \div Cell>> \in grown
<1> DEFINE s == second.size
<1>1. /\ s \in Sizes /\ cy = CellsDown(s) /\ grown \subseteq Cells(s) /\ Tiling
      /\ \A r \in runs : Block(r)
      BY DEF ScanInv
<1>2. /\ s.w \in Nat \ {0} /\ s.h \in Nat \ {0} /\ Cell \in Nat \ {0}
      BY <1>1, CalibrationAssumption
<1> HIDE DEF s
<1>3. ASSUME NEW r \in runs PROVE Fits(RectOf(r, s), s)
  <2>1. /\ r.x0 \in Nat /\ r.x1 \in Nat /\ r.y0 \in Nat /\ r.y1 \in Nat
        /\ r.x0 < r.x1 /\ r.y0 < r.y1
        BY <1>1 DEF Block, Runs
  <2>2. <<r.x0, r.y0>> \in Cells(s)
    <3>1. r.x0 \in r.x0 .. r.x1 - 1 /\ r.y0 \in r.y0 .. r.y1 - 1
          BY <2>1
    <3> QED BY <1>1, <3>1 DEF Block
  <2>3. r.x0 < (s.w + Cell - 1) \div Cell /\ r.y0 < (s.h + Cell - 1) \div Cell
    <3>1. r.x0 \in 0 .. CellsAcross(s) - 1 /\ r.y0 \in 0 .. CellsDown(s) - 1
          /\ CellsAcross(s) \in Int /\ CellsDown(s) \in Int
          BY <1>1, <2>2, CellsOfAFrame
    <3> QED BY <3>1 DEF CellsAcross, CellsDown
  <2>4. /\ r.x0 * Cell \in Nat /\ r.x0 * Cell < s.w
        /\ r.y0 * Cell \in Nat /\ r.y0 * Cell < s.h
        BY <1>2, <2>1, <2>3, CellBegins
  <2>5. r.x0 * Cell + Cell <= r.x1 * Cell /\ r.y0 * Cell + Cell <= r.y1 * Cell
        BY <1>2, <2>1, Multiples
  <2>6. r.x1 * Cell \in Nat /\ r.y1 * Cell \in Nat
        BY <1>2, <2>1
  <2> DEFINE left == r.x0 * Cell
             top == r.y0 * Cell
             farX == r.x1 * Cell
             farY == r.y1 * Cell
  <2>7. /\ RectOf(r, s) = [left |-> left, top |-> top,
                           right |-> Least(farX, s.w), bottom |-> Least(farY, s.h)]
        BY DEF RectOf
  <2>8. /\ left \in Nat /\ left < s.w /\ top \in Nat /\ top < s.h
        /\ farX \in Nat /\ farY \in Nat /\ left < farX /\ top < farY
        BY <1>2, <2>4, <2>5, <2>6
  <2> HIDE DEF left, top, farX, farY
  <2>9. /\ Least(farX, s.w) \in Nat /\ left < Least(farX, s.w) /\ Least(farX, s.w) <= s.w
        /\ Least(farY, s.h) \in Nat /\ top < Least(farY, s.h) /\ Least(farY, s.h) <= s.h
        BY <1>2, <2>8 DEF Least
  <2> QED BY <2>7, <2>8, <2>9 DEF Fits, Rects
<1>4. \A r \in runs : r \in Runs
      BY <1>1 DEF Block
<1>5. Apart({RectOf(r, s) : r \in runs})
  <2> SUFFICES ASSUME NEW r \in runs, NEW o \in runs, NEW x \in Nat, NEW y \in Nat,
                      Covers(RectOf(r, s), x, y), Covers(RectOf(o, s), x, y)
               PROVE  r = o
      BY DEF Apart
  <2> DEFINE p == <<x, y>>
             c == <<x \div Cell, y \div Cell>>
  <2>1. x < s.w /\ y < s.h /\ Holds(r, c) /\ Holds(o, c)
        BY <1>1, <1>4, RunCovers
  <2>2. p \in Pixels(s) /\ p[1] = x /\ p[2] = y
        BY <1>2, <2>1 DEF Pixels
  <2>3. c \in Cells(s)
    <3> HIDE DEF p
    <3>1. <<p[1] \div Cell, p[2] \div Cell>> \in Cells(s)
          BY <1>1, <2>2, PixelsOfAFrame
    <3> QED BY <2>2, <3>1
  <2> HIDE DEF c
  <2> QED BY <1>1, <2>1, <2>3 DEF Tiling, s
<1>6. ASSUME NEW p \in Pixels(s)
      PROVE  (\E r \in runs : Covers(RectOf(r, s), p[1], p[2]))
               <=> <<p[1] \div Cell, p[2] \div Cell>> \in grown
  <2> DEFINE c == <<p[1] \div Cell, p[2] \div Cell>>
  <2>1. /\ p[1] \in Nat /\ p[2] \in Nat /\ p[1] < s.w /\ p[2] < s.h /\ c \in Cells(s)
        /\ p[1] \div Cell \in Nat /\ p[2] \div Cell \in Nat
        BY <1>1, <1>2, PixelsOfAFrame
  <2>2. \A r \in runs : Covers(RectOf(r, s), p[1], p[2]) <=> Holds(r, c)
        BY <1>1, <1>4, <2>1, RunCovers
  <2>3. ASSUME c \in grown PROVE \E r \in runs : Holds(r, c)
    <3>1. c[2] < cy
      <4>1. c[2] \in 0 .. CellsDown(s) - 1 /\ CellsDown(s) \in Int
            BY <1>1, <2>1, CellsOfAFrame
      <4> HIDE DEF c
      <4> QED BY <1>1, <4>1
    <3> HIDE DEF c
    <3> QED BY <1>1, <2>3, <3>1 DEF Tiling
  <2>4. ASSUME NEW r \in runs, Holds(r, c) PROVE c \in grown
    <3>1. /\ r.x0 \in Nat /\ r.x1 \in Nat /\ r.y0 \in Nat /\ r.y1 \in Nat
          /\ \A x \in r.x0 .. r.x1 - 1, y \in r.y0 .. r.y1 - 1 : <<x, y>> \in grown
          BY <1>1 DEF Block, Runs
    <3>2. /\ r.x0 <= p[1] \div Cell /\ p[1] \div Cell < r.x1
          /\ r.y0 <= p[2] \div Cell /\ p[2] \div Cell < r.y1
          BY <2>4 DEF Holds
    <3>3. p[1] \div Cell \in r.x0 .. r.x1 - 1 /\ p[2] \div Cell \in r.y0 .. r.y1 - 1
          BY <2>1, <3>1, <3>2
    <3> QED BY <3>1, <3>3
  <2> HIDE DEF c
  <2> QED BY <2>2, <2>3, <2>4 DEF c
<1> QED BY <1>3, <1>5, <1>6 DEF s

-------------------------------------------------------------------------------
(* What a calibration in progress has, what the last one left, and what the *)
(* mask is made of.                                                         *)

CalibrationInv ==
  /\ ScanInv
  /\ IsFiniteSet(runs)
  /\ at # "frame" => second.size = size
  /\ at = "rows" => grown = Dilated(Kept(Marked(Differ(first, second), size)), size)
  /\ at = "write" => runs = {} /\ first.size # second.size
  /\ found # None =>
       /\ found.size \in Sizes
       /\ \A r \in found.rects : Fits(r, found.size)
       /\ Apart(found.rects)
  /\ mask # None => mask = MaskOf(maskRects, size, size)
  /\ RectsHoldTheInterface

\* Of more rectangles than there may be, some are kept; of no more, all.
LEMMA LimitedSome ==
  ASSUME NEW rects, IsFiniteSet(rects), NEW kept \in Limited(rects)
  PROVE  kept \subseteq rects /\ (Cardinality(rects) <= MaxRects => kept = rects)
BY DEF Limited, kSubset

\* The cells of which enough changed, in groups, are what the flood fill keeps.
LEMMA InterfaceKept ==
  ASSUME NEW s \in Sizes, NEW a, NEW b, b.size = s
  PROVE  LET changed == Changed(a, b, s)
             kept == Kept(Marked(Differ(a, b), s))
         IN /\ {c \in changed : InGroup(c, changed)} = kept
            /\ kept \subseteq Cells(s)
<1>1. Changed(a, b, s) \in SUBSET Cells(s)
      BY DEF Changed
<1>2. IsFiniteSet(Changed(a, b, s))
      BY <1>1, FrameIsFinite, FS_Subset
<1>3. Marked(Differ(a, b), s) = Changed(a, b, s)
      BY MarkedChanged
<1>4. Kept(Changed(a, b, s)) = {c \in Changed(a, b, s) : InGroup(c, Changed(a, b, s))}
      BY <1>2, KeptAreInGroups
<1> QED BY <1>1, <1>3, <1>4

\* The pixels of the dilated cells are those near the cells.
LEMMA DilatedNear ==
  ASSUME NEW s \in Sizes, NEW kept \in SUBSET Cells(s), NEW p \in Pixels(s)
  PROVE  LET side(v) == (v - DilateCells) * Cell .. (v + DilateCells + 1) * Cell - 1
         IN <<p[1] \div Cell, p[2] \div Cell>> \in Dilated(kept, s)
              <=> \E k \in kept : p \in side(k[1]) \X side(k[2])
<1> DEFINE side(v) == (v - DilateCells) * Cell .. (v + DilateCells + 1) * Cell - 1
           x == p[1]
           y == p[2]
           cx == x \div Cell
           cyy == y \div Cell
<1>1. p = <<x, y>> /\ x \in Int /\ y \in Int /\ <<cx, cyy>> \in Cells(s)
      BY PixelsOfAFrame
<1>2. DilateCells \in Nat
      BY CalibrationAssumption
<1>3. ASSUME NEW k \in kept
      PROVE  /\ cx \in Reach(k[1]) <=> x \in side(k[1])
             /\ cyy \in Reach(k[2]) <=> y \in side(k[2])
  <2>1. k[1] \in Int /\ k[2] \in Int
        BY CellsOfAFrame
  <2> HIDE DEF x, y
  <2> QED BY <1>1, <1>2, <2>1, SquareOfACell DEF Reach
<1> HIDE DEF x, y, cx, cyy, side
<1>4. <<cx, cyy>> \in Dilated(kept, s)
        <=> \E k \in kept : <<cx, cyy>> \in Reach(k[1]) \X Reach(k[2])
      BY <1>1 DEF Dilated
<1>5. \A A, B : (<<cx, cyy>> \in A \X B <=> cx \in A /\ cyy \in B)
              /\ (<<x, y>> \in A \X B <=> x \in A /\ y \in B)
      OBVIOUS
<1>6. <<cx, cyy>> \in Dilated(kept, s) <=> \E k \in kept : <<x, y>> \in side(k[1]) \X side(k[2])
      BY <1>3, <1>4, <1>5
<1> QED BY <1>1, <1>6 DEF x, y, cx, cyy, side

\* What is written holds the interface.
LEMMA WriteHolds ==
  ASSUME CalibrationInv, WriteRects
  PROVE  /\ found' # None => /\ found'.size \in Sizes
                             /\ \A r \in found'.rects : Fits(r, found'.size)
                             /\ Apart(found'.rects)
         /\ RectsHoldTheInterface'
<1> DEFINE s == second.size
           rects == {RectOf(r, s) : r \in runs}
           kept == Kept(Marked(Differ(first, second), s))
           side(v) == (v - DilateCells) * Cell .. (v + DilateCells + 1) * Cell - 1
<1>1. /\ at = "write" \/ (at = "rows" /\ cy = CellsDown(s))
      /\ compared' = <<first, second>>
      /\ size \in Sizes /\ s = size
  <2>1. at = "write" \/ (at = "rows" /\ cy = CellsDown(s))
        BY DEF WriteRects
  <2>2. at # "frame"
        BY <2>1
  <2> QED BY <2>1, <2>2 DEF WriteRects, CalibrationInv, ScanInv
<1>2. PICK chosen \in Limited(rects) :
        found' = [rects |-> chosen, size |-> s, limited |-> Cardinality(runs) > MaxRects]
      BY DEF WriteRects
<1>3. /\ IsFiniteSet(runs) /\ IsFiniteSet(rects) /\ Cardinality(rects) <= Cardinality(runs)
  <2>1. IsFiniteSet(runs)
        BY DEF CalibrationInv
  <2> DEFINE f == [r \in runs |-> RectOf(r, s)]
  <2>2. f \in [runs -> rects] /\ rects = {f[r] : r \in runs}
        OBVIOUS
  <2> HIDE DEF f, rects
  <2> QED BY <2>1, <2>2, FiniteImage
<1>4. chosen \subseteq rects /\ (Cardinality(rects) <= MaxRects => chosen = rects)
  <2> HIDE DEF rects
  <2> QED BY <1>2, <1>3, LimitedSome
<1>5. found'.rects = chosen /\ found'.size = s /\ found'.limited = (Cardinality(runs) > MaxRects)
      BY <1>2
<1>6. ASSUME at = "write"
      PROVE  chosen = {} /\ ~ SameSize'
  <2>1. runs = {} /\ first.size # second.size
        BY <1>6 DEF CalibrationInv
  <2>2. chosen = {}
        BY <1>4, <2>1
  <2>3. compared'[1] = first /\ compared'[2] = second
        BY <1>1
  <2> QED BY <2>1, <2>2, <2>3 DEF SameSize
<1>7. ASSUME at = "rows"
      PROVE  /\ \A r \in chosen : Fits(r, s)
             /\ Apart(chosen)
             /\ RectsHoldTheInterface'
  <2>1. /\ \A r \in runs : Fits(RectOf(r, s), s)
        /\ Apart(rects)
        /\ \A p \in Pixels(s) :
             (\E r \in runs : Covers(RectOf(r, s), p[1], p[2]))
               <=> <<p[1] \div Cell, p[2] \div Cell>> \in grown
    <3>1. ScanInv /\ cy = CellsDown(second.size)
          BY <1>1, <1>7 DEF CalibrationInv
    <3> QED BY <1>7, <3>1, RectsOfRuns
  <2>2. /\ {c \in Changed(first, second, s) : InGroup(c, Changed(first, second, s))} = kept
        /\ kept \in SUBSET Cells(s)
        BY <1>1, InterfaceKept
  <2>3. Interface' = kept
    <3>1. compared'[1] = first /\ compared'[2] = second
          BY <1>1
    <3> HIDE DEF kept, s
    <3> QED BY <1>5, <2>2, <3>1 DEF Interface
  <2>4. grown = Dilated(kept, s)
        BY <1>1, <1>7 DEF CalibrationInv
  <2> HIDE DEF kept
  <2>5. ASSUME NEW p \in Pixels(s)
        PROVE  (\E r \in rects : Covers(r, p[1], p[2])) <=> p \in Near'
    <3>1. <<p[1] \div Cell, p[2] \div Cell>> \in grown
            <=> \E k \in kept : p \in side(k[1]) \X side(k[2])
          BY <1>1, <2>2, <2>4, DilatedNear
    <3>2. Near' = Pixels(s) \cap UNION {side(c[1]) \X side(c[2]) : c \in kept}
      <4> HIDE DEF s
      <4> QED BY <1>5, <2>3 DEF Near
    <3> HIDE DEF s, side
    <3>3. p \in Near' <=> \E k \in kept : p \in side(k[1]) \X side(k[2])
          BY <3>2
    <3>4. (\E r \in rects : Covers(r, p[1], p[2]))
            <=> \E r \in runs : Covers(RectOf(r, s), p[1], p[2])
          OBVIOUS
    <3> QED BY <2>1, <3>1, <3>3, <3>4
  <2>6. Near' \subseteq Pixels(s)
    <3> HIDE DEF s
    <3> QED BY <1>5 DEF Near
  <2>7. \A r \in rects : Fits(r, s)
        BY <2>1
  <2> HIDE DEF rects, s
  <2>8. \A r \in chosen : r \in rects /\ Fits(r, s)
        BY <1>4, <2>7
  <2>9. ASSUME NEW p
        PROVE  p \in Held' <=> p \in Pixels(s) /\ \E r \in chosen : Covers(r, p[1], p[2])
    <3>1. ASSUME NEW r \in chosen
          PROVE  p \in (r.left .. r.right - 1) \X (r.top .. r.bottom - 1)
                   <=> p \in Pixels(s) /\ Covers(r, p[1], p[2])
      <4>1. /\ r.left \in Nat /\ r.top \in Nat /\ r.right \in Nat /\ r.bottom \in Nat
            /\ r.right <= s.w /\ r.bottom <= s.h /\ s.w \in Nat /\ s.h \in Nat
            BY <1>1, <2>8, CalibrationAssumption DEF Fits, Rects
      <4> QED BY <4>1 DEF Pixels, Covers
    <3>2. Held' = UNION {(r.left .. r.right - 1) \X (r.top .. r.bottom - 1) : r \in chosen}
          BY <1>5 DEF Held
    <3>3. p \in Held' <=> \E r \in chosen : p \in (r.left .. r.right - 1) \X (r.top .. r.bottom - 1)
          BY <3>2
    <3> QED BY <3>1, <3>3
  <2>10. Held' \subseteq Near'
         BY <2>5, <2>8, <2>9
  <2>11. ASSUME ~ found'.limited PROVE Near' \subseteq Held'
    <3>1. chosen = rects
      <4>1. Cardinality(runs) \in Nat /\ Cardinality(rects) \in Nat /\ MaxRects \in Nat
            BY <1>3, FS_CardinalityType, CalibrationAssumption
      <4>2. ~ (Cardinality(runs) > MaxRects)
            BY <1>5, <2>11
      <4> QED BY <1>3, <1>4, <4>1, <4>2
    <3> QED BY <2>5, <2>6, <2>9, <3>1
  <2>12. RectsHoldTheInterface'
         BY <2>10, <2>11 DEF RectsHoldTheInterface
  <2>13. Apart(chosen)
         BY <2>1, <2>8 DEF Apart
  <2> QED BY <2>8, <2>12, <2>13
<1>8. CASE at = "write"
  <2>1. \A r \in chosen : Fits(r, s)
        BY <1>6, <1>8
  <2>2. Apart(chosen)
        BY <1>6, <1>8 DEF Apart
  <2>3. RectsHoldTheInterface'
        BY <1>6, <1>8 DEF RectsHoldTheInterface
  <2> QED BY <1>1, <1>5, <2>1, <2>2, <2>3
<1>9. CASE at = "rows"
      BY <1>1, <1>5, <1>7, <1>9
<1> QED BY <1>1, <1>8, <1>9

\* Every step keeps that.
LEMMA CalibrationStep == CalibrationInv /\ [Next]_vars => CalibrationInv'
<1> SUFFICES ASSUME CalibrationInv, Next \/ UNCHANGED vars PROVE CalibrationInv'
    BY DEF CalibrationInv
<1>1. ScanInv'
      BY ScanStep, CaptureStep, OtherSteps DEF CalibrationInv
<1> DEFINE Progress ==
             /\ IsFiniteSet(runs)
             /\ at # "frame" => second.size = size
             /\ at = "rows" => grown = Dilated(Kept(Marked(Differ(first, second), size)), size)
             /\ at = "write" => runs = {} /\ first.size # second.size
           Left ==
             /\ found # None =>
                  /\ found.size \in Sizes
                  /\ \A r \in found.rects : Fits(r, found.size)
                  /\ Apart(found.rects)
             /\ RectsHoldTheInterface
           Masked == mask # None => mask = MaskOf(maskRects, size, size)
<1>2. CalibrationInv <=> ScanInv /\ Progress /\ Left /\ Masked
      BY DEF CalibrationInv
<1>3. Progress /\ Left /\ Masked
      BY <1>2
<1>4. UNCHANGED <<size, first, at, second, grown, runs>> => Progress'
      BY <1>3
<1>5. UNCHANGED <<found, compared>> => Left'
      BY <1>3 DEF RectsHoldTheInterface, SameSize, Held, Near, Interface
<1>6. UNCHANGED <<size, mask, maskRects>> \/ mask' = None => Masked'
      BY <1>3
<1>7. CASE ToggleInterface \/ RequestCalibrationCapture \/ NothingToCompare \/ ReadbackFails
           \/ UNCHANGED vars
  <2>1. UNCHANGED <<size, calibrationVars, maskVars>>
        BY <1>7 DEF ToggleInterface, RequestCalibrationCapture, NothingToCompare, ReadbackFails, vars
  <2>2. Progress' /\ Left' /\ Masked'
    <3> HIDE DEF Progress, Left, Masked
    <3> QED BY <2>1, <1>4, <1>5, <1>6 DEF calibrationVars, maskVars
  <2> QED BY <1>1, <2>2 DEF CalibrationInv
<1>8. CASE Resize
  <2>1. /\ at' = "frame" /\ mask' = None
        /\ UNCHANGED <<found, compared, runs>>
        BY <1>8 DEF Resize, calibrationVars
  <2>2. Progress'
        BY <1>3, <2>1
  <2>3. Left' /\ Masked'
    <3> HIDE DEF Progress, Left, Masked
    <3> QED BY <2>1, <1>5, <1>6
  <2> QED BY <1>1, <2>2, <2>3 DEF CalibrationInv
<1>9. CASE TakeOver
  <2>1. /\ UNCHANGED <<size, calibrationVars>> /\ maskRects' = found.rects
        /\ mask' = IF found.rects = maskRects THEN mask ELSE None
        BY <1>9 DEF TakeOver
  <2>2. UNCHANGED <<size, mask, maskRects>> \/ mask' = None
        BY <2>1
  <2>3. Progress' /\ Left' /\ Masked'
    <3> HIDE DEF Progress, Left, Masked
    <3> QED BY <2>1, <2>2, <1>4, <1>5, <1>6 DEF calibrationVars
  <2> QED BY <1>1, <2>3 DEF CalibrationInv
<1>10. CASE CaptureWithInterface
  <2>1. /\ at' = "frame"
        /\ UNCHANGED <<size, runs, found, compared, mask, maskRects>>
        BY <1>10 DEF CaptureWithInterface, maskVars
  <2>2. Progress'
        BY <1>3, <2>1
  <2>3. Left' /\ Masked'
    <3> HIDE DEF Progress, Left, Masked
    <3> QED BY <2>1, <1>5, <1>6
  <2> QED BY <1>1, <2>2, <2>3 DEF CalibrationInv
<1>11. CASE CaptureWithout
  <2>1. /\ UNCHANGED <<size, first, found, compared, mask, maskRects>>
        /\ runs' = {} /\ second'.size = size
        BY <1>11 DEF CaptureWithout, maskVars, FrameOf
  <2>2. \/ /\ first.size.w * first.size.h < size.w * size.h
           /\ at' = "write"
        \/ /\ at' = "rows"
           /\ grown' = Dilated(Kept(Marked(Differ(first, second'), size)), size)
        BY <1>11 DEF CaptureWithout
  <2>3. first.size.w * first.size.h < size.w * size.h => first.size # size
    <3>1. size.w * size.h \in Int
          BY CalibrationAssumption DEF CalibrationInv, ScanInv
    <3> QED BY <3>1
  <2>4. IsFiniteSet(runs')
        BY <2>1, FS_EmptySet
  <2>5. Progress'
        BY <2>1, <2>2, <2>3, <2>4
  <2>6. Left' /\ Masked'
    <3> HIDE DEF Progress, Left, Masked
    <3> QED BY <2>1, <1>5, <1>6
  <2> QED BY <1>1, <2>5, <2>6 DEF CalibrationInv
<1>12. CASE ScanRow
  <2>1. UNCHANGED <<size, first, at, second, grown, found, compared, mask, maskRects>>
        /\ at = "rows"
        BY <1>12 DEF ScanRow, maskVars
  <2>2. IsFiniteSet(runs')
        BY <1>12, ScanFinite DEF CalibrationInv
  <2>3. Progress'
        BY <1>3, <2>1, <2>2
  <2>4. Left' /\ Masked'
    <3> HIDE DEF Progress, Left, Masked
    <3> QED BY <2>1, <1>5, <1>6
  <2> QED BY <1>1, <2>3, <2>4 DEF CalibrationInv
<1>13. CASE WriteRects
  <2>1. /\ at' = "frame" /\ runs' = {} /\ UNCHANGED <<size, mask, maskRects>>
        BY <1>13 DEF WriteRects, maskVars
  <2>2. Progress'
        BY <2>1, FS_EmptySet
  <2>3. Left'
        BY <1>13, WriteHolds
  <2>4. Masked'
        BY <2>1, <1>6
  <2> QED BY <1>1, <2>2, <2>3, <2>4 DEF CalibrationInv
<1>14. CASE Rasterise
  <2>1. /\ UNCHANGED <<size, calibrationVars, maskRects>>
        /\ mask' = MaskOf(maskRects, size, size)
        BY <1>14 DEF Rasterise
  <2>2. Masked'
        BY <2>1
  <2>3. Progress' /\ Left'
    <3> HIDE DEF Progress, Left, Masked
    <3> QED BY <2>1, <1>4, <1>5 DEF calibrationVars
  <2> QED BY <1>1, <2>2, <2>3 DEF CalibrationInv
<1> QED BY <1>7, <1>8, <1>9, <1>10, <1>11, <1>12, <1>13, <1>14
        DEF Next, Player, Operator, RenderThread

\* At every moment of every calibration that invariant holds.
THEOREM Calibrated == Spec => []CalibrationInv
<1>1. Init => CalibrationInv
  <2> SUFFICES ASSUME Init PROVE CalibrationInv
      OBVIOUS
  <2>1. ScanInv
        BY DEF Init, ScanInv
  <2>2. at = "frame" /\ runs = {} /\ found = None /\ mask = None
        BY DEF Init
  <2>3. IsFiniteSet(runs)
        BY <2>2, FS_EmptySet
  <2>4. RectsHoldTheInterface
        BY <2>2 DEF RectsHoldTheInterface, SameSize
  <2> QED BY <2>1, <2>2, <2>3, <2>4 DEF CalibrationInv
<1> QED BY <1>1, CalibrationStep, PTL DEF Spec

\* So what the calibrator found is the interface: no pixel further than DilateCells
\* cells from a group of marked cells, and each that near, unless the rectangles
\* were too many.
THEOREM RectsHold == Spec => []RectsHoldTheInterface
<1>1. CalibrationInv => RectsHoldTheInterface
      BY DEF CalibrationInv
<1> QED BY <1>1, Calibrated, PTL

-------------------------------------------------------------------------------
(* The mask.                                                               *)

\* The greatest of numbers that have a bound.
LEMMA GreatestOne ==
  ASSUME NEW n \in Nat, NEW S \in SUBSET (0 .. n), S # {}
  PROVE  Max(S) \in S /\ \A x \in S : Max(S) >= x
<1> DEFINE I == {n - x : x \in S}
<1>1. \A x \in S : x \in Nat /\ n - x \in Nat /\ n - x \in I
      OBVIOUS
<1>2. PICK i \in I : \A j \in I : i <= j
  <2>1. I \subseteq Nat /\ I # {}
        BY <1>1
  <2> HIDE DEF I
  <2> QED BY <2>1, LeastOne
<1>3. PICK x \in S : i = n - x
      BY <1>2
<1>4. \A y \in S : x >= y
  <2>1. ASSUME NEW y \in S PROVE x >= y
    <3>1. n - x <= n - y
          BY <1>1, <1>2, <1>3
    <3> QED BY <1>1, <3>1
  <2> QED BY <2>1
<1>5. \E z \in S : \A y \in S : z >= y
      BY <1>3, <1>4
<1> QED BY <1>5, Zenon DEF Max

\* Rectangles that fit a frame of the size they are of are the mask's own.
LEMMA MaskOfFitting ==
  ASSUME NEW s \in Sizes, NEW rects, \A r \in rects : Fits(r, s)
  PROVE  MaskOf(rects, s, s) = rects
<1>1. s.w \in Nat /\ s.h \in Nat
      BY CalibrationAssumption
<1>2. ASSUME NEW r \in rects
      PROVE  ClampToFrame(ScaleRect(r, s, s), s) = r /\ ~ IsEmpty(r)
  <2>1. /\ r.left \in Nat /\ r.top \in Nat /\ r.right \in Nat /\ r.bottom \in Nat
        /\ r.left < r.right /\ r.right <= s.w /\ r.top < r.bottom /\ r.bottom <= s.h
        /\ r = [left |-> r.left, top |-> r.top, right |-> r.right, bottom |-> r.bottom]
        BY DEF Fits, Rects
  <2>2. ScaleRect(r, s, s) = r
        BY Zenon DEF ScaleRect
  <2>3. /\ Clamp(r.left, 0, s.w) = r.left /\ Clamp(r.top, 0, s.h) = r.top
        /\ Clamp(r.right, 0, s.w) = r.right /\ Clamp(r.bottom, 0, s.h) = r.bottom
        BY <1>1, <2>1 DEF Clamp, Least, Most
  <2>4. ClampToFrame(r, s) = r
        BY <2>1, <2>3, Zenon DEF ClampToFrame
  <2>5. ~ IsEmpty(r)
        BY <2>1 DEF IsEmpty
  <2> QED BY <2>2, <2>4, <2>5
<1> DEFINE image(q) == ClampToFrame(ScaleRect(q, s, s), s)
<1>3. \A r \in rects : image(r) = r /\ ~ IsEmpty(r)
      BY <1>2
<1>4. MaskOf(rects, s, s) = {r \in {image(q) : q \in rects} : ~ IsEmpty(r)}
      BY DEF MaskOf
<1> HIDE DEF image
<1> QED BY <1>3, <1>4

\* A pixel of a rectangle is covered, and wholly when the rectangle has all that is
\* within the feather.
LEMMA CoveredPixel ==
  ASSUME NEW r \in Rects, NEW x \in Nat, NEW y \in Nat, Covers(r, x, y)
  PROVE  /\ Coverage(r, x, y) \in 1 .. Feather + 1
         /\ \/ Coverage(r, x, y) = Feather + 1
            \/ \E q \in (x - Feather .. x + Feather) \X (y - Feather .. y + Feather) :
                 /\ q[1] = x \/ q[2] = y
                 /\ ~ Covers(r, q[1], q[2])
<1>1. /\ r.left \in Nat /\ r.top \in Nat /\ r.right \in Nat /\ r.bottom \in Nat /\ Feather \in Nat
      /\ r.left <= x /\ x < r.right /\ r.top <= y /\ y < r.bottom
      BY CalibrationAssumption DEF Rects, Covers
<1> DEFINE d == Least(Least(x - r.left, r.right - 1 - x), Least(y - r.top, r.bottom - 1 - y))
           around == (x - Feather .. x + Feather) \X (y - Feather .. y + Feather)
<1>2. d \in Nat /\ (d = x - r.left \/ d = r.right - 1 - x \/ d = y - r.top \/ d = r.bottom - 1 - y)
      BY <1>1 DEF Least
<1>3. Coverage(r, x, y) = Least(d + 1, Feather + 1)
      BY Zenon DEF Coverage
<1> HIDE DEF d
<1>4. Coverage(r, x, y) \in 1 .. Feather + 1
      BY <1>1, <1>2, <1>3 DEF Least
<1>5. ASSUME Coverage(r, x, y) # Feather + 1
      PROVE  \E q \in around : (q[1] = x \/ q[2] = y) /\ ~ Covers(r, q[1], q[2])
  <2>1. d < Feather
        BY <1>1, <1>2, <1>3, <1>5 DEF Least
  <2>2. CASE d = x - r.left
    <3>1. <<r.left - 1, y>> \in around
          BY <1>1, <2>1, <2>2
    <3>2. ~ Covers(r, r.left - 1, y)
          BY <1>1 DEF Covers
    <3> QED BY <3>1, <3>2
  <2>3. CASE d = r.right - 1 - x
    <3>1. <<r.right, y>> \in around
          BY <1>1, <2>1, <2>3
    <3>2. ~ Covers(r, r.right, y)
          BY <1>1 DEF Covers
    <3> QED BY <3>1, <3>2
  <2>4. CASE d = y - r.top
    <3>1. <<x, r.top - 1>> \in around
          BY <1>1, <2>1, <2>4
    <3>2. ~ Covers(r, x, r.top - 1)
          BY <1>1 DEF Covers
    <3> QED BY <3>1, <3>2
  <2>5. CASE d = r.bottom - 1 - y
    <3>1. <<x, r.bottom>> \in around
          BY <1>1, <2>1, <2>5
    <3>2. ~ Covers(r, x, r.bottom)
          BY <1>1 DEF Covers
    <3> QED BY <3>1, <3>2
  <2> QED BY <1>2, <2>2, <2>3, <2>4, <2>5
<1> QED BY <1>4, <1>5

\* The square of a cell, and what is around it as far as the cells were dilated.
LEMMA AroundACell ==
  ASSUME NEW v \in Int, NEW k \in Int, v \div Cell = k,
         NEW u \in v - Feather .. v + Feather, Feather <= DilateCells * Cell
  PROVE  u \in (k - DilateCells) * Cell .. (k + DilateCells + 1) * Cell - 1
<1>1. Cell \in Nat \ {0} /\ DilateCells \in Nat /\ Feather \in Nat
      BY CalibrationAssumption
<1>2. k + 1 \in Int /\ k * Cell <= v /\ v < (k + 1) * Cell
      BY <1>1, Quotient
<1>3. /\ (k + 1) * Cell = k * Cell + Cell /\ k * Cell \in Int /\ DilateCells * Cell \in Int
      /\ (k - DilateCells) * Cell = k * Cell - DilateCells * Cell
      /\ (k + DilateCells + 1) * Cell = k * Cell + DilateCells * Cell + Cell
      BY <1>1
<1> QED BY <1>1, <1>2, <1>3

\* The mask made of what was found covers the interface.
LEMMA MaskOfFound == CalibrationInv => MaskKeepsTheInterface
<1> SUFFICES ASSUME CalibrationInv, SameSize, ~ found.limited, mask # None,
                    maskRects = found.rects, size = found.size,
                    NEW c \in Interface, NEW p \in PixelsOf(c, size)
             PROVE  LET around == (p[1] - Feather .. p[1] + Feather)
                                    \X (p[2] - Feather .. p[2] + Feather)
                        otherRect(q) == \E r \in mask : Covers(r, q[1], q[2])
                                                        /\ ~Covers(r, p[1], p[2])
                        coverage == CoverageAtAny(mask, p[1], p[2])
                    IN /\ coverage > 0
                       /\ Feather <= DilateCells * Cell
                            /\ (\A q \in around : q \in Pixels(size) /\ ~otherRect(q))
                          => coverage = Feather + 1
    BY DEF MaskKeepsTheInterface
<1> DEFINE x == p[1]
           y == p[2]
           around == (x - Feather .. x + Feather) \X (y - Feather .. y + Feather)
           side(v) == (v - DilateCells) * Cell .. (v + DilateCells + 1) * Cell - 1
           all == {0} \cup {Coverage(r, x, y) : r \in mask}
<1>1. /\ size \in Sizes /\ found # None
      /\ \A r \in found.rects : Fits(r, size)
      /\ Apart(found.rects)
      /\ mask = MaskOf(found.rects, size, size)
      /\ Held = Near
      BY DEF CalibrationInv, ScanInv, SameSize, RectsHoldTheInterface
<1>2. mask = found.rects
      BY <1>1, MaskOfFitting
<1>3. DilateCells \in Nat /\ Feather \in Nat /\ Cell \in Nat \ {0}
      BY CalibrationAssumption
<1>4. /\ p \in Pixels(size) /\ p = <<x, y>> /\ x \in Nat /\ y \in Nat
      /\ x \div Cell \in Nat /\ y \div Cell \in Nat
      /\ c = <<x \div Cell, y \div Cell>>
      BY <1>1, PixelsOfAFrame DEF PixelsOf
<1>5. c[1] = x \div Cell /\ c[2] = y \div Cell /\ c[1] \in Int /\ c[2] \in Int
  <2> HIDE DEF x, y
  <2> QED BY <1>4
<1> HIDE DEF x, y
<1>6. \A q : q \in Near <=> q \in Pixels(size) /\ \E k \in Interface : q \in side(k[1]) \X side(k[2])
  <2>1. Near = Pixels(size) \cap UNION {side(k[1]) \X side(k[2]) : k \in Interface}
        BY DEF Near
  <2> HIDE DEF side
  <2> QED BY <2>1
<1>7. \A q \in Pixels(size) : q \in Near => \E r \in mask : Covers(r, q[1], q[2])
  <2>1. ASSUME NEW q \in Pixels(size), q \in Near PROVE \E r \in mask : Covers(r, q[1], q[2])
    <3>1. PICK r \in found.rects : q \in (r.left .. r.right - 1) \X (r.top .. r.bottom - 1)
          BY <1>1, <2>1 DEF Held
    <3>2. r.left \in Nat /\ r.right \in Nat /\ r.top \in Nat /\ r.bottom \in Nat
          BY <1>1 DEF Fits, Rects
    <3>3. Covers(r, q[1], q[2])
          BY <3>1, <3>2 DEF Covers
    <3> QED BY <1>2, <3>3
  <2> QED BY <2>1
<1>8. PICK r \in mask : Covers(r, x, y)
  <2>1. x \in side(c[1]) /\ y \in side(c[2])
    <3>1. c[1] \in c[1] - DilateCells .. c[1] + DilateCells
          /\ c[2] \in c[2] - DilateCells .. c[2] + DilateCells
          BY <1>3, <1>5
    <3>2. x \in Int /\ y \in Int
          BY <1>4
    <3> QED BY <1>3, <1>5, <3>1, <3>2, SquareOfACell
  <2> HIDE DEF side
  <2>2. p \in side(c[1]) \X side(c[2])
        BY <1>4, <2>1
  <2>3. p \in Near
        BY <1>4, <1>6, <2>2
  <2> QED BY <1>4, <1>7, <2>3 DEF x, y
<1>9. r \in Rects
      BY <1>1, <1>2 DEF Fits
<1>10. /\ Coverage(r, x, y) \in 1 .. Feather + 1
       /\ Coverage(r, x, y) \in all
       BY <1>4, <1>8, <1>9, CoveredPixel
<1>11. all \in SUBSET (0 .. Feather + 1)
  <2>1. ASSUME NEW o \in mask PROVE Coverage(o, x, y) \in 0 .. Feather + 1
    <3>1. o \in Rects
          BY <1>1, <1>2 DEF Fits
    <3>2. CASE Covers(o, x, y)
      <4>1. Coverage(o, x, y) \in 1 .. Feather + 1
            BY <1>4, <3>1, <3>2, CoveredPixel
      <4> QED BY <1>3, <4>1
    <3>3. CASE ~ Covers(o, x, y)
      <4>1. Coverage(o, x, y) = 0
            BY <3>3, Zenon DEF Coverage
      <4> QED BY <1>3, <4>1
    <3> QED BY <3>2, <3>3
  <2> QED BY <1>3, <2>1
<1>12. Max(all) \in 0 .. Feather + 1 /\ Max(all) >= Coverage(r, x, y)
  <2>1. Feather + 1 \in Nat /\ all # {}
        BY <1>3
  <2> HIDE DEF all
  <2> QED BY <1>10, <1>11, <2>1, GreatestOne
<1>13. CoverageAtAny(mask, x, y) = Max(all)
       BY DEF CoverageAtAny
<1>14. CoverageAtAny(mask, x, y) > 0
  <2> HIDE DEF all
  <2> QED BY <1>3, <1>10, <1>12, <1>13
<1>15. ASSUME Feather <= DilateCells * Cell,
              \A q \in around : /\ q \in Pixels(size)
                                /\ ~ \E o \in mask : Covers(o, q[1], q[2]) /\ ~ Covers(o, x, y)
       PROVE  CoverageAtAny(mask, x, y) = Feather + 1
  <2>1. ASSUME NEW q \in around PROVE Covers(r, q[1], q[2])
    <3>1. q = <<q[1], q[2]>> /\ q[1] \in x - Feather .. x + Feather
          /\ q[2] \in y - Feather .. y + Feather
          OBVIOUS
    <3>2. q[1] \in side(c[1]) /\ q[2] \in side(c[2])
      <4>1. x \in Int /\ y \in Int
            BY <1>4
      <4> HIDE DEF around
      <4> QED BY <1>5, <1>15, <3>1, <4>1, AroundACell
    <3>3. q \in Near
      <4>1. q \in Pixels(size)
            BY <1>15
      <4> HIDE DEF around, side
      <4>2. q \in side(c[1]) \X side(c[2])
            BY <3>1, <3>2
      <4> QED BY <1>6, <4>1, <4>2
    <3>4. PICK o \in mask : Covers(o, q[1], q[2])
          BY <1>7, <1>15, <3>3
    <3>5. Covers(o, x, y)
          BY <1>15, <3>4
    <3>6. o = r
          BY <1>1, <1>2, <1>4, <1>8, <3>5 DEF Apart
    <3> QED BY <3>4, <3>6
  <2>2. Coverage(r, x, y) = Feather + 1
        BY <1>4, <1>8, <1>9, <2>1, CoveredPixel
  <2> HIDE DEF all
  <2> QED BY <1>3, <1>12, <1>13, <2>2
<1> QED BY <1>14, <1>15 DEF x, y

\* The neural pass leaves the interface alone: its pixels keep some of the original,
\* and all of it where no edge of the frame or of another rectangle is within the
\* feather, as long as the feather is no wider than the interface was grown.
THEOREM MaskKeeps == Spec => []MaskKeepsTheInterface
BY Calibrated, MaskOfFound, PTL
===============================================================================
