--------------------------------- MODULE Layout ---------------------------------
(* detect_regions (ocr/layout.py): candidate boxes on a page are classified by the      *)
(* marks of ink in them and put in reading order. What OpenCV finds is given: boxes and  *)
(* marks, each with a whole-numbered centre. Fractions are compared as integers.          *)
EXTENDS Integers, Sequences, FiniteSetsExt, Functions

CONSTANTS
  Width, Height,  \* of the page
  Pages           \* what may be found on it: [boxes : sequence, marks : set]

Boxes == [x : Nat, y : Nat, w : Nat \ {0}, h : Nat \ {0}]
Marks == [cx : Nat, cy : Nat, h : Nat \ {0}, area : Nat]

ASSUME LayoutAssumption ==
  /\ Width \in Nat \ {0} /\ Height \in Nat \ {0}
  /\ \A p \in Pages : p.boxes \in Seq(Boxes) /\ p.marks \subseteq Marks

VARIABLES
  sheet,   \* the page, one of Pages
  regions  \* regions[i]: the region that the i-th box becomes, once detected

layoutVars == <<sheet, regions>>

\* A new cluster begins behind each gap: cluster[c] counts the gaps up to c.
Cluster(centers, tolerance) ==
  [c \in centers |->
    Cardinality({d \in centers \ {Min(centers)} :
      d <= c /\ \A e \in centers : e < d => tolerance.of * (d - e) > tolerance.parts})]

\* 0.6 of the marks' average height, at least 1: so many parts of a tenth of a mark's.
Tolerance(marks) ==
  LET tenths == 10 * Cardinality(marks)
  IN  [parts |-> Max({6 * MapThenSumSet(LAMBDA m : m.h, marks), tenths}), of |-> tenths]

Rows(marks)    == Cluster({m.cy : m \in marks}, Tolerance(marks))
Columns(marks) == Cluster({m.cx : m \in marks}, Tolerance(marks))

MarksIn(box) ==
  {m \in sheet.marks : m.cx \in box.x..(box.x + box.w) /\ m.cy \in box.y..(box.y + box.h)}

\* Dense, compact, of few marks.
IsStamp(box, marks) ==
  /\ 100 * MapThenSumSet(LAMBDA m : m.area, marks) >= 35 * box.w * box.h
  /\ 10 * Max({box.w - box.h, box.h - box.w}) <= 6 * box.h
  /\ 4 * box.w <= Width /\ 4 * box.h <= Height
  /\ Cardinality(marks) <= 3

\* A grid of rows and columns, most of it filled.
IsTable(marks) ==
  LET rows    == Cardinality(Range(Rows(marks)))
      columns == Cardinality(Range(Columns(marks)))
  IN  /\ Cardinality(marks) >= 6
      /\ rows >= 3 /\ columns >= 2
      /\ 10 * Cardinality(marks) >= 6 * rows * columns

IsSignature(box) == 4 * box.y >= 3 * Height /\ 25 * box.h <= 3 * Height /\ 2 * box.w <= Width

IsMargin(box) ==
  /\ 25 * (box.x + box.w) <= 3 * Width \/ 25 * box.x >= 22 * Width
  /\ 20 * box.w * box.h <= Width * Height

RegionType(box, marks) ==
  IF IsStamp(box, marks) THEN "stamp"
  ELSE IF IsTable(marks) THEN "table"
  ELSE IF IsSignature(box) THEN "signature"
  ELSE IF IsMargin(box) THEN "margin_annotation" ELSE "paragraph"

-------------------------------------------------------------------------------
\* Boxes without a mark are dropped.
Inked == {i \in DOMAIN sheet.boxes : MarksIn(sheet.boxes[i]) # {}}

Bottom(box) == box.y + box.h

\* Mutant: to touch is enough.
MutantSameRow(row, box) ==
  Min({Bottom(box), row.bottom}) >= Max({box.y, row.top})

\* More than half of the lower of the two.
SameRow(row, box) ==
  2 * (Min({Bottom(box), row.bottom}) - Max({box.y, row.top})) > Min({box.h, row.bottom - row.top})

\* The order in which boxes are placed. Boxes that are level keep theirs.
Higher(i, j) ==
  LET a == sheet.boxes[i]  b == sheet.boxes[j]
  IN  a.y < b.y \/ (a.y = b.y /\ i < j)

\* A row is named by the box it began with: row[i] is the row of box i, and these are the
\* boxes of row r that are placed before box i.
Members(row, r, i) == {k \in Inked : Higher(k, i) /\ row[k] = r}

\* How far the row has grown by then.
Extent(row, r, i) ==
  LET members == {sheet.boxes[k] : k \in Members(row, r, i)}
  IN  [top |-> Min({b.y : b \in members}), bottom |-> Max({Bottom(b) : b \in members})]

Fitting(row, i) ==
  {r \in Inked : Members(row, r, i) # {} /\ SameRow(Extent(row, r, i), sheet.boxes[i])}

First(indices) == CHOOSE i \in indices : \A j \in indices : ~Higher(j, i)

\* A box joins the first row it is in, which it may extend, or begins one.
Rowed ==
  CHOOSE row \in [Inked -> Inked] :
    \A i \in Inked : row[i] = IF Fitting(row, i) = {} THEN i ELSE First(Fitting(row, i))

\* Rows in the order they began in, each from left to right.
ReadBefore(row, i, j) ==
  \/ Higher(row[i], row[j])
  \/ /\ row[i] = row[j]
     /\ LET a == sheet.boxes[i]  b == sheet.boxes[j]
        IN  a.x < b.x \/ (a.x = b.x /\ Higher(i, j))

LayoutInit == sheet \in Pages /\ regions = <<>>

DetectRegions ==
  /\ regions = <<>>
  /\ LET row == Rowed
     IN  regions' = [i \in Inked |->
           [box           |-> sheet.boxes[i],
            type          |-> RegionType(sheet.boxes[i], MarksIn(sheet.boxes[i])),
            reading_order |-> Cardinality({j \in Inked : ReadBefore(row, j, i)})]]
  /\ UNCHANGED sheet

LayoutNext == DetectRegions

LayoutSpec == LayoutInit /\ [][LayoutNext]_layoutVars

-------------------------------------------------------------------------------
\* _reading_order_sort: what is wholly above a box is read before it, however rows grow,
\* unless some other box reaches down past the box's upper edge and ties it to a row above.
ReadingOrderTopDown ==
  \A i, j \in DOMAIN regions :
    LET a == regions[i].box  b == regions[j].box
    IN  /\ Bottom(a) <= b.y
        /\ \A k \in DOMAIN regions \ {j} :
             ~(regions[k].box.y <= b.y /\ Bottom(regions[k].box) > b.y)
        => regions[i].reading_order < regions[j].reading_order
===============================================================================
