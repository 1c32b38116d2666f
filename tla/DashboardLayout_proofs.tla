------------------------ MODULE DashboardLayout_proofs ------------------------
(***************************************************************************)
(* Theorems about DashboardLayout for dashboards of any number of rows and *)
(* panels, of any heights and of any widths up to that of the grid; and    *)
(* about DashboardPack, for any number of expressions and any answers.     *)
(***************************************************************************)
EXTENDS DashboardPack, FiniteSetTheorems, TLAPS

(* A placed panel is above the current line, or on it and left of x.        *)
Behind(p) == p.y + p.h <= y
OnLine(p) == inside /\ p.y = y /\ p.x + p.w <= x /\ p.h <= row_height /\ ~p.header

LayoutInv ==
    /\ LayoutTypeOK
    /\ x <= Columns
    /\ panel_id = Len(panels) + 1
    /\ \A i \in DOMAIN panels :
          /\ panels[i].id = i
          /\ Behind(panels[i]) \/ OnLine(panels[i])
    /\ PanelsDoNotOverlap
    /\ RowsStaySeparate

-----------------------------------------------------------------------------
LEMMA InitLayout == LayoutInit => LayoutInv
<1> SUFFICES ASSUME LayoutInit PROVE LayoutInv
    OBVIOUS
<1>1. panels = <<>> /\ items = <<>> /\ rows \in Seq(Seq(Item))
    BY DashboardsAssumption DEF LayoutInit, Cleared
<1>2. DOMAIN panels = {}
    BY <1>1
<1>3. <<>> \in Seq(Item) /\ <<>> \in Seq(Panel)
    OBVIOUS
<1>4. LayoutTypeOK
    BY <1>1, <1>3 DEF LayoutInit, Cleared, LayoutTypeOK
<1> QED BY <1>1, <1>2, <1>4
        DEF LayoutInit, Cleared, LayoutInv, Columns, PanelsDoNotOverlap, RowsStaySeparate

LEMMA ItemFits ==
    ASSUME NEW item \in Item
    PROVE  item.h \in Nat /\ item.w \in Nat /\ item.h <= item.h /\ 0 + item.w <= Columns
BY DEF Item, Columns

LEMMA PanelNumbers ==
    ASSUME NEW p \in Panel
    PROVE  p.x \in Nat /\ p.y \in Nat /\ p.w \in Nat /\ p.h \in Nat
BY DEF Panel, Columns

LEMMA ItemParts == \A item \in Item : item.w \in Nat /\ item.h \in Nat
BY DEF Item, Columns

(* The type invariant but for its Boolean part. *)
Numbers ==
    /\ rows \in Seq(Seq(Item)) /\ items \in Seq(Item) /\ panels \in Seq(Panel)
    /\ y \in Nat /\ panel_id \in Nat /\ x \in Nat /\ row_height \in Nat

LEMMA TypeParts == LayoutTypeOK <=> Numbers /\ inside \in BOOLEAN
BY Zenon DEF LayoutTypeOK, Numbers

(* Where the invariant has each panel, as a fact about numbers. *)
LEMMA Placed ==
    ASSUME LayoutInv, NEW i \in DOMAIN panels
    PROVE  /\ panels[i] \in Panel
           /\ \/ panels[i].y + panels[i].h <= y
              \/ /\ panels[i].y = y /\ panels[i].x + panels[i].w <= x
                 /\ panels[i].h <= row_height
<1>1. panels[i] \in Panel
    BY TypeParts DEF LayoutInv, Numbers
<1> QED BY <1>1, Zenon DEF LayoutInv, Behind, OnLine

(* What a new panel must satisfy to be placed last. *)
LEMMA AppendKeeps ==
    ASSUME LayoutInv, NEW p \in Panel, panels' = Append(panels, p), p.id = panel_id,
           p.x + p.w <= Columns,
           \A i \in DOMAIN panels : Above(panels[i], p) \/ LeftOf(panels[i], p),
           \A i \in DOMAIN panels : panels[i].header \/ p.header => Above(panels[i], p)
    PROVE  /\ panels' \in Seq(Panel)
           /\ Len(panels') = Len(panels) + 1
           /\ \A i \in DOMAIN panels' : panels'[i].id = i
           /\ PanelsDoNotOverlap'
           /\ RowsStaySeparate'
<1> DEFINE n == Len(panels)
<1>1. panels \in Seq(Panel) /\ n \in Nat /\ DOMAIN panels = 1..n /\ panel_id = n + 1
    BY DEF LayoutInv, LayoutTypeOK
<1>2. /\ panels' \in Seq(Panel) /\ Len(panels') = n + 1 /\ DOMAIN panels' = 1..(n + 1)
      /\ panels'[n + 1] = p
      /\ \A i \in 1..n : panels'[i] = panels[i]
    BY <1>1
<1> HIDE DEF n
<1>3. \A i \in DOMAIN panels' : i = n + 1 \/ i \in DOMAIN panels
    BY <1>1, <1>2
<1>4. \A i \in DOMAIN panels' : panels'[i].id = i
    BY <1>1, <1>2, <1>3 DEF LayoutInv
<1>5. \A i \in DOMAIN panels' : panels'[i].x + panels'[i].w <= Columns
    BY <1>1, <1>2, <1>3 DEF LayoutInv, PanelsDoNotOverlap
<1>6. ASSUME NEW i \in DOMAIN panels', NEW j \in DOMAIN panels', i < j
      PROVE  /\ Apart(panels'[i], panels'[j])
             /\ panels'[i].header \/ panels'[j].header => Above(panels'[i], panels'[j])
    <2>1. i \in DOMAIN panels /\ panels'[i] = panels[i]
        BY <1>1, <1>2, <1>6
    <2>2. CASE j = n + 1
        BY <2>1, <2>2, <1>2 DEF Apart
    <2>3. CASE j \in DOMAIN panels
        BY <2>1, <2>3, <1>1, <1>2, <1>6 DEF LayoutInv, PanelsDoNotOverlap, RowsStaySeparate
    <2> QED BY <2>2, <2>3, <1>3
<1>7. ASSUME NEW i \in DOMAIN panels', NEW j \in DOMAIN panels', i < j
      PROVE  panels'[i].id # panels'[j].id
    BY <1>2, <1>4, <1>7
<1>8. PanelsDoNotOverlap'
    BY <1>5, <1>6, <1>7 DEF PanelsDoNotOverlap
<1>9. RowsStaySeparate'
    BY <1>6 DEF RowsStaySeparate
<1> QED BY <1>2, <1>4, <1>8, <1>9 DEF n

LEMMA StartRowKeeps ==
    ASSUME LayoutInv, StartRow
    PROVE  LayoutInv'
<1> DEFINE p == At(0, y, [w |-> Columns, h |-> 1], TRUE)
<1>1. p \in Panel /\ p.id = panel_id /\ p.x + p.w <= Columns /\ p.y = y /\ p.h = 1
    BY DEF At, Panel, Columns, LayoutInv, LayoutTypeOK
<1>2. \A i \in DOMAIN panels : Above(panels[i], p)
    BY <1>1 DEF LayoutInv, StartRow, Behind, OnLine, Above
<1>3. panels' = Append(panels, p)
    BY DEF StartRow
<1> HIDE DEF p
<1>4. /\ panels' \in Seq(Panel) /\ Len(panels') = Len(panels) + 1
      /\ \A i \in DOMAIN panels' : panels'[i].id = i
      /\ PanelsDoNotOverlap' /\ RowsStaySeparate'
    BY <1>1, <1>2, <1>3, AppendKeeps
<1>5. Head(rows) \in Seq(Item) /\ Tail(rows) \in Seq(Seq(Item))
    BY DEF StartRow, LayoutInv, LayoutTypeOK
<1>6. LayoutTypeOK'
    <2>1. Numbers'
        <3>1. (rows \in Seq(Seq(Item)))' /\ (items \in Seq(Item))' /\ (panels \in Seq(Panel))'
            BY <1>4, <1>5, Zenon DEF StartRow
        <3>2. y \in Nat /\ panel_id \in Nat
            BY TypeParts, Zenon DEF LayoutInv, Numbers
        <3>3. (y \in Nat)' /\ (panel_id \in Nat)' /\ (x \in Nat)' /\ (row_height \in Nat)'
            BY <3>2 DEF StartRow
        <3> QED BY <3>1, <3>3, Zenon DEF Numbers
    <2>2. (inside \in BOOLEAN)'
        BY Zenon DEF StartRow
    <2> QED BY <2>1, <2>2, TypeParts, Zenon DEF LayoutTypeOK, Numbers
<1>7. \A i \in DOMAIN panels' : panels'[i].y + panels'[i].h <= y'
    <2>1. panels \in Seq(Panel) /\ y \in Nat
        BY DEF LayoutInv, LayoutTypeOK
    <2>2. ASSUME NEW i \in DOMAIN panels'
          PROVE  panels'[i] = p \/ (i \in DOMAIN panels /\ panels'[i] = panels[i])
        BY <2>1, <2>2, <1>3
    <2>3. \A i \in DOMAIN panels : panels[i].y + panels[i].h <= y /\ panels[i] \in Panel
        BY <2>1, <1>1, <1>2 DEF Above
    <2>4. y' = y + 1
        BY DEF StartRow
    <2>5. ASSUME NEW i \in DOMAIN panels', panels'[i] = p
          PROVE  panels'[i].y + panels'[i].h <= y'
        BY <2>1, <2>4, <2>5, <1>1
    <2>6. ASSUME NEW i \in DOMAIN panels', i \in DOMAIN panels, panels'[i] = panels[i]
          PROVE  panels'[i].y + panels'[i].h <= y'
        BY <2>1, <2>3, <2>4, <2>6 DEF Panel
    <2> QED BY <2>2, <2>5, <2>6
<1>8. x' <= Columns /\ panel_id' = panel_id + 1
    BY DEF StartRow, Columns
<1>9. panel_id' = Len(panels') + 1
    BY <1>4, <1>8, TypeParts DEF LayoutInv, Numbers
<1> QED BY <1>4, <1>6, <1>7, <1>8, <1>9, Zenon DEF LayoutInv, Behind

(* Both ways of placing an item, at a column and on a line below or level   *)
(* with everything that is not left of it.                                  *)
LEMMA PlaceKeeps ==
    ASSUME LayoutInv, inside, items # <<>>,
           NEW column \in Nat, NEW line \in Nat, NEW height \in Nat,
           Place(Head(items), column, line, height),
           column + Head(items).w <= Columns, Head(items).h <= height,
           \A i \in DOMAIN panels :
              \/ panels[i].y + panels[i].h <= line
              \/ /\ panels[i].y = line /\ panels[i].x + panels[i].w <= column
                 /\ panels[i].h <= height /\ ~panels[i].header
    PROVE  LayoutInv'
<1> DEFINE item == Head(items)
           p == At(column, line, item, FALSE)
<1>1. item \in Item /\ Tail(items) \in Seq(Item)
    BY DEF LayoutInv, LayoutTypeOK
<1>2. /\ p \in Panel /\ p.id = panel_id /\ p.x = column /\ p.y = line
      /\ p.w = item.w /\ p.h = item.h /\ p.header = FALSE
    BY <1>1 DEF At, Panel, Item, LayoutInv, LayoutTypeOK
<1>3. panels' = Append(panels, p)
    BY DEF Place
<1> HIDE DEF p
<1>4. \A i \in DOMAIN panels : Above(panels[i], p) \/ (LeftOf(panels[i], p) /\ ~panels[i].header)
    BY <1>2 DEF Above, LeftOf
<1>5. /\ panels' \in Seq(Panel) /\ Len(panels') = Len(panels) + 1
      /\ \A i \in DOMAIN panels' : panels'[i].id = i
      /\ PanelsDoNotOverlap' /\ RowsStaySeparate'
    BY <1>2, <1>3, <1>4, AppendKeeps
<1>6. LayoutTypeOK'
    <2>1. Numbers'
        <3>1. Numbers
            BY TypeParts, Zenon DEF LayoutInv
        <3>2. (rows \in Seq(Seq(Item)))' /\ (items \in Seq(Item))' /\ (panels \in Seq(Panel))'
            BY <1>1, <1>5, <3>1, Zenon DEF Place, Numbers
        <3>3. panel_id \in Nat /\ item.w \in Nat
            <4>1. panel_id \in Nat
                BY <3>1, Zenon DEF Numbers
            <4>2. item.w \in Nat
                BY <1>1, ItemParts, Zenon
            <4> QED BY <4>1, <4>2
        <3>4. (y \in Nat)' /\ (panel_id \in Nat)' /\ (x \in Nat)' /\ (row_height \in Nat)'
            BY <3>3 DEF Place
        <3> QED BY <3>2, <3>4, Zenon DEF Numbers
    <2>2. (inside \in BOOLEAN)'
        BY Zenon DEF Place, LayoutInv, LayoutTypeOK
    <2> QED BY <2>1, <2>2, TypeParts, Zenon DEF LayoutTypeOK, Numbers
<1>7. \A i \in DOMAIN panels' : Behind(panels[i])' \/ OnLine(panels[i])'
    <2>1. panels \in Seq(Panel)
        BY DEF LayoutInv, LayoutTypeOK
    <2>2. ASSUME NEW i \in DOMAIN panels'
          PROVE  panels'[i] = p \/ (i \in DOMAIN panels /\ panels'[i] = panels[i])
        BY <2>1, <2>2, <1>3
    <2>3. inside' = inside /\ y' = line /\ x' = column + item.w /\ row_height' = height
        BY DEF Place
    <2>4. ASSUME NEW i \in DOMAIN panels', panels'[i] = p
          PROVE  OnLine(panels[i])'
        BY <2>3, <2>4, <1>1, <1>2 DEF OnLine, Item
    <2>5. ASSUME NEW i \in DOMAIN panels', i \in DOMAIN panels, panels'[i] = panels[i]
          PROVE  Behind(panels[i])' \/ OnLine(panels[i])'
        <3>1. panels[i] \in Panel
            BY <2>1, <2>5
        <3>2. CASE panels[i].y + panels[i].h <= line
            BY <3>2, <2>3, <2>5 DEF Behind
        <3>3. CASE /\ panels[i].y = line /\ panels[i].x + panels[i].w <= column
                   /\ panels[i].h <= height /\ ~panels[i].header
            <4>1. panels'[i].x + panels'[i].w <= x'
                <5>1. panels[i].x \in Nat /\ panels[i].w \in Nat /\ item.w \in Nat
                    <6>1. panels[i].x \in Nat /\ panels[i].w \in Nat
                        BY <3>1, PanelNumbers, Zenon
                    <6>2. item.w \in Nat
                        BY <1>1, ItemFits, Zenon
                    <6> QED BY <6>1, <6>2
                <5>2. panels'[i].x = panels[i].x /\ panels'[i].w = panels[i].w
                    BY <2>5, Zenon
                <5> HIDE DEF item
                <5>3. panels[i].x + panels[i].w <= column + item.w
                    BY <3>3, <5>1, SMTT(40)
                <5> QED BY <2>3, <5>2, <5>3, Zenon
            <4> QED BY <4>1, <2>3, <2>5, <3>3, Zenon DEF OnLine
        <3> QED BY <2>5, <3>2, <3>3
    <2> QED BY <2>2, <2>4, <2>5
<1>8. panel_id' = panel_id + 1 /\ x' <= Columns
    BY DEF Place
<1> QED BY <1>5, <1>6, <1>7, <1>8 DEF LayoutInv, LayoutTypeOK

LEMMA ItemsKeep ==
    ASSUME LayoutInv, PlaceBeside \/ PlaceBelow
    PROVE  LayoutInv'
<1> DEFINE item == Head(items)
<1>1. item \in Item /\ panels \in Seq(Panel) /\ x \in Nat /\ y \in Nat /\ row_height \in Nat
    BY DEF LayoutInv, LayoutTypeOK, PlaceBeside, PlaceBelow
<1>2. \A i \in DOMAIN panels : panels[i] \in Panel
    BY <1>1
<1>3. CASE PlaceBeside
    <2>1. Higher(item) \in Nat /\ item.h <= Higher(item) /\ row_height <= Higher(item)
        BY <1>1 DEF Higher, Item
    <2>2. \A i \in DOMAIN panels :
              \/ panels[i].y + panels[i].h <= y
              \/ /\ panels[i].y = y /\ panels[i].x + panels[i].w <= x
                 /\ panels[i].h <= Higher(item) /\ ~panels[i].header
        BY <1>1, <1>2, <2>1 DEF LayoutInv, Behind, OnLine, Panel
    <2> QED BY <1>1, <1>3, <2>1, <2>2, PlaceKeeps DEF PlaceBeside, Fits
<1>4. CASE PlaceBelow
    <2>1. y + row_height \in Nat /\ item.h \in Nat /\ item.h <= item.h /\ 0 + item.w <= Columns
        <3>1. item.h \in Nat /\ item.h <= item.h /\ 0 + item.w <= Columns
            BY <1>1, ItemFits, Zenon
        <3>2. y \in Nat /\ row_height \in Nat
            BY <1>1, Zenon
        <3> HIDE DEF item
        <3>3. y + row_height \in Nat
            BY <3>2
        <3> QED BY <3>1, <3>3, Zenon
    <2>2. \A i \in DOMAIN panels : panels[i].y + panels[i].h <= y + row_height
        <3>1. ASSUME NEW i \in DOMAIN panels
              PROVE  /\ panels[i].y \in Nat /\ panels[i].h \in Nat
                     /\ \/ panels[i].y + panels[i].h <= y
                        \/ panels[i].y = y /\ panels[i].h <= row_height
            <4>1. panels[i].y \in Nat /\ panels[i].h \in Nat
                BY <1>2, <3>1, PanelNumbers, Zenon
            <4> QED BY <3>1, <4>1, Placed, Zenon
        <3> QED BY <1>1, <3>1
    <2> QED BY <1>4, <2>1, <2>2, PlaceKeeps DEF PlaceBelow
<1> QED BY <1>3, <1>4

LEMMA EndRowKeeps ==
    ASSUME LayoutInv, EndRow
    PROVE  LayoutInv'
<1>1. LayoutTypeOK'
    <2>1. Numbers'
        BY TypeParts DEF EndRow, NextLine, LayoutInv, Numbers
    <2>2. (inside \in BOOLEAN)'
        BY Zenon DEF EndRow
    <2> QED BY <2>1, <2>2, TypeParts, Zenon DEF LayoutTypeOK, Numbers
<1>2. ASSUME NEW i \in DOMAIN panels PROVE Behind(panels[i])'
    <2>1. panels[i] \in Panel /\ y \in Nat /\ row_height \in Nat
        BY <1>2 DEF LayoutInv, LayoutTypeOK
    <2>2. panels[i].y \in Nat /\ panels[i].h \in Nat
        BY <2>1, PanelNumbers, Zenon
    <2>3. panels[i].y + panels[i].h <= y + row_height
        BY <1>2, <2>1, <2>2, Placed
    <2> QED BY <2>3 DEF EndRow, NextLine, Behind
<1>3. PanelsDoNotOverlap' /\ RowsStaySeparate'
    BY DEF LayoutInv, EndRow, PanelsDoNotOverlap, RowsStaySeparate
<1> QED BY <1>1, <1>2, <1>3 DEF LayoutInv, EndRow

LEMMA NextLayout == LayoutInv /\ [LayoutNext]_layoutVars => LayoutInv'
<1>1. ASSUME LayoutInv, UNCHANGED layoutVars PROVE LayoutInv'
    BY <1>1 DEF layoutVars, LayoutInv, LayoutTypeOK, Behind, OnLine, PanelsDoNotOverlap,
           RowsStaySeparate
<1> QED BY <1>1, StartRowKeeps, ItemsKeep, EndRowKeeps DEF LayoutNext

-----------------------------------------------------------------------------
(* The theorems. *)

(* The variables of the layout keep their types, whatever is laid out       *)
(* (build-sre-dashboards.py:92-176).                                        *)
THEOREM LayoutTypeCorrect == LayoutSpec => []LayoutTypeOK
<1>1. LayoutInv => LayoutTypeOK
    BY DEF LayoutInv
<1> QED BY <1>1, InitLayout, NextLayout, PTL DEF LayoutSpec

(* Every dashboard the builder can make fits the grid, without two panels   *)
(* on one cell or with one id (build-sre-dashboards.py:115-144).            *)
THEOREM PanelsDoNotOverlapHolds == LayoutSpec => []PanelsDoNotOverlap
<1>1. LayoutInv => PanelsDoNotOverlap
    BY DEF LayoutInv
<1> QED BY <1>1, InitLayout, NextLayout, PTL DEF LayoutSpec

(* No panel reaches over the header of another row.                         *)
THEOREM RowsStaySeparateHolds == LayoutSpec => []RowsStaySeparate
<1>1. LayoutInv => RowsStaySeparate
    BY DEF LayoutInv
<1> QED BY <1>1, InitLayout, NextLayout, PTL DEF LayoutSpec
-----------------------------------------------------------------------------
(* DashboardPack: from the layout to the validator's verdict. *)

(* Where the answers to file f start, and how many there are in all.        *)
Before(f) == IF f = 1 THEN 0 ELSE Len(files[1].targets)
AskedSoFar ==
    IF Len(files) = 0 THEN 0 ELSE IF Len(files) = 1 THEN counts[1] ELSE counts[1] + counts[2]

FilesInv ==
    /\ Len(files) <= 2
    /\ \A f \in DOMAIN files : files[f].dir = "application" => files[f].targets = committed
    /\ stage \notin {"building", "committed", "stale"} => committed = source
    /\ stage \in {"building", "committed", "checked", "stale"} => files = <<>>

(* Files are read one after the other, so each check is the judgement of    *)
(* one target, at a place that can be computed from the files.              *)
ProgressInv ==
    /\ \A f \in DOMAIN files : counts[f] <= Len(files[f].targets)
    /\ Len(files) = 2 /\ counts[2] > 0 => counts[1] = Len(files[1].targets)
    /\ Len(checks) = AskedSoFar
    /\ \A f \in DOMAIN files : \A t \in 1..counts[f] :
          checks[Before(f) + t]
            = Judge(files[f].uid, files[f].targets[t], answers[Before(f) + t])

VerdictInv ==
    /\ stage \in {"passed", "failed"} =>
          \A f \in DOMAIN files : counts[f] = Len(files[f].targets)
    /\ stage = "passed" => Failures = {}

(* The type invariant of the pipeline's own variables. *)
PackTypes ==
    /\ stage \in {"building", "committed", "checked", "stale", "validating",
                  "passed", "failed", "traceback"}
    /\ source \in Seq(BOOLEAN) /\ committed \in Seq(BOOLEAN)
    /\ files \in Seq(File)
    /\ counts \in Seq(Nat) /\ Len(counts) = Len(files)
    /\ answers \in Seq(Answer)
    /\ checks \in Seq(Check) /\ Len(checks) = Len(answers)

PackInv == LayoutInv /\ PackTypes /\ FilesInv /\ ProgressInv /\ VerdictInv

-----------------------------------------------------------------------------
LEMMA InitPack == PackInit => PackInv
<1> SUFFICES ASSUME PackInit PROVE PackInv
    OBVIOUS
<1>1. LayoutInv
    BY InitLayout DEF PackInit
<1>2. /\ stage = "building" /\ source = <<>> /\ committed = <<>> /\ files = <<>>
      /\ counts = <<>> /\ answers = <<>> /\ checks = <<>>
    BY DEF PackInit
<1>3. PackTypes
    BY <1>2 DEF PackTypes
<1>4. FilesInv /\ ProgressInv /\ VerdictInv
    BY <1>2 DEF FilesInv, ProgressInv, VerdictInv, AskedSoFar
<1> QED BY <1>1, <1>3, <1>4 DEF PackInv

(* What the validator has read does not change with the stage. *)
LEMMA ProgressStays ==
    ASSUME ProgressInv, UNCHANGED <<files, counts, answers, checks>>
    PROVE  ProgressInv'
BY DEF ProgressInv, Before, AskedSoFar

LEMMA LayoutsKeep ==
    ASSUME PackInv, Layouts
    PROVE  PackInv'
<1>1. LayoutInv'
    BY NextLayout DEF PackInv, Layouts
<1>2. PackTypes' /\ FilesInv' /\ VerdictInv'
    BY DEF PackInv, Layouts, packVars, PackTypes, FilesInv, VerdictInv, Failures, Invalid,
           Unexplained, Empty, NonFinite
<1>3. ProgressInv'
    BY ProgressStays DEF PackInv, Layouts, packVars
<1> QED BY <1>1, <1>2, <1>3 DEF PackInv

LEMMA ContentsAreTargets == Contents \subseteq Seq(BOOLEAN)
BY PackAssumption DEF Contents

(* Write, Edit and CheckCommitted come before any file is read. *)
LEMMA WriteKeeps ==
    ASSUME PackInv, Write
    PROVE  PackInv'
<1>1. LayoutInv'
    <2>1. rows \in Seq(Seq(Item)) /\ rows' = rows
        BY DEF PackInv, LayoutInv, LayoutTypeOK, Write
    <2>2. /\ items' = <<>> /\ inside' = FALSE /\ panels' = <<>> /\ y' = 0 /\ panel_id' = 1
          /\ x' = 0 /\ row_height' = 0
        BY DEF Write
    <2>3. DOMAIN panels' = {} /\ panels' \in Seq(Panel) /\ items' \in Seq(Item)
        BY <2>2
    <2>4. Numbers'
        BY <2>1, <2>2, <2>3 DEF Numbers
    <2>5. LayoutTypeOK'
        BY <2>2, <2>4, Zenon DEF Numbers, LayoutTypeOK
    <2>6. x' <= Columns /\ panel_id' = Len(panels') + 1
        BY <2>2 DEF Columns
    <2> QED BY <2>3, <2>5, <2>6, Zenon DEF LayoutInv, PanelsDoNotOverlap, RowsStaySeparate
<1>2. source' \in Seq(BOOLEAN) /\ committed' = source'
    BY ContentsAreTargets DEF Write
<1>3. stage' = "committed" /\ UNCHANGED <<files, counts, answers, checks>> /\ files = <<>>
    BY DEF Write, PackInv, FilesInv
<1>4. PackTypes' /\ FilesInv' /\ VerdictInv'
    BY <1>2, <1>3 DEF PackInv, PackTypes, FilesInv, VerdictInv
<1>5. ProgressInv'
    BY <1>3, ProgressStays DEF PackInv
<1> QED BY <1>1, <1>4, <1>5 DEF PackInv

LEMMA LayoutStays ==
    ASSUME LayoutInv, UNCHANGED layoutVars
    PROVE  LayoutInv'
BY NextLayout

LEMMA EditKeeps ==
    ASSUME PackInv, Edit
    PROVE  PackInv'
<1>1. LayoutInv'
    BY LayoutStays DEF PackInv, Edit
<1>2. source' \in Seq(BOOLEAN) /\ committed' \in Seq(BOOLEAN)
    BY ContentsAreTargets DEF Edit, PackInv, PackTypes
<1>3. /\ stage = "committed" /\ UNCHANGED <<stage, files, counts, answers, checks>>
      /\ files = <<>>
    BY DEF Edit, PackInv, FilesInv
<1>4. PackTypes' /\ FilesInv' /\ VerdictInv'
    BY <1>2, <1>3 DEF PackInv, PackTypes, FilesInv, VerdictInv
<1>5. ProgressInv'
    BY <1>3, ProgressStays DEF PackInv
<1> QED BY <1>1, <1>4, <1>5 DEF PackInv

LEMMA CheckCommittedKeeps ==
    ASSUME PackInv, CheckCommitted
    PROVE  PackInv'
<1>1. LayoutInv'
    BY LayoutStays DEF PackInv, CheckCommitted
<1>2. /\ stage = "committed" /\ stage' \in {"checked", "stale"}
      /\ stage' = "checked" => committed' = source'
      /\ UNCHANGED <<source, committed, files, counts, answers, checks>> /\ files = <<>>
    BY DEF CheckCommitted, Matches, PackInv, FilesInv
<1>3. PackTypes' /\ FilesInv' /\ VerdictInv'
    BY <1>2 DEF PackInv, PackTypes, FilesInv, VerdictInv
<1>4. ProgressInv'
    BY <1>2, ProgressStays DEF PackInv
<1> QED BY <1>1, <1>3, <1>4 DEF PackInv

LEMMA StartValidationKeeps ==
    ASSUME PackInv, StartValidation
    PROVE  PackInv'
<1>1. LayoutInv'
    BY LayoutStays DEF PackInv, StartValidation
<1>2. /\ stage = "checked" /\ stage' = "validating"
      /\ UNCHANGED <<source, committed, answers, checks>> /\ committed = source
      /\ files = <<>> /\ counts' = [f \in DOMAIN files' |-> 0]
    BY DEF StartValidation, PackInv, FilesInv
<1>3. /\ files' \in Seq(File) /\ Len(files') <= 2
      /\ \A f \in DOMAIN files' : files'[f].dir = "application" => files'[f].targets = committed
    <2> DEFINE mine == [dir |-> "application", uid |-> Ours, targets |-> committed]
    <2>1. mine \in File /\ mine.targets = committed
        <3>1. committed \in Seq(BOOLEAN)
            BY DEF PackInv, PackTypes
        <3>2. Ours \in Uids
            BY DEF Uids
        <3> QED BY <3>1, <3>2, Zenon DEF File
    <2>2. \A f \in Others : f \in File /\ f.dir # "application"
        BY PackAssumption DEF File, Uids
    <2>3. PICK ours \in {<<>>, <<mine>>}, other \in {<<>>} \cup {<<f>> : f \in Others} :
              files' = ours \o other
        BY DEF StartValidation
    <2> HIDE DEF mine
    <2>4. /\ ours \in Seq(File) /\ Len(ours) <= 1
          /\ \A f \in DOMAIN ours : ours[f] = mine
        <3>1. CASE ours = <<>>
            BY <3>1
        <3>2. CASE ours = <<mine>>
            BY <2>1, <3>2
        <3> QED BY <2>3, <3>1, <3>2
    <2>5. /\ other \in Seq(File) /\ Len(other) <= 1
          /\ \A f \in DOMAIN other : other[f].dir # "application"
        <3>1. CASE other = <<>>
            BY <3>1
        <3>2. CASE other \in {<<f>> : f \in Others}
            <4>1. PICK o \in Others : other = <<o>>
                BY <3>2
            <4>2. o \in File /\ o.dir # "application"
                BY <2>2
            <4> QED BY <4>1, <4>2
        <3> QED BY <2>3, <3>1, <3>2
    <2>6. files' \in Seq(File) /\ Len(files') = Len(ours) + Len(other)
        BY <2>3, <2>4, <2>5
    <2>7. ASSUME NEW f \in DOMAIN files'
          PROVE  files'[f] = mine \/ files'[f].dir # "application"
        <3>1. CASE f \in DOMAIN ours
            BY <2>3, <2>4, <2>5, <3>1
        <3>2. CASE f \notin DOMAIN ours
            <4>1. f - Len(ours) \in DOMAIN other /\ files'[f] = other[f - Len(ours)]
                BY <2>3, <2>4, <2>5, <2>6, <2>7, <3>2
            <4> QED BY <4>1, <2>5
        <3> QED BY <3>1, <3>2
    <2> QED BY <2>1, <2>4, <2>5, <2>6, <2>7
<1>4. /\ Len(files') \in Nat /\ DOMAIN files' = 1..Len(files')
      /\ counts' \in Seq(Nat) /\ Len(counts') = Len(files')
      /\ \A f \in DOMAIN files' : counts'[f] = 0
    BY <1>2, <1>3
<1>5. Len(answers) = 0 /\ Len(checks) = 0
    BY <1>2 DEF PackInv, PackTypes, ProgressInv, AskedSoFar
<1>6. PackTypes'
    BY <1>2, <1>3, <1>4 DEF PackInv, PackTypes
<1>7. FilesInv' /\ VerdictInv'
    BY <1>2, <1>3 DEF FilesInv, VerdictInv
<1>8. ProgressInv'
    <2>1. AskedSoFar' = 0
        BY <1>3, <1>4 DEF AskedSoFar
    <2>2. \A f \in DOMAIN files' : Len(files'[f].targets) \in Nat
        BY <1>3 DEF File
    <2> QED BY <1>2, <1>3, <1>4, <1>5, <2>1, <2>2 DEF ProgressInv
<1> QED BY <1>1, <1>6, <1>7, <1>8 DEF PackInv

-----------------------------------------------------------------------------
(* The validator's loop. *)

LEMMA CheckParts ==
    ASSUME NEW uid \in Uids, NEW allowed \in BOOLEAN, NEW valid \in BOOLEAN,
           NEW useful \in BOOLEAN, NEW zero \in BOOLEAN, NEW finite \in BOOLEAN
    PROVE  [uid |-> uid, allowed |-> allowed, valid |-> valid, useful |-> useful,
            zero |-> zero, finite |-> finite] \in Check
BY DEF Check

LEMMA JudgeIsCheck ==
    ASSUME NEW uid \in Uids, NEW allowed \in BOOLEAN, NEW answer \in Answer
    PROVE  Judge(uid, allowed, answer) \in Check
<1> DEFINE values == values_from_result(answer.samples)
           valid == answer.kind = "success"
           useful == valid /\ values # {} /\ Finite(values)
           zero == useful /\ values = {"zero"}
           finite == valid /\ Finite(values)
           judged == [uid |-> uid, allowed |-> allowed, valid |-> valid, useful |-> useful,
                      zero |-> zero, finite |-> finite]
<1>1. Judge(uid, allowed, answer) = judged
    BY Zenon DEF Judge
<1>2. valid \in BOOLEAN /\ useful \in BOOLEAN /\ zero \in BOOLEAN /\ finite \in BOOLEAN
    <2>1. Finite(values) \in BOOLEAN
        BY Zenon DEF Finite
    <2>2. valid \in BOOLEAN
        BY Zenon
    <2>3. useful \in BOOLEAN
        BY <2>1, <2>2, Zenon
    <2>4. zero \in BOOLEAN
        BY <2>3, Zenon
    <2>5. finite \in BOOLEAN
        BY <2>1, <2>2, Zenon
    <2> QED BY <2>2, <2>3, <2>4, <2>5
<1> HIDE DEF values, valid, useful, zero, finite
<1>3. judged \in Check
    BY <1>2, CheckParts, ZenonT(60)
<1> HIDE DEF judged
<1> QED BY <1>1, <1>3, Zenon

(* The facts about numbers that the invariant gives of the files' lists. *)
LEMMA Lengths ==
    ASSUME PackTypes
    PROVE  /\ Len(files) \in Nat /\ DOMAIN files = 1..Len(files) /\ DOMAIN counts = DOMAIN files
           /\ Len(checks) \in Nat /\ DOMAIN checks = 1..Len(checks)
           /\ DOMAIN answers = DOMAIN checks
           /\ \A f \in DOMAIN files : /\ counts[f] \in Nat
                                      /\ files[f] \in File
                                      /\ Len(files[f].targets) \in Nat
<1>1. /\ files \in Seq(File) /\ counts \in Seq(Nat) /\ Len(counts) = Len(files)
      /\ answers \in Seq(Answer) /\ checks \in Seq(Check) /\ Len(checks) = Len(answers)
    BY DEF PackTypes
<1>2. \A f \in DOMAIN files : files[f] \in File
    BY <1>1
<1>3. \A file \in File : file.targets \in Seq(BOOLEAN)
    BY Zenon DEF File
<1> QED BY <1>1, <1>2, <1>3

(* What was asked about file g lies, in order, among the checks. *)
LEMMA Positions ==
    ASSUME PackTypes, FilesInv, ProgressInv, NEW g \in DOMAIN files
    PROVE  /\ Before(g) \in Nat
           /\ \A t \in 1..counts[g] : Before(g) + t \in 1..Len(checks)
<1>1. g \in {1, 2} /\ Len(files) \in {1, 2}
    BY Lengths DEF FilesInv
<1>2. CASE g = 1
    <2>1. Len(files) = 1 => Len(checks) = counts[1]
        BY DEF ProgressInv, AskedSoFar
    <2>2. Len(files) = 2 => Len(checks) = counts[1] + counts[2] /\ counts[2] \in Nat
        BY Lengths DEF ProgressInv, AskedSoFar
    <2> QED BY <1>1, <1>2, <2>1, <2>2, Lengths DEF Before
<1>3. CASE g = 2
    <2>1. /\ Len(files) = 2 /\ 1 \in DOMAIN files
          /\ Before(2) = Len(files[1].targets) /\ Before(2) \in Nat
        BY <1>1, <1>3, Lengths DEF Before
    <2>2. Len(checks) = counts[1] + counts[2] /\ counts[1] \in Nat /\ counts[2] \in Nat
        BY <1>3, <2>1, Lengths DEF ProgressInv, AskedSoFar
    <2>3. counts[2] > 0 => counts[1] = Before(2)
        BY <2>1 DEF ProgressInv
    <2> QED BY <1>3, <2>1, <2>2, <2>3, Lengths
<1> QED BY <1>1, <1>2, <1>3

(* The next answer is about the next target of the file being read. *)
LEMMA NextPosition ==
    ASSUME PackTypes, FilesInv, ProgressInv, NEW f, Reading(f)
    PROVE  /\ f \in DOMAIN files /\ counts[f] < Len(files[f].targets)
           /\ Len(checks) = Before(f) + counts[f]
           /\ f = 1 /\ Len(files) = 2 => counts[2] = 0
           /\ f = 2 => counts[1] = Len(files[1].targets)
<1>1. f \in DOMAIN files /\ counts[f] < Len(files[f].targets)
    BY DEF Reading
<1>2. f \in {1, 2} /\ Len(files) \in {1, 2}
    BY <1>1, Lengths DEF FilesInv
<1>3. CASE f = 1
    <2>1. counts[1] \in Nat /\ Len(files[1].targets) \in Nat /\ Before(1) = 0
        BY <1>1, <1>3, Lengths DEF Before
    <2>2. CASE Len(files) = 1
        BY <1>1, <1>3, <2>1, <2>2 DEF ProgressInv, AskedSoFar
    <2>3. CASE Len(files) = 2
        <3>1. counts[2] \in Nat
            BY <2>3, Lengths
        <3>2. counts[2] = 0
            BY <1>1, <1>3, <2>1, <2>3, <3>1 DEF ProgressInv
        <3> QED BY <1>1, <1>3, <2>1, <2>3, <3>2 DEF ProgressInv, AskedSoFar
    <2> QED BY <1>2, <2>2, <2>3
<1>4. CASE f = 2
    <2>1. Len(files) = 2 /\ Before(2) = Len(files[1].targets)
        BY <1>1, <1>2, <1>4, Lengths DEF Before
    <2>2. counts[1] = Len(files[1].targets)
        BY <1>4 DEF Reading
    <2> QED BY <1>1, <1>4, <2>1, <2>2 DEF ProgressInv, AskedSoFar
<1> QED BY <1>2, <1>3, <1>4

(* One more answer, judged and recorded. *)
LEMMA QueryProgresses ==
    ASSUME PackTypes, FilesInv, ProgressInv, NEW f \in DOMAIN files, Query(f)
    PROVE  PackTypes' /\ ProgressInv'
<1>1. PICK answer \in Answer :
          /\ answers' = Append(answers, answer)
          /\ checks' = Recorded(Judge(files[f].uid, files[f].targets[counts[f] + 1], answer))
          /\ counts' = [counts EXCEPT ![f] = Counted(f, answer)]
    BY DEF Query
<1> DEFINE next == counts[f] + 1
           check == Judge(files[f].uid, files[f].targets[next], answer)
           n == Len(checks)
<1>2. /\ UNCHANGED <<stage, source, committed, files>>
      /\ answers' = Append(answers, answer) /\ checks' = Append(checks, check)
      /\ counts' = [counts EXCEPT ![f] = next]
    BY <1>1 DEF Query, Recorded, Counted
<1>3. /\ Reading(f) /\ counts[f] < Len(files[f].targets) /\ n = Before(f) + counts[f]
      /\ f = 1 /\ Len(files) = 2 => counts[2] = 0
      /\ f = 2 => counts[1] = Len(files[1].targets)
    BY NextPosition DEF Query
<1>4. counts[f] \in Nat /\ files[f] \in File /\ Len(files[f].targets) \in Nat
    BY Lengths
<1>5. check \in Check
    <2>1. files[f].uid \in Uids /\ files[f].targets \in Seq(BOOLEAN)
        BY <1>4, Zenon DEF File
    <2>2. next \in 1..Len(files[f].targets)
        BY <1>3, <1>4
    <2>3. files[f].targets[next] \in BOOLEAN
        BY <2>1, <2>2
    <2> QED BY <2>1, <2>3, JudgeIsCheck
<1> HIDE DEF check
<1>6. /\ answers \in Seq(Answer) /\ checks \in Seq(Check) /\ Len(answers) = n /\ n \in Nat
      /\ counts \in Seq(Nat) /\ DOMAIN counts = DOMAIN files
    BY Lengths DEF PackTypes
<1>7. /\ answers' \in Seq(Answer) /\ checks' \in Seq(Check)
      /\ Len(answers') = n + 1 /\ Len(checks') = n + 1
      /\ checks'[n + 1] = check /\ answers'[n + 1] = answer
      /\ \A i \in 1..n : checks'[i] = checks[i] /\ answers'[i] = answers[i]
    BY <1>2, <1>5, <1>6
<1> HIDE DEF n
<1>8. /\ counts' \in Seq(Nat) /\ Len(counts') = Len(counts)
      /\ \A g \in DOMAIN files : counts'[g] = IF g = f THEN next ELSE counts[g]
    BY <1>2, <1>4, <1>6, SMTT(40)
<1>9. PackTypes'
    BY <1>2, <1>7, <1>8 DEF PackTypes
<1>10. \A g \in DOMAIN files : counts'[g] <= Len(files[g].targets)
    BY <1>3, <1>4, <1>8 DEF ProgressInv
<1>11. Len(files) = 2 /\ counts'[2] > 0 => counts'[1] = Len(files[1].targets)
    <2>1. Len(files) = 2 => 1 \in DOMAIN files /\ 2 \in DOMAIN files
        BY Lengths
    <2>2. f \in {1, 2}
        BY Lengths DEF FilesInv
    <2> QED BY <2>1, <2>2, <1>3, <1>8
<1>12. AskedSoFar' = n + 1
    <2>1. n = AskedSoFar
        BY DEF ProgressInv, n
    <2>2. f \in {1, 2} /\ Len(files) \in {1, 2}
        BY Lengths DEF FilesInv
    <2>3. CASE Len(files) = 1
        BY <2>1, <2>2, <2>3, <1>2, <1>4, <1>8, Lengths DEF AskedSoFar
    <2>4. CASE Len(files) = 2
        <3>1. 1 \in DOMAIN files /\ 2 \in DOMAIN files /\ counts[1] \in Nat /\ counts[2] \in Nat
            BY <2>4, Lengths
        <3>2. AskedSoFar = counts[1] + counts[2] /\ AskedSoFar' = counts'[1] + counts'[2]
            <4>1. files' = files
                BY <1>2
            <4> QED BY <2>4, <4>1 DEF AskedSoFar
        <3>3. /\ counts'[1] = (IF 1 = f THEN next ELSE counts[1])
              /\ counts'[2] = (IF 2 = f THEN next ELSE counts[2])
            BY <1>8, <3>1
        <3> QED BY <2>1, <2>2, <3>1, <3>2, <3>3
    <2> QED BY <2>2, <2>3, <2>4
<1>13. ASSUME NEW g \in DOMAIN files, NEW t \in 1..counts'[g]
       PROVE  checks'[Before(g) + t]
                = Judge(files[g].uid, files[g].targets[t], answers'[Before(g) + t])
    <2>1. counts[g] \in Nat /\ Before(g) \in Nat
        BY Lengths, Positions
    <2>2. CASE t \in 1..counts[g]
        <3>1. Before(g) + t \in 1..n
            BY <2>2, Positions DEF n
        <3>2. checks[Before(g) + t]
                = Judge(files[g].uid, files[g].targets[t], answers[Before(g) + t])
            BY <2>2 DEF ProgressInv
        <3> QED BY <3>1, <3>2, <1>7
    <2>3. CASE t \notin 1..counts[g]
        <3>1. g = f /\ t = next
            BY <1>8, <1>13, <2>1, <2>3
        <3>2. Before(g) + t = n + 1
            BY <1>3, <1>4, <2>1, <3>1
        <3> QED BY <3>1, <3>2, <1>7 DEF check
    <2> QED BY <2>2, <2>3
<1>14. ProgressInv'
    <2>1. files' = files /\ Len(checks') = AskedSoFar'
        BY <1>2, <1>7, <1>12
    <2>2. \A g : Before(g)' = Before(g)
        BY <2>1 DEF Before
    <2> HIDE DEF Before
    <2>3. \A g \in DOMAIN files : \A t \in 1..counts'[g] :
              checks'[Before(g)' + t]
                = Judge(files[g].uid, files[g].targets[t], answers'[Before(g)' + t])
        BY <1>13, <2>2, Zenon
    <2> QED BY <1>10, <1>11, <2>1, <2>3, Zenon DEF ProgressInv
<1> QED BY <1>9, <1>14

LEMMA QueryKeeps ==
    ASSUME PackInv, NEW f \in DOMAIN files, Query(f)
    PROVE  PackInv'
<1>1. LayoutInv'
    BY LayoutStays DEF PackInv, Query
<1>2. PackTypes' /\ ProgressInv'
    BY QueryProgresses DEF PackInv
<1>3. FilesInv' /\ VerdictInv'
    BY DEF PackInv, Query, FilesInv, VerdictInv
<1> QED BY <1>1, <1>2, <1>3 DEF PackInv

LEMMA QueryBreaksKeeps ==
    ASSUME PackInv, QueryBreaks
    PROVE  PackInv'
<1>1. LayoutInv'
    BY LayoutStays DEF PackInv, QueryBreaks
<1>2. PackTypes' /\ FilesInv' /\ VerdictInv'
    BY DEF PackInv, QueryBreaks, PackTypes, FilesInv, VerdictInv
<1>3. ProgressInv'
    BY ProgressStays DEF PackInv, QueryBreaks
<1> QED BY <1>1, <1>2, <1>3 DEF PackInv

(* With no file left to read, every target of every file has its answer. *)
LEMMA AllRead ==
    ASSUME PackTypes, FilesInv, ProgressInv, ~\E f \in DOMAIN files : Reading(f)
    PROVE  \A f \in DOMAIN files : counts[f] = Len(files[f].targets)
<1>1. \A f \in DOMAIN files : /\ f \in {1, 2} /\ counts[f] \in Nat
                             /\ Len(files[f].targets) \in Nat
                             /\ counts[f] <= Len(files[f].targets)
    BY Lengths DEF FilesInv, ProgressInv
<1>2. 1 \in DOMAIN files => counts[1] = Len(files[1].targets)
    BY <1>1 DEF Reading
<1>3. 2 \in DOMAIN files => 1 \in DOMAIN files
    BY Lengths
<1>4. 2 \in DOMAIN files => counts[2] = Len(files[2].targets)
    BY <1>1, <1>2, <1>3 DEF Reading
<1> QED BY <1>1, <1>2, <1>4

LEMMA SummariseKeeps ==
    ASSUME PackInv, Summarise
    PROVE  PackInv'
<1>1. LayoutInv'
    BY LayoutStays DEF PackInv, Summarise
<1>2. /\ stage = "validating" /\ stage' \in {"passed", "failed"}
      /\ stage' = "passed" => Failures = {}
      /\ UNCHANGED <<source, committed, files, counts, answers, checks>>
    BY DEF Summarise
<1>3. \A f \in DOMAIN files : counts[f] = Len(files[f].targets)
    BY AllRead DEF PackInv, Summarise
<1>4. VerdictInv'
    BY <1>2, <1>3 DEF VerdictInv, Failures, Invalid, Unexplained, Empty, NonFinite
<1>5. PackTypes' /\ FilesInv'
    BY <1>2 DEF PackInv, PackTypes, FilesInv
<1>6. ProgressInv'
    BY <1>2, ProgressStays DEF PackInv
<1> QED BY <1>1, <1>4, <1>5, <1>6 DEF PackInv

LEMMA NextPack == PackInv /\ [PackNext]_allVars => PackInv'
<1>1. ASSUME PackInv, UNCHANGED allVars PROVE PackInv'
    <2>1. LayoutInv' /\ ProgressInv'
        BY <1>1, LayoutStays, ProgressStays DEF PackInv, allVars, packVars
    <2>2. PackTypes' /\ FilesInv' /\ VerdictInv'
        BY <1>1 DEF PackInv, allVars, packVars, PackTypes, FilesInv, VerdictInv, Failures,
               Invalid, Unexplained, Empty, NonFinite
    <2> QED BY <2>1, <2>2 DEF PackInv
<1> QED BY <1>1, LayoutsKeep, WriteKeeps, EditKeeps, CheckCommittedKeeps, StartValidationKeeps,
           QueryKeeps, QueryBreaksKeeps, SummariseKeeps DEF PackNext

-----------------------------------------------------------------------------
LEMMA PackInvariant == PackSpec => []PackInv
BY InitPack, NextPack, PTL DEF PackSpec

(* So do the files, the edits and the counts of the validator, for any      *)
(* files in the other directories (verify-sre-dashboards.py:156-212).       *)
THEOREM PackTypeOKHolds == PackSpec => []PackTypeOK
<1>1. PackInv => PackTypeOK
    BY Zenon DEF PackInv, PackTypes, PackTypeOK, LayoutInv
<1> QED BY <1>1, PackInvariant, PTL

(* The two layout properties, while Layout is one step of the pipeline.     *)
THEOREM PipelineKeepsLayout == PackSpec => [](PanelsDoNotOverlap /\ RowsStaySeparate)
<1>1. PackInv => PanelsDoNotOverlap /\ RowsStaySeparate
    BY DEF PackInv, LayoutInv
<1> QED BY <1>1, PackInvariant, PTL

(* What a check that is none of the validator's failures says of its answer. *)
LEMMA NoFailure ==
    ASSUME NEW uid, NEW allowed \in BOOLEAN, NEW answer \in Answer,
           Judge(uid, allowed, answer).valid,
           Judge(uid, allowed, answer).useful \/ allowed,
           Judge(uid, allowed, answer).finite
    PROVE  /\ answer.kind = "success"
           /\ "nan" \notin answer.samples
           /\ answer.samples \cap {"zero", "number"} # {} \/ allowed
<1>1. /\ answer.kind = "success"
      /\ Finite(values_from_result(answer.samples))
      /\ values_from_result(answer.samples) # {} \/ allowed
    BY Zenon DEF Judge
<1>2. "nan" \notin answer.samples
    BY <1>1 DEF Finite, values_from_result
<1>3. answer.samples \subseteq {"zero", "number", "nan", "text"}
    BY PackAssumption DEF Answer
<1> QED BY <1>1, <1>2, <1>3 DEF values_from_result

(* A run of the validator that passes has an answer with finite values for  *)
(* every expression of every file it read, but for those declared to be     *)
(* allowed none, and it read what the builder builds                        *)
(* (verify-sre-dashboards.py:180-260, docs/sre-observability.md:62).        *)
THEOREM PassMeansDataHolds == PackSpec => []PassMeansData
<1>1. ASSUME PackInv, stage = "passed", NEW f \in DOMAIN files
      PROVE  /\ files[f].dir = "application" => files[f].targets = source
             /\ \A t \in DOMAIN files[f].targets :
                LET before == IF f = 1 THEN 0 ELSE Len(files[1].targets)
                    answer == answers[before + t]
                IN  /\ answer.kind = "success"
                    /\ "nan" \notin answer.samples
                    /\ answer.samples \cap {"zero", "number"} # {} \/ files[f].targets[t]
    <2>1. files[f].dir = "application" => files[f].targets = source
        BY <1>1 DEF PackInv, FilesInv
    <2>2. ASSUME NEW t \in DOMAIN files[f].targets
          PROVE  /\ answers[Before(f) + t].kind = "success"
                 /\ "nan" \notin answers[Before(f) + t].samples
                 /\ \/ answers[Before(f) + t].samples \cap {"zero", "number"} # {}
                    \/ files[f].targets[t]
        <3> DEFINE i == Before(f) + t
                   allowed == files[f].targets[t]
                   check == Judge(files[f].uid, allowed, answers[i])
        <3>1. files[f] \in File
            BY <1>1, Lengths DEF PackInv
        <3>2. files[f].targets \in Seq(BOOLEAN)
            BY <3>1, Zenon DEF File
        <3>3. t \in 1..counts[f] /\ allowed \in BOOLEAN
            BY <1>1, <2>2, <3>2 DEF PackInv, VerdictInv
        <3>4. i \in 1..Len(checks)
            BY <1>1, <3>3, Positions DEF PackInv
        <3>5. i \in DOMAIN checks /\ answers[i] \in Answer
            BY <1>1, <3>4, Lengths DEF PackInv, PackTypes
        <3>6. checks[i] = check
            BY <1>1, <3>3 DEF PackInv, ProgressInv
        <3>7. Failures = {}
            BY <1>1 DEF PackInv, VerdictInv
        <3>8. checks[i].valid /\ checks[i].finite /\ (checks[i].useful \/ checks[i].allowed)
            BY <3>5, <3>7, Zenon DEF Failures, Invalid, Unexplained, Empty, NonFinite
        <3>9. check.allowed = allowed
            BY Zenon DEF Judge
        <3> HIDE DEF i, allowed
        <3>10. check.valid /\ check.finite /\ (check.useful \/ allowed)
            <4> HIDE DEF check
            <4> QED BY <3>6, <3>8, <3>9, Zenon
        <3>11. /\ answers[i].kind = "success" /\ "nan" \notin answers[i].samples
               /\ answers[i].samples \cap {"zero", "number"} # {} \/ allowed
            BY <3>3, <3>5, <3>10, NoFailure, Zenon
        <3> QED BY <3>11, Zenon DEF i, allowed
    <2> QED BY <2>1, <2>2, Zenon DEF Before
<1>2. PackInv => PassMeansData
    BY <1>1, Zenon DEF PassMeansData
<1> QED BY <1>2, PackInvariant, PTL

(* Where the checks of file f are, when no other file has its uid.          *)
LEMMA ChecksOfFile ==
    ASSUME PackInv, stage \in {"passed", "failed"}, NEW f \in DOMAIN files,
           \A g, k \in DOMAIN files : g # k => files[g].uid # files[k].uid
    PROVE  {i \in DOMAIN checks : checks[i].uid = files[f].uid}
             = (Before(f) + 1)..(Before(f) + counts[f])
<1>1. /\ PackTypes /\ FilesInv /\ ProgressInv
      /\ \A g \in DOMAIN files : counts[g] = Len(files[g].targets)
    BY DEF PackInv, VerdictInv
<1>2. ASSUME NEW g \in DOMAIN files
      PROVE  counts[g] \in Nat /\ Before(g) \in Nat /\ g \in {1, 2} /\ Len(files) \in {1, 2}
    <2>1. counts[g] \in Nat /\ Before(g) \in Nat
        BY <1>1, Lengths, Positions
    <2> QED BY <1>1, <2>1, Lengths DEF FilesInv
<1>3. ASSUME NEW g \in DOMAIN files, NEW t \in 1..counts[g]
      PROVE  Before(g) + t \in DOMAIN checks /\ checks[Before(g) + t].uid = files[g].uid
    <2>1. Before(g) + t \in DOMAIN checks
        BY <1>1, <1>3, Lengths, Positions
    <2>2. checks[Before(g) + t]
            = Judge(files[g].uid, files[g].targets[t], answers[Before(g) + t])
        BY <1>1, <1>3 DEF ProgressInv
    <2>3. Judge(files[g].uid, files[g].targets[t], answers[Before(g) + t]).uid = files[g].uid
        BY Zenon DEF Judge
    <2> QED BY <2>1, <2>2, <2>3, Zenon
<1>4. ASSUME NEW i \in DOMAIN checks
      PROVE  \E g \in DOMAIN files : \E t \in 1..counts[g] : i = Before(g) + t
    <2>1. i \in 1..AskedSoFar
        BY <1>1, Lengths DEF ProgressInv
    <2>2. CASE Len(files) = 1
        <3>1. 1 \in DOMAIN files /\ Before(1) = 0 /\ AskedSoFar = counts[1]
            BY <2>2, <1>1, Lengths DEF Before, AskedSoFar
        <3> QED BY <2>1, <3>1, <1>2
    <2>3. CASE Len(files) = 2
        <3>1. /\ 1 \in DOMAIN files /\ 2 \in DOMAIN files
              /\ Before(1) = 0 /\ Before(2) = counts[1]
              /\ AskedSoFar = counts[1] + counts[2]
            BY <2>3, <1>1, Lengths DEF Before, AskedSoFar
        <3>2. CASE i <= counts[1]
            BY <2>1, <3>1, <3>2, <1>2
        <3>3. CASE i > counts[1]
            <4>1. i - counts[1] \in 1..counts[2] /\ i = Before(2) + (i - counts[1])
                BY <2>1, <3>1, <3>3, <1>2
            <4> QED BY <3>1, <4>1
        <3> QED BY <2>1, <3>1, <3>2, <3>3, <1>2
    <2> QED BY <2>2, <2>3, <1>2
<1>5. ASSUME NEW i \in DOMAIN checks, checks[i].uid = files[f].uid
      PROVE  i \in (Before(f) + 1)..(Before(f) + counts[f])
    <2>1. PICK g \in DOMAIN files : \E t \in 1..counts[g] : i = Before(g) + t
        BY <1>4
    <2>2. PICK t \in 1..counts[g] : i = Before(g) + t
        BY <2>1
    <2>3. g = f
        BY <1>3, <1>5, <2>2
    <2> QED BY <1>2, <2>2, <2>3
<1>6. ASSUME NEW i \in (Before(f) + 1)..(Before(f) + counts[f])
      PROVE  i \in DOMAIN checks /\ checks[i].uid = files[f].uid
    <2>1. i - Before(f) \in 1..counts[f] /\ i = Before(f) + (i - Before(f))
        BY <1>2
    <2> QED BY <1>3, <2>1
<1> QED BY <1>5, <1>6

(* The validator's summary: for every dashboard the count kept while its    *)
(* file was read is the number of checks that carry its uid, unless two     *)
(* files share one (verify-sre-dashboards.py:180-260).                      *)
THEOREM ReportAddsUpHolds == PackSpec => []ReportAddsUp
<1>1. ASSUME PackInv, stage \in {"passed", "failed"}, NEW f \in DOMAIN files,
             \A g, k \in DOMAIN files : g # k => files[g].uid # files[k].uid
      PROVE  counts[f] = Cardinality({i \in DOMAIN checks : checks[i].uid = files[f].uid})
    <2>1. {i \in DOMAIN checks : checks[i].uid = files[f].uid}
            = (Before(f) + 1)..(Before(f) + counts[f])
        BY <1>1, ChecksOfFile
    <2>2. Before(f) \in Nat /\ counts[f] \in Nat
        BY <1>1, Lengths, Positions DEF PackInv
    <2> DEFINE a == Before(f) + 1
               b == Before(f) + counts[f]
    <2>3. a \in Int /\ b \in Int /\ counts[f] = (IF a > b THEN 0 ELSE b - a + 1)
        BY <2>2
    <2> HIDE DEF a, b
    <2>4. Cardinality(a..b) = IF a > b THEN 0 ELSE b - a + 1
        BY <2>3, FS_Interval
    <2> QED BY <2>1, <2>3, <2>4 DEF a, b
<1>2. PackInv => ReportAddsUp
    BY <1>1, Zenon DEF ReportAddsUp
<1> QED BY <1>2, PackInvariant, PTL
=============================================================================
