--------------------------- MODULE DashboardLayout ---------------------------
(***************************************************************************)
(* Layout of build-sre-dashboards.py: the calls of row() that make one     *)
(* dashboard, each item of a call placed on Grafana's grid of 24 columns.  *)
(* An item is its width and height; what it draws is left out.             *)
(***************************************************************************)
EXTENDS Integers, Sequences

CONSTANT Dashboards   \* a dashboard is the sequence of the items of its rows

Columns == 24
Item == [w : 1..Columns, h : Nat \ {0}]
Panel == [id : Nat, x : Nat, y : Nat, w : 1..Columns, h : Nat \ {0}, header : BOOLEAN]

ASSUME DashboardsAssumption == Dashboards \subseteq Seq(Seq(Item))

VARIABLES
    rows,        \* the calls of row() still to come
    items,       \* the items of the current call still to be placed
    inside,      \* a call is in progress
    panels, y, panel_id,   \* the fields of Layout
    x, row_height          \* the locals of row()

layoutVars == <<rows, items, inside, panels, y, panel_id, x, row_height>>

LayoutTypeOK ==
    /\ rows \in Seq(Seq(Item))
    /\ items \in Seq(Item)
    /\ inside \in BOOLEAN
    /\ panels \in Seq(Panel)
    /\ y \in Nat /\ panel_id \in Nat /\ x \in Nat /\ row_height \in Nat

Cleared ==   \* Layout.__init__
    /\ items = <<>> /\ inside = FALSE
    /\ panels = <<>> /\ y = 0 /\ panel_id = 1
    /\ x = 0 /\ row_height = 0

LayoutInit == rows \in Dashboards /\ Cleared

-----------------------------------------------------------------------------
At(column, line, item, isHeader) ==
    [id |-> panel_id, x |-> column, y |-> line, w |-> item.w, h |-> item.h, header |-> isHeader]

(* row() puts its header on a line of its own. *)
StartRow ==
    /\ ~inside /\ rows # <<>>
    /\ inside' = TRUE
    /\ items' = Head(rows)
    /\ rows' = Tail(rows)
    /\ panels' = Append(panels, At(0, y, [w |-> Columns, h |-> 1], TRUE))
    /\ panel_id' = panel_id + 1
    /\ y' = y + 1
    /\ x' = 0
    /\ row_height' = 0

(* The item does not fit beside the others: a new line below the highest.   *)
Place(item, column, line, height) ==
    /\ panels' = Append(panels, At(column, line, item, FALSE))
    /\ panel_id' = panel_id + 1
    /\ y' = line
    /\ x' = column + item.w
    /\ row_height' = height
    /\ items' = Tail(items)
    /\ UNCHANGED <<rows, inside>>

Fits(item) == x + item.w <= Columns
Higher_Last(item) == item.h
Higher(item) == IF item.h > row_height THEN item.h ELSE row_height

PlaceBeside ==
    /\ inside /\ items # <<>>
    /\ Fits(Head(items))
    /\ Place(Head(items), x, y, Higher(Head(items)))

PlaceBelow ==
    /\ inside /\ items # <<>>
    /\ ~Fits(Head(items))
    /\ Place(Head(items), 0, y + row_height, Head(items).h)

NextLine_Same == y
NextLine == y + row_height

EndRow ==
    /\ inside /\ items = <<>>
    /\ inside' = FALSE
    /\ y' = NextLine
    /\ UNCHANGED <<rows, items, panels, panel_id, x, row_height>>

LayoutNext == StartRow \/ PlaceBeside \/ PlaceBelow \/ EndRow

LayoutSpec == LayoutInit /\ [][LayoutNext]_layoutVars

LayoutDone == rows = <<>> /\ ~inside

-----------------------------------------------------------------------------
(* Properties. *)

Above(p, q) == p.y + p.h <= q.y
LeftOf(p, q) == p.x + p.w <= q.x
Apart(p, q) == Above(p, q) \/ Above(q, p) \/ LeftOf(p, q) \/ LeftOf(q, p)

(* Whatever the widths and heights of the items, every panel lies inside    *)
(* the grid, no two overlap and no two share an id, which Grafana would     *)
(* otherwise shift or drop (Layout.row, build-sre-dashboards.py:115-144).   *)
PanelsDoNotOverlap ==
    \A i \in DOMAIN panels :
        /\ panels[i].x + panels[i].w <= Columns
        /\ \A j \in DOMAIN panels :
              i < j => Apart(panels[i], panels[j]) /\ panels[i].id # panels[j].id

(* A panel belongs to the row whose header was placed before it: everything *)
(* placed before a header ends above it, and everything after starts below  *)
(* it.                                                                      *)
RowsStaySeparate ==
    \A i, j \in DOMAIN panels :
        i < j /\ (panels[i].header \/ panels[j].header) => Above(panels[i], panels[j])
=============================================================================
