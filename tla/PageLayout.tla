----------------------------- MODULE PageLayout -----------------------------
(***************************************************************************)
(* build_layout of app/projection_layout.py: the pages a user has selected *)
(* are put in the cells of a grid, each without its margins, and get their *)
(* place on the sheet.  A layout is asked for by hand or comes from an     *)
(* analysis (SeamLayout).  Lengths are whole units.                        *)
(***************************************************************************)
EXTENDS Integers, Sequences, FiniteSets, FiniteSetsExt, SequencesExt

CONSTANTS MaxGrid   \* rows or columns at most; MAX_GRID_SIZE

ASSUME GridAssumption == MaxGrid \in Nat \ {0}

Orders == {"row", "column"}
Blank == -1
NoFrames == <<>>
NoLayout == [rows |-> 0, columns |-> 0, placements |-> {}, width |-> 0, height |-> 0]

\* normalize_pdf_page_indexes: the pages in the order of the document.
Selection(included) ==
    [k \in 1..Cardinality(included) |->
        CHOOSE i \in included : Cardinality({j \in included : j < i}) = k - 1]

Shown(slots) == {k \in DOMAIN slots : slots[k] # Blank}

\* Seeded bug: a column is taken to be as long as a row.
CellOf_Columns(rows, columns, order, k) ==
    IF order = "row" THEN <<(k - 1) \div columns, (k - 1) % columns>>
    ELSE <<(k - 1) % columns, (k - 1) \div columns>>

\* The cell of the k-th slot, counted from <<0, 0>>.
CellOf(rows, columns, order, k) ==
    IF order = "row" THEN <<(k - 1) \div columns, (k - 1) % columns>>
    ELSE <<(k - 1) % rows, (k - 1) \div rows>>

\* What is shown of a page: its own frame, or all but the margins.
Visible(page, frame, crop) ==
    IF frame # NoFrames THEN <<frame.width, frame.height>>
    ELSE <<page.width - crop.left - crop.right, page.height - crop.top - crop.bottom>>

\* Slots may be left out: then the pages fill the grid in their order.
Filled(rows, columns, slots, indexes) ==
    IF slots # <<>> THEN slots
    ELSE indexes \o [k \in 1..(rows * columns - Len(indexes)) |-> Blank]

\* The refusals of build_layout.
Acceptable(pages, ask, slots, indexes) ==
    /\ {ask.rows, ask.columns} \subseteq 1..MaxGrid
    /\ ask.rows * ask.columns >= Len(indexes)
    /\ DOMAIN slots = 1..ask.rows * ask.columns
    /\ {slots[k] : k \in Shown(slots)} = ToSet(indexes)
    /\ Cardinality(Shown(slots)) = Len(indexes)
    /\ \A i \in ToSet(indexes) :
          LET size == Visible(pages[i], ask.frames, ask.crop) IN size[1] >= 1 /\ size[2] >= 1

\* The sheet; an empty row or column keeps the size of the largest page.
BuildLayout(pages, ask, included) ==
    LET indexes == Selection(included)
        slots == Filled(ask.rows, ask.columns, ask.slots, indexes)
        size(i) == Visible(pages[i], ask.frames, ask.crop)
        cells == [i \in included |->
                    CellOf(ask.rows, ask.columns, ask.order, CHOOSE k \in DOMAIN slots : slots[k] = i)]
        extent(axis, line) ==
            LET there == {i \in included : cells[i][3 - axis] = line}
            IN  Max({size(i)[axis] : i \in IF there = {} THEN included ELSE there})
        before(axis, line) == SumFunction([l \in 0..line - 1 |-> extent(axis, l)])
    IN  IF ~Acceptable(pages, ask, slots, indexes) THEN NoLayout
        ELSE [rows |-> ask.rows, columns |-> ask.columns,
              width |-> before(1, ask.columns), height |-> before(2, ask.rows),
              placements |-> {[page |-> i,
                               x |-> before(1, cells[i][2]), y |-> before(2, cells[i][1]),
                               width |-> size(i)[1], height |-> size(i)[2]] : i \in included}]

=============================================================================
