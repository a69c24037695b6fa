----------------------------- MODULE SeamLayout -----------------------------
(***************************************************************************)
(* How the tiles of a large sheet find their places again: the analysis of *)
(* analyze_source in app/projection_layout.py, with the seam search of     *)
(* services/pdf_layout_optimizer.py and the printed page numbers of        *)
(* app/projection_numbered_layout.py, and the layout that is built from    *)
(* its suggestion (PageLayout).                                            *)
(*                                                                         *)
(* The input is a sheet that was cut up: lines cross its inner seams, none *)
(* its border, and the lines that cross an edge are all that is known of a *)
(* page.  Scores are counted in units of 1 / Unit, what the code rounds to *)
(* four decimals in ten-thousandths.                                       *)
(***************************************************************************)
EXTENDS PageLayout

CONSTANTS
    Sheets,      \* bound: grids the sheets are cut into
    MaxEmpty,    \* bound: cells of a sheet that are not printed
    Marks,       \* bound: where lines cross a seam, sorted
    Printings,   \* bound: how the tiles are printed, see Documents
    Unit,        \* a common multiple of the sums of two lengths of Marks
    Tolerance,   \* MATCH_TOLERANCE_PT
    Crops,       \* the margins that are tried
    Shortlist,   \* how many of them get the full search
    MaxBlank,    \* PDF_LAYOUT_OPTIMIZER_MAX_BLANK_CELLS
    SmallBeam, LargeBeam   \* how many arrangements the search keeps

ASSUME SeamAssumption ==
    /\ Crops \subseteq Nat /\ 0 \in Crops
    /\ {MaxEmpty, MaxBlank, Tolerance} \subseteq Nat
    /\ {Unit, Shortlist, SmallBeam, LargeBeam} \subseteq Nat \ {0}
    /\ Sheets \subseteq (Nat \ {0}) \X (Nat \ {0})
    /\ Printings \subseteq [kind : {"plain", "numbered", "swapped", "embedded"}, crop : Crops,
                            cover : BOOLEAN, withCover : BOOLEAN]

VARIABLES
    document,
    edges,        \* what crosses the edges at each margin, and how it matches
    suggestion,
    layout

seamVars == <<document, edges, suggestion, layout>>

-----------------------------------------------------------------------------
(* The sheet and its tiles                                                 *)

Cells(rows, columns) == (0..rows - 1) \X (0..columns - 1)

\* Across the right and the bottom edge.
Beyond(cell, side) == IF side = "right" THEN <<cell[1], cell[2] + 1>> ELSE <<cell[1] + 1, cell[2]>>

Seams(cells) == {s \in cells \X {"right", "bottom"} : Beyond(s[1], s[2]) \in cells}

\* No row and no column of a sheet is empty.
SheetsOf(grid, order) ==
    LET all == Cells(grid[1], grid[2])
        spread(cells) == \A c \in all : /\ \E e \in cells : e[1] = c[1]
                                        /\ \E e \in cells : e[2] = c[2]
        printed == {cells \in {all \ empty : empty \in UNION {kSubset(n, all) : n \in 0..MaxEmpty}} :
                      spread(cells)}
    IN  UNION {[rows : {grid[1]}, columns : {grid[2]}, order : {order}, cells : {cells},
                marks : [Seams(cells) -> Marks]] : cells \in printed}

\* A sheet and its printing: the kind (plain, numbered, swapped with the
\* numbers of rows and columns exchanged, or embedded with the layout in the
\* file), the margin around each tile (crop), whether there is a cover and
\* whether it takes part.
Documents ==
    [sheet : UNION {SheetsOf(grid, order) : grid \in Sheets, order \in Orders},
     printing : Printings]

\* Tiles are printed by rows or by columns.
Ordinal(sheet, cell) ==
    LET key(c) == IF sheet.order = "row" THEN c[1] * sheet.columns + c[2]
                  ELSE c[2] * sheet.rows + c[1]
    IN  Cardinality({c \in sheet.cells : key(c) < key(cell)}) + 1

Tiles(d) == Cardinality(d.sheet.cells)
TileCell(d) == [n \in 1..Tiles(d) |-> CHOOSE c \in d.sheet.cells : Ordinal(d.sheet, c) = n]

\* Pages are numbered from zero; a cover is another size.
Cover(d) == IF d.printing.cover THEN 1 ELSE 0
PageSizes(d) ==
    [i \in 0..Tiles(d) + Cover(d) - 1 |->
        IF i < Cover(d) THEN [width |-> 9, height |-> 8] ELSE [width |-> 6, height |-> 5]]

\* Which of its pages the user has selected, in their order.
Included(d) == {i \in DOMAIN PageSizes(d) : d.printing.withCover \/ i >= Cover(d)}
Selected(d) == Selection(Included(d))

\* At another margin than the tiles have nothing is drawn.
Edge(d, cell, side, crop) ==
    LET sheet == d.sheet
        seam == CASE side = "left" -> <<<<cell[1], cell[2] - 1>>, "right">>
                  [] side = "top" -> <<<<cell[1] - 1, cell[2]>>, "bottom">>
                  [] OTHER -> <<cell, side>>
    IN  IF seam \in Seams(sheet.cells) /\ crop = d.printing.crop
        THEN sheet.marks[seam] ELSE <<>>

Sides == {"left", "right", "top", "bottom"}
Opposite(side) == IF side = "right" THEN "left" ELSE "top"

Signatures(d, crop) ==
    LET at == TileCell(d)
    IN  [n \in 1..Tiles(d) |-> [side \in Sides |-> Edge(d, at[n], side, crop)]]

-----------------------------------------------------------------------------
(* Matching two edges                                                      *)

None == -1

\* One line after the other, each with at most one partner.
Matches(x, y) ==
    LET from[i \in 1..Len(x) + 1, j \in 1..Len(y) + 1] ==
            IF i > Len(x) \/ j > Len(y) THEN 0
            ELSE IF x[i] - y[j] \in - Tolerance .. Tolerance THEN 1 + from[i + 1, j + 1]
            ELSE IF x[i] < y[j] THEN from[i + 1, j] ELSE from[i, j + 1]
    IN  from[1, 1]

\* _match_score: two edges that nothing crosses say nothing.
MatchScore(x, y) ==
    IF x = <<>> /\ y = <<>> THEN None
    ELSE (2 * Unit * Matches(x, y)) \div (Len(x) + Len(y))

\* The scores of all pairs of pages, by the side of the first.
Scores(signatures) ==
    [p \in DOMAIN signatures |-> [q \in DOMAIN signatures |-> [side \in {"right", "bottom"} |->
        MatchScore(signatures[p][side], signatures[q][Opposite(side)])]]]

-----------------------------------------------------------------------------
(* One arrangement                                                         *)

\* _page_at
Slot(l, cell) ==
    IF l.order = "column" THEN cell[2] * l.rows + cell[1] + 1 ELSE cell[1] * l.columns + cell[2] + 1

PageAt(l, cell) == l.slots[Slot(l, cell)]

\* _layout_adjacencies
Adjacent(l) ==
    {[page |-> PageAt(l, s[1]), next |-> PageAt(l, Beyond(s[1], s[2])), side |-> s[2]] :
        s \in Seams(Cells(l.rows, l.columns))}

Ratio(sum, n) == IF n = 0 THEN 0 ELSE (20000 * sum + Unit * n) \div (2 * Unit * n)

\* _evaluate_layout
Evaluated(l, score) ==
    LET pairs == {a \in Adjacent(l) : a.page # Blank /\ a.next # Blank
                                      /\ score[a.page][a.next][a.side] # None}
        value(a) == score[a.page][a.next][a.side]
    IN  [arrangement |-> l,
         evidence |-> Cardinality(pairs),
         matched |-> Cardinality({a \in pairs : value(a) > 0}),
         perfect |-> Cardinality({a \in pairs : value(a) = Unit}),
         mean |-> Ratio(MapThenSumSet(value, pairs), Cardinality(pairs))]

Blanks(l) == Len(l.slots) - Cardinality(Shown(l.slots))
TotalScore(r) == r.mean * r.evidence
Distance(a, b) == IF a < b THEN b - a ELSE a - b

\* _rank_result, compared from the left.
Rank(r) ==
    LET l == r.arrangement IN
    <<TotalScore(r), r.perfect, r.matched, r.matched - r.evidence, r.mean, r.evidence,
      - Blanks(l), - Distance(l.rows, l.columns)>>

Exceeds(x, y) == \E k \in DOMAIN x : x[k] > y[k] /\ \A i \in 1..k - 1 : x[i] = y[i]
Best(results) ==
    LET ranked == {<<r, Rank(r)>> : r \in results}
    IN  {x[1] : x \in {y \in ranked : ~\E z \in ranked : Exceeds(z[2], y[2])}}

-----------------------------------------------------------------------------
(* choose_best_layout                                                      *)

Arrangement(grid, order, slots) ==
    [rows |-> grid[1], columns |-> grid[2], order |-> order, slots |-> slots]

\* _candidate_grids
CandidateGrids(pages) ==
    UNION {{<<rows, columns>> : columns \in
              {c \in 1..Min({MaxGrid, (pages + MaxBlank) \div rows}) : rows * c >= pages}} :
           rows \in 1..Min({MaxGrid, pages + MaxBlank})}

\* Every grid, by rows and by columns, its blanks at the end.
Candidates(pages, score) ==
    {Evaluated(Arrangement(g, o, Filled(g[1], g[2], <<>>, [n \in 1..pages |-> n])), score) :
        g \in CandidateGrids(pages), o \in Orders}

\* The page that may come to lie across the row: nearer by the blanks that
\* are put between.
CrossBound(l, pages, score, p) ==
    LET span == IF l.order = "row" THEN l.columns ELSE l.rows
        side == IF l.order = "row" THEN "bottom" ELSE "right"
        near == {q \in p + 1..pages : q \in p + span - Blanks(l)..p + span}
    IN  Max({0} \cup {score[p][q][side] : q \in near})

\* _blank_search_upper_bound
UpperBound(l, pages, score) ==
    LET side == IF l.order = "row" THEN "right" ELSE "bottom"
        along(p) == IF p < pages THEN Max({0, score[p][p + 1][side]}) ELSE 0
    IN  MapThenSumSet(LAMBDA p : along(p) + CrossBound(l, pages, score, p), 1..pages)

\* _minimum_relevant_total: it cannot win, nor compete with the best so far.
Irrelevant(l, pages, score, bestTotal) ==
    100000 * UpperBound(l, pages, score) < Unit * (9 * bestTotal - 3610 * pages - 20)

\* _optimize_blank_positions: one blank after the other, the others at the
\* end; the best arrangements are kept, and all that are as good as the last.
Widened(sequences) ==
    UNION {{InsertAt(s, k, Blank) : k \in 1..Len(s) + 1} : s \in sequences}

Kept(l, pages, score, sequences) ==
    LET rank(s) == Rank(Evaluated([l EXCEPT !.slots = Filled(l.rows, l.columns, <<>>, s)], score))
        ranked == {<<s, rank(s)>> : s \in sequences}
        beam == IF Blanks(l) <= 2 THEN LargeBeam ELSE SmallBeam
    IN  IF Cardinality(sequences) <= beam THEN sequences
        ELSE {x[1] : x \in {y \in ranked : Cardinality({z \in ranked : Exceeds(z[2], y[2])}) < beam}}

Placings(l, pages, score) ==
    FoldLeft(LAMBDA sequences, k : Kept(l, pages, score, Widened(sequences)),
             {[n \in 1..pages |-> n]}, [k \in 1..Blanks(l) |-> k])

Optimized(l, pages, score) ==
    Best({Evaluated([l EXCEPT !.slots = s], score) : s \in Placings(l, pages, score)})

\* Of equally good placings the first that was tried, with the earlier blank.
Earlier(s, t) ==
    \E k \in DOMAIN s : s[k] = Blank /\ t[k] # Blank /\ \A i \in 1..k - 1 : s[i] = t[i]
First(results) ==
    CHOOSE r \in results : ~\E o \in results : Earlier(o.arrangement.slots, r.arrangement.slots)

\* _optimize_candidates: from the best to the worst, and what is found in one
\* grid makes more of the following ones irrelevant.
Refined(candidates, pages, score) ==
    LET key(r) == LET l == r.arrangement
                  IN  Rank(r) \o <<- l.rows, - l.columns, IF l.order = "row" THEN 1 ELSE 0>>
        keyed == {<<r, key(r)>> : r \in candidates}
        nth(k) == CHOOSE x \in keyed : Cardinality({y \in keyed : Exceeds(y[2], x[2])}) = k - 1
        refine(r, bestTotal) ==
            IF Blanks(r.arrangement) = 0 \/ Irrelevant(r.arrangement, pages, score, bestTotal) THEN r
            ELSE First(Optimized(r.arrangement, pages, score))
        next(sofar, k) ==
            LET r == refine(nth(k)[1], sofar.best)
            IN  [best |-> Max({sofar.best, TotalScore(r)}), results |-> sofar.results \cup {r}]
    IN  FoldLeft(next, [best |-> Max({TotalScore(r) : r \in candidates}), results |-> {}],
                 [k \in 1..Cardinality(candidates) |-> k]).results

-----------------------------------------------------------------------------
(* How sure it is                                                          *)

\* _layout_identity
Picture(l) == [cell \in Cells(l.rows, l.columns) |-> PageAt(l, cell)]

\* _has_competing_layout: another picture is matched as well, and needs no
\* more blanks.
Competes(r, best) ==
    /\ Picture(r.arrangement) # Picture(best.arrangement)
    /\ Blanks(r.arrangement) <= Blanks(best.arrangement)
    /\ r.evidence >= 4 /\ 10 * r.evidence >= 9 * best.evidence
    /\ 10 * r.matched >= 9 * best.matched
    /\ r.mean >= best.mean - 200
    /\ 100 * r.matched * best.evidence >= (100 * best.matched - 2 * best.evidence) * r.evidence
    /\ 100 * r.perfect * best.evidence >= (100 * best.perfect - 2 * best.evidence) * r.evidence

Ambiguous(results, best) == best.evidence >= 4 /\ \E r \in results : Competes(r, best)

\* _strong_unique_seam
StrongSeam(p, q, side, signatures, score) ==
    LET value == score[p][q][side] IN
    /\ Len(signatures[p][side]) >= 2 /\ Len(signatures[q][Opposite(side)]) >= 2
    /\ 10 * value >= 9 * Unit
    /\ \A k \in DOMAIN signatures \ {p, q} :
          10 * Max({score[p][k][side], score[k][q][side]}) <= 10 * value - Unit

\* _blank_seam_conflicts: two pages that belong together with nothing but
\* blanks between them.
SeamConflict(l, signatures, score) ==
    \E c, d \in Cells(l.rows, l.columns), side \in {"right", "bottom"} :
        LET axis == IF side = "right" THEN 2 ELSE 1
            between == {e \in Cells(l.rows, l.columns) :
                          e[3 - axis] = c[3 - axis] /\ e[axis] \in c[axis] + 1..d[axis] - 1}
        IN  /\ c[3 - axis] = d[3 - axis] /\ between # {}
            /\ PageAt(l, c) # Blank /\ PageAt(l, d) # Blank
            /\ \A e \in between : PageAt(l, e) = Blank
            /\ StrongSeam(PageAt(l, c), PageAt(l, d), side, signatures, score)

Confidence(r, pages, doubtful) ==
    LET enough == Max({6, Min({20, pages \div 2})}) IN
    CASE doubtful -> "low"
      [] r.evidence >= enough /\ r.mean >= 9200 /\ 10 * r.matched >= 9 * r.evidence
         /\ 10 * r.perfect >= 7 * r.evidence -> "high"
      [] r.evidence >= 4 /\ r.mean >= 7500 /\ 4 * r.matched >= 3 * r.evidence -> "medium"
      [] OTHER -> "low"

\* choose_best_layout, with or without the search for blanks.
ChosenLayout(margin, searching) ==
    LET pages == Len(margin.signatures)
        score == margin.score
        base == Candidates(pages, score)
        results == IF searching THEN base \cup Refined(base, pages, score) ELSE base
    IN  {[result |-> best,
          confidence |-> Confidence(best, pages, \/ Ambiguous(results, best)
                                       \/ SeamConflict(best.arrangement, margin.signatures, score))] :
         best \in Best(results)}

-----------------------------------------------------------------------------
(* The analysis                                                            *)

NoEdges == <<>>
NoSuggestion == [confidence |-> "none", ask |-> <<>>]
Insufficient == [confidence |-> "low", ask |-> <<>>]

Margins(crop) == [left |-> crop, right |-> crop, top |-> crop, bottom |-> crop]

\* Seeded bug: the pages that were left out are forgotten.
PagesOf_Places(slots, indexes) ==
    [k \in DOMAIN slots |-> IF slots[k] = Blank THEN Blank ELSE slots[k] - 1]

\* The places among the selected pages become pages of the document.
PagesOf(slots, indexes) ==
    [k \in DOMAIN slots |-> IF slots[k] = Blank THEN Blank ELSE indexes[slots[k]]]

Suggest(l, confidence, crop, frames, d) ==
    [confidence |-> confidence,
     ask |-> [rows |-> l.rows, columns |-> l.columns, order |-> l.order,
              slots |-> PagesOf(l.slots, Selected(d)), crop |-> Margins(crop), frames |-> frames]]

\* Pages of another size cannot be compared.
Uniform(d) == \A i, j \in Included(d) : PageSizes(d)[i] = PageSizes(d)[j]

\* optimize_pdf_layout: every margin is tried without blanks, the best ones
\* with them; of equally good margins the smallest.
SeamSuggestions(d) ==
    LET found(crops, searching) ==
            UNION {{[crop |-> c, choice |-> x, rank |-> Append(Rank(x.result), - c)] :
                        x \in ChosenLayout(edges[c], searching)} : c \in crops}
        leading(finds, n) ==
            {f \in finds : Cardinality({e.crop : e \in {o \in finds : Exceeds(o.rank, f.rank)}}) < n}
        tried == {f.crop : f \in leading(found(Crops, FALSE), Shortlist)}
    IN  {Suggest(f.choice.result.arrangement, f.choice.confidence, f.crop, NoFrames, d) :
            f \in leading(found(tried, TRUE), 1)}

\* numbered_suggestion: the numbers give the places,
NumberedLayout(d) ==
    LET at == TileCell(d)
        place == [n \in 1..Tiles(d) |->
                    IF d.printing.kind = "swapped" THEN <<at[n][2], at[n][1]>> ELSE at[n]]
        rows == Max({place[n][1] : n \in DOMAIN place}) + 1
        columns == Max({place[n][2] : n \in DOMAIN place}) + 1
        slots == [k \in 1..rows * columns |->
                    LET cell == <<(k - 1) \div columns, (k - 1) % columns>>
                    IN  IF cell \in ToSet(place) THEN CHOOSE n \in DOMAIN place : place[n] = cell
                        ELSE Blank]
    IN  Arrangement(<<rows, columns>>, "row", slots)

\* and the seams have to agree with them.
NumberedSuggestion(d) ==
    LET l == NumberedLayout(d)
        margin == edges[d.printing.crop]
        frame == [width |-> 6 - 2 * d.printing.crop, height |-> 5 - 2 * d.printing.crop]
    IN  Suggest(l, Confidence(Evaluated(l, margin.score), Tiles(d),
                              SeamConflict(l, margin.signatures, margin.score)),
                0, frame, d)

Numbered(d) ==
    /\ d.printing.kind \in {"numbered", "swapped"}
    /\ Tiles(d) >= 4 /\ Uniform(d)
    /\ d.sheet.rows * d.sheet.columns - Tiles(d) <= MaxBlank

\* The layout that came with the file, without the pages that are left out.
EmbeddedSuggestion(d) ==
    LET sheet == d.sheet
        l == [Arrangement(<<sheet.rows, sheet.columns>>, sheet.order, <<>>) EXCEPT !.slots =
                [k \in 1..sheet.rows * sheet.columns |->
                    LET cell == CellOf(sheet.rows, sheet.columns, sheet.order, k)
                    IN  IF cell \in sheet.cells THEN Ordinal(sheet, cell) ELSE Blank]]
    IN  Suggest(l, "high", d.printing.crop, NoFrames, d)

Suggestions(d) ==
    IF d.printing.kind = "embedded" THEN {EmbeddedSuggestion(d)}
    ELSE IF Numbered(d) THEN {NumberedSuggestion(d)}
    ELSE IF ~Uniform(d) THEN {Insufficient}
    ELSE SeamSuggestions(d)

SeamInit ==
    /\ document \in Documents
    /\ edges = NoEdges
    /\ suggestion = NoSuggestion
    /\ layout = NoLayout

\* build_edge_signatures for every margin.
ReadEdges ==
    /\ edges = NoEdges
    /\ edges' = [crop \in Crops |->
                    LET signatures == Signatures(document, crop)
                    IN  [signatures |-> signatures, score |-> Scores(signatures)]]
    /\ UNCHANGED <<document, suggestion, layout>>

Analyse ==
    /\ edges # NoEdges
    /\ suggestion = NoSuggestion
    /\ suggestion' \in Suggestions(document)
    /\ UNCHANGED <<document, edges, layout>>

\* Only what is reliable becomes a layout.
ApplySuggestion ==
    /\ suggestion.confidence \in {"medium", "high"}
    /\ layout = NoLayout
    /\ layout' = BuildLayout(PageSizes(document), suggestion.ask, Included(document))
    /\ UNCHANGED <<document, edges, suggestion>>

\* By hand; the pages follow one another.
ApplyManual(rows, columns, order, crop) ==
    /\ edges = NoEdges /\ layout = NoLayout
    /\ layout' = BuildLayout(PageSizes(document),
                    [rows |-> rows, columns |-> columns, order |-> order, slots |-> <<>>,
                     crop |-> Margins(crop), frames |-> NoFrames], Included(document))
    /\ UNCHANGED <<document, edges, suggestion>>

SeamNext ==
    \/ ReadEdges
    \/ Analyse
    \/ ApplySuggestion
    \/ \E grid \in Sheets, order \in Orders, crop \in Crops :
          ApplyManual(grid[1], grid[2], order, crop)

SeamSpec == SeamInit /\ [][SeamNext]_seamVars

-----------------------------------------------------------------------------
(* Properties                                                              *)

\* The shape of the state; what is applied was suggested with a grid.
SeamTypeOK ==
    /\ document.printing \in Printings /\ document.sheet.cells # {}
    /\ suggestion.confidence \in {"none", "low", "medium", "high"}
    /\ suggestion.confidence \in {"medium", "high"} => suggestion.ask # <<>>

Reliable == suggestion.confidence \in {"medium", "high"}

\* When lines cross every inner seam of the sheet that was cut up, a
\* suggestion that counts as reliable is accepted, and the layout it becomes
\* puts every tile where it was: the seams that were scored, the numbers that
\* were read, the slots and the places on the sheet are all the same cells.
ReliableIsRight ==
    Reliable /\ (\A seam \in Seams(document.sheet.cells) : document.sheet.marks[seam] # <<>>) =>
        LET built == BuildLayout(PageSizes(document), suggestion.ask, Included(document))
        IN  /\ built # NoLayout
            /\ \A p \in built.placements :
                  LET cell == TileCell(document)[p.page - Cover(document) + 1]
                  IN  p.x = cell[2] * p.width /\ p.y = cell[1] * p.height

Apart(p, q) ==
    \/ p.x + p.width <= q.x \/ q.x + q.width <= p.x
    \/ p.y + p.height <= q.y \/ q.y + q.height <= p.y

\* A layout shows every page that takes part exactly once, inside the sheet
\* and not under another, whatever the sizes of the pages are.
SheetsAreSound ==
    layout # NoLayout =>
        /\ {p.page : p \in layout.placements} = Included(document)
        /\ \A p, q \in layout.placements : p # q => p.page # q.page /\ Apart(p, q)
        /\ \A p \in layout.placements :
              p.x + p.width <= layout.width /\ p.y + p.height <= layout.height

\* What the search for a competing layout is said to see: that the seams
\* match as well with the blanks in other cells of the same grid.
CompetitorsAreSeen ==
    Reliable =>
        LET ask == suggestion.ask
            local == [k \in DOMAIN ask.slots |->
                        IF ask.slots[k] = Blank THEN Blank ELSE ask.slots[k] - Cover(document) + 1]
            l == Arrangement(<<ask.rows, ask.columns>>, ask.order, local)
            score == edges[ask.crop.left].score
            placed(blanks) ==
                [k \in DOMAIN local |-> IF k \in blanks THEN Blank
                                        ELSE k - Cardinality({b \in blanks : b < k})]
        IN  \A blanks \in kSubset(Blanks(l), DOMAIN local) :
               ~Competes(Evaluated([l EXCEPT !.slots = placed(blanks)], score), Evaluated(l, score))

=============================================================================
