----------------------------- MODULE PltParser -----------------------------
(***************************************************************************)
(* parse_plt of app/services/plt_parser.py: a sequence of HPGL commands    *)
(* becomes a list of shapes.  It gathers pen-down moves in a stroke and    *)
(* turns the stroke into a path whenever the pen, or what it draws, may    *)
(* change.  The other half of the module is the plotter that the commands  *)
(* are written for, which draws each line at once.                         *)
(*                                                                         *)
(* A command comes with its parsed arguments; the chords of arcs are given *)
(* as their end points.  There are three ways to parse: "convert", and the *)
(* stricter "projection" and "strict" (projection_semantics).              *)
(***************************************************************************)
EXTENDS Integers, Sequences, FiniteSets, FiniteSetsExt, SequencesExt

CONSTANTS
    Pens,         \* pen numbers; 0 is no pen
    Steps,        \* bound: points, absolute or relative, of a move
    Widths,       \* arguments of PW
    LineTypes,    \* arguments of LT
    Default,      \* no width, or no line type, was set
    MaxPoints, MaxShapes,   \* PLT_MAX_POINTS, PLT_MAX_PATHS
    MaxCommands   \* PLT_MAX_COMMANDS

ASSUME PltAssumption ==
    /\ {0, 1} \subseteq Pens /\ Pens \subseteq Nat
    /\ Steps \subseteq Int \X Int
    /\ {MaxPoints, MaxShapes, MaxCommands} \subseteq Nat
    /\ Default \notin Widths \cup LineTypes

VARIABLES
    reading,   \* how the file is parsed
    parser,    \* the variables of parse_plt
    plotter    \* what the commands mean

pltVars == <<reading, parser, plotter>>

-----------------------------------------------------------------------------
Origin == <<0, 0>>
Plus(p, d) == <<p[1] + d[1], p[2] + d[2]>>
Projecting == reading # "convert"

Command(op, args) == [op |-> op, args |-> args]

\* What a file may say next.
Moves == {<<>>} \cup {<<d>> : d \in Steps}
Commands ==
    [op : {"PA", "PR", "PU", "PD"}, args : Moves] \cup
    [op : {"AA"}, args : {<<d, e>> : d \in Steps, e \in Steps}] \cup
    [op : {"SP"}, args : {<<>>} \cup {<<n>> : n \in Pens}] \cup
    [op : {"PW"}, args : {<<w>> : w \in Widths} \cup {<<w, n>> : w \in Widths, n \in Pens}] \cup
    [op : {"LT"}, args : {<<t>> : t \in LineTypes}] \cup
    [op : {"CI"}, args : {<<r>> : r \in {0, 1}}] \cup
    [op : {"LB"}, args : {<<"word">>, <<"return">>}] \cup
    [op : {"IN", "VS"}, args : {<<>>}]

-----------------------------------------------------------------------------
(* parse_plt                                                               *)

Reset ==
    [mode |-> "absolute", down |-> FALSE, pen |-> 1, at |-> Origin, return |-> Origin,
     width |-> Default, widths |-> [n \in Pens |-> Default], lt |-> Default,
     stroke |-> <<>>, styles |-> <<>>, shapes |-> <<>>, points |-> 0,
     commands |-> 0, state |-> "parsing"]

Path(p) == [type |-> "path", pen |-> p.pen, points |-> p.stroke, styles |-> p.styles]
Circle(p, r) == [type |-> "circle", pen |-> p.pen, points |-> <<p.at>>, radius |-> r]
Text(p) == [type |-> "text", pen |-> p.pen, points |-> <<p.at>>]

Shaped(p, shape) == [p EXCEPT !.shapes = Append(@, shape)]
Rejected(p) == [p EXCEPT !.state = "rejected"]

\* flush_stroke
Flushed(p) ==
    [(IF Len(p.stroke) > 1 THEN Shaped(p, Path(p)) ELSE p)
        EXCEPT !.stroke = <<>>, !.styles = <<>>]

Inks(p) == p.down /\ (~Projecting \/ p.pen # 0)
Style(p) == [lt |-> p.lt, width |-> p.width]

\* add_absolute_point
Reach(p, q) ==
    LET r == [p EXCEPT !.at = q, !.points = @ + 1, !.return = IF Projecting THEN q ELSE @]
    IN  IF Inks(p)
        THEN [r EXCEPT !.stroke = (IF @ = <<>> THEN <<p.at>> ELSE @) \o <<q>>,
                       !.styles = Append(@, Style(p))]
        ELSE r

\* add_point
AddPoint(p, d) == Reach(p, IF p.mode = "relative" THEN Plus(p.at, d) ELSE d)

\* add_coordinate_pairs
AddPoints(p, ds) == FoldLeft(AddPoint, p, ds)

\* add_arc
AddArc(p, chords) == FoldLeft(Reach, p, chords)

Moding(p, mode, ds) ==
    LET r == AddPoints([p EXCEPT !.mode = mode], ds)
    IN  [r EXCEPT !.return = IF Projecting THEN r.at ELSE @]

\* Seeded bug: the stroke goes on under another pen.
Select_Unflushed(p, args) ==
    LET n == IF args # <<>> THEN args[1] ELSE IF Projecting THEN 0 ELSE 1
    IN  [p EXCEPT !.pen = n, !.width = p.widths[n]]

Select(p, args) ==
    LET n == IF args # <<>> THEN args[1] ELSE IF Projecting THEN 0 ELSE 1
    IN  [Flushed(p) EXCEPT !.pen = n, !.width = p.widths[n]]

Initialize(p) ==
    LET f == Flushed(p)
    IN  [Reset EXCEPT !.shapes = f.shapes, !.points = f.points, !.commands = f.commands]

Widen(p, args) ==
    LET n == IF Len(args) > 1 THEN args[2] ELSE p.pen
    IN  [p EXCEPT !.widths[n] = args[1], !.width = IF n = p.pen THEN args[1] ELSE @]

Encircle(p, r) ==
    LET f == Flushed(p) IN
    IF Projecting /\ p.pen = 0 THEN f
    ELSE IF r > 0 THEN Shaped(f, Circle(f, r))
    ELSE IF reading = "strict" THEN Rejected(f) ELSE f

\* add_projection_label: the label moves the pen by its cells, and back to
\* the carriage return.  The converter writes it where the pen is.
Label(p, word) ==
    IF ~Projecting THEN Shaped(p, Text(p))
    ELSE LET f == Flushed(p)
             g == IF f.pen # 0 THEN Shaped(f, Text(f)) ELSE f
         IN  [g EXCEPT !.at = IF word = "return" THEN f.return ELSE Plus(@, <<1, 0>>)]

\* LT is kept with the segments; projection ignores it otherwise, and a
\* strict reading does not allow it.
Typed(p, t) == IF reading = "strict" THEN Rejected(p) ELSE [p EXCEPT !.lt = t]

Parsed(p, c) ==
    CASE c.op = "PA" -> Moding(p, "absolute", c.args)
      [] c.op = "PR" -> Moding(p, "relative", c.args)
      [] c.op = "PU" -> AddPoints([Flushed(p) EXCEPT !.down = FALSE], c.args)
      [] c.op = "PD" -> AddPoints([p EXCEPT !.down = TRUE], c.args)
      [] c.op = "AA" -> AddArc(p, c.args)
      [] c.op = "SP" -> Select(p, c.args)
      [] c.op = "PW" -> Widen(p, c.args)
      [] c.op = "LT" -> Typed(p, c.args[1])
      [] c.op = "CI" -> Encircle(p, c.args[1])
      [] c.op = "LB" -> Label(p, c.args[1])
      [] c.op = "IN" -> Initialize(p)
      [] c.op = "VS" -> p

\* The caps are looked at with every point and shape.
Capped(p) ==
    IF p.points > MaxPoints \/ Len(p.shapes) > MaxShapes THEN Rejected(p) ELSE p

\* measure_document
Extent(shape) ==
    IF shape.type = "circle"
    THEN {Plus(shape.points[1], <<d, d>>) : d \in {- shape.radius, shape.radius}}
    ELSE ToSet(shape.points)

Box(points) ==
    LET along(i) == {q[i] : q \in points}
    IN  <<Min(along(1)), Min(along(2)), Max(along(1)), Max(along(2))>>

Measured(shapes) == Box(UNION {Extent(s) : s \in ToSet(shapes)})

-----------------------------------------------------------------------------
(* The plotter                                                             *)

PowerOn ==
    [absolute |-> TRUE, down |-> FALSE, pen |-> 1, at |-> Origin, margin |-> Origin,
     widths |-> [n \in Pens |-> Default], lt |-> Default, lines |-> <<>>, marks |-> <<>>]

PenShows(t) == t.pen # 0 \/ ~Projecting

\* The pen goes straight to q, and draws if it is down.
Drawn(t, q) ==
    LET line == [from |-> t.at, to |-> q, pen |-> t.pen,
                 lt |-> t.lt, width |-> t.widths[t.pen]]
    IN  [t EXCEPT !.at = q, !.margin = q,
                  !.lines = IF t.down /\ PenShows(t) THEN Append(@, line) ELSE @]

Travel(t, d) == Drawn(t, IF t.absolute THEN d ELSE Plus(t.at, d))

Travelled(t, ds) == FoldLeft(Travel, t, ds)

DrawnAlong(t, chords) == FoldLeft(Drawn, t, chords)

Marked(t, type, radius) ==
    [t EXCEPT !.marks =
        IF PenShows(t)
        THEN Append(@, [type |-> type, pen |-> t.pen, at |-> t.at, radius |-> radius]) ELSE @]

Plotted(t, c) ==
    CASE c.op = "PA" -> Travelled([t EXCEPT !.absolute = TRUE, !.margin = t.at], c.args)
      [] c.op = "PR" -> Travelled([t EXCEPT !.absolute = FALSE, !.margin = t.at], c.args)
      [] c.op = "PU" -> Travelled([t EXCEPT !.down = FALSE], c.args)
      [] c.op = "PD" -> Travelled([t EXCEPT !.down = TRUE], c.args)
      [] c.op = "AA" -> DrawnAlong(t, c.args)
      [] c.op = "SP" -> [t EXCEPT !.pen = IF c.args # <<>> THEN c.args[1]
                                          ELSE IF Projecting THEN 0 ELSE 1]
      [] c.op = "PW" -> [t EXCEPT !.widths[IF Len(c.args) > 1 THEN c.args[2] ELSE t.pen] = c.args[1]]
      [] c.op = "LT" -> [t EXCEPT !.lt = c.args[1]]
      [] c.op = "CI" -> IF c.args[1] > 0 THEN Marked(t, "circle", c.args[1]) ELSE t
      [] c.op = "LB" -> LET m == Marked(t, "text", 0) IN
                        IF ~Projecting THEN m
                        ELSE [m EXCEPT !.at = IF c.args[1] = "return" THEN t.margin
                                              ELSE Plus(@, <<1, 0>>)]
      [] c.op = "IN" -> [PowerOn EXCEPT !.lines = t.lines, !.marks = t.marks]
      [] c.op = "VS" -> t

-----------------------------------------------------------------------------
Reading == {"convert", "projection", "strict"}

PltInit ==
    /\ reading \in Reading
    /\ parser = Reset
    /\ plotter = PowerOn

ReadCommand(c) ==
    /\ parser.state = "parsing"
    /\ parser.commands < MaxCommands
    /\ parser' = Capped(Parsed([parser EXCEPT !.commands = @ + 1], c))
    /\ plotter' = Plotted(plotter, c)
    /\ UNCHANGED reading

TooManyCommands ==
    /\ parser.state = "parsing"
    /\ parser.commands = MaxCommands
    /\ parser' = Rejected(parser)
    /\ UNCHANGED <<reading, plotter>>

\* A path that was split has its inner points twice.
Outlined(p) ==
    MapThenSumSet(LAMBDA i : IF p.shapes[i].type = "path" THEN Len(p.shapes[i].points) ELSE 0,
                  DOMAIN p.shapes)

\* The end of the file; one that draws nothing is refused.
ReadEnd ==
    /\ parser.state = "parsing"
    /\ LET p == Capped(Flushed(parser)) IN
       parser' = IF \/ p.shapes = <<>> \/ p.state = "rejected"
                    \/ Projecting /\ Outlined(p) > MaxPoints
                 THEN Rejected(p) ELSE [p EXCEPT !.state = "parsed"]
    /\ UNCHANGED <<reading, plotter>>

PltNext == (\E c \in Commands : ReadCommand(c)) \/ TooManyCommands \/ ReadEnd

PltSpec == PltInit /\ [][PltNext]_pltVars

-----------------------------------------------------------------------------
(* Properties                                                              *)

LinesOf(shape) ==
    IF shape.type # "path" THEN <<>>
    ELSE [i \in 1..Len(shape.styles) |->
            [from |-> shape.points[i], to |-> shape.points[i + 1], pen |-> shape.pen,
             lt |-> shape.styles[i].lt, width |-> shape.styles[i].width]]

AllLines(shapes) == FlattenSeq([i \in DOMAIN shapes |-> LinesOf(shapes[i])])

MarksOf(shape) ==
    IF shape.type = "path" THEN <<>>
    ELSE <<[type |-> shape.type, pen |-> shape.pen, at |-> shape.points[1],
            radius |-> IF shape.type = "circle" THEN shape.radius ELSE 0]>>

AllMarks(shapes) == FlattenSeq([i \in DOMAIN shapes |-> MarksOf(shapes[i])])

\* What lines and marks take up.
Ends(line) == {line.from, line.to}
Around(mark) == {Plus(mark.at, <<d, d>>) : d \in {- mark.radius, mark.radius}}

InkExtent(lines, marks) ==
    (UNION {Ends(l) : l \in ToSet(lines)}) \cup (UNION {Around(m) : m \in ToSet(marks)})

\* The shapes of a file that is accepted are what a plotter draws from it:
\* the same lines in the same order, each with the pen, width and line type
\* that were set when it was drawn, the same circles and labels, and the size
\* of the document is the size of the ink.
ShapesAreTheInk ==
    parser.state = "parsed" =>
        /\ AllLines(parser.shapes) = plotter.lines
        /\ AllMarks(parser.shapes) = plotter.marks
        /\ Measured(parser.shapes) = Box(InkExtent(plotter.lines, plotter.marks))

=============================================================================
