-------------------------- MODULE SubmissionsProofs --------------------------
(***************************************************************************)
(* Proofs about PltParser, PageLayout and SeamLayout, and about the four   *)
(* components of MCSubmissions together.                                   *)
(*                                                                         *)
(* Sequences first: the flattening of a sequence of sequences, and folds   *)
(* over one or two points.  Then the parser: for files of any length, any  *)
(* pens, points, widths and line types, the shapes of an accepted file are *)
(* the ink of a plotter.  Each command keeps parser and plotter in         *)
(* agreement; what the parser has not made a shape yet is a stroke that    *)
(* ends where the pen is.                                                  *)
(*                                                                         *)
(* Then sheets: a layout that build_layout does not refuse is sound, for   *)
(* pages of any size, grids of any number of rows and columns and any      *)
(* slots, whoever has asked for it; and when the places of the tiles are   *)
(* given, by printed numbers or with the file, it is the sheet that was    *)
(* cut up.                                                                 *)
(*                                                                         *)
(* The last part is the composition: a behaviour of MCSubmissions is one   *)
(* of each component, so what is proved of them holds of it.               *)
(***************************************************************************)
EXTENDS MCSubmissions, JobAdmissionProofs, ProjectionScenesProofs

-----------------------------------------------------------------------------
(* Sequences of sequences                                                  *)

\* The function that FlattenSeq defines.
Joined(ss) ==
    CHOOSE flatten : flatten =
        [i \in 1..Len(ss) |-> IF i = 1 THEN ss[i] ELSE flatten[i - 1] \o ss[i]]

LEMMA FlattenIsJoined ==
    \A ss : FlattenSeq(ss) = IF Len(ss) = 0 THEN ss ELSE Joined(ss)[Len(ss)]
BY DEF FlattenSeq, Joined

\* It exists, and joins sequences over T to sequences over T.
LEMMA JoinedExists ==
    ASSUME NEW T, NEW ss \in Seq(Seq(T))
    PROVE  /\ Joined(ss) \in [1..Len(ss) -> Seq(T)]
           /\ \A i \in 1..Len(ss) :
                 Joined(ss)[i] = IF i = 1 THEN ss[i] ELSE Joined(ss)[i - 1] \o ss[i]
<1> DEFINE Part(f, i) == IF i = 1 THEN ss[i] ELSE f[i - 1] \o ss[i]
           Fills(f, n) == f \in [1..n -> Seq(T)] /\ \A i \in 1..n : f[i] = Part(f, i)
           Missing == {n \in 0..Len(ss) : ~ \E f : Fills(f, n)}
<1>1. Len(ss) \in Nat /\ \A i \in 1..Len(ss) : ss[i] \in Seq(T)
  OBVIOUS
<1>2. Missing = {}
  <2> SUFFICES ASSUME Missing # {} PROVE FALSE
    OBVIOUS
  <2>0. \A n \in Missing : n \in Nat
    BY <1>1
  <2>1. PICK n \in Missing : \A m \in Missing : n <= m
    <3> HIDE DEF Missing
    <3> QED BY <2>0, LeastNatural
  <2>2. n \in Nat /\ n <= Len(ss) /\ ~ \E f : Fills(f, n)
    <3> HIDE DEF Fills
    <3>1. n \in 0..Len(ss) /\ ~ \E f : Fills(f, n)
      OBVIOUS
    <3> QED BY <1>1, <3>1
  <2>3. n # 0
    <3>1. Fills([i \in 1..0 |-> <<>>], 0)
      OBVIOUS
    <3> HIDE DEF Fills
    <3> QED BY <2>2, <3>1
  <2>4. n - 1 \in 0..Len(ss) /\ n - 1 \in Nat /\ ~ (n <= n - 1)
    BY <1>1, <2>2, <2>3
  <2>5. PICK f : Fills(f, n - 1)
    BY <2>1, <2>4
  <2> DEFINE g == [i \in 1..n |-> IF i < n THEN f[i] ELSE Part(f, n)]
  <2>6. Part(f, n) \in Seq(T)
    <3>1. n \in 1..Len(ss) /\ (n # 1 => n - 1 \in 1..n - 1)
      BY <1>1, <2>2, <2>3
    <3>2. CASE n = 1
      BY <1>1, <3>1, <3>2
    <3>3. CASE n # 1
      <4>1. f[n - 1] \in Seq(T) /\ ss[n] \in Seq(T)
        BY <1>1, <2>5, <3>1, <3>3
      <4>2. f[n - 1] \o ss[n] \in Seq(T)
        BY <4>1, ConcatProperties
      <4> QED BY <3>3, <4>2
    <3> QED BY <3>2, <3>3
  <2>7. g \in [1..n -> Seq(T)]
    <3>1. \A i \in 1..n : i < n => i \in 1..n - 1
      BY <2>2
    <3> HIDE DEF Part
    <3> QED BY <2>5, <2>6, <3>1
  <2>8. ASSUME NEW i \in 1..n PROVE g[i] = Part(g, i)
    <3>1. CASE i < n
      <4>1. i \in 1..n - 1 /\ (i # 1 => i - 1 \in 1..n /\ i - 1 < n)
        BY <2>2, <3>1
      <4>2. g[i] = f[i] /\ (i # 1 => g[i - 1] = f[i - 1])
        BY <3>1, <4>1
      <4>3. f[i] = Part(f, i)
        BY <2>5, <4>1
      <4> QED BY <4>2, <4>3
    <3>2. CASE ~ (i < n)
      <4>1. i = n /\ (i # 1 => i - 1 \in 1..n /\ i - 1 < n)
        BY <2>2, <3>2
      <4>2. g[i] = Part(f, i) /\ (i # 1 => g[i - 1] = f[i - 1])
        BY <3>2, <4>1
      <4> QED BY <4>2
    <3> QED BY <3>1, <3>2
  <2>9. Fills(g, n)
    <3> HIDE DEF g, Part
    <3> QED BY <2>7, <2>8
  <2> HIDE DEF Fills
  <2> QED BY <2>2, <2>9
<1>3. PICK f : Fills(f, Len(ss))
  <2>1. Len(ss) \in 0..Len(ss)
    BY <1>1
  <2> HIDE DEF Fills
  <2> QED BY <1>2, <2>1
<1>4. f = [i \in 1..Len(ss) |-> IF i = 1 THEN ss[i] ELSE f[i - 1] \o ss[i]]
  BY <1>3
<1>5. Joined(ss) = [i \in 1..Len(ss) |-> IF i = 1 THEN ss[i] ELSE Joined(ss)[i - 1] \o ss[i]]
  BY <1>4 DEF Joined
<1> QED
  <2> DEFINE h == Joined(ss)
             Wrong == {i \in 1..Len(ss) : h[i] \notin Seq(T)}
  <2>1. \A i \in 1..Len(ss) : h[i] = IF i = 1 THEN ss[i] ELSE h[i - 1] \o ss[i]
    BY <1>5
  <2>2. DOMAIN h = 1..Len(ss) /\ h = [i \in 1..Len(ss) |-> h[i]]
    BY <1>5
  <2> HIDE DEF h
  <2>3. Wrong = {}
    <3> SUFFICES ASSUME Wrong # {} PROVE FALSE
      OBVIOUS
    <3>0. \A n \in Wrong : n \in Nat
      OBVIOUS
    <3>1. PICK n \in Wrong : \A m \in Wrong : n <= m
      <4> HIDE DEF Wrong
      <4> QED BY <3>0, LeastNatural
    <3>2. n \in 1..Len(ss) /\ h[n] \notin Seq(T)
      OBVIOUS
    <3>3. n # 1
      BY <1>1, <2>1, <3>2
    <3>4. n - 1 \in 1..Len(ss) /\ ~ (n <= n - 1)
      BY <1>1, <3>2, <3>3
    <3>5. h[n - 1] \in Seq(T)
      BY <3>1, <3>4
    <3>6. h[n - 1] \o ss[n] \in Seq(T)
      BY <1>1, <3>2, <3>5, ConcatProperties
    <3> QED BY <2>1, <3>2, <3>3, <3>6
  <2>4. h \in [1..Len(ss) -> Seq(T)]
    BY <2>2, <2>3
  <2> QED BY <2>1, <2>4 DEF h

\* What one more sequence adds.
LEMMA FlattenFacts ==
    ASSUME NEW T, NEW ss \in Seq(Seq(T)), NEW x \in Seq(T)
    PROVE  /\ FlattenSeq(<<>>) = <<>>
           /\ FlattenSeq(ss) \in Seq(T)
           /\ FlattenSeq(Append(ss, x)) = FlattenSeq(ss) \o x
<1> DEFINE n == Len(ss)
           more == Append(ss, x)
<1>1. /\ n \in Nat /\ more \in Seq(Seq(T)) /\ Len(more) = n + 1 /\ more[n + 1] = x
      /\ \A i \in 1..n : more[i] = ss[i] /\ i \in 1..n + 1
      /\ n + 1 \in 1..n + 1 /\ (n + 1) - 1 = n
  BY AppendProperties
<1>2. FlattenSeq(<<>>) = <<>>
  BY FlattenIsJoined
<1>3. FlattenSeq(ss) \in Seq(T)
  <2>1. CASE n = 0
    <3>1. FlattenSeq(ss) = ss /\ ss = <<>>
      BY <2>1, FlattenIsJoined
    <3> QED BY <3>1
  <2>2. CASE n # 0
    <3>1. n \in 1..n
      BY <1>1, <2>2
    <3> QED BY <2>2, <3>1, JoinedExists, FlattenIsJoined
  <2> QED BY <2>1, <2>2
<1> DEFINE f == Joined(ss)
           g == Joined(more)
<1>4. /\ \A i \in 1..n : f[i] = IF i = 1 THEN ss[i] ELSE f[i - 1] \o ss[i]
      /\ \A i \in 1..n + 1 : g[i] = IF i = 1 THEN more[i] ELSE g[i - 1] \o more[i]
  <2> HIDE DEF more
  <2> QED BY <1>1, JoinedExists
<1>5. FlattenSeq(ss) = (IF n = 0 THEN ss ELSE f[n]) /\ FlattenSeq(more) = g[n + 1]
  <2> HIDE DEF more
  <2> QED BY <1>1, FlattenIsJoined
<1> DEFINE Differs == {i \in 1..n : f[i] # g[i]}
<1> HIDE DEF f, g, more
<1>6. Differs = {}
  <2> SUFFICES ASSUME Differs # {} PROVE FALSE
    OBVIOUS
  <2>0. \A i \in Differs : i \in Nat
    BY <1>1
  <2>1. PICK i \in Differs : \A m \in Differs : i <= m
    <3> HIDE DEF Differs
    <3> QED BY <2>0, LeastNatural
  <2>2. i \in 1..n /\ f[i] # g[i] /\ i \in 1..n + 1 /\ more[i] = ss[i]
    BY <1>1
  <2>3. i # 1
    BY <1>4, <2>2
  <2>4. i - 1 \in 1..n /\ ~ (i <= i - 1)
    BY <1>1, <2>2, <2>3
  <2>5. f[i - 1] = g[i - 1]
    BY <2>1, <2>4
  <2> QED BY <1>4, <2>2, <2>3, <2>5
<1>7. FlattenSeq(more) = FlattenSeq(ss) \o x
  <2>1. CASE n = 0
    <3>1. ss = <<>> /\ FlattenSeq(more) = x
      BY <1>1, <1>4, <1>5, <2>1
    <3>2. <<>> \o x = x
      BY ConcatEmptySeq
    <3> QED BY <1>5, <2>1, <3>1, <3>2
  <2>2. CASE n # 0
    <3>1. n \in 1..n /\ n + 1 # 1
      BY <1>1, <2>2
    <3>2. f[n] = g[n]
      BY <1>6, <3>1
    <3>3. g[n + 1] = g[n] \o x
      BY <1>1, <1>4, <3>1
    <3> QED BY <1>5, <2>2, <3>2, <3>3
  <2> QED BY <2>1, <2>2
<1> QED BY <1>2, <1>3, <1>7 DEF more

LEMMA ConcatElements ==
    ASSUME NEW T, NEW a \in Seq(T), NEW b \in Seq(T)
    PROVE  ToSet(a \o b) = ToSet(a) \cup ToSet(b)
<1>1. /\ DOMAIN a = 1..Len(a) /\ DOMAIN b = 1..Len(b) /\ Len(a) \in Nat /\ Len(b) \in Nat
      /\ DOMAIN (a \o b) = 1..Len(a) + Len(b)
      /\ \A i \in 1..Len(a) + Len(b) :
            (a \o b)[i] = IF i <= Len(a) THEN a[i] ELSE b[i - Len(a)]
  BY ConcatProperties
<1> DEFINE c == a \o b
<1> HIDE DEF c
<1>2. ASSUME NEW i \in DOMAIN c PROVE c[i] \in ToSet(a) \cup ToSet(b)
  <2>1. i \in 1..Len(a) + Len(b)
    BY <1>1 DEF c
  <2>2. CASE i <= Len(a)
    <3>1. c[i] = a[i] /\ i \in DOMAIN a
      BY <1>1, <2>1, <2>2 DEF c
    <3> QED BY <3>1 DEF ToSet
  <2>3. CASE ~ (i <= Len(a))
    <3>1. c[i] = b[i - Len(a)] /\ i - Len(a) \in DOMAIN b
      BY <1>1, <2>1, <2>3 DEF c
    <3> QED BY <3>1 DEF ToSet
  <2> QED BY <2>2, <2>3
<1>3. ASSUME NEW i \in DOMAIN a PROVE a[i] \in ToSet(c)
  <2>1. i \in DOMAIN c /\ c[i] = a[i]
    BY <1>1 DEF c
  <2> QED BY <2>1 DEF ToSet
<1>4. ASSUME NEW i \in DOMAIN b PROVE b[i] \in ToSet(c)
  <2>1. i + Len(a) \in 1..Len(a) + Len(b) /\ ~ (i + Len(a) <= Len(a)) /\ (i + Len(a)) - Len(a) = i
    BY <1>1
  <2>2. i + Len(a) \in DOMAIN c /\ c[i + Len(a)] = b[i]
    BY <1>1, <2>1 DEF c
  <2> QED BY <2>2 DEF ToSet
<1>5. ToSet(c) = ToSet(a) \cup ToSet(b)
  BY <1>2, <1>3, <1>4 DEF ToSet
<1> QED BY <1>5 DEF c

LEMMA FlattenElements ==
    ASSUME NEW T, NEW ss \in Seq(Seq(T))
    PROVE  \A e : e \in ToSet(FlattenSeq(ss)) <=> \E k \in DOMAIN ss : e \in ToSet(ss[k])
<1> DEFINE n == Len(ss)
           f == Joined(ss)
           Sound(i) == \A e : e \in ToSet(f[i]) <=> \E k \in 1..i : e \in ToSet(ss[k])
           Wrong == {i \in 1..n : ~ Sound(i)}
<1>1. n \in Nat /\ DOMAIN ss = 1..n /\ \A i \in 1..n : ss[i] \in Seq(T)
  OBVIOUS
<1>2. /\ \A i \in 1..n : f[i] \in Seq(T)
      /\ \A i \in 1..n : f[i] = IF i = 1 THEN ss[i] ELSE f[i - 1] \o ss[i]
  BY JoinedExists
<1> HIDE DEF f
<1>3. Wrong = {}
  <2> SUFFICES ASSUME Wrong # {} PROVE FALSE
    OBVIOUS
  <2>0. \A i \in Wrong : i \in Nat
    BY <1>1
  <2>1. PICK i \in Wrong : \A m \in Wrong : i <= m
    <3> HIDE DEF Wrong
    <3> QED BY <2>0, LeastNatural
  <2>2. i \in 1..n /\ ~ Sound(i)
    OBVIOUS
  <2>3. i # 1
    <3> SUFFICES ASSUME i = 1 PROVE FALSE
      OBVIOUS
    <3>1. f[i] = ss[i] /\ \A k \in 1..i : k = i
      BY <1>2, <2>2
    <3>2. i \in 1..i
      OBVIOUS
    <3> QED BY <2>2, <3>1, <3>2
  <2>4. i - 1 \in 1..n /\ ~ (i <= i - 1)
    BY <1>1, <2>2, <2>3
  <2>5. Sound(i - 1)
    <3> HIDE DEF Sound
    <3> QED BY <2>1, <2>4
  <2>6. ToSet(f[i]) = ToSet(f[i - 1]) \cup ToSet(ss[i])
    <3>1. f[i] = f[i - 1] \o ss[i] /\ f[i - 1] \in Seq(T) /\ ss[i] \in Seq(T)
      BY <1>1, <1>2, <2>2, <2>3, <2>4
    <3> QED BY <3>1, ConcatElements
  <2>7. \A k \in Int : k \in 1..i <=> k \in 1..i - 1 \/ k = i
    BY <2>2
  <2> QED BY <2>2, <2>5, <2>6, <2>7
<1>4. CASE n = 0
  <2>1. FlattenSeq(ss) = <<>> /\ DOMAIN ss = {}
    BY <1>1, <1>4, FlattenIsJoined
  <2> QED BY <2>1 DEF ToSet
<1>5. CASE n # 0
  <2>1. n \in 1..n /\ FlattenSeq(ss) = f[n]
    BY <1>1, <1>5, FlattenIsJoined DEF f
  <2>2. Sound(n)
    BY <1>3, <2>1
  <2> QED BY <1>1, <2>1, <2>2
<1> QED BY <1>4, <1>5

-----------------------------------------------------------------------------
(* The parser of PLT files: the inductive invariant                        *)

Points == Int \X Int
LineKinds == LineTypes \cup {Default}
Thickness == Widths \cup {Default}
Styles == [lt : LineKinds, width : Thickness]

Polylines ==
    {s \in [type : {"path"}, pen : Pens, points : Seq(Points), styles : Seq(Styles)] :
        Len(s.styles) > 0 /\ Len(s.points) = Len(s.styles) + 1}
Circles ==
    {s \in [type : {"circle"}, pen : Pens, points : Seq(Points), radius : Nat] : Len(s.points) = 1}
Texts == {s \in [type : {"text"}, pen : Pens, points : Seq(Points)] : Len(s.points) = 1}
Shapes == Polylines \cup Circles \cup Texts

Segments == [from : Points, to : Points, pen : Pens, lt : LineKinds, width : Thickness]
Stamps == [type : {"circle", "text"}, pen : Pens, at : Points, radius : Nat]

Parsers ==
    [mode : {"absolute", "relative"}, down : BOOLEAN, pen : Pens, at : Points, return : Points,
     width : Thickness, widths : [Pens -> Thickness], lt : LineKinds,
     stroke : Seq(Points), styles : Seq(Styles), shapes : Seq(Shapes), points : Nat,
     commands : Nat, state : {"parsing", "parsed", "rejected"}]

Plotters ==
    [absolute : BOOLEAN, down : BOOLEAN, pen : Pens, at : Points, margin : Points,
     widths : [Pens -> Thickness], lt : LineKinds, lines : Seq(Segments), marks : Seq(Stamps)]

\* Parser and plotter have the same settings,
Same(p, t) ==
    /\ (p.mode = "absolute") = t.absolute /\ p.down = t.down /\ p.pen = t.pen
    /\ p.at = t.at /\ p.lt = t.lt /\ p.widths = t.widths /\ p.width = p.widths[p.pen]

\* a stroke ends where the pen is, with a pen that draws,
Stroke(p) ==
    \/ p.stroke = <<>> /\ p.styles = <<>>
    \/ /\ Inks(p) /\ Len(p.styles) > 0 /\ Len(p.stroke) = Len(p.styles) + 1
       /\ p.stroke[Len(p.stroke)] = p.at

\* and the shapes, with the stroke that is not a shape yet, are the ink.
Ink(p, t) ==
    /\ t.lines = AllLines(p.shapes) \o LinesOf(Path(p))
    /\ t.marks = AllMarks(p.shapes)

Agree(p, t) == p \in Parsers /\ t \in Plotters /\ Same(p, t) /\ Stroke(p) /\ Ink(p, t)

\* A label that returns goes to the same margin.
SameMargin(p, t) == Projecting => p.return = t.margin

PltInv ==
    /\ reading \in Reading /\ parser \in Parsers
    /\ parser.state \in {"parsing", "parsed"} => Agree(parser, plotter) /\ SameMargin(parser, plotter)
    /\ parser.state = "parsed" => parser.stroke = <<>>

-----------------------------------------------------------------------------
(* Shapes and what they draw                                               *)

LEMMA PltTypes ==
    /\ Origin \in Points /\ Steps \subseteq Points /\ {0, 1} \subseteq Pens /\ Pens \subseteq Nat
    /\ \A q, d \in Points : Plus(q, d) \in Points
BY PltAssumption DEF Origin, Points, Plus

\* The lines of a polyline, and of a stroke that is not a shape yet.
Polyline(pen, points, styles) == [type |-> "path", pen |-> pen, points |-> points, styles |-> styles]
Line(pen, points, styles, i) ==
    [from |-> points[i], to |-> points[i + 1], pen |-> pen,
     lt |-> styles[i].lt, width |-> styles[i].width]

LEMMA LinesTyped ==
    ASSUME NEW pen \in Pens, NEW points \in Seq(Points), NEW styles \in Seq(Styles),
           Len(points) = Len(styles) + 1 \/ styles = <<>>
    PROVE  /\ LinesOf(Polyline(pen, points, styles)) \in Seq(Segments)
           /\ Len(LinesOf(Polyline(pen, points, styles))) = Len(styles)
           /\ \A i \in 1..Len(styles) :
                 LinesOf(Polyline(pen, points, styles))[i] = Line(pen, points, styles, i)
<1> DEFINE line(i) == Line(pen, points, styles, i)
           n == Len(styles)
           s == Polyline(pen, points, styles)
<1>1. LinesOf(s) = [i \in 1..n |-> line(i)]
  BY DEF LinesOf, Polyline, Line
<1>2. ASSUME NEW i \in 1..n PROVE line(i) \in Segments
  <2>1. styles[i] \in Styles /\ points[i] \in Points /\ points[i + 1] \in Points
    BY <1>2
  <2> QED BY <2>1 DEF Styles, Segments, Line
<1>3. n \in Nat
  OBVIOUS
<1> HIDE DEF line, s
<1>4. [i \in 1..n |-> line(i)] \in Seq(Segments) /\ Len([i \in 1..n |-> line(i)]) = n
  <2> HIDE DEF n
  <2> QED BY <1>2, <1>3, IsASeq
<1> QED BY <1>1, <1>4 DEF line, s

LEMMA ShapeDraws ==
    ASSUME NEW s \in Shapes
    PROVE  LinesOf(s) \in Seq(Segments) /\ MarksOf(s) \in Seq(Stamps)
<1>1. CASE s \in Polylines
  <2>1. /\ s = Polyline(s.pen, s.points, s.styles)
        /\ s.pen \in Pens /\ s.points \in Seq(Points) /\ s.styles \in Seq(Styles)
        /\ Len(s.points) = Len(s.styles) + 1 /\ s.type = "path"
    BY <1>1 DEF Polylines, Polyline
  <2>2. LinesOf(s) \in Seq(Segments)
    BY <2>1, LinesTyped
  <2>3. MarksOf(s) = <<>>
    BY <2>1 DEF MarksOf
  <2> QED BY <2>2, <2>3
<1>2. CASE s \in Circles \cup Texts
  <2>1. /\ s.type \in {"circle", "text"} /\ s.pen \in Pens /\ s.points[1] \in Points
        /\ s.type = "circle" => s.radius \in Nat
    BY <1>2 DEF Circles, Texts
  <2>2. LinesOf(s) = <<>>
    BY <2>1 DEF LinesOf
  <2>3. [type |-> s.type, pen |-> s.pen, at |-> s.points[1],
         radius |-> IF s.type = "circle" THEN s.radius ELSE 0] \in Stamps
    BY <2>1 DEF Stamps
  <2>4. MarksOf(s) \in Seq(Stamps)
    BY <2>1, <2>3 DEF MarksOf
  <2> QED BY <2>2, <2>4
<1> QED BY <1>1, <1>2 DEF Shapes

LEMMA ShapesDraw ==
    ASSUME NEW shapes \in Seq(Shapes)
    PROVE  /\ [i \in DOMAIN shapes |-> LinesOf(shapes[i])] \in Seq(Seq(Segments))
           /\ [i \in DOMAIN shapes |-> MarksOf(shapes[i])] \in Seq(Seq(Stamps))
<1>1. /\ Len(shapes) \in Nat /\ DOMAIN shapes = 1..Len(shapes)
      /\ \A i \in 1..Len(shapes) : shapes[i] \in Shapes
  OBVIOUS
<1>2. \A i \in 1..Len(shapes) :
         LinesOf(shapes[i]) \in Seq(Segments) /\ MarksOf(shapes[i]) \in Seq(Stamps)
  BY <1>1, ShapeDraws
<1> QED BY <1>1, <1>2, IsASeq

LEMMA DocumentDraws ==
    ASSUME NEW shapes \in Seq(Shapes)
    PROVE  AllLines(shapes) \in Seq(Segments) /\ AllMarks(shapes) \in Seq(Stamps)
<1>1. <<>> \in Seq(Segments) /\ <<>> \in Seq(Stamps)
  OBVIOUS
<1> QED BY <1>1, ShapesDraw, FlattenFacts DEF AllLines, AllMarks

\* One more shape.
LEMMA OneMoreShape ==
    ASSUME NEW shapes \in Seq(Shapes), NEW s \in Shapes
    PROVE  /\ AllLines(shapes) \in Seq(Segments) /\ AllMarks(shapes) \in Seq(Stamps)
           /\ AllLines(Append(shapes, s)) = AllLines(shapes) \o LinesOf(s)
           /\ AllMarks(Append(shapes, s)) = AllMarks(shapes) \o MarksOf(s)
<1> DEFINE more == Append(shapes, s)
           lines(ss) == [i \in DOMAIN ss |-> LinesOf(ss[i])]
           marks(ss) == [i \in DOMAIN ss |-> MarksOf(ss[i])]
<1>1. /\ Len(shapes) \in Nat /\ DOMAIN shapes = 1..Len(shapes)
      /\ DOMAIN more = 1..Len(shapes) + 1 /\ more[Len(shapes) + 1] = s
      /\ \A i \in 1..Len(shapes) : more[i] = shapes[i]
  OBVIOUS
<1>2. /\ LinesOf(s) \in Seq(Segments) /\ MarksOf(s) \in Seq(Stamps)
      /\ lines(shapes) \in Seq(Seq(Segments)) /\ marks(shapes) \in Seq(Seq(Stamps))
  BY ShapeDraws, ShapesDraw
<1> HIDE DEF more
<1>3. lines(more) = Append(lines(shapes), LinesOf(s))
  BY <1>1, <1>2
<1>4. marks(more) = Append(marks(shapes), MarksOf(s))
  BY <1>1, <1>2
<1> HIDE DEF lines, marks
<1>5. /\ FlattenSeq(lines(shapes)) \in Seq(Segments)
      /\ FlattenSeq(lines(more)) = FlattenSeq(lines(shapes)) \o LinesOf(s)
  BY <1>2, <1>3, FlattenFacts
<1>6. /\ FlattenSeq(marks(shapes)) \in Seq(Stamps)
      /\ FlattenSeq(marks(more)) = FlattenSeq(marks(shapes)) \o MarksOf(s)
  BY <1>2, <1>4, FlattenFacts
<1> QED BY <1>5, <1>6 DEF lines, marks, more, AllLines, AllMarks

\* A shape is as large as what it draws.
LEMMA ShapeExtent ==
    ASSUME NEW s \in Shapes
    PROVE  Extent(s) = InkExtent(LinesOf(s), MarksOf(s))
<1>1. CASE s \in Polylines
  <2> DEFINE n == Len(s.styles)
             lines == LinesOf(s)
  <2>1. /\ s = Polyline(s.pen, s.points, s.styles)
        /\ s.pen \in Pens /\ s.points \in Seq(Points) /\ s.styles \in Seq(Styles)
        /\ Len(s.points) = n + 1 /\ n > 0 /\ s.type = "path"
    BY <1>1 DEF Polylines, Polyline
  <2>2. n \in Nat /\ DOMAIN s.points = 1..n + 1 /\ n \in 1..n
    BY <2>1
  <2>3. /\ lines \in Seq(Segments) /\ Len(lines) = n
        /\ \A i \in 1..n : lines[i].from = s.points[i] /\ lines[i].to = s.points[i + 1]
    <3> DEFINE line(i) == Line(s.pen, s.points, s.styles, i)
    <3>1. lines \in Seq(Segments) /\ Len(lines) = n /\ \A i \in 1..n : lines[i] = line(i)
      BY <2>1, LinesTyped
    <3>2. \A i : line(i).from = s.points[i] /\ line(i).to = s.points[i + 1]
      BY DEF Line
    <3> HIDE DEF line, lines, n
    <3> QED BY <3>1, <3>2
  <2>4. MarksOf(s) = <<>> /\ Extent(s) = ToSet(s.points)
    BY <2>1 DEF MarksOf, Extent
  <2> HIDE DEF n, lines
  <2>5. DOMAIN lines = 1..n
    BY <2>3
  <2>6. ASSUME NEW i \in 1..n + 1
        PROVE  \E l \in ToSet(lines) : s.points[i] \in Ends(l)
    <3>1. CASE i \in 1..n
      BY <2>3, <2>5, <3>1 DEF ToSet, Ends
    <3>2. CASE i = n + 1
      <4>1. lines[n].to = s.points[i] /\ lines[n] \in ToSet(lines)
        BY <2>2, <2>3, <2>5, <3>2 DEF ToSet
      <4> QED BY <4>1 DEF Ends
    <3> QED BY <2>2, <3>1, <3>2
  <2>7. ASSUME NEW l \in ToSet(lines) PROVE Ends(l) \subseteq ToSet(s.points)
    <3>1. PICK i \in 1..n : l = lines[i]
      BY <2>5 DEF ToSet
    <3>2. i \in 1..n + 1 /\ i + 1 \in 1..n + 1
      BY <2>2
    <3> QED BY <2>2, <2>3, <3>1, <3>2 DEF Ends, ToSet
  <2>8. ToSet(s.points) = UNION {Ends(l) : l \in ToSet(lines)}
    <3>1. \A x \in ToSet(s.points) : \E l \in ToSet(lines) : x \in Ends(l)
      BY <2>2, <2>6 DEF ToSet
    <3> QED BY <2>7, <3>1
  <2>9. ToSet(MarksOf(s)) = {}
    BY <2>4 DEF ToSet
  <2> QED BY <2>4, <2>8, <2>9 DEF InkExtent, lines
<1>2. CASE s \in Circles \cup Texts
  <2> DEFINE mark == [type |-> s.type, pen |-> s.pen, at |-> s.points[1],
                      radius |-> IF s.type = "circle" THEN s.radius ELSE 0]
  <2>1. /\ s.type \in {"circle", "text"} /\ s.points \in Seq(Points) /\ Len(s.points) = 1
        /\ s.type = "circle" => s.radius \in Nat
    BY <1>2 DEF Circles, Texts
  <2>2. LinesOf(s) = <<>> /\ MarksOf(s) = <<mark>>
    BY <2>1 DEF LinesOf, MarksOf
  <2>3. ToSet(LinesOf(s)) = {} /\ ToSet(MarksOf(s)) = {mark}
    BY <2>2 DEF ToSet
  <2>4. Extent(s) = Around(mark)
    <3>1. CASE s.type = "circle"
      <4>1. mark.at = s.points[1] /\ mark.radius = s.radius
        BY <3>1
      <4> HIDE DEF mark
      <4> QED BY <3>1, <4>1 DEF Extent, Around
    <3>2. CASE s.type = "text"
      <4>1. mark.at = s.points[1] /\ mark.radius = 0
        BY <3>2
      <4>2. s.points[1] \in Points /\ DOMAIN s.points = {1}
        BY <2>1
      <4>3. \A q \in Points : Plus(q, <<0, 0>>) = q
        BY DEF Points, Plus
      <4>5. Plus(s.points[1], <<0, 0>>) = s.points[1]
        BY <4>2, <4>3
      <4>6. \A n \in Int : n <= 0 /\ 0 <= n => -n = n
        BY SMT
      <4>4. Extent(s) = {s.points[1]}
        BY <3>2, <4>2 DEF Extent, ToSet
      <4>7. mark.radius \in Int /\ mark.radius <= 0 /\ 0 <= mark.radius
        BY <4>1
      <4> HIDE DEF mark
      <4>8. -mark.radius = mark.radius
        BY <4>6, <4>7
      <4>9. {-mark.radius, mark.radius} = {0}
        BY <4>1, <4>8
      <4> QED BY <4>1, <4>4, <4>5, <4>9 DEF Around
    <3> QED BY <2>1, <3>1, <3>2
  <2> HIDE DEF mark
  <2> QED BY <2>3, <2>4 DEF InkExtent
<1> QED BY <1>1, <1>2 DEF Shapes

LEMMA DocumentExtent ==
    ASSUME NEW shapes \in Seq(Shapes)
    PROVE  UNION {Extent(s) : s \in ToSet(shapes)} = InkExtent(AllLines(shapes), AllMarks(shapes))
<1> DEFINE lines == [i \in DOMAIN shapes |-> LinesOf(shapes[i])]
           marks == [i \in DOMAIN shapes |-> MarksOf(shapes[i])]
<1>1. \A i \in DOMAIN shapes : shapes[i] \in Shapes
  OBVIOUS
<1>2. /\ \A e : e \in ToSet(AllLines(shapes)) <=> \E i \in DOMAIN shapes : e \in ToSet(lines[i])
      /\ \A e : e \in ToSet(AllMarks(shapes)) <=> \E i \in DOMAIN shapes : e \in ToSet(marks[i])
  <2>1. lines \in Seq(Seq(Segments)) /\ marks \in Seq(Seq(Stamps))
    BY ShapesDraw
  <2>2. DOMAIN lines = DOMAIN shapes /\ DOMAIN marks = DOMAIN shapes
    OBVIOUS
  <2>3. AllLines(shapes) = FlattenSeq(lines) /\ AllMarks(shapes) = FlattenSeq(marks)
    BY DEF AllLines, AllMarks
  <2> HIDE DEF lines, marks
  <2> QED BY <2>1, <2>2, <2>3, FlattenElements
<1>3. \A i \in DOMAIN shapes : lines[i] = LinesOf(shapes[i]) /\ marks[i] = MarksOf(shapes[i])
  OBVIOUS
<1> HIDE DEF lines, marks
<1>4. \A x, i : i \in DOMAIN shapes =>
         (x \in Extent(shapes[i]) <=> \/ \E l \in ToSet(lines[i]) : x \in Ends(l)
                                    \/ \E m \in ToSet(marks[i]) : x \in Around(m))
  BY <1>1, <1>3, ShapeExtent DEF InkExtent
<1>5. \A x : x \in UNION {Extent(s) : s \in ToSet(shapes)} <=>
             \E i \in DOMAIN shapes : x \in Extent(shapes[i])
  BY DEF ToSet
<1>6. \A x : x \in InkExtent(AllLines(shapes), AllMarks(shapes)) <=>
             \/ \E l \in ToSet(AllLines(shapes)) : x \in Ends(l)
             \/ \E m \in ToSet(AllMarks(shapes)) : x \in Around(m)
  BY DEF InkExtent
<1>7. \A x : x \in UNION {Extent(s) : s \in ToSet(shapes)} <=>
             x \in InkExtent(AllLines(shapes), AllMarks(shapes))
  BY <1>2, <1>4, <1>5, <1>6
<1> DEFINE a == UNION {Extent(s) : s \in ToSet(shapes)}
           b == InkExtent(AllLines(shapes), AllMarks(shapes))
<1>8. \A x : x \in a <=> x \in b
  BY <1>7
<1> HIDE DEF a, b
<1>9. a = b
  BY <1>8
<1> QED BY <1>9 DEF a, b

-----------------------------------------------------------------------------
(* Strokes                                                                 *)

\* flush_stroke changes what is a shape, and nothing that is drawn.
LEMMA FlushedAgrees ==
    ASSUME NEW p, NEW t, Agree(p, t)
    PROVE  /\ Agree(Flushed(p), t) /\ Flushed(p).stroke = <<>> /\ Flushed(p).styles = <<>>
           /\ Flushed(p) = [p EXCEPT !.shapes = Flushed(p).shapes, !.stroke = <<>>, !.styles = <<>>]
<1> DEFINE f == Flushed(p)
<1>1. p \in Parsers /\ t \in Plotters /\ Same(p, t) /\ Stroke(p) /\ Ink(p, t)
  BY DEF Agree
<1>2. CASE p.stroke = <<>>
  <2>1. p.styles = <<>> /\ Len(p.stroke) = 0
    BY <1>1, <1>2 DEF Stroke, Parsers
  <2>2. f = p
    <3>1. ~ (Len(p.stroke) > 1)
      BY <2>1
    <3>2. f = [p EXCEPT !.stroke = <<>>, !.styles = <<>>]
      BY <3>1 DEF Flushed
    <3>3. [p EXCEPT !.stroke = p.stroke, !.styles = p.styles] = p
      BY <1>1 DEF Parsers
    <3> HIDE DEF f
    <3> QED BY <1>2, <2>1, <3>2, <3>3
  <2>3. p = [p EXCEPT !.shapes = p.shapes, !.stroke = <<>>, !.styles = <<>>]
    BY <1>1, <1>2, <2>1 DEF Parsers
  <2> HIDE DEF f
  <2>4. Agree(f, t) /\ f.stroke = <<>> /\ f.styles = <<>>
        /\ f = [p EXCEPT !.shapes = f.shapes, !.stroke = <<>>, !.styles = <<>>]
    BY <1>2, <2>1, <2>2, <2>3
  <2> QED BY <2>4 DEF f
<1>3. CASE p.stroke # <<>>
  <2> DEFINE path == Path(p)
             shapes == Append(p.shapes, path)
  <2>1. /\ Len(p.styles) > 0 /\ Len(p.stroke) = Len(p.styles) + 1
        /\ p.stroke \in Seq(Points) /\ p.styles \in Seq(Styles) /\ p.pen \in Pens
        /\ p.shapes \in Seq(Shapes)
    BY <1>1, <1>3 DEF Stroke, Parsers
  <2>2. path \in Polylines /\ path \in Shapes
    BY <2>1 DEF Path, Polylines, Shapes
  <2>3. shapes \in Seq(Shapes)
    BY <2>1, <2>2, AppendProperties
  <2>4. f = [p EXCEPT !.shapes = shapes, !.stroke = <<>>, !.styles = <<>>]
    <3>1. Len(p.stroke) > 1
      BY <2>1
    <3>2. f = [[p EXCEPT !.shapes = shapes] EXCEPT !.stroke = <<>>, !.styles = <<>>]
      BY <3>1 DEF Flushed, Shaped
    <3> HIDE DEF f, shapes
    <3> QED BY <1>1, <3>2 DEF Parsers
  <2>5. /\ AllLines(shapes) = AllLines(p.shapes) \o LinesOf(path)
        /\ AllMarks(shapes) = AllMarks(p.shapes) \o MarksOf(path)
        /\ AllLines(p.shapes) \in Seq(Segments) /\ AllMarks(p.shapes) \in Seq(Stamps)
        /\ LinesOf(path) \in Seq(Segments) /\ MarksOf(path) = <<>>
    <3>1. MarksOf(path) = <<>>
      BY DEF Path, MarksOf
    <3> HIDE DEF path
    <3> QED BY <2>1, <2>2, <3>1, OneMoreShape, ShapeDraws
  <2> HIDE DEF path, shapes
  <2> HIDE DEF f
  <2>6. f \in Parsers /\ f.shapes = shapes /\ f.stroke = <<>> /\ f.styles = <<>> /\ f.pen = p.pen
    <3>1. <<>> \in Seq(Points) /\ <<>> \in Seq(Styles)
      OBVIOUS
    <3>2. f \in Parsers
      BY <1>1, <2>3, <2>4, <3>1 DEF Parsers
    <3> QED BY <1>1, <2>4, <3>2 DEF Parsers
  <2>7. Same(f, t) /\ Stroke(f)
    <3>1. /\ f.mode = p.mode /\ f.down = p.down /\ f.at = p.at /\ f.lt = p.lt
          /\ f.widths = p.widths /\ f.width = p.width
      BY <1>1, <2>4 DEF Parsers
    <3> QED BY <1>1, <2>6, <3>1 DEF Same, Stroke
  <2>8. LinesOf(Path(f)) = <<>>
    BY <2>6 DEF Path, LinesOf
  <2>9. Ink(f, t)
    <3>1. AllLines(shapes) \o <<>> = AllLines(shapes) /\ AllMarks(p.shapes) \o <<>> = AllMarks(p.shapes)
      <4>1. AllLines(shapes) \in Seq(Segments)
        BY <2>5, ConcatProperties
      <4> QED BY <2>5, <4>1, ConcatEmptySeq
    <3> QED BY <1>1, <2>5, <2>6, <2>8, <3>1 DEF Ink, path
  <2>10. Agree(f, t) /\ f.stroke = <<>> /\ f.styles = <<>>
         /\ f = [p EXCEPT !.shapes = f.shapes, !.stroke = <<>>, !.styles = <<>>]
    BY <1>1, <2>4, <2>6, <2>7, <2>9 DEF Agree
  <2> QED BY <2>10 DEF f
<1> QED BY <1>2, <1>3

LEMMA AppendToConcat ==
    ASSUME NEW T, NEW a \in Seq(T), NEW b \in Seq(T), NEW e \in T
    PROVE  Append(a \o b, e) = a \o Append(b, e)
<1>1. a \o b \in Seq(T) /\ <<e>> \in Seq(T)
  BY ConcatProperties
<1>2. Append(a \o b, e) = (a \o b) \o <<e>> /\ Append(b, e) = b \o <<e>>
  BY <1>1, AppendIsConcat
<1> QED BY <1>1, <1>2, ConcatAssociative

\* add_absolute_point: the pen of both goes to q, and draws one line if it
\* draws at all.
LEMMA ReachDrawn ==
    ASSUME NEW p, NEW t, Agree(p, t), NEW q \in Points
    PROVE  /\ Agree(Reach(p, q), Drawn(t, q)) /\ SameMargin(Reach(p, q), Drawn(t, q))
           /\ Reach(p, q).at = q /\ Reach(p, q).state = p.state /\ Drawn(t, q).margin = q
<1> DEFINE r == Reach(p, q)
           u == Drawn(t, q)
           line == [from |-> t.at, to |-> q, pen |-> t.pen, lt |-> t.lt, width |-> t.widths[t.pen]]
           back == IF Projecting THEN q ELSE p.return
           count == p.points + 1
           moved == [p EXCEPT !.at = q, !.points = count, !.return = back]
<1>1. p \in Parsers /\ t \in Plotters /\ Same(p, t) /\ Stroke(p) /\ Ink(p, t)
  BY DEF Agree
<1>2. /\ moved \in Parsers /\ moved.at = q /\ (Projecting => moved.return = q)
      /\ moved.mode = p.mode /\ moved.down = p.down /\ moved.pen = p.pen /\ moved.lt = p.lt
      /\ moved.widths = p.widths /\ moved.width = p.width /\ moved.state = p.state
      /\ moved.stroke = p.stroke /\ moved.styles = p.styles /\ moved.shapes = p.shapes
  <2>1. back \in Points /\ count \in Nat /\ (Projecting => back = q)
    BY <1>1 DEF Parsers
  <2> HIDE DEF back, count
  <2> QED BY <1>1, <2>1 DEF Parsers
<1>3. /\ u = [t EXCEPT !.at = q, !.margin = q,
                     !.lines = IF t.down /\ PenShows(t) THEN Append(t.lines, line) ELSE t.lines]
      /\ (Inks(p) <=> t.down /\ PenShows(t))
  BY <1>1 DEF Drawn, Inks, PenShows, Same
<1>4. line \in Segments
  BY <1>1 DEF Plotters, Segments
<1> HIDE DEF line, moved
<1>5. /\ u \in Plotters /\ u.at = q /\ u.margin = q /\ u.absolute = t.absolute /\ u.down = t.down
      /\ u.pen = t.pen /\ u.lt = t.lt /\ u.widths = t.widths /\ u.marks = t.marks
      /\ u.lines = IF Inks(p) THEN Append(t.lines, line) ELSE t.lines
  <2> DEFINE lines == IF Inks(p) THEN Append(t.lines, line) ELSE t.lines
  <2>1. lines \in Seq(Segments)
    BY <1>1, <1>4 DEF Plotters
  <2>2. u = [t EXCEPT !.at = q, !.margin = q, !.lines = lines]
    BY <1>3
  <2> HIDE DEF u, lines
  <2>3. /\ u \in Plotters /\ u.at = q /\ u.margin = q /\ u.absolute = t.absolute /\ u.down = t.down
        /\ u.pen = t.pen /\ u.lt = t.lt /\ u.widths = t.widths /\ u.marks = t.marks
        /\ u.lines = lines
    BY <1>1, <2>1, <2>2 DEF Plotters
  <2> QED BY <2>3 DEF lines
<1>6. CASE ~ Inks(p)
  <2>1. r = moved /\ p.stroke = <<>> /\ p.styles = <<>>
    BY <1>1, <1>6 DEF Reach, Stroke, moved
  <2> HIDE DEF r, u
  <2>2. Same(r, u) /\ Stroke(r) /\ SameMargin(r, u)
    BY <1>1, <1>2, <1>5, <2>1 DEF Same, Stroke, SameMargin
  <2>3. Ink(r, u)
    BY <1>1, <1>2, <1>5, <1>6, <2>1 DEF Ink, Path
  <2>4. Agree(r, u) /\ SameMargin(r, u) /\ r.at = q /\ r.state = p.state /\ u.margin = q
    BY <1>2, <1>5, <2>1, <2>2, <2>3 DEF Agree
  <2> QED BY <2>4 DEF r, u
<1>7. CASE Inks(p)
  <2> DEFINE before == IF p.stroke = <<>> THEN <<p.at>> ELSE p.stroke
             stroke == before \o <<q>>
             styles == Append(p.styles, Style(p))
  <2>1. r = [moved EXCEPT !.stroke = stroke, !.styles = styles]
    BY <1>2, <1>7 DEF Reach, moved
  <2>2. /\ before \in Seq(Points) /\ Len(before) = Len(p.styles) + 1 /\ before[Len(before)] = p.at
        /\ p.styles \in Seq(Styles) /\ Style(p) \in Styles /\ p.pen \in Pens /\ p.at \in Points
    BY <1>1 DEF Parsers, Stroke, Styles, Style
  <2>3. /\ stroke \in Seq(Points) /\ Len(stroke) = Len(before) + 1 /\ stroke[Len(stroke)] = q
        /\ \A i \in 1..Len(before) : stroke[i] = before[i]
    <3> HIDE DEF before
    <3>1. <<q>> \in Seq(Points) /\ Len(<<q>>) = 1 /\ <<q>>[1] = q /\ Len(before) \in Nat
      BY <2>2
    <3> QED BY <2>2, <3>1, ConcatProperties
  <2>4. /\ styles \in Seq(Styles) /\ Len(styles) = Len(p.styles) + 1 /\ styles[Len(styles)] = Style(p)
        /\ \A i \in 1..Len(p.styles) : styles[i] = p.styles[i]
    BY <2>2, AppendProperties
  <2> HIDE DEF before, stroke, styles, r, u
  <2>5. /\ r \in Parsers /\ r.stroke = stroke /\ r.styles = styles /\ r.at = q
        /\ (Projecting => r.return = q) /\ r.mode = p.mode /\ r.down = p.down /\ r.pen = p.pen
        /\ r.lt = p.lt /\ r.widths = p.widths /\ r.width = p.width /\ r.state = p.state
        /\ r.shapes = p.shapes
    BY <1>2, <2>1, <2>3, <2>4 DEF Parsers
  <2>6. Same(r, u) /\ SameMargin(r, u) /\ Stroke(r)
    <3>1. Len(p.styles) \in Nat /\ Len(styles) > 0 /\ Len(stroke) = Len(styles) + 1
      BY <2>2, <2>3, <2>4
    <3>2. Inks(r)
      BY <1>7, <2>5 DEF Inks
    <3> QED BY <1>1, <1>5, <2>3, <2>5, <3>1, <3>2 DEF Same, SameMargin, Stroke
  <2> DEFINE drawn == LinesOf(Path(p))
             redrawn == LinesOf(Path(r))
             n == Len(p.styles)
  <2>7. redrawn = Append(drawn, line) /\ drawn \in Seq(Segments)
    <3>1. /\ drawn \in Seq(Segments) /\ Len(drawn) = n
          /\ \A i \in 1..n : drawn[i] = Line(p.pen, p.stroke, p.styles, i)
      <4>1. p.stroke \in Seq(Points) /\ (Len(p.stroke) = Len(p.styles) + 1 \/ p.styles = <<>>)
        BY <1>1 DEF Stroke, Parsers
      <4>2. Path(p) = Polyline(p.pen, p.stroke, p.styles)
        BY DEF Path, Polyline
      <4>3. p.pen \in Pens /\ p.styles \in Seq(Styles)
        BY <2>2
      <4> QED BY <4>1, <4>2, <4>3, LinesTyped
    <3>2. /\ redrawn \in Seq(Segments) /\ Len(redrawn) = Len(styles)
          /\ \A i \in 1..Len(styles) : redrawn[i] = Line(p.pen, stroke, styles, i)
      <4>1. Len(stroke) = Len(styles) + 1
        BY <2>2, <2>3, <2>4
      <4>2. Path(r) = Polyline(p.pen, stroke, styles)
        BY <2>5 DEF Path, Polyline
      <4>3. p.pen \in Pens /\ stroke \in Seq(Points) /\ styles \in Seq(Styles)
        BY <2>2, <2>3, <2>4
      <4> QED BY <4>1, <4>2, <4>3, LinesTyped
    <3>3. n \in Nat /\ Len(styles) = n + 1 /\ Len(before) = n + 1 /\ n + 1 \in 1..n + 1
      BY <2>2, <2>4
    <3> HIDE DEF drawn, redrawn, n
    <3>4. ASSUME NEW i \in 1..n PROVE redrawn[i] = drawn[i]
      <4>1. p.styles # <<>> /\ i \in 1..n + 1 /\ i + 1 \in 1..n + 1
        BY <3>3 DEF n
      <4>2. before = p.stroke
        BY <1>1, <4>1 DEF Stroke, before
      <4>3. stroke[i] = p.stroke[i] /\ stroke[i + 1] = p.stroke[i + 1]
        BY <2>3, <3>3, <4>1, <4>2
      <4>4. styles[i] = p.styles[i]
        BY <2>4 DEF n
      <4> QED BY <3>1, <3>2, <3>3, <4>1, <4>3, <4>4 DEF Line
    <3>5. redrawn[n + 1] = line
      <4>1. stroke[n + 1] = p.at /\ stroke[n + 2] = q
        <5>1. Len(before) \in 1..Len(before) /\ Len(stroke) = n + 2
          BY <2>3, <3>3
        <5> QED BY <2>2, <2>3, <3>3, <5>1
      <4>2. styles[n + 1].lt = p.lt /\ styles[n + 1].width = p.width
        BY <2>4, <3>3 DEF Style
      <4>3. /\ p.at = t.at /\ p.pen = t.pen /\ p.lt = t.lt /\ p.width = t.widths[t.pen]
        BY <1>1 DEF Same
      <4>4. (n + 1) + 1 = n + 2
        BY <3>3
      <4> QED BY <3>2, <3>3, <4>1, <4>2, <4>3, <4>4 DEF line, Line
    <3>6. Append(drawn, line) \in Seq(Segments) /\ Len(Append(drawn, line)) = n + 1
          /\ \A i \in 1..n + 1 : Append(drawn, line)[i] = IF i <= n THEN drawn[i] ELSE line
      BY <1>4, <3>1, <3>3, AppendProperties
    <3>7. \A i \in 1..n + 1 : redrawn[i] = Append(drawn, line)[i]
      <4>1. \A i \in 1..n + 1 : (i \in 1..n /\ i <= n) \/ (i = n + 1 /\ ~ (i <= n))
        BY <3>3
      <4> QED BY <3>4, <3>5, <3>6, <4>1
    <3>8. redrawn = Append(drawn, line)
      BY <3>2, <3>3, <3>6, <3>7, SeqEqual
    <3> QED BY <3>1, <3>8
  <2> HIDE DEF drawn, redrawn, n, back, count
  <2>8. Ink(r, u)
    <3> DEFINE shaped == AllLines(p.shapes)
    <3>1. shaped \in Seq(Segments)
      BY <1>1, DocumentDraws DEF Parsers
    <3>2. u.lines = Append(shaped \o drawn, line)
      BY <1>1, <1>5, <1>7 DEF Ink, drawn
    <3> HIDE DEF shaped
    <3>3. u.lines = shaped \o redrawn
      BY <1>4, <2>7, <3>1, <3>2, AppendToConcat
    <3> QED BY <1>1, <1>5, <2>5, <3>3 DEF Ink, redrawn, shaped
  <2>9. Agree(r, u) /\ SameMargin(r, u) /\ r.at = q /\ r.state = p.state /\ u.margin = q
    BY <1>5, <2>5, <2>6, <2>8 DEF Agree
  <2> QED BY <2>9 DEF r, u
<1> QED BY <1>6, <1>7

-----------------------------------------------------------------------------
\* The folds over the points of a command.
LEMMA SubsetsOfOne ==
    /\ Max({1}) = 1 /\ {1} # {} /\ {1} \ {1} = {}
    /\ {} \in SUBSET {1} /\ {1} \in SUBSET {1} /\ \A s \in SUBSET {1} : s = {} \/ s = {1}
<1>1. \A x : x = 1 <=> x \in {1} /\ \A y \in {1} : x >= y
  OBVIOUS
<1> QED BY <1>1 DEF Max

LEMMA SubsetsOfTwo ==
    /\ Max({1}) = 1 /\ Max({2}) = 2 /\ Max({1, 2}) = 2
    /\ {1} # {} /\ {2} # {} /\ {1, 2} # {} /\ {1} # {2} /\ {1} # {1, 2} /\ {2} # {1, 2}
    /\ {1} \ {1} = {} /\ {2} \ {2} = {} /\ {1, 2} \ {2} = {1}
    /\ {{}, {1}, {2}, {1, 2}} \subseteq SUBSET {1, 2}
    /\ \A s \in SUBSET {1, 2} : s = {} \/ s = {1} \/ s = {2} \/ s = {1, 2}
<1>1. \A x : x = 1 <=> x \in {1} /\ \A y \in {1} : x >= y
  OBVIOUS
<1>2. \A x : x = 2 <=> x \in {2} /\ \A y \in {2} : x >= y
  OBVIOUS
<1>3. \A x : x = 2 <=> x \in {1, 2} /\ \A y \in {1, 2} : x >= y
  OBVIOUS
<1>4. Max({1}) = 1 /\ Max({2}) = 2 /\ Max({1, 2}) = 2
  BY <1>1, <1>2, <1>3 DEF Max
<1>5. /\ {1} # {} /\ {2} # {} /\ {1, 2} # {} /\ {1} # {2} /\ {1} # {1, 2} /\ {2} # {1, 2}
      /\ {1} \ {1} = {} /\ {2} \ {2} = {} /\ {1, 2} \ {2} = {1}
      /\ {{}, {1}, {2}, {1, 2}} \subseteq SUBSET {1, 2}
  OBVIOUS
<1>6. ASSUME NEW s \in SUBSET {1, 2} PROVE s = {} \/ s = {1} \/ s = {2} \/ s = {1, 2}
  OBVIOUS
<1> QED BY <1>4, <1>5, <1>6

LEMMA AddPointsOf ==
    ASSUME NEW p, NEW d
    PROVE  AddPoints(p, <<>>) = p /\ AddPoints(p, <<d>>) = AddPoint(p, d)
<1> DEFINE Fill(t, ds) == [s \in SUBSET DOMAIN ds |->
                             IF s = {} THEN p ELSE AddPoint(t[s \ {Max(s)}], ds[Max(s)])]
           Iter(ds) == CHOOSE t : t = Fill(t, ds)
<1>1. \A ds : AddPoints(p, ds) = Iter(ds)[DOMAIN ds]
  BY DEF AddPoints, FoldLeft, MapThenFoldSet
<1>2. AddPoints(p, <<>>) = p
  <2> DEFINE w == [s \in SUBSET DOMAIN <<>> |-> p]
  <2>1. \A s \in SUBSET DOMAIN <<>> : s = {}
    OBVIOUS
  <2>2. w = Fill(w, <<>>)
    BY <2>1
  <2> HIDE DEF w
  <2>3. Iter(<<>>) = Fill(Iter(<<>>), <<>>)
    BY <2>2
  <2>4. {} \in SUBSET DOMAIN <<>> /\ DOMAIN <<>> = {}
    OBVIOUS
  <2> HIDE DEF Iter
  <2> QED BY <1>1, <2>3, <2>4
<1>3. AddPoints(p, <<d>>) = AddPoint(p, d)
  <2> DEFINE ds == <<d>>
             w == [s \in SUBSET {1} |-> IF s = {} THEN p ELSE AddPoint(p, d)]
             t == Iter(ds)
  <2>1. DOMAIN ds = {1} /\ ds[1] = d
    OBVIOUS
  <2> HIDE DEF ds
  <2>2. w = Fill(w, ds)
    <3>1. \A s \in SUBSET {1} : s # {} => AddPoint(w[s \ {Max(s)}], ds[Max(s)]) = AddPoint(p, d)
      <4>1. w[{}] = p
        OBVIOUS
      <4> HIDE DEF w
      <4> QED BY <2>1, <4>1, SubsetsOfOne
    <3> QED BY <2>1, <3>1
  <2> HIDE DEF w
  <2>3. t = Fill(t, ds)
    BY <2>2
  <2> HIDE DEF t
  <2>4. t[{}] = p /\ t[{1}] = AddPoint(t[{1} \ {Max({1})}], ds[Max({1})])
    <3>1. t = [s \in SUBSET {1} |-> IF s = {} THEN p ELSE AddPoint(t[s \ {Max(s)}], ds[Max(s)])]
      BY <2>1, <2>3
    <3>2. \A s \in SUBSET {1} : t[s] = IF s = {} THEN p ELSE AddPoint(t[s \ {Max(s)}], ds[Max(s)])
      BY <3>1
    <3> QED BY <3>2, SubsetsOfOne
  <2>5. AddPoints(p, ds) = t[{1}]
    BY <1>1, <2>1 DEF t
  <2>6. AddPoints(p, ds) = AddPoint(p, d)
    BY <2>1, <2>4, <2>5, SubsetsOfOne
  <2> QED BY <2>6 DEF ds
<1> QED BY <1>2, <1>3

LEMMA TravelledOver ==
    ASSUME NEW p, NEW d
    PROVE  Travelled(p, <<>>) = p /\ Travelled(p, <<d>>) = Travel(p, d)
<1> DEFINE Fill(t, ds) == [s \in SUBSET DOMAIN ds |->
                             IF s = {} THEN p ELSE Travel(t[s \ {Max(s)}], ds[Max(s)])]
           Iter(ds) == CHOOSE t : t = Fill(t, ds)
<1>1. \A ds : Travelled(p, ds) = Iter(ds)[DOMAIN ds]
  BY DEF Travelled, FoldLeft, MapThenFoldSet
<1>2. Travelled(p, <<>>) = p
  <2> DEFINE w == [s \in SUBSET DOMAIN <<>> |-> p]
  <2>1. \A s \in SUBSET DOMAIN <<>> : s = {}
    OBVIOUS
  <2>2. w = Fill(w, <<>>)
    BY <2>1
  <2> HIDE DEF w
  <2>3. Iter(<<>>) = Fill(Iter(<<>>), <<>>)
    BY <2>2
  <2>4. {} \in SUBSET DOMAIN <<>> /\ DOMAIN <<>> = {}
    OBVIOUS
  <2> HIDE DEF Iter
  <2> QED BY <1>1, <2>3, <2>4
<1>3. Travelled(p, <<d>>) = Travel(p, d)
  <2> DEFINE ds == <<d>>
             w == [s \in SUBSET {1} |-> IF s = {} THEN p ELSE Travel(p, d)]
             t == Iter(ds)
  <2>1. DOMAIN ds = {1} /\ ds[1] = d
    OBVIOUS
  <2> HIDE DEF ds
  <2>2. w = Fill(w, ds)
    <3>1. \A s \in SUBSET {1} : s # {} => Travel(w[s \ {Max(s)}], ds[Max(s)]) = Travel(p, d)
      <4>1. w[{}] = p
        OBVIOUS
      <4> HIDE DEF w
      <4> QED BY <2>1, <4>1, SubsetsOfOne
    <3> QED BY <2>1, <3>1
  <2> HIDE DEF w
  <2>3. t = Fill(t, ds)
    BY <2>2
  <2> HIDE DEF t
  <2>4. t[{}] = p /\ t[{1}] = Travel(t[{1} \ {Max({1})}], ds[Max({1})])
    <3>1. t = [s \in SUBSET {1} |-> IF s = {} THEN p ELSE Travel(t[s \ {Max(s)}], ds[Max(s)])]
      BY <2>1, <2>3
    <3>2. \A s \in SUBSET {1} : t[s] = IF s = {} THEN p ELSE Travel(t[s \ {Max(s)}], ds[Max(s)])
      BY <3>1
    <3> QED BY <3>2, SubsetsOfOne
  <2>5. Travelled(p, ds) = t[{1}]
    BY <1>1, <2>1 DEF t
  <2>6. Travelled(p, ds) = Travel(p, d)
    BY <2>1, <2>4, <2>5, SubsetsOfOne
  <2> QED BY <2>6 DEF ds
<1> QED BY <1>2, <1>3

LEMMA TwoReaches ==
    ASSUME NEW p, NEW d, NEW e
    PROVE  AddArc(p, <<d, e>>) = Reach(Reach(p, d), e)
<1> DEFINE ds == <<d, e>>
           one == {1}
           two == {2}
           both == {1, 2}
           first == Reach(p, d)
           second == Reach(first, e)
           Fill(t) == [s \in SUBSET DOMAIN ds |->
                         IF s = {} THEN p ELSE Reach(t[s \ {Max(s)}], ds[Max(s)])]
           t == CHOOSE x : x = Fill(x)
           w == [s \in SUBSET both |-> IF s = {} THEN p ELSE IF s = one THEN first
                                      ELSE IF s = two THEN Reach(p, e) ELSE second]
<1>1. AddArc(p, ds) = t[DOMAIN ds]
  BY DEF AddArc, FoldLeft, MapThenFoldSet
<1>2. DOMAIN ds = both /\ ds[1] = d /\ ds[2] = e
  OBVIOUS
<1>3. /\ Max(one) = 1 /\ Max(two) = 2 /\ Max(both) = 2
      /\ one # {} /\ two # {} /\ both # {} /\ one # two /\ one # both /\ two # both
      /\ one \ {Max(one)} = {} /\ two \ {Max(two)} = {} /\ both \ {Max(both)} = one
      /\ {} \in SUBSET both /\ one \in SUBSET both /\ two \in SUBSET both /\ both \in SUBSET both
      /\ \A s \in SUBSET both : s = {} \/ s = one \/ s = two \/ s = both
  BY SubsetsOfTwo
<1> HIDE DEF ds, one, two, both
<1>4. w = Fill(w)
  <2>1. w[{}] = p /\ w[one] = first /\ w[two] = Reach(p, e) /\ w[both] = second
    BY <1>3
  <2>2. w = [s \in SUBSET both |-> w[s]]
    OBVIOUS
  <2> HIDE DEF w
  <2>3. ASSUME NEW s \in SUBSET both
        PROVE  w[s] = IF s = {} THEN p ELSE Reach(w[s \ {Max(s)}], ds[Max(s)])
    <3>1. CASE s = {}
      BY <2>1, <3>1
    <3>2. CASE s = one
      BY <1>2, <1>3, <2>1, <3>2
    <3>3. CASE s = two
      BY <1>2, <1>3, <2>1, <3>3
    <3>4. CASE s = both
      BY <1>2, <1>3, <2>1, <3>4
    <3> QED BY <1>3, <3>1, <3>2, <3>3, <3>4
  <2> QED BY <1>2, <2>2, <2>3
<1> HIDE DEF w
<1>5. t = Fill(t)
  BY <1>4
<1> HIDE DEF t
<1>6. \A s \in SUBSET both : t[s] = IF s = {} THEN p ELSE Reach(t[s \ {Max(s)}], ds[Max(s)])
  <2>1. t = [s \in SUBSET both |-> IF s = {} THEN p ELSE Reach(t[s \ {Max(s)}], ds[Max(s)])]
    BY <1>2, <1>5
  <2> QED BY <2>1
<1> DEFINE After(s) == IF s = {} THEN p ELSE Reach(t[s \ {Max(s)}], ds[Max(s)])
<1>7. t[{}] = After({}) /\ t[one] = After(one) /\ t[both] = After(both)
  <2>1. {} \in SUBSET both /\ one \in SUBSET both /\ both \in SUBSET both
    BY <1>3
  <2> HIDE DEF After
  <2>2. \A s \in SUBSET both : t[s] = After(s)
    BY <1>6 DEF After
  <2> QED BY <2>1, <2>2
<1>8. t[{}] = p /\ t[one] = Reach(t[{}], d) /\ t[both] = Reach(t[one], e)
  <2>1. After({}) = p /\ After(one) = Reach(t[{}], ds[1]) /\ After(both) = Reach(t[one], ds[2])
    BY <1>3
  <2> HIDE DEF After
  <2> QED BY <1>2, <1>7, <2>1
<1>9. AddArc(p, ds) = second
  BY <1>1, <1>2, <1>8
<1> QED BY <1>9 DEF ds

LEMMA TwoChords ==
    ASSUME NEW p, NEW d, NEW e
    PROVE  DrawnAlong(p, <<d, e>>) = Drawn(Drawn(p, d), e)
<1> DEFINE ds == <<d, e>>
           one == {1}
           two == {2}
           both == {1, 2}
           first == Drawn(p, d)
           second == Drawn(first, e)
           Fill(t) == [s \in SUBSET DOMAIN ds |->
                         IF s = {} THEN p ELSE Drawn(t[s \ {Max(s)}], ds[Max(s)])]
           t == CHOOSE x : x = Fill(x)
           w == [s \in SUBSET both |-> IF s = {} THEN p ELSE IF s = one THEN first
                                      ELSE IF s = two THEN Drawn(p, e) ELSE second]
<1>1. DrawnAlong(p, ds) = t[DOMAIN ds]
  BY DEF DrawnAlong, FoldLeft, MapThenFoldSet
<1>2. DOMAIN ds = both /\ ds[1] = d /\ ds[2] = e
  OBVIOUS
<1>3. /\ Max(one) = 1 /\ Max(two) = 2 /\ Max(both) = 2
      /\ one # {} /\ two # {} /\ both # {} /\ one # two /\ one # both /\ two # both
      /\ one \ {Max(one)} = {} /\ two \ {Max(two)} = {} /\ both \ {Max(both)} = one
      /\ {} \in SUBSET both /\ one \in SUBSET both /\ two \in SUBSET both /\ both \in SUBSET both
      /\ \A s \in SUBSET both : s = {} \/ s = one \/ s = two \/ s = both
  BY SubsetsOfTwo
<1> HIDE DEF ds, one, two, both
<1>4. w = Fill(w)
  <2>1. w[{}] = p /\ w[one] = first /\ w[two] = Drawn(p, e) /\ w[both] = second
    BY <1>3
  <2>2. w = [s \in SUBSET both |-> w[s]]
    OBVIOUS
  <2> HIDE DEF w
  <2>3. ASSUME NEW s \in SUBSET both
        PROVE  w[s] = IF s = {} THEN p ELSE Drawn(w[s \ {Max(s)}], ds[Max(s)])
    <3>1. CASE s = {}
      BY <2>1, <3>1
    <3>2. CASE s = one
      BY <1>2, <1>3, <2>1, <3>2
    <3>3. CASE s = two
      BY <1>2, <1>3, <2>1, <3>3
    <3>4. CASE s = both
      BY <1>2, <1>3, <2>1, <3>4
    <3> QED BY <1>3, <3>1, <3>2, <3>3, <3>4
  <2> QED BY <1>2, <2>2, <2>3
<1> HIDE DEF w
<1>5. t = Fill(t)
  BY <1>4
<1> HIDE DEF t
<1>6. \A s \in SUBSET both : t[s] = IF s = {} THEN p ELSE Drawn(t[s \ {Max(s)}], ds[Max(s)])
  <2>1. t = [s \in SUBSET both |-> IF s = {} THEN p ELSE Drawn(t[s \ {Max(s)}], ds[Max(s)])]
    BY <1>2, <1>5
  <2> QED BY <2>1
<1> DEFINE After(s) == IF s = {} THEN p ELSE Drawn(t[s \ {Max(s)}], ds[Max(s)])
<1>7. t[{}] = After({}) /\ t[one] = After(one) /\ t[both] = After(both)
  <2>1. {} \in SUBSET both /\ one \in SUBSET both /\ both \in SUBSET both
    BY <1>3
  <2> HIDE DEF After
  <2>2. \A s \in SUBSET both : t[s] = After(s)
    BY <1>6 DEF After
  <2> QED BY <2>1, <2>2
<1>8. t[{}] = p /\ t[one] = Drawn(t[{}], d) /\ t[both] = Drawn(t[one], e)
  <2>1. After({}) = p /\ After(one) = Drawn(t[{}], ds[1]) /\ After(both) = Drawn(t[one], ds[2])
    BY <1>3
  <2> HIDE DEF After
  <2> QED BY <1>2, <1>7, <2>1
<1>9. DrawnAlong(p, ds) = second
  BY <1>1, <1>2, <1>8
<1> QED BY <1>9 DEF ds

-----------------------------------------------------------------------------
(* Commands                                                                *)

\* add_coordinate_pairs.
LEMMA PointsTravelled ==
    ASSUME NEW p, NEW t, Agree(p, t), NEW ds \in Moves
    PROVE  /\ Agree(AddPoints(p, ds), Travelled(t, ds)) /\ AddPoints(p, ds).state = p.state
           /\ \/ AddPoints(p, ds) = p /\ Travelled(t, ds) = t
              \/ /\ SameMargin(AddPoints(p, ds), Travelled(t, ds))
                 /\ Travelled(t, ds).margin = AddPoints(p, ds).at
<1>1. CASE ds = <<>>
  BY <1>1, AddPointsOf, TravelledOver
<1>2. CASE ds # <<>>
  <2>1. PICK d \in Steps : ds = <<d>>
    BY <1>2 DEF Moves
  <2> DEFINE q == IF p.mode = "relative" THEN Plus(p.at, d) ELSE d
  <2>2. q \in Points
    <3>1. p.at \in Points /\ d \in Points
      BY PltTypes DEF Agree, Parsers
    <3> QED BY <3>1, PltTypes
  <2>3. AddPoint(p, d) = Reach(p, q) /\ Travel(t, d) = Drawn(t, q)
    <3>1. (t.absolute <=> p.mode # "relative") /\ t.at = p.at
      BY DEF Agree, Same, Parsers, Plotters
    <3> QED BY <3>1 DEF AddPoint, Travel
  <2>4. AddPoints(p, ds) = Reach(p, q) /\ Travelled(t, ds) = Drawn(t, q)
    BY <2>1, <2>3, AddPointsOf, TravelledOver
  <2> HIDE DEF q
  <2>5. /\ Agree(Reach(p, q), Drawn(t, q)) /\ SameMargin(Reach(p, q), Drawn(t, q))
        /\ Reach(p, q).at = q /\ Reach(p, q).state = p.state /\ Drawn(t, q).margin = q
    BY <2>2, ReachDrawn
  <2> QED BY <2>4, <2>5
<1> QED BY <1>1, <1>2

\* Settings may change while the stroke has a pen that draws, or is empty.
LEMMA SameDrawing ==
    ASSUME NEW p, NEW t, Agree(p, t), NEW r \in Parsers, NEW u \in Plotters, Same(r, u),
           r.shapes = p.shapes, r.stroke = p.stroke, r.styles = p.styles,
           u.lines = t.lines, u.marks = t.marks,
           \/ p.stroke = <<>> /\ p.styles = <<>>
           \/ r.pen = p.pen /\ r.at = p.at /\ (Inks(p) => Inks(r))
    PROVE  Agree(r, u)
<1>1. p \in Parsers /\ Stroke(p) /\ Ink(p, t)
  BY DEF Agree
<1>2. Stroke(r)
  BY <1>1 DEF Stroke
<1>3. LinesOf(Path(r)) = LinesOf(Path(p))
  <2>1. CASE p.styles = <<>>
    BY <2>1 DEF LinesOf, Path
  <2>2. CASE r.pen = p.pen
    BY <2>2 DEF Path
  <2> QED BY <2>1, <2>2
<1>4. Ink(r, u)
  BY <1>1, <1>3 DEF Ink
<1> QED BY <1>2, <1>4 DEF Agree

\* One more circle or label.
LEMMA OneMoreMark ==
    ASSUME NEW p, NEW t, Agree(p, t), NEW s \in Circles \cup Texts, NEW m, MarksOf(s) = <<m>>,
           NEW r, r = Shaped(p, s), NEW u, u = [t EXCEPT !.marks = Append(@, m)]
    PROVE  /\ Agree(r, u) /\ r.state = p.state /\ r.return = p.return /\ u.margin = t.margin
           /\ r = [p EXCEPT !.shapes = r.shapes] /\ u = [t EXCEPT !.marks = u.marks]
<1> DEFINE shapes == Append(p.shapes, s)
           marks == Append(t.marks, m)
<1>1. p \in Parsers /\ t \in Plotters /\ Same(p, t) /\ Stroke(p) /\ Ink(p, t)
  BY DEF Agree
<1>2. s \in Shapes /\ p.shapes \in Seq(Shapes) /\ t.marks \in Seq(Stamps) /\ t.lines \in Seq(Segments)
  BY <1>1 DEF Shapes, Parsers, Plotters
<1>3. LinesOf(s) = <<>> /\ MarksOf(s) \in Seq(Stamps)
  <2>1. s.type # "path"
    BY DEF Circles, Texts
  <2> QED BY <1>2, <2>1, ShapeDraws DEF LinesOf
<1>4. m \in Stamps
  <2>1. Len(<<m>>) = 1 /\ <<m>>[1] = m
    OBVIOUS
  <2> QED BY <1>3, <2>1
<1>5. shapes \in Seq(Shapes) /\ marks \in Seq(Stamps)
  BY <1>2, <1>4, AppendProperties
<1>6. AllLines(shapes) = AllLines(p.shapes) /\ AllMarks(shapes) = marks
  <2>1. /\ AllLines(p.shapes) \in Seq(Segments)
        /\ AllLines(shapes) = AllLines(p.shapes) \o <<>>
        /\ AllMarks(shapes) = t.marks \o <<m>>
    BY <1>1, <1>2, <1>3, OneMoreShape DEF Ink
  <2>2. AllLines(p.shapes) \o <<>> = AllLines(p.shapes) /\ marks = t.marks \o <<m>>
    BY <1>2, <1>4, <2>1, ConcatEmptySeq, AppendIsConcat
  <2> QED BY <2>1, <2>2
<1>7. r = [p EXCEPT !.shapes = shapes] /\ u = [t EXCEPT !.marks = marks]
  BY DEF Shaped
<1> HIDE DEF shapes, marks
<1>8. /\ r \in Parsers /\ r.shapes = shapes /\ r.mode = p.mode /\ r.down = p.down /\ r.pen = p.pen
      /\ r.at = p.at /\ r.lt = p.lt /\ r.widths = p.widths /\ r.width = p.width
      /\ r.stroke = p.stroke /\ r.styles = p.styles /\ r.state = p.state /\ r.return = p.return
  BY <1>1, <1>5, <1>7 DEF Parsers
<1>9. /\ u \in Plotters /\ u.marks = marks /\ u.absolute = t.absolute /\ u.down = t.down
      /\ u.pen = t.pen /\ u.at = t.at /\ u.lt = t.lt /\ u.widths = t.widths
      /\ u.lines = t.lines /\ u.margin = t.margin
  BY <1>1, <1>5, <1>7 DEF Plotters
<1>10. Same(r, u) /\ Stroke(r)
  BY <1>1, <1>8, <1>9 DEF Same, Stroke, Inks
<1>11. Path(r) = Path(p)
  BY <1>8 DEF Path
<1>12. Ink(r, u)
  BY <1>1, <1>6, <1>8, <1>9, <1>11 DEF Ink
<1> QED BY <1>7, <1>8, <1>9, <1>10, <1>12 DEF Agree

\* What a command leaves behind: a file that is refused, or one that is
\* still read.
Ready(p, t) == p.state = "parsing" /\ Agree(p, t) /\ SameMargin(p, t)
Goes(r, u) == r \in Parsers /\ (r.state = "rejected" \/ Ready(r, u))

LEMMA ModingGoes ==
    ASSUME NEW p, NEW t, Ready(p, t), NEW mode \in {"absolute", "relative"}, NEW ds \in Moves
    PROVE  Goes(Moding(p, mode, ds),
                Travelled([t EXCEPT !.absolute = (mode = "absolute"), !.margin = t.at], ds))
<1> DEFINE a == [p EXCEPT !.mode = mode]
           b == [t EXCEPT !.absolute = (mode = "absolute"), !.margin = t.at]
           g == AddPoints(a, ds)
           u == Travelled(b, ds)
           back == IF Projecting THEN g.at ELSE g.return
           r == [g EXCEPT !.return = back]
<1>1. p \in Parsers /\ t \in Plotters /\ Same(p, t) /\ p.state = "parsing" /\ Agree(p, t)
  BY DEF Ready, Agree
<1>2. /\ a \in Parsers /\ a.mode = mode /\ a.down = p.down /\ a.pen = p.pen /\ a.at = p.at
      /\ a.lt = p.lt /\ a.widths = p.widths /\ a.width = p.width /\ a.shapes = p.shapes
      /\ a.stroke = p.stroke /\ a.styles = p.styles /\ a.state = "parsing"
  BY <1>1 DEF Parsers
<1>3. /\ b \in Plotters /\ b.absolute = (mode = "absolute") /\ b.margin = t.at /\ b.down = t.down
      /\ b.pen = t.pen /\ b.at = t.at /\ b.lt = t.lt /\ b.widths = t.widths
      /\ b.lines = t.lines /\ b.marks = t.marks
  <2> DEFINE m == mode = "absolute"
  <2>1. m \in BOOLEAN /\ t.at \in Points
    BY <1>1 DEF Plotters
  <2> HIDE DEF m
  <2> QED BY <1>1, <2>1 DEF Plotters
<1>4. Moding(p, mode, ds) = r
  BY DEF Moding
<1> HIDE DEF a, b
<1>5. Agree(a, b)
  <2>1. Same(a, b)
    BY <1>1, <1>2, <1>3 DEF Same
  <2>2. Inks(p) => Inks(a)
    BY <1>2 DEF Inks
  <2> QED BY <1>1, <1>2, <1>3, <2>1, <2>2, SameDrawing
<1>6. /\ Agree(g, u) /\ g.state = "parsing"
      /\ (g = a /\ u = b) \/ u.margin = g.at
  BY <1>2, <1>5, PointsTravelled
<1> HIDE DEF g, u
<1>7. g \in Parsers /\ u \in Plotters /\ Same(g, u) /\ u.margin = g.at
  BY <1>1, <1>2, <1>3, <1>6 DEF Agree, Same
<1>8. /\ r \in Parsers /\ r.return = back /\ r.mode = g.mode /\ r.down = g.down /\ r.pen = g.pen
      /\ r.at = g.at /\ r.lt = g.lt /\ r.widths = g.widths /\ r.width = g.width
      /\ r.shapes = g.shapes /\ r.stroke = g.stroke /\ r.styles = g.styles /\ r.state = "parsing"
  <2>1. back \in Points
    BY <1>7 DEF Parsers
  <2> HIDE DEF back
  <2> QED BY <1>6, <1>7, <2>1 DEF Parsers
<1>9. SameMargin(r, u)
  BY <1>7, <1>8 DEF SameMargin
<1> HIDE DEF r, back
<1>10. Agree(r, u)
  <2>1. Same(r, u) /\ (Inks(g) => Inks(r))
    BY <1>7, <1>8 DEF Same, Inks
  <2> QED BY <1>6, <1>7, <1>8, <2>1, SameDrawing
<1>11. Goes(r, u)
  BY <1>8, <1>9, <1>10 DEF Goes, Ready
<1> QED BY <1>4, <1>11 DEF u, b

\* PU, after the flush, and PD.
LEMMA PenGoes ==
    ASSUME NEW p, NEW t, Ready(p, t), NEW down \in BOOLEAN, NEW ds \in Moves,
           down \/ (p.stroke = <<>> /\ p.styles = <<>>)
    PROVE  Goes(AddPoints([p EXCEPT !.down = down], ds), Travelled([t EXCEPT !.down = down], ds))
<1> DEFINE a == [p EXCEPT !.down = down]
           b == [t EXCEPT !.down = down]
           g == AddPoints(a, ds)
           u == Travelled(b, ds)
<1>1. /\ p \in Parsers /\ t \in Plotters /\ Same(p, t) /\ p.state = "parsing" /\ Agree(p, t)
      /\ Stroke(p) /\ SameMargin(p, t)
  BY DEF Ready, Agree
<1>2. /\ a \in Parsers /\ a.mode = p.mode /\ a.down = down /\ a.pen = p.pen /\ a.at = p.at
      /\ a.lt = p.lt /\ a.widths = p.widths /\ a.width = p.width /\ a.shapes = p.shapes
      /\ a.stroke = p.stroke /\ a.styles = p.styles /\ a.state = "parsing" /\ a.return = p.return
  BY <1>1 DEF Parsers
<1>3. /\ b \in Plotters /\ b.absolute = t.absolute /\ b.margin = t.margin /\ b.down = down
      /\ b.pen = t.pen /\ b.at = t.at /\ b.lt = t.lt /\ b.widths = t.widths
      /\ b.lines = t.lines /\ b.marks = t.marks
  BY <1>1 DEF Plotters
<1> HIDE DEF a, b
<1>4. Agree(a, b) /\ SameMargin(a, b)
  <2>1. Same(a, b) /\ SameMargin(a, b)
    BY <1>1, <1>2, <1>3 DEF Same, SameMargin
  <2>2. down => (Inks(p) => Inks(a))
    BY <1>2 DEF Inks
  <2> QED BY <1>1, <1>2, <1>3, <2>1, <2>2, SameDrawing
<1>5. Agree(g, u) /\ g.state = "parsing" /\ SameMargin(g, u)
  <2>1. Agree(g, u) /\ g.state = "parsing" /\ ((g = a /\ u = b) \/ SameMargin(g, u))
    BY <1>2, <1>4, PointsTravelled
  <2> QED BY <1>4, <2>1
<1>6. g \in Parsers
  BY <1>5 DEF Agree
<1>7. Goes(g, u)
  BY <1>5, <1>6 DEF Goes, Ready
<1> QED BY <1>7 DEF g, u, a, b

\* AA.
LEMMA ArcGoes ==
    ASSUME NEW p, NEW t, Ready(p, t), NEW d \in Steps, NEW e \in Steps
    PROVE  Goes(AddArc(p, <<d, e>>), DrawnAlong(t, <<d, e>>))
<1> DEFINE g == Reach(p, d)
           b == Drawn(t, d)
           r == Reach(g, e)
           u == Drawn(b, e)
<1>1. d \in Points /\ e \in Points /\ Agree(p, t) /\ p.state = "parsing"
  BY PltTypes DEF Ready
<1>2. Agree(g, b) /\ g.state = "parsing"
  BY <1>1, ReachDrawn
<1>3. AddArc(p, <<d, e>>) = r /\ DrawnAlong(t, <<d, e>>) = u
  BY TwoReaches, TwoChords
<1> HIDE DEF g, b
<1>4. Agree(r, u) /\ SameMargin(r, u) /\ r.state = "parsing"
  BY <1>1, <1>2, ReachDrawn
<1> HIDE DEF r, u
<1> QED BY <1>3, <1>4 DEF Goes, Ready, Agree

\* The pen number of SP, and of PW.
LEMMA SelectGoes ==
    ASSUME NEW p, NEW t, Ready(p, t), NEW n \in Pens
    PROVE  Goes([Flushed(p) EXCEPT !.pen = n, !.width = p.widths[n]], [t EXCEPT !.pen = n])
<1> DEFINE f == Flushed(p)
           w == p.widths[n]
           r == [f EXCEPT !.pen = n, !.width = w]
           u == [t EXCEPT !.pen = n]
<1>1. /\ p \in Parsers /\ t \in Plotters /\ Same(p, t) /\ p.state = "parsing" /\ Agree(p, t)
      /\ SameMargin(p, t)
  BY DEF Ready, Agree
<1>2. /\ Agree(f, t) /\ f.stroke = <<>> /\ f.styles = <<>>
      /\ f = [p EXCEPT !.shapes = f.shapes, !.stroke = <<>>, !.styles = <<>>]
  BY <1>1, FlushedAgrees
<1> HIDE DEF f
<1>3. f \in Parsers /\ Same(f, t) /\ f.widths = p.widths /\ f.return = p.return /\ f.state = "parsing"
  <2>1. f \in Parsers /\ Same(f, t)
    BY <1>2 DEF Agree
  <2> QED BY <1>1, <1>2, <2>1 DEF Parsers
<1>4. w \in Thickness /\ w = f.widths[n]
  BY <1>1, <1>3 DEF Parsers
<1> HIDE DEF w
<1>5. /\ r \in Parsers /\ r.mode = f.mode /\ r.down = f.down /\ r.pen = n /\ r.at = f.at
      /\ r.lt = f.lt /\ r.widths = f.widths /\ r.width = w /\ r.shapes = f.shapes
      /\ r.stroke = f.stroke /\ r.styles = f.styles /\ r.state = "parsing" /\ r.return = f.return
  BY <1>3, <1>4 DEF Parsers
<1>6. /\ u \in Plotters /\ u.absolute = t.absolute /\ u.margin = t.margin /\ u.down = t.down
      /\ u.pen = n /\ u.at = t.at /\ u.lt = t.lt /\ u.widths = t.widths
      /\ u.lines = t.lines /\ u.marks = t.marks
  BY <1>1 DEF Plotters
<1> HIDE DEF r, u
<1>7. Same(r, u) /\ SameMargin(r, u)
  BY <1>1, <1>3, <1>4, <1>5, <1>6 DEF Same, SameMargin
<1>8. Agree(r, u)
  BY <1>2, <1>5, <1>6, <1>7, SameDrawing
<1>9. Goes(r, u)
  BY <1>5, <1>7, <1>8 DEF Goes, Ready
<1> QED BY <1>9 DEF r, u, f, w

LEMMA WidenGoes ==
    ASSUME NEW p, NEW t, Ready(p, t), NEW n \in Pens, NEW w \in Widths
    PROVE  Goes([p EXCEPT !.widths[n] = w, !.width = IF n = p.pen THEN w ELSE p.width],
                [t EXCEPT !.widths[n] = w])
<1> DEFINE widths == [p.widths EXCEPT ![n] = w]
           width == IF n = p.pen THEN w ELSE p.width
           r == [p EXCEPT !.widths = widths, !.width = width]
           u == [t EXCEPT !.widths = widths]
<1>1. /\ p \in Parsers /\ t \in Plotters /\ Same(p, t) /\ p.state = "parsing" /\ Agree(p, t)
      /\ SameMargin(p, t)
  BY DEF Ready, Agree
<1>2. /\ widths \in [Pens -> Thickness] /\ width \in Thickness /\ p.pen \in Pens
      /\ p.widths \in [Pens -> Thickness] /\ t.widths = p.widths /\ p.width = p.widths[p.pen]
  BY <1>1 DEF Parsers, Thickness, Same
<1>3. width = widths[p.pen]
  BY <1>2
<1>4. /\ [p EXCEPT !.widths[n] = w, !.width = IF n = p.pen THEN w ELSE p.width] = r
      /\ [t EXCEPT !.widths[n] = w] = u
  BY <1>1, <1>2 DEF Parsers, Plotters
<1> HIDE DEF widths, width
<1>5. /\ r \in Parsers /\ r.mode = p.mode /\ r.down = p.down /\ r.pen = p.pen /\ r.at = p.at
      /\ r.lt = p.lt /\ r.widths = widths /\ r.width = width /\ r.shapes = p.shapes
      /\ r.stroke = p.stroke /\ r.styles = p.styles /\ r.state = "parsing" /\ r.return = p.return
  BY <1>1, <1>2 DEF Parsers
<1>6. /\ u \in Plotters /\ u.absolute = t.absolute /\ u.margin = t.margin /\ u.down = t.down
      /\ u.pen = t.pen /\ u.at = t.at /\ u.lt = t.lt /\ u.widths = widths
      /\ u.lines = t.lines /\ u.marks = t.marks
  BY <1>1, <1>2 DEF Plotters
<1> HIDE DEF r, u
<1>7. Same(r, u) /\ SameMargin(r, u) /\ (Inks(p) => Inks(r))
  BY <1>1, <1>3, <1>5, <1>6 DEF Same, SameMargin, Inks
<1>8. Agree(r, u)
  BY <1>1, <1>5, <1>6, <1>7, SameDrawing
<1>9. Goes(r, u)
  BY <1>5, <1>7, <1>8 DEF Goes, Ready
<1> QED BY <1>4, <1>9

LEMMA TypedGoes ==
    ASSUME NEW p, NEW t, Ready(p, t), NEW lt \in LineTypes
    PROVE  Goes(Typed(p, lt), [t EXCEPT !.lt = lt])
<1> DEFINE r == [p EXCEPT !.lt = lt]
           u == [t EXCEPT !.lt = lt]
<1>1. /\ p \in Parsers /\ t \in Plotters /\ Same(p, t) /\ p.state = "parsing" /\ Agree(p, t)
      /\ SameMargin(p, t) /\ lt \in LineKinds
  BY DEF Ready, Agree, LineKinds
<1>2. CASE reading = "strict"
  <2>1. Typed(p, lt) = Rejected(p)
    BY <1>2 DEF Typed
  <2>2. Rejected(p) \in Parsers /\ Rejected(p).state = "rejected"
    BY <1>1 DEF Rejected, Parsers
  <2> QED BY <2>1, <2>2 DEF Goes
<1>3. CASE reading # "strict"
  <2>1. Typed(p, lt) = r
    BY <1>3 DEF Typed
  <2>2. /\ r \in Parsers /\ r.mode = p.mode /\ r.down = p.down /\ r.pen = p.pen /\ r.at = p.at
        /\ r.lt = lt /\ r.widths = p.widths /\ r.width = p.width /\ r.shapes = p.shapes
        /\ r.stroke = p.stroke /\ r.styles = p.styles /\ r.state = "parsing" /\ r.return = p.return
    BY <1>1 DEF Parsers
  <2>3. /\ u \in Plotters /\ u.absolute = t.absolute /\ u.margin = t.margin /\ u.down = t.down
        /\ u.pen = t.pen /\ u.at = t.at /\ u.lt = lt /\ u.widths = t.widths
        /\ u.lines = t.lines /\ u.marks = t.marks
    BY <1>1 DEF Plotters
  <2> HIDE DEF r, u
  <2>4. Same(r, u) /\ SameMargin(r, u) /\ (Inks(p) => Inks(r))
    BY <1>1, <2>2, <2>3 DEF Same, SameMargin, Inks
  <2>5. Agree(r, u)
    BY <1>1, <2>2, <2>3, <2>4, SameDrawing
  <2>6. Goes(r, u)
    BY <2>2, <2>4, <2>5 DEF Goes, Ready
  <2> QED BY <2>1, <2>6 DEF u
<1> QED BY <1>2, <1>3

LEMMA FlushedGoes ==
    ASSUME NEW p, NEW t, Ready(p, t)
    PROVE  /\ Ready(Flushed(p), t) /\ Flushed(p).stroke = <<>> /\ Flushed(p).styles = <<>>
           /\ Flushed(p).pen = p.pen /\ Flushed(p).at = p.at /\ Flushed(p).widths = p.widths
           /\ Flushed(p).points = p.points /\ Flushed(p).commands = p.commands
<1> DEFINE f == Flushed(p)
<1>1. p \in Parsers /\ p.state = "parsing" /\ Agree(p, t) /\ SameMargin(p, t)
  BY DEF Ready, Agree
<1>2. /\ Agree(f, t) /\ f.stroke = <<>> /\ f.styles = <<>>
      /\ f = [p EXCEPT !.shapes = f.shapes, !.stroke = <<>>, !.styles = <<>>]
  BY <1>1, FlushedAgrees
<1> HIDE DEF f
<1>3. /\ f.pen = p.pen /\ f.at = p.at /\ f.widths = p.widths /\ f.points = p.points
      /\ f.commands = p.commands /\ f.return = p.return /\ f.state = "parsing"
  BY <1>1, <1>2 DEF Parsers
<1>4. SameMargin(f, t)
  BY <1>1, <1>3 DEF SameMargin
<1> QED BY <1>2, <1>3, <1>4 DEF Ready, f

\* A circle or a label leaves the settings and the margin alone.
LEMMA MarkGoes ==
    ASSUME NEW p, NEW t, Ready(p, t), NEW s \in Circles \cup Texts,
           NEW type, NEW radius, PenShows(t),
           MarksOf(s) = <<[type |-> type, pen |-> t.pen, at |-> t.at, radius |-> radius]>>
    PROVE  /\ Ready(Shaped(p, s), Marked(t, type, radius))
           /\ Shaped(p, s) = [p EXCEPT !.shapes = Shaped(p, s).shapes]
           /\ Marked(t, type, radius) = [t EXCEPT !.marks = Marked(t, type, radius).marks]
<1> DEFINE m == [type |-> type, pen |-> t.pen, at |-> t.at, radius |-> radius]
           r == Shaped(p, s)
           u == Marked(t, type, radius)
<1>1. Agree(p, t) /\ p.state = "parsing" /\ SameMargin(p, t)
  BY DEF Ready
<1>2. u = [t EXCEPT !.marks = Append(@, m)]
  BY DEF Marked
<1> HIDE DEF m, r, u
<1>3. /\ Agree(r, u) /\ r.state = p.state /\ r.return = p.return /\ u.margin = t.margin
      /\ r = [p EXCEPT !.shapes = r.shapes] /\ u = [t EXCEPT !.marks = u.marks]
  <2>1. MarksOf(s) = <<m>> /\ r = Shaped(p, s)
    BY DEF m, r
  <2> QED BY <1>1, <1>2, <2>1, OneMoreMark
<1>4. SameMargin(r, u)
  BY <1>1, <1>3 DEF SameMargin
<1> QED BY <1>1, <1>3, <1>4 DEF Ready, r, u

LEMMA NothingShown ==
    ASSUME NEW t \in Plotters, NEW type, NEW radius, ~ PenShows(t)
    PROVE  Marked(t, type, radius) = t
<1>1. [t EXCEPT !.marks = t.marks] = t
  BY DEF Plotters
<1> QED BY <1>1 DEF Marked

LEMMA EncircleGoes ==
    ASSUME NEW p, NEW t, Ready(p, t), NEW n \in Nat
    PROVE  Goes(Encircle(p, n), IF n > 0 THEN Marked(t, "circle", n) ELSE t)
<1> DEFINE f == Flushed(p)
           s == Circle(f, n)
<1>1. Ready(f, t) /\ f.pen = p.pen
  BY FlushedGoes
<1> HIDE DEF f
<1>2. f \in Parsers /\ t \in Plotters /\ f.at = t.at /\ f.pen = t.pen /\ f.pen \in Pens /\ f.at \in Points
  BY <1>1 DEF Ready, Agree, Same, Parsers
<1>3. Goes(f, t)
  BY <1>1, <1>2 DEF Goes
<1>4. PenShows(t) <=> ~ (Projecting /\ p.pen = 0)
  BY <1>1, <1>2 DEF PenShows
<1>5. Encircle(p, n) = IF Projecting /\ p.pen = 0 THEN f
                       ELSE IF n > 0 THEN Shaped(f, s)
                       ELSE IF reading = "strict" THEN Rejected(f) ELSE f
  BY DEF Encircle, f, s
<1>6. CASE Projecting /\ p.pen = 0
  BY <1>2, <1>3, <1>4, <1>5, <1>6, NothingShown
<1>7. CASE ~ (Projecting /\ p.pen = 0) /\ n > 0
  <2>1. /\ s \in Circles
        /\ MarksOf(s) = <<[type |-> "circle", pen |-> t.pen, at |-> t.at, radius |-> n]>>
    <3>1. <<f.at>> \in Seq(Points) /\ Len(<<f.at>>) = 1 /\ <<f.at>>[1] = f.at
      BY <1>2
    <3>2. s = [type |-> "circle", pen |-> f.pen, points |-> <<f.at>>, radius |-> n]
      BY DEF Circle
    <3> HIDE DEF s
    <3>3. s.type = "circle" /\ s.pen = f.pen /\ s.points = <<f.at>> /\ s.radius = n
      BY <3>2
    <3>4. s \in Circles
      BY <1>2, <3>1, <3>2, <3>3 DEF Circles
    <3>5. MarksOf(s) = <<[type |-> "circle", pen |-> t.pen, at |-> t.at, radius |-> n]>>
      BY <1>2, <3>1, <3>3 DEF MarksOf
    <3> QED BY <3>4, <3>5
  <2> HIDE DEF s
  <2>2. Ready(Shaped(f, s), Marked(t, "circle", n))
    BY <1>1, <1>4, <1>7, <2>1, MarkGoes
  <2> QED BY <1>5, <1>7, <2>2 DEF Goes, Ready, Agree
<1>8. CASE ~ (Projecting /\ p.pen = 0) /\ ~ (n > 0)
  <2>1. Goes(Rejected(f), t)
    BY <1>2 DEF Goes, Rejected, Parsers
  <2> QED BY <1>3, <1>5, <1>8, <2>1
<1> QED BY <1>6, <1>7, <1>8

\* A label is written, and moves the pen of a projection.
LEMMA TextGoes ==
    ASSUME NEW p, NEW t, Ready(p, t), PenShows(t)
    PROVE  /\ Ready(Shaped(p, Text(p)), Marked(t, "text", 0))
           /\ Shaped(p, Text(p)) = [p EXCEPT !.shapes = Shaped(p, Text(p)).shapes]
           /\ Marked(t, "text", 0) = [t EXCEPT !.marks = Marked(t, "text", 0).marks]
<1> DEFINE s == Text(p)
<1>1. p \in Parsers /\ t \in Plotters /\ p.at = t.at /\ p.pen = t.pen /\ p.pen \in Pens /\ p.at \in Points
  BY DEF Ready, Agree, Same, Parsers
<1>2. /\ s \in Texts
      /\ MarksOf(s) = <<[type |-> "text", pen |-> t.pen, at |-> t.at, radius |-> 0]>>
  <2>1. <<p.at>> \in Seq(Points) /\ Len(<<p.at>>) = 1 /\ <<p.at>>[1] = p.at
    BY <1>1
  <2>2. s = [type |-> "text", pen |-> p.pen, points |-> <<p.at>>]
    BY DEF Text
  <2> HIDE DEF s
  <2>3. s.type = "text" /\ s.pen = p.pen /\ s.points = <<p.at>>
    BY <2>2
  <2>4. s \in Texts
    BY <1>1, <2>1, <2>2, <2>3 DEF Texts
  <2>5. MarksOf(s) = <<[type |-> "text", pen |-> t.pen, at |-> t.at, radius |-> 0]>>
    BY <1>1, <2>1, <2>3 DEF MarksOf
  <2> QED BY <2>4, <2>5
<1> HIDE DEF s
<1>3. /\ Ready(Shaped(p, s), Marked(t, "text", 0))
      /\ Shaped(p, s) = [p EXCEPT !.shapes = Shaped(p, s).shapes]
      /\ Marked(t, "text", 0) = [t EXCEPT !.marks = Marked(t, "text", 0).marks]
  BY <1>2, MarkGoes
<1> QED BY <1>3 DEF s

LEMMA CarriageGoes ==
    ASSUME NEW p, NEW t, Ready(p, t), p.stroke = <<>>, p.styles = <<>>, NEW q \in Points
    PROVE  Ready([p EXCEPT !.at = q], [t EXCEPT !.at = q])
<1> DEFINE r == [p EXCEPT !.at = q]
           u == [t EXCEPT !.at = q]
<1>1. /\ p \in Parsers /\ t \in Plotters /\ Same(p, t) /\ p.state = "parsing" /\ Agree(p, t)
      /\ SameMargin(p, t)
  BY DEF Ready, Agree
<1>2. /\ r \in Parsers /\ r.mode = p.mode /\ r.down = p.down /\ r.pen = p.pen /\ r.at = q
      /\ r.lt = p.lt /\ r.widths = p.widths /\ r.width = p.width /\ r.shapes = p.shapes
      /\ r.stroke = p.stroke /\ r.styles = p.styles /\ r.state = "parsing" /\ r.return = p.return
  BY <1>1 DEF Parsers
<1>3. /\ u \in Plotters /\ u.absolute = t.absolute /\ u.margin = t.margin /\ u.down = t.down
      /\ u.pen = t.pen /\ u.at = q /\ u.lt = t.lt /\ u.widths = t.widths
      /\ u.lines = t.lines /\ u.marks = t.marks
  BY <1>1 DEF Plotters
<1> HIDE DEF r, u
<1>4. Same(r, u) /\ SameMargin(r, u)
  BY <1>1, <1>2, <1>3 DEF Same, SameMargin
<1>5. Agree(r, u)
  BY <1>1, <1>2, <1>3, <1>4, SameDrawing
<1>6. Ready(r, u)
  BY <1>2, <1>4, <1>5 DEF Ready
<1> QED BY <1>6 DEF r, u

LEMMA LabelGoes ==
    ASSUME NEW p, NEW t, Ready(p, t), NEW word
    PROVE  Goes(Label(p, word),
                LET m == Marked(t, "text", 0) IN
                IF ~Projecting THEN m
                ELSE [m EXCEPT !.at = IF word = "return" THEN t.margin ELSE Plus(@, <<1, 0>>)])
<1> DEFINE m == Marked(t, "text", 0)
<1>1. CASE ~Projecting
  <2>1. PenShows(t)
    BY <1>1 DEF PenShows
  <2>2. Ready(Shaped(p, Text(p)), m)
    BY <2>1, TextGoes
  <2> HIDE DEF m
  <2>3. Goes(Shaped(p, Text(p)), m)
    BY <2>2 DEF Goes, Ready, Agree
  <2> QED BY <1>1, <2>3 DEF Label, m
<1>2. CASE Projecting
  <2> DEFINE f == Flushed(p)
             g == IF f.pen # 0 THEN Shaped(f, Text(f)) ELSE f
             to == IF word = "return" THEN f.return ELSE Plus(g.at, <<1, 0>>)
  <2>1. Ready(f, t) /\ f.stroke = <<>> /\ f.styles = <<>>
    BY FlushedGoes
  <2> HIDE DEF f
  <2>2. f \in Parsers /\ t \in Plotters /\ f.pen = t.pen /\ f.return = t.margin /\ f.return \in Points
    BY <1>2, <2>1 DEF Ready, Agree, Same, SameMargin, Parsers
  <2>3. PenShows(t) <=> f.pen # 0
    BY <1>2, <2>2 DEF PenShows
  <2>4. Ready(g, m) /\ g.stroke = <<>> /\ g.styles = <<>>
    <3>1. CASE f.pen # 0
      <4> DEFINE h == Shaped(f, Text(f))
      <4>1. Ready(h, m) /\ h = [f EXCEPT !.shapes = h.shapes]
        BY <2>1, <2>3, <3>1, TextGoes
      <4> HIDE DEF h, m
      <4>2. h.stroke = <<>> /\ h.styles = <<>>
        BY <2>1, <2>2, <4>1 DEF Parsers
      <4>3. g = h
        BY <3>1 DEF h
      <4> QED BY <4>1, <4>2, <4>3
    <3>2. CASE f.pen = 0
      <4>1. m = t
        BY <2>2, <2>3, <3>2, NothingShown
      <4> HIDE DEF m
      <4> QED BY <2>1, <3>2, <4>1
    <3> QED BY <3>1, <3>2
  <2> HIDE DEF g, m
  <2>5. g.at = m.at /\ g.at \in Points
    BY <2>4 DEF Ready, Agree, Same, Parsers
  <2>6. to \in Points
    <3>1. <<1, 0>> \in Points
      BY DEF Points
    <3> QED BY <2>2, <2>5, <3>1, PltTypes
  <2>7. Label(p, word) = [g EXCEPT !.at = to]
    BY <1>2 DEF Label, g, f
  <2>8. [m EXCEPT !.at = IF word = "return" THEN t.margin ELSE Plus(@, <<1, 0>>)] = [m EXCEPT !.at = to]
    BY <2>2, <2>5
  <2> HIDE DEF to
  <2>9. Ready([g EXCEPT !.at = to], [m EXCEPT !.at = to])
    BY <2>4, <2>6, CarriageGoes
  <2>10. Goes([g EXCEPT !.at = to], [m EXCEPT !.at = to])
    BY <2>9 DEF Goes, Ready, Agree
  <2> QED BY <1>2, <2>7, <2>8, <2>10 DEF m
<1> QED BY <1>1, <1>2

\* The start, and IN.
LEMMA ResetFacts ==
    /\ Reset \in Parsers /\ PowerOn \in Plotters
    /\ Agree(Reset, PowerOn) /\ SameMargin(Reset, PowerOn) /\ Reset.state = "parsing"
<1>1. [n \in Pens |-> Default] \in [Pens -> Thickness] /\ Default \in Thickness /\ Default \in LineKinds
  BY DEF Thickness, LineKinds
<1>2. /\ Origin \in Points /\ 1 \in Pens /\ <<>> \in Seq(Points) /\ <<>> \in Seq(Styles)
      /\ <<>> \in Seq(Shapes) /\ <<>> \in Seq(Segments) /\ <<>> \in Seq(Stamps)
  BY PltTypes
<1>3. Reset \in Parsers
  BY <1>1, <1>2 DEF Reset, Parsers
<1>4. PowerOn \in Plotters
  BY <1>1, <1>2 DEF PowerOn, Plotters
<1>5. Same(Reset, PowerOn) /\ SameMargin(Reset, PowerOn) /\ Stroke(Reset)
  BY <1>2 DEF Same, SameMargin, Stroke, Reset, PowerOn
<1>6. Ink(Reset, PowerOn)
  <2>1. AllLines(<<>>) = <<>> /\ AllMarks(<<>>) = <<>>
    <3>1. [i \in DOMAIN <<>> |-> LinesOf(<<>>[i])] = <<>> /\ [i \in DOMAIN <<>> |-> MarksOf(<<>>[i])] = <<>>
      OBVIOUS
    <3>2. FlattenSeq(<<>>) = <<>>
      BY FlattenIsJoined
    <3> QED BY <3>1, <3>2 DEF AllLines, AllMarks
  <2>2. LinesOf(Path(Reset)) = <<>>
    BY DEF LinesOf, Path, Reset
  <2>3. <<>> \o <<>> = <<>>
    OBVIOUS
  <2>4. Reset.shapes = <<>> /\ PowerOn.lines = <<>> /\ PowerOn.marks = <<>>
    BY DEF Reset, PowerOn
  <2> QED BY <2>1, <2>2, <2>3, <2>4 DEF Ink
<1>7. Reset.state = "parsing"
  BY DEF Reset
<1> QED BY <1>3, <1>4, <1>5, <1>6, <1>7 DEF Agree

LEMMA InitializeGoes ==
    ASSUME NEW p, NEW t, Ready(p, t)
    PROVE  Goes(Initialize(p), [PowerOn EXCEPT !.lines = t.lines, !.marks = t.marks])
<1> DEFINE f == Flushed(p)
           r == [Reset EXCEPT !.shapes = f.shapes, !.points = f.points, !.commands = f.commands]
           u == [PowerOn EXCEPT !.lines = t.lines, !.marks = t.marks]
<1>1. Ready(f, t) /\ f.stroke = <<>> /\ f.styles = <<>>
  BY FlushedGoes
<1>2. Initialize(p) = r
  BY DEF Initialize
<1> HIDE DEF f
<1>3. f \in Parsers /\ t \in Plotters /\ Ink(f, t)
  BY <1>1 DEF Ready, Agree
<1>4. Reset \in Parsers /\ PowerOn \in Plotters /\ Same(Reset, PowerOn) /\ SameMargin(Reset, PowerOn)
  BY ResetFacts DEF Agree
<1>5. /\ r \in Parsers /\ r.mode = Reset.mode /\ r.down = Reset.down /\ r.pen = Reset.pen
      /\ r.at = Reset.at /\ r.lt = Reset.lt /\ r.widths = Reset.widths /\ r.width = Reset.width
      /\ r.shapes = f.shapes /\ r.stroke = Reset.stroke /\ r.styles = Reset.styles
      /\ r.state = Reset.state /\ r.return = Reset.return
  BY <1>3, <1>4 DEF Parsers
<1>6. /\ u \in Plotters /\ u.absolute = PowerOn.absolute /\ u.margin = PowerOn.margin
      /\ u.down = PowerOn.down /\ u.pen = PowerOn.pen /\ u.at = PowerOn.at /\ u.lt = PowerOn.lt
      /\ u.widths = PowerOn.widths /\ u.lines = t.lines /\ u.marks = t.marks
  BY <1>3, <1>4 DEF Plotters
<1>7. Reset.stroke = <<>> /\ Reset.styles = <<>> /\ Reset.state = "parsing"
  BY DEF Reset
<1> HIDE DEF r, u
<1>8. Same(r, u) /\ SameMargin(r, u) /\ Stroke(r)
  BY <1>4, <1>5, <1>6, <1>7 DEF Same, SameMargin, Stroke
<1>9. Ink(r, u)
  <2>1. LinesOf(Path(r)) = <<>> /\ LinesOf(Path(f)) = <<>>
    BY <1>1, <1>5, <1>7 DEF LinesOf, Path
  <2> QED BY <1>3, <1>5, <1>6, <2>1 DEF Ink
<1>10. Goes(r, u)
  BY <1>5, <1>6, <1>7, <1>8, <1>9 DEF Goes, Ready, Agree
<1> QED BY <1>2, <1>10 DEF u

-----------------------------------------------------------------------------
(* A file                                                                  *)

LEMMA Arguments ==
    ASSUME NEW c \in Commands
    PROVE  \/ c.op \in {"PA", "PR", "PU", "PD"} /\ c.args \in Moves
           \/ c.op = "AA" /\ \E d, e \in Steps : c.args = <<d, e>>
           \/ c.op = "SP" /\ (c.args = <<>> \/ \E n \in Pens : c.args = <<n>>)
           \/ /\ c.op = "PW"
              /\ \E w \in Widths : c.args = <<w>> \/ \E n \in Pens : c.args = <<w, n>>
           \/ c.op = "LT" /\ \E lt \in LineTypes : c.args = <<lt>>
           \/ c.op = "CI" /\ (c.args = <<0>> \/ c.args = <<1>>)
           \/ c.op = "LB" /\ (c.args = <<"word">> \/ c.args = <<"return">>)
           \/ c.op \in {"IN", "VS"}
BY DEF Commands

LEMMA ParsedGoes ==
    ASSUME NEW p, NEW t, Ready(p, t), NEW c \in Commands
    PROVE  Goes(Parsed(p, c), Plotted(t, c))
<1>1. p \in Parsers /\ t \in Plotters /\ p.pen = t.pen /\ p.pen \in Pens /\ 0 \in Pens /\ 1 \in Pens
  BY PltTypes DEF Ready, Agree, Same, Parsers
<1>2. CASE c.op = "PA"
  <2>1. c.args \in Moves
    BY <1>2, Arguments
  <2>2. Goes(Moding(p, "absolute", c.args),
             Travelled([t EXCEPT !.absolute = ("absolute" = "absolute"), !.margin = t.at], c.args))
    BY <2>1, ModingGoes
  <2>3. [t EXCEPT !.absolute = ("absolute" = "absolute"), !.margin = t.at]
          = [t EXCEPT !.absolute = TRUE, !.margin = t.at]
    OBVIOUS
  <2>4. /\ Parsed(p, c) = Moding(p, "absolute", c.args)
        /\ Plotted(t, c) = Travelled([t EXCEPT !.absolute = TRUE, !.margin = t.at], c.args)
    BY <1>2 DEF Parsed, Plotted
  <2> QED BY <2>2, <2>3, <2>4
<1>3. CASE c.op = "PR"
  <2>1. c.args \in Moves
    BY <1>3, Arguments
  <2>2. Goes(Moding(p, "relative", c.args),
             Travelled([t EXCEPT !.absolute = ("relative" = "absolute"), !.margin = t.at], c.args))
    BY <2>1, ModingGoes
  <2>3. [t EXCEPT !.absolute = ("relative" = "absolute"), !.margin = t.at]
          = [t EXCEPT !.absolute = FALSE, !.margin = t.at]
    OBVIOUS
  <2>4. /\ Parsed(p, c) = Moding(p, "relative", c.args)
        /\ Plotted(t, c) = Travelled([t EXCEPT !.absolute = FALSE, !.margin = t.at], c.args)
    BY <1>3 DEF Parsed, Plotted
  <2> QED BY <2>2, <2>3, <2>4
<1>4. CASE c.op = "PU"
  <2>1. c.args \in Moves
    BY <1>4, Arguments
  <2>2. Ready(Flushed(p), t) /\ Flushed(p).stroke = <<>> /\ Flushed(p).styles = <<>>
    BY FlushedGoes
  <2>3. Goes(AddPoints([Flushed(p) EXCEPT !.down = FALSE], c.args),
             Travelled([t EXCEPT !.down = FALSE], c.args))
    BY <2>1, <2>2, PenGoes
  <2> QED BY <1>4, <2>3 DEF Parsed, Plotted
<1>5. CASE c.op = "PD"
  <2>1. c.args \in Moves
    BY <1>5, Arguments
  <2>2. Goes(AddPoints([p EXCEPT !.down = TRUE], c.args), Travelled([t EXCEPT !.down = TRUE], c.args))
    BY <2>1, PenGoes
  <2> QED BY <1>5, <2>2 DEF Parsed, Plotted
<1>6. CASE c.op = "AA"
  <2>1. PICK d, e \in Steps : c.args = <<d, e>>
    BY <1>6, Arguments
  <2>2. Goes(AddArc(p, <<d, e>>), DrawnAlong(t, <<d, e>>))
    BY ArcGoes
  <2>3. Parsed(p, c) = AddArc(p, c.args) /\ Plotted(t, c) = DrawnAlong(t, c.args)
    BY <1>6 DEF Parsed, Plotted
  <2> QED BY <2>1, <2>2, <2>3
<1>7. CASE c.op = "SP"
  <2> DEFINE n == IF c.args # <<>> THEN c.args[1] ELSE IF Projecting THEN 0 ELSE 1
  <2>1. n \in Pens
    BY <1>1, <1>7, Arguments
  <2>2. Parsed(p, c) = [Flushed(p) EXCEPT !.pen = n, !.width = p.widths[n]]
    BY <1>7 DEF Parsed, Select
  <2>3. Plotted(t, c) = [t EXCEPT !.pen = n]
    BY <1>7 DEF Plotted
  <2> HIDE DEF n
  <2> DEFINE r == [Flushed(p) EXCEPT !.pen = n, !.width = p.widths[n]]
             u == [t EXCEPT !.pen = n]
  <2>4. Goes(r, u)
    BY <2>1, SelectGoes
  <2>5. Parsed(p, c) = r /\ Plotted(t, c) = u
    BY <2>2, <2>3
  <2> HIDE DEF r, u
  <2> QED BY <2>4, <2>5
<1>8. CASE c.op = "PW"
  <2> DEFINE n == IF Len(c.args) > 1 THEN c.args[2] ELSE p.pen
             w == c.args[1]
  <2>1. n \in Pens /\ w \in Widths
    <3>1. PICK v \in Widths : c.args = <<v>> \/ \E k \in Pens : c.args = <<v, k>>
      BY <1>8, Arguments
    <3> QED BY <1>1, <3>1
  <2>2. Parsed(p, c) = [p EXCEPT !.widths[n] = w, !.width = IF n = p.pen THEN w ELSE p.width]
    BY <1>8 DEF Parsed, Widen
  <2>3. Plotted(t, c) = [t EXCEPT !.widths[n] = w]
    BY <1>1, <1>8 DEF Plotted
  <2> HIDE DEF n, w
  <2> DEFINE r == [p EXCEPT !.widths[n] = w, !.width = IF n = p.pen THEN w ELSE p.width]
             u == [t EXCEPT !.widths[n] = w]
  <2>4. Goes(r, u)
    BY <2>1, WidenGoes
  <2>5. Parsed(p, c) = r /\ Plotted(t, c) = u
    BY <2>2, <2>3
  <2> HIDE DEF r, u
  <2> QED BY <2>4, <2>5
<1>9. CASE c.op = "LT"
  <2>1. c.args[1] \in LineTypes
    BY <1>9, Arguments
  <2>2. Goes(Typed(p, c.args[1]), [t EXCEPT !.lt = c.args[1]])
    BY <2>1, TypedGoes
  <2> QED BY <1>9, <2>2 DEF Parsed, Plotted
<1>10. CASE c.op = "CI"
  <2> DEFINE n == c.args[1]
  <2>1. n \in Nat
    BY <1>10, Arguments
  <2>2. Parsed(p, c) = Encircle(p, n) /\ Plotted(t, c) = IF n > 0 THEN Marked(t, "circle", n) ELSE t
    BY <1>10 DEF Parsed, Plotted
  <2> HIDE DEF n
  <2> QED BY <2>1, <2>2, EncircleGoes
<1>11. CASE c.op = "LB"
  <2> DEFINE word == c.args[1]
             u == LET m == Marked(t, "text", 0) IN
                  IF ~Projecting THEN m
                  ELSE [m EXCEPT !.at = IF word = "return" THEN t.margin ELSE Plus(@, <<1, 0>>)]
  <2>1. Parsed(p, c) = Label(p, word) /\ Plotted(t, c) = u
    BY <1>11 DEF Parsed, Plotted
  <2>2. Goes(Label(p, word), u)
    <3> HIDE DEF word
    <3> QED BY LabelGoes
  <2> HIDE DEF u
  <2> QED BY <2>1, <2>2
<1>12. CASE c.op = "IN"
  <2> DEFINE u == [PowerOn EXCEPT !.lines = t.lines, !.marks = t.marks]
  <2>1. Parsed(p, c) = Initialize(p) /\ Plotted(t, c) = u
    BY <1>12 DEF Parsed, Plotted
  <2>2. Goes(Initialize(p), u)
    BY InitializeGoes
  <2> HIDE DEF u
  <2> QED BY <2>1, <2>2
<1>13. CASE c.op = "VS"
  <2>1. Parsed(p, c) = p /\ Plotted(t, c) = t
    BY <1>13 DEF Parsed, Plotted
  <2> QED BY <1>1, <2>1 DEF Goes
<1> QED
  <2>1. c.op \in {"PA", "PR", "PU", "PD", "AA", "SP", "PW", "LT", "CI", "LB", "IN", "VS"}
    BY Arguments
  <2> QED BY <1>2, <1>3, <1>4, <1>5, <1>6, <1>7, <1>8, <1>9, <1>10, <1>11, <1>12, <1>13, <2>1

LEMMA CappedGoes ==
    ASSUME NEW p, NEW t, Goes(p, t)
    PROVE  Goes(Capped(p), t) /\ (Capped(p) = p \/ Capped(p).state = "rejected")
<1>1. Rejected(p) \in Parsers /\ Rejected(p).state = "rejected"
  BY DEF Goes, Rejected, Parsers
<1> QED BY <1>1 DEF Capped, Goes

LEMMA PltStep == PltInv /\ [PltNext]_pltVars => PltInv'
<1> SUFFICES ASSUME PltInv, [PltNext]_pltVars PROVE PltInv'
  OBVIOUS
<1>1. reading \in Reading /\ parser \in Parsers /\ (parser.state = "parsing" => Ready(parser, plotter))
  BY DEF PltInv, Ready
\* What PltInv says of the next state, of a parser and a plotter of this one.
<1>2. ASSUME NEW r, NEW u, r \in Parsers, parser' = r, plotter' = u, reading' = reading,
             r.state \in {"parsing", "parsed"} => Agree(r, u) /\ SameMargin(r, u),
             r.state = "parsed" => r.stroke = <<>>
      PROVE  PltInv'
  <2>1. (parser.state \in {"parsing", "parsed"} => Agree(parser, plotter) /\ SameMargin(parser, plotter))'
    BY <1>2 DEF Agree, Same, Stroke, Ink, Inks, SameMargin, Projecting
  <2> QED BY <1>1, <1>2, <2>1 DEF PltInv
<1>3. ASSUME NEW c \in Commands, ReadCommand(c) PROVE PltInv'
  <2> DEFINE p == [parser EXCEPT !.commands = @ + 1]
             r == Capped(Parsed(p, c))
             u == Plotted(plotter, c)
  <2>1. parser' = r /\ plotter' = u /\ reading' = reading /\ Ready(parser, plotter)
    BY <1>1, <1>3 DEF ReadCommand
  <2>2. Ready(p, plotter)
    <3>1. /\ plotter \in Plotters /\ Agree(parser, plotter) /\ Same(parser, plotter)
          /\ SameMargin(parser, plotter) /\ parser.state = "parsing"
      BY <2>1 DEF Ready, Agree
    <3>2. /\ p \in Parsers /\ p.mode = parser.mode /\ p.down = parser.down /\ p.pen = parser.pen
          /\ p.at = parser.at /\ p.lt = parser.lt /\ p.widths = parser.widths
          /\ p.width = parser.width /\ p.shapes = parser.shapes /\ p.stroke = parser.stroke
          /\ p.styles = parser.styles /\ p.state = "parsing" /\ p.return = parser.return
      <4> DEFINE n == parser.commands + 1
      <4>1. n \in Nat /\ p = [parser EXCEPT !.commands = n]
        BY <1>1 DEF Parsers
      <4> HIDE DEF n, p
      <4> QED BY <1>1, <3>1, <4>1 DEF Parsers
    <3> HIDE DEF p
    <3>3. Same(p, plotter) /\ SameMargin(p, plotter) /\ (Inks(parser) => Inks(p))
      BY <3>1, <3>2 DEF Same, SameMargin, Inks
    <3>4. Agree(p, plotter)
      BY <3>1, <3>2, <3>3, SameDrawing
    <3> QED BY <3>2, <3>3, <3>4 DEF Ready
  <2> HIDE DEF p
  <2>3. Goes(r, u)
    BY <2>2, ParsedGoes, CappedGoes
  <2> HIDE DEF r, u
  <2>4. /\ r \in Parsers
        /\ r.state \in {"parsing", "parsed"} => Agree(r, u) /\ SameMargin(r, u)
        /\ r.state = "parsed" => r.stroke = <<>>
    BY <2>3 DEF Goes, Ready
  <2> QED BY <1>2, <2>1, <2>4
<1>4. CASE TooManyCommands
  <2> DEFINE r == Rejected(parser)
  <2>1. parser' = r /\ plotter' = plotter /\ reading' = reading
    BY <1>4 DEF TooManyCommands
  <2>2. r \in Parsers /\ r.state = "rejected"
    BY <1>1 DEF Rejected, Parsers
  <2> HIDE DEF r
  <2> QED BY <1>2, <2>1, <2>2
<1>5. CASE ReadEnd
  <2> DEFINE f == Flushed(parser)
             p == Capped(f)
             empty == \/ p.shapes = <<>> \/ p.state = "rejected"
                      \/ Projecting /\ Outlined(p) > MaxPoints
             r == IF empty THEN Rejected(p) ELSE [p EXCEPT !.state = "parsed"]
  <2>1. parser' = r /\ plotter' = plotter /\ reading' = reading /\ Ready(parser, plotter)
    BY <1>1, <1>5 DEF ReadEnd
  <2>2. Ready(f, plotter) /\ f.stroke = <<>> /\ f.styles = <<>> /\ f \in Parsers
    BY <2>1, FlushedGoes DEF Ready, Agree
  <2> HIDE DEF f
  <2>3. Goes(p, plotter) /\ (p = f \/ p.state = "rejected")
    BY <2>2, CappedGoes DEF Goes
  <2> HIDE DEF p
  <2>4. p \in Parsers /\ (p.state # "rejected" => p = f)
    BY <2>3 DEF Goes
  <2>5. CASE empty
    <3>1. r = Rejected(p)
      BY <2>5
    <3>2. Rejected(p) \in Parsers /\ Rejected(p).state = "rejected"
      BY <2>4 DEF Rejected, Parsers
    <3> HIDE DEF r, empty
    <3> QED BY <1>2, <2>1, <3>1, <3>2
  <2>6. CASE ~ empty
    <3>1. r = [p EXCEPT !.state = "parsed"] /\ p.state # "rejected"
      BY <2>6
    <3> HIDE DEF r, empty
    <3>2. r = [f EXCEPT !.state = "parsed"]
      BY <2>4, <3>1
    <3>3. /\ plotter \in Plotters /\ Agree(f, plotter) /\ Same(f, plotter) /\ SameMargin(f, plotter)
      BY <2>2 DEF Ready, Agree
    <3>4. /\ r \in Parsers /\ r.mode = f.mode /\ r.down = f.down /\ r.pen = f.pen /\ r.at = f.at
          /\ r.lt = f.lt /\ r.widths = f.widths /\ r.width = f.width /\ r.shapes = f.shapes
          /\ r.stroke = f.stroke /\ r.styles = f.styles /\ r.state = "parsed" /\ r.return = f.return
      BY <2>2, <3>2 DEF Parsers
    <3>5. Same(r, plotter) /\ SameMargin(r, plotter)
      BY <3>3, <3>4 DEF Same, SameMargin
    <3>6. Agree(r, plotter)
      BY <2>2, <3>3, <3>4, <3>5, SameDrawing
    <3>7. r.stroke = <<>>
      BY <2>2, <3>4
    <3> QED BY <1>2, <2>1, <3>4, <3>5, <3>6, <3>7
  <2> QED BY <2>5, <2>6
<1>6. CASE UNCHANGED pltVars
  <2>1. parser' = parser /\ plotter' = plotter /\ reading' = reading
    BY <1>6 DEF pltVars
  <2>2. /\ parser.state \in {"parsing", "parsed"} => Agree(parser, plotter) /\ SameMargin(parser, plotter)
        /\ parser.state = "parsed" => parser.stroke = <<>>
    BY DEF PltInv
  <2> QED BY <1>1, <1>2, <2>1, <2>2
<1> QED BY <1>3, <1>4, <1>5, <1>6 DEF PltNext

\* Parser and plotter agree on their settings after every command, and the
\* shapes with the stroke that parse_plt still gathers are what was drawn.
THEOREM PltInvariance == PltSpec => []PltInv
<1>1. PltInit => PltInv
  <2> SUFFICES ASSUME PltInit PROVE PltInv
    OBVIOUS
  <2>1. reading \in Reading /\ parser = Reset /\ plotter = PowerOn
    BY DEF PltInit
  <2>2. /\ Reset \in Parsers /\ Agree(Reset, PowerOn) /\ SameMargin(Reset, PowerOn)
        /\ Reset.state = "parsing"
    BY ResetFacts
  <2> QED BY <2>1, <2>2 DEF PltInv
<1> QED BY <1>1, PltStep, PTL DEF PltSpec

\* The shapes of an accepted file are the ink of a plotter that gets the same
\* commands, and its size is the size of the ink: flush_stroke splits a path
\* wherever the pen, or what it draws, may change.
THEOREM ShapesAlwaysTheInk == PltSpec => []ShapesAreTheInk
<1>1. PltInv => ShapesAreTheInk
  <2> SUFFICES ASSUME PltInv, parser.state = "parsed"
               PROVE  /\ AllLines(parser.shapes) = plotter.lines
                      /\ AllMarks(parser.shapes) = plotter.marks
                      /\ Measured(parser.shapes) = Box(InkExtent(plotter.lines, plotter.marks))
    BY DEF ShapesAreTheInk
  <2>1. parser \in Parsers /\ parser.stroke = <<>> /\ Stroke(parser) /\ Ink(parser, plotter)
    BY DEF PltInv, Agree
  <2>2. parser.shapes \in Seq(Shapes) /\ parser.styles = <<>>
    BY <2>1 DEF Parsers, Stroke
  <2>3. LinesOf(Path(parser)) = <<>>
    BY <2>2 DEF LinesOf, Path
  <2>4. AllLines(parser.shapes) \in Seq(Segments)
    BY <2>2, DocumentDraws
  <2>5. AllLines(parser.shapes) = plotter.lines /\ AllMarks(parser.shapes) = plotter.marks
    BY <2>1, <2>3, <2>4, ConcatEmptySeq DEF Ink
  <2>6. Measured(parser.shapes) = Box(InkExtent(plotter.lines, plotter.marks))
    BY <2>2, <2>5, DocumentExtent DEF Measured
  <2> QED BY <2>5, <2>6
<1> QED BY <1>1, PltInvariance, PTL

-----------------------------------------------------------------------------
(* Cells                                                                   *)

LEMMA Division ==
    ASSUME NEW n \in Nat \ {0}, NEW a \in Nat
    PROVE  /\ a \div n \in Nat /\ a % n \in 0..n - 1
           /\ a = n * (a \div n) + (a % n)
OBVIOUS

LEMMA Quotient ==
    ASSUME NEW n \in Nat \ {0}, NEW m \in Nat \ {0}, NEW a \in 0..n * m - 1
    PROVE  a \div n \in 0..m - 1
<1>1. /\ a \in Nat /\ a \div n \in Nat /\ a % n \in Nat
      /\ a = n * (a \div n) + (a % n) /\ a < n * m
  BY Division
<1> DEFINE q == a \div n
<1>2. q \in Nat /\ n * q <= a
  BY <1>1
<1> HIDE DEF q
<1>3. ~ (q >= m)
  <2> SUFFICES ASSUME q >= m PROVE FALSE
    OBVIOUS
  <2>1. n * q >= n * m
    BY <1>2
  <2> QED BY <1>1, <1>2, <2>1
<1> QED BY <1>2, <1>3 DEF q

\* Different slots are different cells of the grid.
LEMMA CellsDiffer ==
    ASSUME NEW rows \in Nat \ {0}, NEW columns \in Nat \ {0}, NEW order,
           NEW k \in 1..rows * columns
    PROVE  /\ CellOf(rows, columns, order, k)[1] \in 0..rows - 1
           /\ CellOf(rows, columns, order, k)[2] \in 0..columns - 1
           /\ \A j \in 1..rows * columns :
                 CellOf(rows, columns, order, j) = CellOf(rows, columns, order, k) => j = k
<1>1. rows * columns \in Nat /\ rows * columns = columns * rows
  OBVIOUS
<1>2. k - 1 \in 0..rows * columns - 1 /\ k - 1 \in Nat
  BY <1>1
<1>3. /\ (k - 1) \div columns \in 0..rows - 1 /\ (k - 1) % columns \in 0..columns - 1
      /\ (k - 1) \div rows \in 0..columns - 1 /\ (k - 1) % rows \in 0..rows - 1
  BY <1>1, <1>2, Division, Quotient
<1>4. ASSUME NEW j \in 1..rows * columns,
             CellOf(rows, columns, order, j) = CellOf(rows, columns, order, k)
      PROVE  j = k
  <2>1. j - 1 \in Nat
    BY <1>1
  <2>2. CASE order = "row"
    <3>1. (j - 1) \div columns = (k - 1) \div columns /\ (j - 1) % columns = (k - 1) % columns
      BY <1>4, <2>2 DEF CellOf
    <3>2. j - 1 = k - 1
      BY <1>2, <2>1, <3>1, Division
    <3> QED BY <1>1, <3>2
  <2>3. CASE order # "row"
    <3>1. (j - 1) \div rows = (k - 1) \div rows /\ (j - 1) % rows = (k - 1) % rows
      BY <1>4, <2>3 DEF CellOf
    <3>2. j - 1 = k - 1
      BY <1>2, <2>1, <3>1, Division
    <3> QED BY <1>1, <3>2
  <2> QED BY <2>2, <2>3
<1>5. /\ CellOf(rows, columns, order, k)[1] \in 0..rows - 1
      /\ CellOf(rows, columns, order, k)[2] \in 0..columns - 1
  BY <1>3 DEF CellOf
<1> QED BY <1>4, <1>5

-----------------------------------------------------------------------------
(* Lengths                                                                 *)

\* Where a line ends, the next one begins.
LEMMA Advance ==
    ASSUME NEW n \in Nat, NEW w \in [0..n - 1 -> Nat], NEW c \in 0..n - 1, NEW e \in c + 1..n
    PROVE  /\ Total(w, 0..c - 1) \in Nat /\ Total(w, 0..e - 1) \in Nat
           /\ Total(w, 0..c - 1) + w[c] <= Total(w, 0..e - 1)
<1>1. \A m \in 0..n : IsFiniteSet(0..m - 1) /\ \A l \in 0..m - 1 : w[l] \in Nat
  BY FS_Interval
<1>2. c \in 0..c /\ (0..c) \ {c} = 0..c - 1 /\ c + 1 \in 0..n /\ (c + 1) - 1 = c /\ e \in 0..n
  OBVIOUS
<1>3. IsFiniteSet(0..c) /\ \A l \in 0..c : w[l] \in Nat
  BY <1>1, <1>2
<1>4. Total(w, 0..c) = w[c] + Total(w, 0..c - 1)
  <2>1. Total(w, 0..c) = w[c] + Total(w, (0..c) \ {c})
    BY <1>2, <1>3, TotalRemove
  <2> QED BY <1>2, <2>1
<1>5. /\ Total(w, 0..c - 1) \in Nat /\ Total(w, 0..c) \in Nat /\ Total(w, 0..e - 1) \in Nat
  <2>1. c \in 0..n
    OBVIOUS
  <2> QED BY <1>1, <1>2, <1>3, <2>1, TotalChosen
<1>6. Total(w, 0..c) <= Total(w, 0..e - 1)
  <2>1. (0..c) \in SUBSET (0..e - 1) /\ IsFiniteSet(0..e - 1) /\ \A l \in 0..e - 1 : w[l] \in Nat
    BY <1>1, <1>2
  <2>2. \A l \in 0..c : w[l] \in Nat /\ w[l] <= w[l]
    BY <1>3
  <2> QED BY <2>1, <2>2, TotalMonotone
<1>7. w[c] \in Nat
  OBVIOUS
<1> QED BY <1>4, <1>5, <1>6, <1>7

-----------------------------------------------------------------------------
(* build_layout                                                            *)

\* The rank of a member of a finite set that is ordered by the numbers f.
RankIn(S, f, x) == Cardinality({y \in S : f[y] < f[x]})

\* In a finite set ordered by distinct numbers every rank is somebody's, and
\* only one's.
LEMMA Ranked ==
    ASSUME NEW S, IsFiniteSet(S), NEW f, \A x \in S : f[x] \in Int,
           \A x, y \in S : f[x] = f[y] => x = y
    PROVE  /\ Cardinality(S) \in Nat
           /\ \A x \in S : RankIn(S, f, x) \in 0..Cardinality(S) - 1
           /\ \A x, y \in S : RankIn(S, f, x) = RankIn(S, f, y) => x = y
           /\ \A n \in 0..Cardinality(S) - 1 : \E x \in S : RankIn(S, f, x) = n
<1> DEFINE below(x) == {y \in S : f[y] < f[x]}
           rank(x) == Cardinality(below(x))
           last == Cardinality(S) - 1
           r == [x \in S |-> rank(x)]
<1>1. \A x \in S : below(x) \in SUBSET S /\ x \notin below(x)
  OBVIOUS
<1>2. Cardinality(S) \in Nat
  BY FS_CardinalityType
<1>3. \A x, y \in S : f[x] < f[y] => below(x) \subseteq below(y) /\ x \in below(y)
  <2> SUFFICES ASSUME NEW x \in S, NEW y \in S, f[x] < f[y]
               PROVE  below(x) \subseteq below(y) /\ x \in below(y)
    OBVIOUS
  <2>1. \A z \in S : f[z] < f[x] => f[z] < f[y]
    OBVIOUS
  <2> QED BY <2>1
<1> HIDE DEF below
<1>4. \A x \in S : IsFiniteSet(below(x)) /\ rank(x) \in Nat
  BY <1>1, FS_Subset, FS_CardinalityType
<1>5. ASSUME NEW x \in S PROVE rank(x) \in 0..last
  <2>1. rank(x) <= Cardinality(S) /\ rank(x) # Cardinality(S)
    BY <1>1, FS_Subset
  <2> QED BY <1>2, <1>4, <2>1
<1>6. ASSUME NEW x \in S, NEW y \in S, f[x] < f[y] PROVE rank(x) < rank(y)
  <2>1. below(x) \in SUBSET below(y) /\ below(x) # below(y)
    BY <1>1, <1>3, <1>6
  <2>2. rank(x) <= rank(y) /\ rank(x) # rank(y)
    BY <1>4, <2>1, FS_Subset
  <2> QED BY <1>4, <2>2
<1> HIDE DEF rank
<1>7. \A x, y \in S : rank(x) = rank(y) => x = y
  <2> SUFFICES ASSUME NEW x \in S, NEW y \in S, rank(x) = rank(y), x # y PROVE FALSE
    OBVIOUS
  <2>1. f[x] < f[y] \/ f[y] < f[x]
    OBVIOUS
  <2> QED BY <1>4, <1>6, <2>1
<1>8. \A n \in 0..last : \E x \in S : r[x] = n
  <2>1. r \in Injection(S, 0..last)
    BY <1>5, <1>7 DEF Injection, IsInjective
  <2>2. 0 \in Int /\ last \in Int
    BY <1>2
  <2>3. IsFiniteSet(0..last) /\ Cardinality(0..last) = Cardinality(S)
    BY <1>2, <2>2, FS_Interval
  <2>4. r \in Surjection(S, 0..last)
    <3> HIDE DEF r, last
    <3> QED BY <2>1, <2>3, FS_Injection
  <2> HIDE DEF r, last
  <2> QED BY <2>4 DEF Surjection
<1>9. \A x : rank(x) = RankIn(S, f, x)
  BY DEF rank, below, RankIn
<1> QED BY <1>2, <1>5, <1>7, <1>8, <1>9

\* The pages in the order of the document are all of them.
LEMMA Selected_All ==
    ASSUME NEW included, IsFiniteSet(included), included \subseteq Nat
    PROVE  included \subseteq ToSet(Selection(included))
<1> DEFINE f == [i \in included |-> i]
           rank(i) == RankIn(included, f, i)
<1>1. \A i \in included : f[i] \in Int
  OBVIOUS
<1>2. \A i, j \in included : f[i] = f[j] => i = j
  OBVIOUS
<1>3. \A i \in included : rank(i) = Cardinality({j \in included : j < i})
  <2> SUFFICES ASSUME NEW i \in included
               PROVE  rank(i) = Cardinality({j \in included : j < i})
    OBVIOUS
  <2>1. {j \in included : f[j] < f[i]} = {j \in included : j < i}
    OBVIOUS
  <2> QED BY <2>1 DEF RankIn
<1> HIDE DEF f
<1>4. /\ Cardinality(included) \in Nat
      /\ \A i \in included : rank(i) \in 0..Cardinality(included) - 1
      /\ \A i, j \in included : rank(i) = rank(j) => i = j
  BY <1>1, <1>2, Ranked
<1> HIDE DEF rank
<1>5. ASSUME NEW i \in included PROVE i \in ToSet(Selection(included))
  <2> DEFINE k == rank(i) + 1
  <2>1. k \in 1..Cardinality(included) /\ k - 1 = rank(i)
    BY <1>4
  <2> HIDE DEF k
  <2>2. DOMAIN Selection(included) = 1..Cardinality(included)
        /\ Selection(included)[k] = (CHOOSE j \in included : Cardinality({h \in included : h < j}) = k - 1)
    BY <2>1 DEF Selection
  <2>3. (CHOOSE j \in included : Cardinality({h \in included : h < j}) = k - 1) = i
    <3> DEFINE c(j) == Cardinality({h \in included : h < j})
    <3>1. \A j \in included : c(j) = rank(j)
      BY <1>3
    <3> HIDE DEF c
    <3>2. (CHOOSE j \in included : c(j) = k - 1) = i
      BY <1>4, <2>1, <3>1
    <3> QED BY <3>2 DEF c
  <2> QED BY <2>1, <2>2, <2>3 DEF ToSet
<1> QED BY <1>5

\* What is asked for: margins and frames in whole units.
AskFits(ask) ==
    /\ {ask.crop.left, ask.crop.right, ask.crop.top, ask.crop.bottom} \subseteq Int
    /\ ask.frames # NoFrames => {ask.frames.width, ask.frames.height} \subseteq Int

\* The parts of BuildLayout, with names of their own.
SlotsOf(ask, included) == Filled(ask.rows, ask.columns, ask.slots, Selection(included))
SizeOf(pages, ask, i) == Visible(pages[i], ask.frames, ask.crop)
CellsOf(ask, included) ==
    [i \in included |->
        CellOf(ask.rows, ask.columns, ask.order,
               CHOOSE k \in DOMAIN SlotsOf(ask, included) : SlotsOf(ask, included)[k] = i)]
LineSize(pages, ask, included, axis, line) ==
    LET there == {i \in included : CellsOf(ask, included)[i][3 - axis] = line}
    IN  Max({SizeOf(pages, ask, i)[axis] : i \in IF there = {} THEN included ELSE there})
Before(pages, ask, included, axis, line) ==
    SumFunction([l \in 0..line - 1 |-> LineSize(pages, ask, included, axis, l)])
Placement(pages, ask, included, i) ==
    [page |-> i,
     x |-> Before(pages, ask, included, 1, CellsOf(ask, included)[i][2]),
     y |-> Before(pages, ask, included, 2, CellsOf(ask, included)[i][1]),
     width |-> SizeOf(pages, ask, i)[1], height |-> SizeOf(pages, ask, i)[2]]

LEMMA Built ==
    ASSUME NEW pages, NEW ask, NEW included, BuildLayout(pages, ask, included) # NoLayout
    PROVE  LET built == BuildLayout(pages, ask, included)
               before(axis, line) == Before(pages, ask, included, axis, line)
           IN  /\ Acceptable(pages, ask, SlotsOf(ask, included), Selection(included))
               /\ built.width = before(1, ask.columns) /\ built.height = before(2, ask.rows)
               /\ built.placements = {Placement(pages, ask, included, i) : i \in included}
<1>1. BuildLayout(pages, ask, included) =
        IF ~Acceptable(pages, ask, SlotsOf(ask, included), Selection(included)) THEN NoLayout
        ELSE [rows |-> ask.rows, columns |-> ask.columns,
              width |-> Before(pages, ask, included, 1, ask.columns),
              height |-> Before(pages, ask, included, 2, ask.rows),
              placements |-> {Placement(pages, ask, included, i) : i \in included}]
  BY DEF BuildLayout, SlotsOf, SizeOf, CellsOf, LineSize, Before, Placement
<1> QED BY <1>1

\* The input of build_layout: pages with sizes, margins and frames.
PlacedPages(pages, ask, included) ==
    /\ IsFiniteSet(included) /\ included \subseteq Nat
    /\ \A i \in included : {pages[i].width, pages[i].height} \subseteq Int
    /\ AskFits(ask)
    /\ Acceptable(pages, ask, SlotsOf(ask, included), Selection(included))

\* Every page has a cell of its own, and something of it is shown.
LEMMA PagesHaveCells ==
    ASSUME NEW pages, NEW ask, NEW included, PlacedPages(pages, ask, included)
    PROVE  LET cells == CellsOf(ask, included)
           IN  /\ ask.rows \in Nat \ {0} /\ ask.columns \in Nat \ {0}
               /\ \A i \in included : /\ cells[i][1] \in 0..ask.rows - 1
                                      /\ cells[i][2] \in 0..ask.columns - 1
                                      /\ SizeOf(pages, ask, i)[1] \in Nat \ {0}
                                      /\ SizeOf(pages, ask, i)[2] \in Nat \ {0}
               /\ \A i, j \in included :
                     cells[i][1] = cells[j][1] /\ cells[i][2] = cells[j][2] => i = j
<1> DEFINE slots == SlotsOf(ask, included)
           cells == CellsOf(ask, included)
           slot(i) == CHOOSE k \in DOMAIN slots : slots[k] = i
           cell(k) == CellOf(ask.rows, ask.columns, ask.order, k)
<1>1. /\ ask.rows \in Nat \ {0} /\ ask.columns \in Nat \ {0}
      /\ DOMAIN slots = 1..ask.rows * ask.columns
      /\ {slots[k] : k \in Shown(slots)} = ToSet(Selection(included))
  BY GridAssumption DEF PlacedPages, Acceptable
<1>2. included \subseteq ToSet(Selection(included))
  BY Selected_All DEF PlacedPages
<1>3. \A i \in included : cells[i] = cell(slot(i))
  BY DEF CellsOf
<1> HIDE DEF cells
<1>4. \A i \in included : slot(i) \in DOMAIN slots /\ slots[slot(i)] = i
  <2> SUFFICES ASSUME NEW i \in included PROVE slot(i) \in DOMAIN slots /\ slots[slot(i)] = i
    OBVIOUS
  <2> HIDE DEF slots
  <2>1. \E k \in DOMAIN slots : slots[k] = i
    BY <1>1, <1>2 DEF Shown
  <2> QED BY <2>1
<1> HIDE DEF slot, slots
<1>5. \A i \in included : slot(i) \in 1..ask.rows * ask.columns
  BY <1>1, <1>4
<1>6. \A i \in included : cells[i][1] \in 0..ask.rows - 1 /\ cells[i][2] \in 0..ask.columns - 1
  BY <1>1, <1>3, <1>5, CellsDiffer
<1>7. ASSUME NEW i \in included, NEW j \in included,
             cells[i][1] = cells[j][1], cells[i][2] = cells[j][2]
      PROVE  i = j
  <2>1. \A k : cell(k) = <<cell(k)[1], cell(k)[2]>>
    BY DEF CellOf
  <2>2. cell(slot(i)) = cell(slot(j))
    <3> HIDE DEF cell
    <3> QED BY <1>3, <1>7, <2>1
  <2>3. slot(i) = slot(j)
    BY <1>1, <1>5, <2>2, CellsDiffer
  <2> QED BY <1>4, <2>3
<1>8. ASSUME NEW i \in included
      PROVE  SizeOf(pages, ask, i)[1] \in Nat \ {0} /\ SizeOf(pages, ask, i)[2] \in Nat \ {0}
  <2>1. SizeOf(pages, ask, i)[1] >= 1 /\ SizeOf(pages, ask, i)[2] >= 1
    BY <1>2 DEF PlacedPages, Acceptable, SizeOf
  <2>2. SizeOf(pages, ask, i)[1] \in Int /\ SizeOf(pages, ask, i)[2] \in Int
    BY DEF PlacedPages, AskFits, SizeOf, Visible
  <2> QED BY <2>1, <2>2
<1> QED BY <1>1, <1>6, <1>7, <1>8 DEF cells

\* A row is as high and a column as wide as what is in it.
LEMMA LineSizes ==
    ASSUME NEW pages, NEW ask, NEW included, PlacedPages(pages, ask, included), included # {},
           NEW axis \in {1, 2}, NEW line
    PROVE  /\ LineSize(pages, ask, included, axis, line) \in Nat
           /\ \A i \in included : CellsOf(ask, included)[i][3 - axis] = line =>
                 SizeOf(pages, ask, i)[axis] <= LineSize(pages, ask, included, axis, line)
<1> DEFINE there == {i \in included : CellsOf(ask, included)[i][3 - axis] = line}
           pool == IF there = {} THEN included ELSE there
           sizes == {SizeOf(pages, ask, i)[axis] : i \in pool}
<1>1. pool # {} /\ pool \subseteq included /\ IsFiniteSet(pool)
  <2>1. IsFiniteSet(included)
    BY DEF PlacedPages
  <2> QED BY <2>1, FS_Subset
<1>2. \A i \in included : SizeOf(pages, ask, i)[axis] \in Nat
  BY PagesHaveCells
<1>3. sizes # {} /\ \A x \in sizes : x \in Nat
  BY <1>1, <1>2
<1>4. IsFiniteSet(sizes)
  <2> DEFINE f == [i \in pool |-> SizeOf(pages, ask, i)[axis]]
  <2>1. sizes = {f[i] : i \in pool}
    OBVIOUS
  <2> HIDE DEF f, sizes, pool
  <2> QED BY <1>1, <2>1, FiniteImage
<1>5. Max(sizes) \in sizes /\ \A x \in sizes : x <= Max(sizes)
  <2> HIDE DEF sizes
  <2> QED BY <1>3, <1>4, GreatestNatural
<1>6. LineSize(pages, ask, included, axis, line) = Max(sizes)
  BY DEF LineSize
<1>7. \A i \in included : CellsOf(ask, included)[i][3 - axis] = line =>
         SizeOf(pages, ask, i)[axis] \in sizes
  OBVIOUS
<1> QED BY <1>3, <1>5, <1>6, <1>7

LEMMA EndsAfter ==
    \A start, size, room, end \in Nat :
        size <= room /\ start + room <= end => start + size <= end
OBVIOUS

\* What comes before a line leaves room for it, and for what is in it.
LEMMA Room ==
    ASSUME NEW pages, NEW ask, NEW included, PlacedPages(pages, ask, included),
           NEW axis \in {1, 2}, NEW n \in Nat,
           NEW i \in included, CellsOf(ask, included)[i][3 - axis] \in 0..n - 1,
           NEW e \in CellsOf(ask, included)[i][3 - axis] + 1..n
    PROVE  LET before(line) == Before(pages, ask, included, axis, line)
               line == CellsOf(ask, included)[i][3 - axis]
           IN  /\ before(line) \in Nat /\ before(e) \in Nat
               /\ before(line) + SizeOf(pages, ask, i)[axis] <= before(e)
<1> DEFINE line == CellsOf(ask, included)[i][3 - axis]
           w == [l \in 0..n - 1 |-> LineSize(pages, ask, included, axis, l)]
           part(m) == [l \in 0..m - 1 |-> LineSize(pages, ask, included, axis, l)]
<1>1. w \in [0..n - 1 -> Nat] /\ SizeOf(pages, ask, i)[axis] <= w[line]
  BY LineSizes
<1>2. \A m \in 0..n : /\ DOMAIN part(m) = 0..m - 1
                      /\ \A l \in 0..m - 1 : part(m)[l] = w[l] /\ w[l] \in Nat
  BY <1>1
<1>3. ASSUME NEW m \in 0..n PROVE Before(pages, ask, included, axis, m) = Total(w, 0..m - 1)
  <2>1. Before(pages, ask, included, axis, m) = SumFunctionOnSet(part(m), 0..m - 1)
    BY DEF Before, SumFunction
  <2> DEFINE p == part(m)
  <2>2. /\ IsFiniteSet(0..m - 1)
        /\ \A l \in 0..m - 1 : p[l] = w[l] /\ w[l] \in Nat
    <3>1. m - 1 \in Int /\ 0 \in Int
      OBVIOUS
    <3>2. IsFiniteSet(0..m - 1)
      BY <3>1, FS_Interval
    <3> HIDE DEF w
    <3> QED BY <1>2, <3>2
  <2>3. SumFunctionOnSet(p, 0..m - 1) = Total(p, 0..m - 1) /\ Total(p, 0..m - 1) = Total(w, 0..m - 1)
    <3> HIDE DEF p, w
    <3> QED BY <2>2, SumIsTotal, TotalAgrees
  <2> QED BY <2>1, <2>3
<1>4. line \in 0..n - 1 /\ e \in line + 1..n /\ line \in 0..n /\ e \in 0..n
  OBVIOUS
<1> HIDE DEF w, line, part
<1>5. /\ Total(w, 0..line - 1) \in Nat /\ Total(w, 0..e - 1) \in Nat
      /\ Total(w, 0..line - 1) + w[line] <= Total(w, 0..e - 1)
  BY <1>1, <1>4, Advance
<1>6. /\ w[line] \in Nat /\ SizeOf(pages, ask, i)[axis] \in Nat
      /\ SizeOf(pages, ask, i)[axis] <= w[line]
  BY <1>1, <1>4, PagesHaveCells
<1>7. Before(pages, ask, included, axis, line) = Total(w, 0..line - 1)
      /\ Before(pages, ask, included, axis, e) = Total(w, 0..e - 1)
  BY <1>3, <1>4
<1> QED BY <1>5, <1>6, <1>7, EndsAfter DEF line

-----------------------------------------------------------------------------
(* Soundness                                                               *)

\* Every page once, inside the sheet, none under another.
Sound(built, included) ==
    /\ {p.page : p \in built.placements} = included
    /\ \A p, q \in built.placements : p # q => p.page # q.page /\ Apart(p, q)
    /\ \A p \in built.placements :
          p.x + p.width <= built.width /\ p.y + p.height <= built.height

\* Whatever is asked for: what build_layout does not refuse is sound.
THEOREM LayoutsAreSound ==
    ASSUME NEW pages, NEW ask, NEW included, IsFiniteSet(included), included \subseteq Nat,
           \A i \in included : {pages[i].width, pages[i].height} \subseteq Int,
           AskFits(ask), BuildLayout(pages, ask, included) # NoLayout
    PROVE  Sound(BuildLayout(pages, ask, included), included)
<1> DEFINE built == BuildLayout(pages, ask, included)
           cells == CellsOf(ask, included)
           before(axis, line) == Before(pages, ask, included, axis, line)
           place(i) == Placement(pages, ask, included, i)
<1>1. /\ PlacedPages(pages, ask, included)
      /\ built.width = before(1, ask.columns) /\ built.height = before(2, ask.rows)
      /\ built.placements = {place(i) : i \in included}
  <2>1. Acceptable(pages, ask, SlotsOf(ask, included), Selection(included))
    BY Built
  <2>2. PlacedPages(pages, ask, included)
    BY <2>1 DEF PlacedPages
  <2>3. built.width = before(1, ask.columns) /\ built.height = before(2, ask.rows)
    BY Built
  <2>4. built.placements = {place(i) : i \in included}
    BY Built
  <2> QED BY <2>2, <2>3, <2>4
<1>p. \A i : /\ place(i).page = i
             /\ place(i).x = before(1, cells[i][2]) /\ place(i).y = before(2, cells[i][1])
             /\ place(i).width = SizeOf(pages, ask, i)[1]
             /\ place(i).height = SizeOf(pages, ask, i)[2]
  BY DEF Placement
<1>2. /\ ask.rows \in Nat \ {0} /\ ask.columns \in Nat \ {0}
      /\ \A i \in included : cells[i][1] \in 0..ask.rows - 1 /\ cells[i][2] \in 0..ask.columns - 1
      /\ \A i, j \in included : cells[i][1] = cells[j][1] /\ cells[i][2] = cells[j][2] => i = j
  BY <1>1, PagesHaveCells
<1> HIDE DEF built, cells, place
<1>3. ASSUME NEW i \in included, NEW e \in cells[i][2] + 1..ask.columns
      PROVE  place(i).x + place(i).width <= before(1, e)
  <2>1. cells[i][3 - 1] = cells[i][2]
    OBVIOUS
  <2> QED BY <1>1, <1>2, <1>3, <1>p, <2>1, Room DEF cells
<1>4. ASSUME NEW i \in included, NEW e \in cells[i][1] + 1..ask.rows
      PROVE  place(i).y + place(i).height <= before(2, e)
  <2>1. cells[i][3 - 2] = cells[i][1]
    OBVIOUS
  <2> QED BY <1>1, <1>2, <1>4, <1>p, <2>1, Room DEF cells
<1>5. ASSUME NEW i \in included, NEW j \in included, i # j PROVE Apart(place(i), place(j))
  <2>1. \/ cells[j][2] \in cells[i][2] + 1..ask.columns
        \/ cells[i][2] \in cells[j][2] + 1..ask.columns
        \/ cells[j][1] \in cells[i][1] + 1..ask.rows
        \/ cells[i][1] \in cells[j][1] + 1..ask.rows
    BY <1>2, <1>5
  <2>2. CASE cells[j][2] \in cells[i][2] + 1..ask.columns
    <3>1. place(i).x + place(i).width <= place(j).x
      BY <1>3, <1>p, <2>2
    <3> QED BY <3>1 DEF Apart
  <2>3. CASE cells[i][2] \in cells[j][2] + 1..ask.columns
    <3>1. place(j).x + place(j).width <= place(i).x
      BY <1>3, <1>p, <2>3
    <3> QED BY <3>1 DEF Apart
  <2>4. CASE cells[j][1] \in cells[i][1] + 1..ask.rows
    <3>1. place(i).y + place(i).height <= place(j).y
      BY <1>4, <1>p, <2>4
    <3> QED BY <3>1 DEF Apart
  <2>5. CASE cells[i][1] \in cells[j][1] + 1..ask.rows
    <3>1. place(j).y + place(j).height <= place(i).y
      BY <1>4, <1>p, <2>5
    <3> QED BY <3>1 DEF Apart
  <2> QED BY <2>1, <2>2, <2>3, <2>4, <2>5
<1>6. ASSUME NEW i \in included
      PROVE  /\ place(i).x + place(i).width <= built.width
             /\ place(i).y + place(i).height <= built.height
  <2>1. ask.columns \in cells[i][2] + 1..ask.columns /\ ask.rows \in cells[i][1] + 1..ask.rows
    BY <1>2
  <2> QED BY <1>1, <1>3, <1>4, <2>1
<1>7. {p.page : p \in built.placements} = included
  <2> DEFINE shown == {p.page : p \in built.placements}
  <2>1. \A i \in included : i \in shown
    <3>1. \A i \in included : place(i) \in built.placements /\ i = place(i).page
      BY <1>1, <1>p
    <3> QED BY <3>1
  <2>2. \A x \in shown : x \in included
    BY <1>1, <1>p
  <2> HIDE DEF shown
  <2>3. shown = included
    BY <2>1, <2>2
  <2> QED BY <2>3 DEF shown
<1>8. \A p, q \in built.placements : p # q => p.page # q.page /\ Apart(p, q)
  <2> SUFFICES ASSUME NEW i \in included, NEW j \in included, place(i) # place(j)
               PROVE  place(i).page # place(j).page /\ Apart(place(i), place(j))
    BY <1>1
  <2> QED BY <1>5, <1>p
<1>9. \A p \in built.placements :
          p.x + p.width <= built.width /\ p.y + p.height <= built.height
  BY <1>1, <1>6
<1> QED BY <1>7, <1>8, <1>9 DEF Sound, built

-----------------------------------------------------------------------------
(* The analysis                                                            *)

LEMMA PagesOfDocuments ==
    ASSUME NEW d \in Documents
    PROVE  /\ d.printing.crop \in Nat
           /\ IsFiniteSet(Included(d)) /\ Included(d) \subseteq Nat
           /\ \A i \in Included(d) :
                 {PageSizes(d)[i].width, PageSizes(d)[i].height} \subseteq Int
<1>1. d.printing \in Printings /\ \E grid \in Sheets, order \in Orders : d.sheet \in SheetsOf(grid, order)
  BY DEF Documents
<1>2. d.printing.crop \in Nat
  BY <1>1, SeamAssumption
<1>3. IsFiniteSet(d.sheet.cells)
  <2>1. PICK grid \in Sheets, order \in Orders : d.sheet \in SheetsOf(grid, order)
    BY <1>1
  <2>2. grid[1] \in Nat /\ grid[2] \in Nat
    BY SeamAssumption
  <2>3. d.sheet.cells \subseteq Cells(grid[1], grid[2])
    BY <2>1 DEF SheetsOf
  <2>4. IsFiniteSet(0..grid[1] - 1) /\ IsFiniteSet(0..grid[2] - 1)
    <3>1. 0 \in Int /\ grid[1] - 1 \in Int /\ grid[2] - 1 \in Int
      BY <2>2
    <3> QED BY <3>1, FS_Interval
  <2>5. IsFiniteSet(Cells(grid[1], grid[2]))
    BY <2>4, FS_Product DEF Cells
  <2> QED BY <2>3, <2>5, FS_Subset
<1>4. Tiles(d) \in Nat /\ Cover(d) \in Nat
  BY <1>3, FS_CardinalityType DEF Tiles, Cover
<1> DEFINE n == Tiles(d) + Cover(d) - 1
<1>5. n \in Int /\ DOMAIN PageSizes(d) = 0..n
  BY <1>4 DEF PageSizes
<1>6. Included(d) \subseteq 0..n
  BY <1>5 DEF Included
<1>7. \A i \in 0..n : PageSizes(d)[i].width \in Int /\ PageSizes(d)[i].height \in Int
  BY DEF PageSizes
<1> HIDE DEF n
<1>8. IsFiniteSet(0..n)
  <2>1. 0 \in Int
    OBVIOUS
  <2> QED BY <1>5, <2>1, FS_Interval
<1> QED BY <1>2, <1>5, <1>6, <1>7, <1>8, FS_Subset

LEMMA SuggestFits ==
    ASSUME NEW l, NEW confidence, NEW crop \in Nat, NEW frames, NEW d,
           frames = NoFrames \/ {frames.width, frames.height} \subseteq Int
    PROVE  AskFits(Suggest(l, confidence, crop, frames, d).ask)
BY DEF Suggest, Margins, AskFits

\* Whatever way a suggestion was found, it says how sure it is, and asks for
\* whole margins if it is at all.
Answers == {"low", "medium", "high"}

LEMMA Sure == \A r, pages, doubtful : Confidence(r, pages, doubtful) \in Answers
BY DEF Confidence, Answers

LEMMA ChosenAreSure ==
    ASSUME NEW margin, NEW searching, NEW x \in ChosenLayout(margin, searching)
    PROVE  x.confidence \in Answers
<1>1. PICK best, pages, doubtful :
         x = [result |-> best, confidence |-> Confidence(best, pages, doubtful)]
  BY Zenon DEF ChosenLayout
<1>2. x.confidence = Confidence(best, pages, doubtful)
  BY <1>1
<1> QED BY <1>2, Sure

LEMMA SuggestionsFit ==
    ASSUME NEW d \in Documents, NEW s \in Suggestions(d)
    PROVE  \/ s = Insufficient
           \/ AskFits(s.ask) /\ s.confidence \in Answers /\ s.ask # <<>>
<1> DEFINE Found == AskFits(s.ask) /\ s.confidence \in Answers /\ s.ask # <<>>
<1>0. ASSUME NEW l, NEW c \in Answers, NEW crop \in Nat, NEW frames,
             frames = NoFrames \/ {frames.width, frames.height} \subseteq Int,
             s = Suggest(l, c, crop, frames, d)
      PROVE  Found
  <2>1. AskFits(s.ask)
    BY <1>0, SuggestFits
  <2>2. s.confidence = c
    BY <1>0 DEF Suggest
  <2>3. "rows" \in DOMAIN s.ask
    BY <1>0 DEF Suggest
  <2>4. s.ask # <<>>
    BY <2>3
  <2> QED BY <1>0, <2>1, <2>2, <2>4
<1>1. d.printing.crop \in Nat
  BY PagesOfDocuments
<1>2. CASE s = EmbeddedSuggestion(d)
  <2>1. "high" \in Answers
    BY DEF Answers
  <2>2. \E l : s = Suggest(l, "high", d.printing.crop, NoFrames, d)
    BY <1>2 DEF EmbeddedSuggestion
  <2> QED BY <1>0, <1>1, <2>1, <2>2
<1>3. CASE s = NumberedSuggestion(d)
  <2> DEFINE frame == [width |-> 6 - 2 * d.printing.crop, height |-> 5 - 2 * d.printing.crop]
  <2>1. {frame.width, frame.height} \subseteq Int
    BY <1>1
  <2>2. \E l, r, pages, doubtful : s = Suggest(l, Confidence(r, pages, doubtful), 0, frame, d)
    BY <1>3 DEF NumberedSuggestion
  <2> HIDE DEF frame
  <2>3. PICK l, r, pages, doubtful : s = Suggest(l, Confidence(r, pages, doubtful), 0, frame, d)
    BY <2>2
  <2>4. Confidence(r, pages, doubtful) \in Answers /\ 0 \in Nat
    BY Sure
  <2> QED BY <1>0, <2>1, <2>3, <2>4
<1>4. CASE s \in SeamSuggestions(d)
  <2>1. \E crop \in Crops, c \in Answers : \E l : s = Suggest(l, c, crop, NoFrames, d)
    <3> DEFINE one(c, searching) ==
                 {[crop |-> c, choice |-> x, rank |-> Append(Rank(x.result), - c)] :
                     x \in ChosenLayout(edges[c], searching)}
               found(crops, searching) == UNION {one(c, searching) : c \in crops}
               leading(finds, n) ==
                 {f \in finds : Cardinality({e.crop : e \in {o \in finds : Exceeds(o.rank, f.rank)}}) < n}
               tried == {f.crop : f \in leading(found(Crops, FALSE), Shortlist)}
    <3>1. PICK f \in leading(found(tried, TRUE), 1) :
              s = Suggest(f.choice.result.arrangement, f.choice.confidence, f.crop, NoFrames, d)
      BY <1>4, Zenon DEF SeamSuggestions
    <3>2. \A c, searching : \A g \in one(c, searching) :
              g.crop = c /\ g.choice \in ChosenLayout(edges[c], searching)
      OBVIOUS
    <3>3. \A margin, searching : \A x \in ChosenLayout(margin, searching) : x.confidence \in Answers
      BY ChosenAreSure
    <3> HIDE DEF one
    <3>4. \A crops, searching : \A g \in found(crops, searching) :
              g.crop \in crops /\ g.choice.confidence \in Answers
      BY <3>2, <3>3
    <3> HIDE DEF found
    <3>5. \A t \in tried : t \in Crops
      BY <3>4
    <3>6. f.crop \in tried /\ f.choice.confidence \in Answers
      <4> HIDE DEF tried
      <4> QED BY <3>1, <3>4
    <3> QED BY <3>1, <3>5, <3>6
  <2> QED BY <1>0, <2>1, SeamAssumption
<1> QED BY <1>2, <1>3, <1>4 DEF Suggestions

\* The document stays, and what counts as reliable can be applied.
SeamInv ==
    /\ document \in Documents
    /\ suggestion.confidence \in Answers \cup {"none"}
    /\ Reliable => AskFits(suggestion.ask) /\ suggestion.ask # <<>>
    /\ SheetsAreSound

LEMMA BuiltOfDocument ==
    ASSUME NEW d \in Documents, NEW ask, AskFits(ask),
           NEW built, built = BuildLayout(PageSizes(d), ask, Included(d))
    PROVE  built # NoLayout => Sound(built, Included(d))
BY PagesOfDocuments, LayoutsAreSound

LEMMA SeamStep == SeamInv /\ [SeamNext]_seamVars => SeamInv'
<1> SUFFICES ASSUME SeamInv, [SeamNext]_seamVars PROVE SeamInv'
  OBVIOUS
<1>0. document' = document /\ document \in Documents
  BY DEF SeamInv, SeamNext, ReadEdges, Analyse, ApplySuggestion, ApplyManual, seamVars
<1>1. CASE ReadEdges \/ UNCHANGED seamVars
  BY <1>0, <1>1 DEF SeamInv, ReadEdges, seamVars, Reliable, SheetsAreSound
<1>2. CASE Analyse
  <2>1. layout' = layout /\ suggestion' \in Suggestions(document)
    BY <1>2 DEF Analyse
  <2>2. /\ suggestion'.confidence \in Answers
        /\ Reliable' => AskFits(suggestion'.ask) /\ suggestion'.ask # <<>>
    BY <1>0, <2>1, SuggestionsFit DEF Reliable, Insufficient, Answers
  <2> QED BY <1>0, <2>1, <2>2 DEF SeamInv, SheetsAreSound
<1>3. ASSUME NEW ask, AskFits(ask), suggestion' = suggestion,
             layout' = BuildLayout(PageSizes(document), ask, Included(document))
      PROVE  SeamInv'
  <2>1. layout' # NoLayout => Sound(layout', Included(document))
    BY <1>0, <1>3, BuiltOfDocument
  <2>2. SheetsAreSound'
    BY <1>0, <2>1 DEF SheetsAreSound, Sound
  <2> QED BY <1>0, <1>3, <2>2 DEF SeamInv, Reliable
<1>4. CASE ApplySuggestion
  BY <1>3, <1>4 DEF ApplySuggestion, SeamInv, Reliable
<1>5. ASSUME NEW grid \in Sheets, NEW order \in Orders, NEW crop \in Crops,
             ApplyManual(grid[1], grid[2], order, crop)
      PROVE  SeamInv'
  <2> DEFINE ask == [rows |-> grid[1], columns |-> grid[2], order |-> order, slots |-> <<>>,
                     crop |-> Margins(crop), frames |-> NoFrames]
  <2>1. AskFits(ask)
    BY SeamAssumption DEF AskFits, Margins
  <2>2. suggestion' = suggestion /\ layout' = BuildLayout(PageSizes(document), ask, Included(document))
    BY <1>5 DEF ApplyManual
  <2> QED BY <1>3, <2>1, <2>2
<1> QED BY <1>1, <1>2, <1>4, <1>5 DEF SeamNext

\* The invariant holds, whatever is suggested and whatever is applied.
THEOREM SeamInvariance == SeamSpec => []SeamInv
<1>1. SeamInit => SeamInv
  BY DEF SeamInit, SeamInv, Reliable, NoSuggestion, SheetsAreSound
<1> QED BY <1>1, SeamStep, PTL DEF SeamSpec

\* What a sheet is analysed to, and that what is applied was suggested with a
\* grid, for every sheet.
THEOREM SeamTypeCorrect == SeamSpec => []SeamTypeOK
<1>1. SeamInv => document.printing \in Printings /\ document.sheet.cells # {}
  <2> SUFFICES ASSUME document \in Documents
               PROVE  document.printing \in Printings /\ document.sheet.cells # {}
    BY DEF SeamInv
  <2>1. /\ document.printing \in Printings
        /\ \E grid \in Sheets, order \in Orders : document.sheet \in SheetsOf(grid, order)
    BY DEF Documents
  <2>2. PICK grid \in Sheets, order \in Orders : document.sheet \in SheetsOf(grid, order)
    BY <2>1
  <2>3. <<0, 0>> \in Cells(grid[1], grid[2])
    BY SeamAssumption DEF Cells
  <2>4. \A c \in Cells(grid[1], grid[2]) : \E e \in document.sheet.cells : e[1] = c[1]
    BY <2>2 DEF SheetsOf
  <2> QED BY <2>1, <2>3, <2>4
<1>2. SeamInv => SeamTypeOK
  BY <1>1 DEF SeamInv, SeamTypeOK, Reliable, Answers
<1> QED BY <1>2, SeamInvariance, PTL

\* However a sheet was cut, printed and analysed, and whatever is asked for by
\* hand: a layout shows every page that takes part exactly once, inside the
\* sheet and not under another.
THEOREM SheetsAlwaysSound == SeamSpec => []SheetsAreSound
<1>1. SeamInv => SheetsAreSound
  BY DEF SeamInv
<1> QED BY <1>1, SeamInvariance, PTL

-----------------------------------------------------------------------------
(* Places that are given                                                   *)

\* The pages of an interval in their order.
LEMMA SelectionOfInterval ==
    ASSUME NEW first \in Nat, NEW n \in Nat
    PROVE  /\ DOMAIN Selection(first..first + n - 1) = 1..n
           /\ \A k \in 1..n : Selection(first..first + n - 1)[k] = first + k - 1
<1> DEFINE last == first + n - 1
<1>1. first \in Int /\ last \in Int
  OBVIOUS
<1>2. Cardinality(first..last) = n
  BY <1>1, FS_Interval
<1>3. \A i \in first..last : Cardinality({j \in first..last : j < i}) = i - first
  <2> SUFFICES ASSUME NEW i \in first..last
               PROVE  Cardinality({j \in first..last : j < i}) = i - first
    OBVIOUS
  <2>1. {j \in first..last : j < i} = first..i - 1
    BY <1>1
  <2>2. i - 1 \in Int /\ (IF first > i - 1 THEN 0 ELSE i - 1 - first + 1) = i - first
    OBVIOUS
  <2>3. Cardinality(first..i - 1) = IF first > i - 1 THEN 0 ELSE i - 1 - first + 1
    BY <1>1, <2>2, FS_Interval
  <2> QED BY <2>1, <2>2, <2>3
<1>4. ASSUME NEW k \in 1..n
      PROVE  (CHOOSE i \in first..last : Cardinality({j \in first..last : j < i}) = k - 1) = first + k - 1
  <2> DEFINE P(i) == Cardinality({j \in first..last : j < i})
  <2>1. first + k - 1 \in first..last
    OBVIOUS
  <2>2. \A i \in first..last : P(i) = i - first
    BY <1>3
  <2> HIDE DEF P, last
  <2>3. \A i \in first..last : P(i) = k - 1 <=> i = first + k - 1
    BY <1>1, <2>2
  <2>4. (CHOOSE i \in first..last : P(i) = k - 1) = first + k - 1
    BY <2>1, <2>3
  <2> QED BY <2>4 DEF P
<1> QED BY <1>2, <1>4 DEF Selection

\* A number has one row and column.
LEMMA RowAndColumn ==
    ASSUME NEW n \in Nat \ {0}, NEW a \in Nat, NEW b \in 0..n - 1
    PROVE  a * n + b \in Nat /\ (a * n + b) \div n = a /\ (a * n + b) % n = b
<1> DEFINE x == a * n + b
           q == x \div n
           s == x % n
<1>1. x \in Nat /\ n * a = a * n
  OBVIOUS
<1>2. q \in Nat /\ s \in 0..n - 1 /\ x = n * q + s
  BY <1>1, Division
<1> HIDE DEF q, s
<1>3. ~ (q < a)
  <2> SUFFICES ASSUME q < a PROVE FALSE
    OBVIOUS
  <2>1. n * (q + 1) <= n * a
    BY <1>2
  <2>2. n * (q + 1) = n * q + n
    BY <1>2
  <2> QED BY <1>1, <1>2, <2>1, <2>2
<1>4. ~ (a < q)
  <2> SUFFICES ASSUME a < q PROVE FALSE
    OBVIOUS
  <2>1. n * (a + 1) <= n * q
    BY <1>2
  <2>2. n * (a + 1) = n * a + n
    OBVIOUS
  <2> QED BY <1>1, <1>2, <2>1, <2>2
<1>5. q = a
  BY <1>2, <1>3, <1>4
<1>6. s = b
  BY <1>1, <1>2, <1>5
<1> QED BY <1>1, <1>5, <1>6 DEF q, s

\* The slot of a cell, counted from 0.
SlotBefore(rows, columns, order, cell) ==
    IF order = "row" THEN cell[1] * columns + cell[2] ELSE cell[2] * rows + cell[1]

\* Every cell of a grid is the cell of a slot.
LEMMA SlotOfCell ==
    ASSUME NEW rows \in Nat \ {0}, NEW columns \in Nat \ {0}, NEW order,
           NEW cell \in Cells(rows, columns)
    PROVE  /\ SlotBefore(rows, columns, order, cell) + 1 \in 1..rows * columns
           /\ CellOf(rows, columns, order, SlotBefore(rows, columns, order, cell) + 1) = cell
<1>1. cell[1] \in 0..rows - 1 /\ cell[2] \in 0..columns - 1 /\ cell = <<cell[1], cell[2]>>
  BY DEF Cells
<1> DEFINE i == cell[1]
           j == cell[2]
<1>2. i \in 0..rows - 1 /\ j \in 0..columns - 1 /\ cell = <<i, j>>
  BY <1>1
<1> HIDE DEF i, j
<1>3. CASE order = "row"
  <2> DEFINE k == i * columns + j + 1
  <2>1. i * columns + j \in Nat /\ k - 1 = i * columns + j
    BY <1>2
  <2>2. (k - 1) \div columns = i /\ (k - 1) % columns = j
    BY <1>2, <2>1, RowAndColumn
  <2>3. k <= rows * columns
    <3>1. (i + 1) * columns <= rows * columns
      BY <1>2
    <3>2. (i + 1) * columns = i * columns + columns
      BY <1>2
    <3> QED BY <1>2, <3>1, <3>2
  <2>4. k \in 1..rows * columns
    BY <2>1, <2>3
  <2>5. CellOf(rows, columns, order, k) = <<i, j>>
    <3> HIDE DEF k
    <3> QED BY <1>3, <2>2 DEF CellOf
  <2> QED BY <1>2, <1>3, <2>4, <2>5 DEF i, j, SlotBefore
<1>4. CASE order # "row"
  <2> DEFINE k == j * rows + i + 1
  <2>1. j * rows + i \in Nat /\ k - 1 = j * rows + i
    BY <1>2
  <2>2. (k - 1) \div rows = j /\ (k - 1) % rows = i
    BY <1>2, <2>1, RowAndColumn
  <2>3. k <= rows * columns
    <3>1. (j + 1) * rows <= columns * rows
      BY <1>2
    <3>2. (j + 1) * rows = j * rows + rows /\ columns * rows = rows * columns
      BY <1>2
    <3> QED BY <1>2, <3>1, <3>2
  <2>4. k \in 1..rows * columns
    BY <2>1, <2>3
  <2>5. CellOf(rows, columns, order, k) = <<i, j>>
    <3> HIDE DEF k
    <3> QED BY <1>4, <2>2 DEF CellOf
  <2> QED BY <1>2, <1>4, <2>4, <2>5 DEF i, j, SlotBefore
<1> QED BY <1>3, <1>4

\* A sheet has rows and columns, and each of them has a tile.
LEMMA SheetFacts ==
    ASSUME NEW d \in Documents
    PROVE  LET s == d.sheet
           IN  /\ s.rows \in Nat \ {0} /\ s.columns \in Nat \ {0} /\ s.order \in Orders
               /\ s.cells \subseteq Cells(s.rows, s.columns) /\ IsFiniteSet(s.cells)
               /\ Tiles(d) \in Nat \ {0} /\ Tiles(d) <= s.rows * s.columns
               /\ \A row \in 0..s.rows - 1 : \E c \in s.cells : c[1] = row
               /\ \A column \in 0..s.columns - 1 : \E c \in s.cells : c[2] = column
<1> DEFINE s == d.sheet
<1>1. PICK grid \in Sheets, order \in Orders : s \in SheetsOf(grid, order)
  BY DEF Documents
<1>2. grid[1] \in Nat \ {0} /\ grid[2] \in Nat \ {0}
  BY SeamAssumption
<1>3. /\ s.rows = grid[1] /\ s.columns = grid[2] /\ s.order = order
      /\ s.cells \subseteq Cells(grid[1], grid[2])
      /\ \A c \in Cells(grid[1], grid[2]) : /\ \E e \in s.cells : e[1] = c[1]
                                            /\ \E e \in s.cells : e[2] = c[2]
  <2> DEFINE all == Cells(grid[1], grid[2])
             spread(cells) == \A c \in all : /\ \E e \in cells : e[1] = c[1]
                                             /\ \E e \in cells : e[2] = c[2]
             printed == {cells \in {all \ empty : empty \in UNION {kSubset(n, all) : n \in 0..MaxEmpty}} :
                           spread(cells)}
  <2>1. PICK cells \in printed :
           s \in [rows : {grid[1]}, columns : {grid[2]}, order : {order}, cells : {cells},
                  marks : [Seams(cells) -> Marks]]
    BY <1>1 DEF SheetsOf
  <2>2. cells \subseteq all /\ spread(cells)
    <3> HIDE DEF spread, all
    <3> QED OBVIOUS
  <2> HIDE DEF printed
  <2>3. s.rows = grid[1] /\ s.columns = grid[2] /\ s.order = order /\ s.cells = cells
    BY <2>1
  <2> HIDE DEF s
  <2> QED BY <2>2, <2>3
<1> HIDE DEF s
<1>4. /\ IsFiniteSet(0..s.rows - 1) /\ IsFiniteSet(0..s.columns - 1)
      /\ Cardinality(0..s.rows - 1) = s.rows /\ Cardinality(0..s.columns - 1) = s.columns
  <2>1. ASSUME NEW n \in Nat \ {0}
        PROVE  IsFiniteSet(0..n - 1) /\ Cardinality(0..n - 1) = n
    <3>1. 0 \in Int /\ n - 1 \in Int /\ (IF 0 > n - 1 THEN 0 ELSE n - 1 - 0 + 1) = n
      OBVIOUS
    <3>2. /\ IsFiniteSet(0..n - 1)
          /\ Cardinality(0..n - 1) = IF 0 > n - 1 THEN 0 ELSE n - 1 - 0 + 1
      BY <3>1, FS_Interval
    <3> QED BY <3>1, <3>2
  <2> QED BY <1>2, <1>3, <2>1
<1>5. /\ IsFiniteSet(Cells(s.rows, s.columns))
      /\ Cardinality(Cells(s.rows, s.columns)) = s.rows * s.columns
  <2> DEFINE across == 0..s.columns - 1
             down == 0..s.rows - 1
  <2>1. IsFiniteSet(down) /\ IsFiniteSet(across)
    BY <1>4
  <2>2. Cardinality(down) = s.rows /\ Cardinality(across) = s.columns
    BY <1>4
  <2>3. Cells(s.rows, s.columns) = down \X across
    BY DEF Cells
  <2> HIDE DEF across, down
  <2>4. IsFiniteSet(down \X across) /\ Cardinality(down \X across) = Cardinality(down) * Cardinality(across)
    BY <2>1, FS_Product
  <2> QED BY <2>2, <2>3, <2>4
<1>6. IsFiniteSet(s.cells) /\ Cardinality(s.cells) <= s.rows * s.columns
  BY <1>3, <1>5, FS_Subset
<1>7. ASSUME NEW row \in 0..s.rows - 1 PROVE \E c \in s.cells : c[1] = row
  <2>1. <<row, 0>> \in Cells(grid[1], grid[2])
    BY <1>2, <1>3 DEF Cells
  <2> QED BY <1>3, <2>1
<1>8. ASSUME NEW column \in 0..s.columns - 1 PROVE \E c \in s.cells : c[2] = column
  <2>1. <<0, column>> \in Cells(grid[1], grid[2])
    BY <1>2, <1>3 DEF Cells
  <2> QED BY <1>3, <2>1
<1>9. Tiles(d) \in Nat \ {0} /\ Tiles(d) <= s.rows * s.columns
  <2>1. 0 \in 0..s.rows - 1
    BY <1>2, <1>3
  <2>2. s.cells # {}
    BY <1>7, <2>1
  <2>3. Cardinality(s.cells) \in Nat /\ Cardinality(s.cells) # 0
    BY <1>6, <2>2, FS_CardinalityType, FS_EmptySet
  <2> QED BY <1>6, <2>3 DEF Tiles, s
<1> QED BY <1>2, <1>3, <1>6, <1>7, <1>8, <1>9 DEF s

\* The tiles are numbered without gaps.
LEMMA TilesInOrder ==
    ASSUME NEW d \in Documents
    PROVE  /\ \A c \in d.sheet.cells : /\ Ordinal(d.sheet, c) \in 1..Tiles(d)
                                       /\ TileCell(d)[Ordinal(d.sheet, c)] = c
           /\ DOMAIN TileCell(d) = 1..Tiles(d)
           /\ \A n \in 1..Tiles(d) : /\ TileCell(d)[n] \in d.sheet.cells
                                     /\ Ordinal(d.sheet, TileCell(d)[n]) = n
<1> DEFINE s == d.sheet
           key(c) == SlotBefore(s.rows, s.columns, s.order, c)
           f == [c \in s.cells |-> key(c)]
           rank(x) == RankIn(s.cells, f, x)
<1>1. /\ s.rows \in Nat \ {0} /\ s.columns \in Nat \ {0}
      /\ s.cells \subseteq Cells(s.rows, s.columns) /\ IsFiniteSet(s.cells)
  BY SheetFacts
<1>2. \A c \in s.cells : Ordinal(s, c) = rank(c) + 1
  <2> SUFFICES ASSUME NEW c \in s.cells PROVE Ordinal(s, c) = rank(c) + 1
    OBVIOUS
  <2>1. Ordinal(s, c) = Cardinality({b \in s.cells : key(b) < key(c)}) + 1
    BY DEF Ordinal, SlotBefore
  <2>2. {b \in s.cells : key(b) < key(c)} = {b \in s.cells : f[b] < f[c]}
    <3> HIDE DEF key
    <3> QED OBVIOUS
  <2> QED BY <2>1, <2>2 DEF RankIn
<1>3. \A c \in s.cells : /\ key(c) \in Nat
                         /\ CellOf(s.rows, s.columns, s.order, key(c) + 1) = c
  <2> SUFFICES ASSUME NEW c \in s.cells
               PROVE  key(c) \in Nat /\ CellOf(s.rows, s.columns, s.order, key(c) + 1) = c
    OBVIOUS
  <2>1. key(c) \in Nat
    <3>1. c[1] \in Nat /\ c[2] \in Nat
      BY <1>1 DEF Cells
    <3> QED BY <1>1, <3>1 DEF SlotBefore
  <2>2. CellOf(s.rows, s.columns, s.order, key(c) + 1) = c
    <3>1. c \in Cells(s.rows, s.columns)
      BY <1>1
    <3> QED BY <1>1, <3>1, SlotOfCell
  <2> QED BY <2>1, <2>2
<1> HIDE DEF key
<1>4. /\ \A c \in s.cells : f[c] \in Int
      /\ \A b, c \in s.cells : f[b] = f[c] => b = c
  BY <1>3
<1> HIDE DEF f
<1>5. /\ Cardinality(s.cells) \in Nat
      /\ \A c \in s.cells : rank(c) \in 0..Cardinality(s.cells) - 1
      /\ \A b, c \in s.cells : rank(b) = rank(c) => b = c
      /\ \A n \in 0..Cardinality(s.cells) - 1 : \E c \in s.cells : rank(c) = n
  BY <1>1, <1>4, Ranked
<1> HIDE DEF rank
<1>6. /\ Tiles(d) \in Nat
      /\ \A c \in s.cells : Ordinal(s, c) \in 1..Tiles(d)
      /\ \A b, c \in s.cells : Ordinal(s, b) = Ordinal(s, c) => b = c
      /\ \A n \in 1..Tiles(d) : \E c \in s.cells : Ordinal(s, c) = n
  <2>1. Tiles(d) = Cardinality(s.cells)
    BY DEF Tiles
  <2>2. \A c \in s.cells : rank(c) \in Int
    BY <1>5
  <2>3. ASSUME NEW n \in 1..Tiles(d) PROVE \E c \in s.cells : Ordinal(s, c) = n
    <3>1. n - 1 \in 0..Cardinality(s.cells) - 1
      BY <1>5, <2>1
    <3>2. PICK c \in s.cells : rank(c) = n - 1
      BY <1>5, <3>1
    <3>3. Ordinal(s, c) = n
      BY <1>2, <3>2
    <3> QED BY <3>3
  <2> QED BY <1>2, <1>5, <2>1, <2>2, <2>3
<1>7. \A n \in 1..Tiles(d) : TileCell(d)[n] \in s.cells /\ Ordinal(s, TileCell(d)[n]) = n
  BY <1>6 DEF TileCell
<1>8. \A c \in s.cells : TileCell(d)[Ordinal(s, c)] = c
  BY <1>6, <1>7
<1> QED BY <1>6, <1>7, <1>8 DEF TileCell

\* The pages that take part are the tiles, and something of them is left
\* within their margins: the positions are printed on them, or in the file.
GivenPlaces(d) ==
    /\ \/ d.printing.kind = "embedded" /\ ~ (d.printing.cover /\ d.printing.withCover)
       \/ d.printing.kind = "numbered" /\ Numbered(d)
    /\ {d.sheet.rows, d.sheet.columns} \subseteq 1..MaxGrid
    /\ 2 * d.printing.crop < 5

LEMMA GivenPages ==
    ASSUME NEW d \in Documents, GivenPlaces(d)
    PROVE  /\ Cover(d) \in {0, 1}
           /\ Included(d) = Cover(d)..Cover(d) + Tiles(d) - 1
           /\ \A i \in Included(d) : PageSizes(d)[i] = [width |-> 6, height |-> 5]
           /\ DOMAIN Selected(d) = 1..Tiles(d)
           /\ \A n \in 1..Tiles(d) : Selected(d)[n] = Cover(d) + n - 1
<1>1. Tiles(d) \in Nat \ {0} /\ Cover(d) \in {0, 1} /\ d.printing.cover \in BOOLEAN
  BY SheetFacts, SeamAssumption DEF Cover, Documents
<1>2. /\ DOMAIN PageSizes(d) = 0..Tiles(d) + Cover(d) - 1
      /\ \A i \in 0..Tiles(d) + Cover(d) - 1 :
            PageSizes(d)[i] = IF i < Cover(d) THEN [width |-> 9, height |-> 8]
                              ELSE [width |-> 6, height |-> 5]
  BY DEF PageSizes
<1>3. ~ (d.printing.cover /\ d.printing.withCover)
  <2> SUFFICES ASSUME d.printing.cover, d.printing.withCover, Uniform(d) PROVE FALSE
    BY DEF GivenPlaces, Numbered
  <2>1. Cover(d) = 1 /\ 0 \in DOMAIN PageSizes(d) /\ 1 \in DOMAIN PageSizes(d)
    BY <1>1, <1>2 DEF Cover
  <2>2. PageSizes(d)[0].width = 9 /\ PageSizes(d)[1].width = 6
    BY <1>2, <2>1
  <2>3. 0 \in Included(d) /\ 1 \in Included(d)
    BY <2>1 DEF Included
  <2> QED BY <2>2, <2>3 DEF Uniform
<1>4. Included(d) = Cover(d)..Cover(d) + Tiles(d) - 1
  <2>1. \A i \in DOMAIN PageSizes(d) : i \in Included(d) <=> i >= Cover(d)
    BY <1>1, <1>2, <1>3 DEF Included, Cover
  <2>2. Included(d) \subseteq DOMAIN PageSizes(d)
    BY DEF Included
  <2> DEFINE first == Cover(d)
             last == Cover(d) + Tiles(d) - 1
  <2>3. DOMAIN PageSizes(d) = 0..last /\ first \in {0, 1} /\ last \in Nat
    BY <1>1, <1>2
  <2> HIDE DEF first, last
  <2>4. \A i : i \in Included(d) <=> i \in first..last
    BY <2>1, <2>2, <2>3 DEF first
  <2>5. Included(d) = first..last
    BY <2>4
  <2> QED BY <2>5 DEF first, last
<1>5. \A i \in Included(d) : PageSizes(d)[i] = [width |-> 6, height |-> 5]
  BY <1>1, <1>2, <1>4
<1>6. Cover(d) \in Nat /\ Tiles(d) \in Nat
  BY <1>1
<1>7. /\ DOMAIN Selected(d) = 1..Tiles(d)
      /\ \A n \in 1..Tiles(d) : Selected(d)[n] = Cover(d) + n - 1
  BY <1>4, <1>6, SelectionOfInterval DEF Selected
<1> QED BY <1>1, <1>4, <1>5, <1>7

\* A line of n equal lengths.
LEMMA TotalConstant ==
    ASSUME NEW size \in Nat, NEW f, \A l \in Nat : f[l] = size, NEW n \in Nat
    PROVE  Total(f, 0..n - 1) = n * size
<1> DEFINE Wrong == {m \in Nat : Total(f, 0..m - 1) # m * size}
<1> SUFFICES ASSUME Wrong # {} PROVE FALSE
  OBVIOUS
<1>1. PICK m \in Wrong : \A o \in Wrong : m <= o
  BY LeastNatural
<1>2. m \in Nat /\ Total(f, 0..m - 1) # m * size
  OBVIOUS
<1>3. \A o \in Nat : o < m => Total(f, 0..o - 1) = o * size
  BY <1>1
<1> HIDE DEF Wrong
<1>4. IsFiniteSet(0..m - 1) /\ \A l \in 0..m - 1 : f[l] \in Nat
  <2>1. 0 \in Int /\ m - 1 \in Int /\ \A l \in 0..m - 1 : l \in Nat
    BY <1>2
  <2>2. IsFiniteSet(0..m - 1)
    BY <2>1, FS_Interval
  <2> QED BY <2>1, <2>2
<1>5. CASE m = 0
  <2>1. 0..m - 1 = {} /\ m * size = 0
    BY <1>5
  <2> QED BY <1>2, <1>4, <2>1, TotalChosen
<1>6. CASE m # 0
  <2>1. /\ m - 1 \in 0..m - 1 /\ (0..m - 1) \ {m - 1} = 0..(m - 1) - 1
        /\ m - 1 \in Nat /\ m - 1 < m
    BY <1>2, <1>6
  <2>2. Total(f, 0..m - 1) = f[m - 1] + Total(f, (0..m - 1) \ {m - 1})
    BY <1>4, <2>1, TotalRemove
  <2>3. Total(f, 0..(m - 1) - 1) = (m - 1) * size
    BY <1>3, <2>1
  <2>4. (m - 1) * size + size = m * size
    BY <1>2
  <2>5. f[m - 1] = size
    BY <2>1
  <2>6. Total(f, 0..m - 1) = size + (m - 1) * size
    BY <2>1, <2>2, <2>3, <2>5
  <2>7. size + (m - 1) * size = (m - 1) * size + size
    BY <2>1
  <2> QED BY <1>2, <2>4, <2>6, <2>7
<1> QED BY <1>5, <1>6

EqualSizes(pages, ask, included, axis, size) ==
    \A i \in included : SizeOf(pages, ask, i)[axis] = size

\* When all pages are of one size, so are the rows and the columns.
LEMMA EqualLines ==
    \A pages, ask, included, axis, size, line :
        /\ included # {} /\ IsFiniteSet(included) /\ axis \in {1, 2} /\ size \in Nat /\ line \in Nat
        /\ EqualSizes(pages, ask, included, axis, size)
        => Before(pages, ask, included, axis, line) = line * size
<1> SUFFICES ASSUME NEW pages, NEW ask, NEW included, NEW axis, NEW size, NEW line,
                    included # {}, IsFiniteSet(included), axis \in {1, 2}, size \in Nat, line \in Nat,
                    EqualSizes(pages, ask, included, axis, size)
             PROVE  Before(pages, ask, included, axis, line) = line * size
  OBVIOUS
<1>1. \A l : LineSize(pages, ask, included, axis, l) = size
  <2> SUFFICES ASSUME NEW l PROVE LineSize(pages, ask, included, axis, l) = size
    OBVIOUS
  <2> DEFINE there == {i \in included : CellsOf(ask, included)[i][3 - axis] = l}
             pool == IF there = {} THEN included ELSE there
             sizes == {SizeOf(pages, ask, i)[axis] : i \in pool}
  <2>1. pool # {} /\ pool \subseteq included
    OBVIOUS
  <2>2. LineSize(pages, ask, included, axis, l) = Max(sizes)
    BY DEF LineSize
  <2> HIDE DEF pool
  <2>3. sizes = {size}
    BY <2>1 DEF EqualSizes
  <2>4. IsFiniteSet({size}) /\ {size} # {}
    BY FS_Singleton
  <2>5. Max({size}) \in {size}
    BY <2>4, GreatestNatural
  <2> QED BY <2>2, <2>3, <2>5
<1> DEFINE part == [l \in 0..line - 1 |-> LineSize(pages, ask, included, axis, l)]
           f == [l \in Nat |-> size]
<1>2. Before(pages, ask, included, axis, line) = SumFunctionOnSet(part, 0..line - 1)
  BY DEF Before, SumFunction
<1>3. \A l \in 0..line - 1 : part[l] = f[l] /\ f[l] \in Nat
  BY <1>1
<1>4. IsFiniteSet(0..line - 1)
  <2>1. 0 \in Int /\ line - 1 \in Int
    OBVIOUS
  <2> QED BY <2>1, FS_Interval
<1>5. \A l \in Nat : f[l] = size
  OBVIOUS
<1> HIDE DEF part, f
<1>6. SumFunctionOnSet(part, 0..line - 1) = Total(part, 0..line - 1)
  BY <1>3, <1>4, SumIsTotal
<1>7. Total(part, 0..line - 1) = Total(f, 0..line - 1)
  BY <1>3, <1>4, TotalAgrees
<1>8. Total(f, 0..line - 1) = line * size
  BY <1>5, TotalConstant
<1> QED BY <1>2, <1>6, <1>7, <1>8

\* What is asked for is the sheet: each slot has the tile of its cell.
Grid(d) == 1..d.sheet.rows * d.sheet.columns
CellOfSlot(d, ask, k) == CellOf(d.sheet.rows, d.sheet.columns, ask.order, k)
CellOfPage(d, i) == TileCell(d)[i - Cover(d) + 1]

AsksForTheSheet(d, ask) ==
    /\ ask.rows = d.sheet.rows /\ ask.columns = d.sheet.columns
    /\ DOMAIN ask.slots = Grid(d)
    /\ \A k \in Grid(d) :
          ask.slots[k] = IF CellOfSlot(d, ask, k) \in d.sheet.cells
                         THEN Cover(d) + Ordinal(d.sheet, CellOfSlot(d, ask, k)) - 1 ELSE Blank

\* Then a page is found in one slot, which is that of its tile.
LEMMA SlotsOfTiles ==
    ASSUME NEW d \in Documents, GivenPlaces(d), NEW ask, AsksForTheSheet(d, ask)
    PROVE  /\ DOMAIN SlotsOf(ask, Included(d)) = Grid(d)
           /\ \A k \in Grid(d) :
                 LET page == SlotsOf(ask, Included(d))[k]
                 IN  /\ page # Blank <=> CellOfSlot(d, ask, k) \in d.sheet.cells
                     /\ page # Blank => page \in Included(d) /\ CellOfPage(d, page) = CellOfSlot(d, ask, k)
           /\ \A i \in Included(d) : /\ CellOfPage(d, i) \in d.sheet.cells
                                     /\ \E k \in Grid(d) : SlotsOf(ask, Included(d))[k] = i
           /\ \A c \in d.sheet.cells : \E k \in Grid(d) : CellOfSlot(d, ask, k) = c
<1> DEFINE s == d.sheet
           slots == SlotsOf(ask, Included(d))
           tile(i) == CellOfPage(d, i)
           cell(k) == CellOfSlot(d, ask, k)
           grid == Grid(d)
<1>1. /\ s.rows \in Nat \ {0} /\ s.columns \in Nat \ {0} /\ s.cells \subseteq Cells(s.rows, s.columns)
      /\ Tiles(d) \in Nat \ {0} /\ Tiles(d) <= s.rows * s.columns
  BY SheetFacts
<1>2. Cover(d) \in {0, 1} /\ Included(d) = Cover(d)..Cover(d) + Tiles(d) - 1
  BY GivenPages
<1>3. /\ \A c \in s.cells : Ordinal(s, c) \in 1..Tiles(d) /\ TileCell(d)[Ordinal(s, c)] = c
      /\ \A n \in 1..Tiles(d) : TileCell(d)[n] \in s.cells /\ Ordinal(s, TileCell(d)[n]) = n
  BY TilesInOrder
<1>4. /\ DOMAIN ask.slots = grid
      /\ \A k \in grid :
            ask.slots[k] = IF cell(k) \in s.cells THEN Cover(d) + Ordinal(s, cell(k)) - 1 ELSE Blank
  BY DEF AsksForTheSheet
<1>5. slots = ask.slots
  <2>1. 1 \in DOMAIN ask.slots
    BY <1>1, <1>4 DEF Grid
  <2>2. ask.slots # <<>>
    BY <2>1
  <2> QED BY <2>2 DEF SlotsOf, Filled
<1>6. \A c \in s.cells : \E k \in grid : cell(k) = c
  <2> SUFFICES ASSUME NEW c \in s.cells PROVE \E k \in grid : cell(k) = c
    OBVIOUS
  <2> DEFINE k == SlotBefore(s.rows, s.columns, ask.order, c) + 1
  <2>1. c \in Cells(s.rows, s.columns)
    BY <1>1
  <2>2. k \in 1..s.rows * s.columns /\ CellOf(s.rows, s.columns, ask.order, k) = c
    BY <1>1, <2>1, SlotOfCell
  <2> QED BY <2>2 DEF Grid, CellOfSlot
<1> HIDE DEF slots, cell, s, grid
<1>7. \A c \in s.cells : LET i == Cover(d) + Ordinal(s, c) - 1
                         IN  i \in Included(d) /\ i # Blank /\ tile(i) = c
  <2> SUFFICES ASSUME NEW c \in s.cells
               PROVE  LET i == Cover(d) + Ordinal(s, c) - 1
                      IN  i \in Included(d) /\ i # Blank /\ tile(i) = c
    OBVIOUS
  <2> DEFINE n == Ordinal(s, c)
             i == Cover(d) + n - 1
  <2>1. n \in 1..Tiles(d) /\ TileCell(d)[n] = c
    BY <1>3
  <2> HIDE DEF n
  <2>2. i \in Included(d) /\ i # Blank /\ i - Cover(d) + 1 = n
    BY <1>1, <1>2, <2>1 DEF Blank
  <2> QED BY <2>1, <2>2 DEF n, CellOfPage
<1>8. \A k \in grid : /\ slots[k] # Blank <=> cell(k) \in s.cells
                      /\ slots[k] # Blank => slots[k] \in Included(d) /\ tile(slots[k]) = cell(k)
  <2> HIDE DEF tile
  <2> QED BY <1>4, <1>5, <1>7
<1>9. ASSUME NEW i \in Included(d)
      PROVE  tile(i) \in s.cells /\ \E k \in grid : slots[k] = i
  <2> DEFINE n == i - Cover(d) + 1
  <2>1. n \in 1..Tiles(d) /\ Cover(d) + n - 1 = i
    BY <1>1, <1>2
  <2> HIDE DEF n
  <2>2. TileCell(d)[n] \in s.cells /\ Ordinal(s, TileCell(d)[n]) = n
    BY <1>3, <2>1
  <2>3. PICK k \in grid : cell(k) = TileCell(d)[n]
    BY <1>6, <2>2
  <2>4. slots[k] = i
    BY <1>4, <1>5, <2>1, <2>2, <2>3
  <2> QED BY <2>2, <2>4 DEF n, CellOfPage
<1>10. DOMAIN slots = grid
  BY <1>4, <1>5
<1> HIDE DEF tile
<1> QED BY <1>6, <1>8, <1>9, <1>10 DEF slots, cell, s, grid, tile

\* build_layout does not refuse it.
LEMMA SheetIsAccepted ==
    ASSUME NEW d \in Documents, GivenPlaces(d), NEW ask, AsksForTheSheet(d, ask),
           \A i \in Included(d) : /\ SizeOf(PageSizes(d), ask, i)[1] >= 1
                                  /\ SizeOf(PageSizes(d), ask, i)[2] >= 1
    PROVE  Acceptable(PageSizes(d), ask, SlotsOf(ask, Included(d)), Selection(Included(d)))
<1> DEFINE s == d.sheet
           slots == SlotsOf(ask, Included(d))
           indexes == Selection(Included(d))
           cell(k) == CellOfSlot(d, ask, k)
           grid == Grid(d)
<1>1. /\ s.rows \in Nat \ {0} /\ s.columns \in Nat \ {0} /\ IsFiniteSet(s.cells)
      /\ Tiles(d) \in Nat \ {0} /\ Tiles(d) <= s.rows * s.columns
  BY SheetFacts
<1>2. /\ DOMAIN slots = grid
      /\ \A k \in grid : slots[k] # Blank <=> cell(k) \in s.cells
      /\ \A k \in grid : slots[k] # Blank => slots[k] \in Included(d)
      /\ \A i \in Included(d) : \E k \in grid : slots[k] = i
      /\ \A c \in s.cells : \E k \in grid : cell(k) = c
  BY SlotsOfTiles
<1>3. ask.rows = s.rows /\ ask.columns = s.columns /\ {ask.rows, ask.columns} \subseteq 1..MaxGrid
  BY DEF AsksForTheSheet, GivenPlaces
<1>4. Len(indexes) = Tiles(d) /\ ToSet(indexes) = Included(d) /\ Blank \notin Included(d)
  <2>1. /\ Cover(d) \in {0, 1} /\ Included(d) = Cover(d)..Cover(d) + Tiles(d) - 1
        /\ DOMAIN indexes = 1..Tiles(d) /\ \A n \in 1..Tiles(d) : indexes[n] = Cover(d) + n - 1
    BY GivenPages DEF Selected
  <2>2. indexes = [n \in 1..Tiles(d) |-> indexes[n]]
    BY <2>1 DEF Selection
  <2>3. \A n \in 1..Tiles(d) : indexes[n] \in Int
    BY <1>1, <2>1
  <2> HIDE DEF indexes
  <2>4. indexes \in Seq(Int) /\ Len(indexes) = Tiles(d)
    BY <1>1, <2>2, <2>3
  <2>5. \A i \in Included(d) : i - Cover(d) + 1 \in 1..Tiles(d) /\ indexes[i - Cover(d) + 1] = i
    BY <1>1, <2>1
  <2>6. \A n \in 1..Tiles(d) : indexes[n] \in Included(d)
    BY <1>1, <2>1
  <2>7. ToSet(indexes) = Included(d)
    <3>1. ToSet(indexes) = {indexes[n] : n \in 1..Tiles(d)}
      BY <2>1 DEF ToSet
    <3>2. \A i \in Included(d) : i \in {indexes[n] : n \in 1..Tiles(d)}
      BY <2>5
    <3> QED BY <2>6, <3>1, <3>2
  <2> QED BY <1>1, <2>1, <2>4, <2>7 DEF Blank
<1> DEFINE shown == Shown(slots)
<1>5. shown = {k \in grid : slots[k] # Blank}
  BY <1>2 DEF Shown
<1> HIDE DEF slots, indexes, grid, cell, s
<1>6. {slots[k] : k \in shown} = ToSet(indexes)
  <2>1. \A i \in Included(d) : \E k \in shown : slots[k] = i
    BY <1>2, <1>4, <1>5
  <2>2. \A k \in shown : slots[k] \in Included(d)
    BY <1>2, <1>5
  <2> QED BY <1>4, <2>1, <2>2
<1>7. Cardinality(shown) = Len(indexes)
  <2> DEFINE f == [k \in shown |-> cell(k)]
  <2>1. \A k \in shown : k \in grid /\ cell(k) \in s.cells
    BY <1>2, <1>5
  <2>2. \A c \in s.cells : \E k \in shown : cell(k) = c
    BY <1>2, <1>5
  <2>3. \A j, k \in grid : cell(j) = cell(k) => j = k
    <3> SUFFICES ASSUME NEW j \in grid, NEW k \in grid, cell(j) = cell(k) PROVE j = k
      OBVIOUS
    <3> DEFINE rows == d.sheet.rows
               columns == d.sheet.columns
    <3>1. rows \in Nat \ {0} /\ columns \in Nat \ {0}
      BY <1>1 DEF s
    <3>2. j \in 1..rows * columns /\ k \in 1..rows * columns
      BY DEF grid, Grid
    <3>3. CellOf(rows, columns, ask.order, j) = CellOf(rows, columns, ask.order, k)
      BY DEF cell, CellOfSlot
    <3> HIDE DEF rows, columns
    <3> QED BY <3>1, <3>2, <3>3, CellsDiffer
  <2> HIDE DEF shown
  <2>4. f \in Injection(shown, s.cells)
    BY <2>1, <2>3 DEF Injection, IsInjective
  <2>5. f \in Surjection(shown, s.cells)
    BY <2>1, <2>2 DEF Surjection
  <2> HIDE DEF f
  <2>6. Cardinality(shown) = Cardinality(s.cells)
    BY <1>1, <2>4, <2>5, FS_Injection
  <2> QED BY <1>4, <2>6 DEF Tiles, s
<1>8. ask.rows * ask.columns >= Len(indexes)
  BY <1>1, <1>3, <1>4
<1>9. DOMAIN slots = 1..ask.rows * ask.columns
  BY <1>2, <1>3 DEF grid, Grid, s
<1>10. \A i \in ToSet(indexes) :
          LET size == Visible(PageSizes(d)[i], ask.frames, ask.crop) IN size[1] >= 1 /\ size[2] >= 1
  BY <1>4 DEF SizeOf
<1> QED BY <1>3, <1>6, <1>7, <1>8, <1>9, <1>10 DEF Acceptable, slots, indexes

\* The sheet that is built is the one that was cut up.
InPlace(d, built) ==
    \A p \in built.placements :
        LET cell == TileCell(d)[p.page - Cover(d) + 1]
        IN  p.x = cell[2] * p.width /\ p.y = cell[1] * p.height

LEMMA SheetIsRebuilt ==
    ASSUME NEW d \in Documents, GivenPlaces(d), NEW ask, AsksForTheSheet(d, ask),
           NEW width \in Nat \ {0}, NEW height \in Nat \ {0},
           \A i \in Included(d) : /\ SizeOf(PageSizes(d), ask, i)[1] = width
                                  /\ SizeOf(PageSizes(d), ask, i)[2] = height
    PROVE  LET built == BuildLayout(PageSizes(d), ask, Included(d))
           IN  built # NoLayout /\ InPlace(d, built)
<1> DEFINE pages == PageSizes(d)
           included == Included(d)
           slots == SlotsOf(ask, included)
           built == BuildLayout(pages, ask, included)
<1>1. Acceptable(pages, ask, slots, Selection(included))
  BY SheetIsAccepted
<1>2. built # NoLayout
  <2>1. built.rows = ask.rows
    BY <1>1 DEF BuildLayout, SlotsOf
  <2>2. ask.rows = d.sheet.rows /\ d.sheet.rows \in Nat \ {0}
    BY SheetFacts DEF AsksForTheSheet
  <2>3. NoLayout.rows = 0
    BY DEF NoLayout
  <2> HIDE DEF built
  <2> QED BY <2>1, <2>2, <2>3
<1>3. built.placements = {Placement(pages, ask, included, i) : i \in included}
  BY <1>2, Built
<1>4. \A i \in included : CellsOf(ask, included)[i] = CellOfPage(d, i) /\ CellOfPage(d, i) \in d.sheet.cells
  <2> SUFFICES ASSUME NEW i \in included
               PROVE  /\ CellsOf(ask, included)[i] = CellOfPage(d, i)
                      /\ CellOfPage(d, i) \in d.sheet.cells
    OBVIOUS
  <2>1. /\ DOMAIN slots = Grid(d) /\ CellOfPage(d, i) \in d.sheet.cells
        /\ \E k \in Grid(d) : slots[k] = i
        /\ \A k \in Grid(d) : slots[k] # Blank => CellOfPage(d, slots[k]) = CellOfSlot(d, ask, k)
    BY SlotsOfTiles
  <2>2. i # Blank
    BY GivenPages, SheetFacts DEF Blank
  <2> DEFINE k == CHOOSE j \in DOMAIN slots : slots[j] = i
  <2>3. CellsOf(ask, included)[i] = CellOf(ask.rows, ask.columns, ask.order, k)
    BY DEF CellsOf
  <2> HIDE DEF slots
  <2>4. k \in Grid(d) /\ slots[k] = i
    BY <2>1
  <2> HIDE DEF k
  <2>5. CellOfPage(d, i) = CellOfSlot(d, ask, k)
    BY <2>1, <2>2, <2>4
  <2>6. CellOfSlot(d, ask, k) = CellOf(ask.rows, ask.columns, ask.order, k)
    BY DEF CellOfSlot, AsksForTheSheet
  <2> QED BY <2>1, <2>3, <2>5, <2>6
<1>5. \A line \in Nat : /\ Before(pages, ask, included, 1, line) = line * width
                        /\ Before(pages, ask, included, 2, line) = line * height
  <2>1. IsFiniteSet(included)
    BY PagesOfDocuments
  <2>2. included # {}
    <3>1. Cover(d) \in Nat /\ Tiles(d) \in Nat \ {0} /\ included = Cover(d)..Cover(d) + Tiles(d) - 1
      BY GivenPages, SheetFacts
    <3>2. Cover(d) \in included
      BY <3>1
    <3> QED BY <3>2
  <2>3. \A line \in Nat : Before(pages, ask, included, 1, line) = line * width
    <3> SUFFICES ASSUME NEW line \in Nat
                 PROVE  Before(pages, ask, included, 1, line) = line * width
      OBVIOUS
    <3> DEFINE axis == 1
    <3>1. axis \in {1, 2} /\ width \in Nat /\ EqualSizes(pages, ask, included, axis, width)
      BY DEF EqualSizes
    <3> HIDE DEF axis, pages, included
    <3>2. Before(pages, ask, included, axis, line) = line * width
      BY <2>1, <2>2, <3>1, EqualLines
    <3> QED BY <3>2 DEF axis
  <2>4. \A line \in Nat : Before(pages, ask, included, 2, line) = line * height
    <3> SUFFICES ASSUME NEW line \in Nat
                 PROVE  Before(pages, ask, included, 2, line) = line * height
      OBVIOUS
    <3> DEFINE axis == 2
    <3>1. axis \in {1, 2} /\ height \in Nat /\ EqualSizes(pages, ask, included, axis, height)
      BY DEF EqualSizes
    <3> HIDE DEF axis, pages, included
    <3>2. Before(pages, ask, included, axis, line) = line * height
      BY <2>1, <2>2, <3>1, EqualLines
    <3> QED BY <3>2 DEF axis
  <2> QED BY <2>3, <2>4
<1>6. ASSUME NEW i \in included
      PROVE  LET p == Placement(pages, ask, included, i)
                 cell == CellOfPage(d, i)
             IN  p.page = i /\ p.x = cell[2] * p.width /\ p.y = cell[1] * p.height
  <2> DEFINE p == Placement(pages, ask, included, i)
             cell == CellOfPage(d, i)
  <2>1. cell[1] \in Nat /\ cell[2] \in Nat
    <3>1. cell \in Cells(d.sheet.rows, d.sheet.columns)
      BY <1>4, SheetFacts
    <3> QED BY <3>1 DEF Cells
  <2>2. /\ p.page = i /\ p.width = width /\ p.height = height
        /\ p.x = Before(pages, ask, included, 1, CellsOf(ask, included)[i][2])
        /\ p.y = Before(pages, ask, included, 2, CellsOf(ask, included)[i][1])
    BY DEF Placement
  <2> HIDE DEF p, cell
  <2>3. CellsOf(ask, included)[i] = cell
    BY <1>4 DEF cell
  <2>4. p.x = cell[2] * width /\ p.y = cell[1] * height
    BY <1>5, <2>1, <2>2, <2>3
  <2> QED BY <2>2, <2>4 DEF p, cell
<1> HIDE DEF built, pages, included
<1>7. InPlace(d, built)
  BY <1>3, <1>6 DEF InPlace, CellOfPage
<1> QED BY <1>2, <1>7 DEF built, pages, included

\* The positions in the file are those of the sheet.
LEMMA EmbeddedAsks ==
    ASSUME NEW d \in Documents, GivenPlaces(d)
    PROVE  AsksForTheSheet(d, EmbeddedSuggestion(d).ask)
<1> DEFINE s == d.sheet
           ask == EmbeddedSuggestion(d).ask
           grid == 1..s.rows * s.columns
           cell(k) == CellOf(s.rows, s.columns, s.order, k)
           places == [k \in grid |-> IF cell(k) \in s.cells THEN Ordinal(s, cell(k)) ELSE Blank]
<1>1. /\ ask.rows = s.rows /\ ask.columns = s.columns /\ ask.order = s.order
      /\ ask.slots = PagesOf(places, Selected(d))
  BY DEF EmbeddedSuggestion, Suggest, Arrangement
<1>2. \A c \in s.cells : Ordinal(s, c) \in 1..Tiles(d)
  BY TilesInOrder
<1>3. \A n \in 1..Tiles(d) : n # Blank /\ Selected(d)[n] = Cover(d) + n - 1
  BY GivenPages DEF Blank
<1>4. /\ DOMAIN ask.slots = grid
      /\ \A k \in grid : ask.slots[k] = IF places[k] = Blank THEN Blank ELSE Selected(d)[places[k]]
  <2>1. DOMAIN places = grid
    OBVIOUS
  <2> HIDE DEF places, grid
  <2> QED BY <1>1, <2>1 DEF PagesOf
<1>5. \A k \in grid : places[k] = IF cell(k) \in s.cells THEN Ordinal(s, cell(k)) ELSE Blank
  OBVIOUS
<1>6. \A k : CellOfSlot(d, ask, k) = cell(k)
  BY <1>1 DEF CellOfSlot
<1>7. grid = Grid(d)
  BY DEF Grid
<1> HIDE DEF places, grid, cell, ask, s
<1>8. \A k \in grid :
         ask.slots[k] = IF cell(k) \in s.cells THEN Cover(d) + Ordinal(s, cell(k)) - 1 ELSE Blank
  BY <1>2, <1>3, <1>4, <1>5
<1> QED BY <1>1, <1>4, <1>6, <1>7, <1>8 DEF AsksForTheSheet, s, ask

\* The grid that the printed numbers span is the sheet.
LEMMA GridOfNumbers ==
    ASSUME NEW n \in Nat \ {0}, NEW places, \A x \in places : x \in 0..n - 1,
           \A x \in 0..n - 1 : x \in places
    PROVE  Max(places) + 1 = n
<1>1. places = 0..n - 1
  OBVIOUS
<1>2. 0 \in Int /\ n - 1 \in Int /\ n - 1 \in places /\ places # {} /\ \A x \in places : x \in Nat
  <2>1. 0 \in Int /\ n - 1 \in Int /\ n - 1 \in 0..n - 1 /\ \A x \in 0..n - 1 : x \in Nat
    OBVIOUS
  <2> QED BY <1>1, <2>1
<1>3. IsFiniteSet(places)
  BY <1>1, <1>2, FS_Interval
<1>4. Max(places) \in places /\ \A x \in places : x <= Max(places)
  BY <1>2, <1>3, GreatestNatural
<1> QED BY <1>1, <1>2, <1>4

LEMMA NumberedIsTheSheet ==
    ASSUME NEW d \in Documents, d.printing.kind # "swapped"
    PROVE  LET l == NumberedLayout(d)
               cell(k) == CellOf(d.sheet.rows, d.sheet.columns, "row", k)
           IN  /\ l.rows = d.sheet.rows /\ l.columns = d.sheet.columns /\ l.order = "row"
               /\ l.slots = [k \in Grid(d) |-> IF cell(k) \in d.sheet.cells
                                               THEN Ordinal(d.sheet, cell(k)) ELSE Blank]
<1> DEFINE s == d.sheet
           tile == TileCell(d)
           place == [n \in 1..Tiles(d) |-> tile[n]]
           rows == Max({place[n][1] : n \in DOMAIN place}) + 1
           columns == Max({place[n][2] : n \in DOMAIN place}) + 1
           slots == [k \in 1..rows * columns |->
                       LET cell == <<(k - 1) \div columns, (k - 1) % columns>>
                       IN  IF cell \in ToSet(place) THEN CHOOSE n \in DOMAIN place : place[n] = cell
                           ELSE Blank]
<1>1. NumberedLayout(d) = Arrangement(<<rows, columns>>, "row", slots)
  BY DEF NumberedLayout
<1>2. /\ s.rows \in Nat \ {0} /\ s.columns \in Nat \ {0} /\ s.cells \subseteq Cells(s.rows, s.columns)
      /\ \A row \in 0..s.rows - 1 : \E c \in s.cells : c[1] = row
      /\ \A column \in 0..s.columns - 1 : \E c \in s.cells : c[2] = column
  BY SheetFacts
<1>3. /\ \A c \in s.cells : Ordinal(s, c) \in 1..Tiles(d) /\ tile[Ordinal(s, c)] = c
      /\ \A n \in 1..Tiles(d) : tile[n] \in s.cells /\ Ordinal(s, tile[n]) = n
  BY TilesInOrder
<1>4. DOMAIN place = 1..Tiles(d) /\ \A n \in 1..Tiles(d) : place[n] = tile[n]
  OBVIOUS
<1> HIDE DEF place, tile, s
<1>p. /\ \A n \in 1..Tiles(d) : /\ place[n] \in s.cells
                                /\ place[n][1] \in 0..s.rows - 1 /\ place[n][2] \in 0..s.columns - 1
      /\ \A c \in s.cells : \E n \in 1..Tiles(d) : place[n] = c
  <2>1. \A c \in s.cells : c[1] \in 0..s.rows - 1 /\ c[2] \in 0..s.columns - 1
    BY <1>2 DEF Cells
  <2>2. \A n \in 1..Tiles(d) : place[n] \in s.cells
    BY <1>3, <1>4
  <2>3. \A c \in s.cells : \E n \in 1..Tiles(d) : place[n] = c
    BY <1>3, <1>4
  <2> QED BY <2>1, <2>2, <2>3
<1>5. rows = s.rows
  <2> DEFINE lines == {place[n][1] : n \in DOMAIN place}
  <2>1. \A x \in lines : x \in 0..s.rows - 1
    BY <1>p, <1>4
  <2>2. ASSUME NEW x \in 0..s.rows - 1 PROVE x \in lines
    <3>1. PICK c \in s.cells : c[1] = x
      BY <1>2
    <3>2. PICK n \in 1..Tiles(d) : place[n] = c
      BY <1>p
    <3> QED BY <1>4, <3>1, <3>2
  <2> HIDE DEF lines
  <2>3. Max(lines) + 1 = s.rows
    BY <1>2, <2>1, <2>2, GridOfNumbers
  <2> QED BY <2>3 DEF lines
<1>6. columns = s.columns
  <2> DEFINE lines == {place[n][2] : n \in DOMAIN place}
  <2>1. \A x \in lines : x \in 0..s.columns - 1
    BY <1>p, <1>4
  <2>2. ASSUME NEW x \in 0..s.columns - 1 PROVE x \in lines
    <3>1. PICK c \in s.cells : c[2] = x
      BY <1>2
    <3>2. PICK n \in 1..Tiles(d) : place[n] = c
      BY <1>p
    <3> QED BY <1>4, <3>1, <3>2
  <2> HIDE DEF lines
  <2>3. Max(lines) + 1 = s.columns
    BY <1>2, <2>1, <2>2, GridOfNumbers
  <2> QED BY <2>3 DEF lines
<1>7. ToSet(place) = s.cells
  <2>1. ToSet(place) = {place[n] : n \in DOMAIN place}
    BY DEF ToSet
  <2>2. \A c \in s.cells : c \in {place[n] : n \in DOMAIN place}
    BY <1>3, <1>4
  <2>3. \A n \in DOMAIN place : place[n] \in s.cells
    BY <1>3, <1>4
  <2> QED BY <2>1, <2>2, <2>3
<1>8. \A c \in s.cells : (CHOOSE n \in DOMAIN place : place[n] = c) = Ordinal(s, c)
  BY <1>3, <1>4
<1> DEFINE cell(k) == CellOf(s.rows, s.columns, "row", k)
<1>9. \A k : cell(k) = <<(k - 1) \div columns, (k - 1) % columns>>
  BY <1>6 DEF CellOf
<1>10. 1..rows * columns = Grid(d)
  BY <1>5, <1>6 DEF Grid, s
<1> HIDE DEF cell, rows, columns
<1>11. slots = [k \in Grid(d) |-> IF cell(k) \in s.cells THEN Ordinal(s, cell(k)) ELSE Blank]
  BY <1>7, <1>8, <1>9, <1>10
<1> HIDE DEF slots
<1> QED BY <1>1, <1>5, <1>6, <1>11 DEF Arrangement, cell, s

LEMMA NumberedAsks ==
    ASSUME NEW d \in Documents, GivenPlaces(d), d.printing.kind = "numbered"
    PROVE  AsksForTheSheet(d, NumberedSuggestion(d).ask)
<1> DEFINE s == d.sheet
           ask == NumberedSuggestion(d).ask
           grid == Grid(d)
           cell(k) == CellOf(s.rows, s.columns, "row", k)
           l == NumberedLayout(d)
           places == l.slots
<1>1. /\ ask.rows = l.rows /\ ask.columns = l.columns /\ ask.order = l.order
      /\ ask.slots = PagesOf(places, Selected(d))
  <2> HIDE DEF l
  <2> QED BY DEF NumberedSuggestion, Suggest, l
<1>2. \A c \in s.cells : Ordinal(s, c) \in 1..Tiles(d)
  BY TilesInOrder
<1>3. \A n \in 1..Tiles(d) : n # Blank /\ Selected(d)[n] = Cover(d) + n - 1
  BY GivenPages DEF Blank
<1>4. /\ l.rows = s.rows /\ l.columns = s.columns /\ l.order = "row"
      /\ places = [k \in grid |-> IF cell(k) \in s.cells THEN Ordinal(s, cell(k)) ELSE Blank]
  BY NumberedIsTheSheet
<1>5. DOMAIN places = grid
      /\ \A k \in grid : places[k] = IF cell(k) \in s.cells THEN Ordinal(s, cell(k)) ELSE Blank
  <2> HIDE DEF places, grid, cell, s
  <2> QED BY <1>4
<1>6. \A k : CellOfSlot(d, ask, k) = cell(k)
  BY <1>1, <1>4 DEF CellOfSlot
<1> HIDE DEF places, grid, cell, ask, s, l
<1>7. /\ DOMAIN ask.slots = grid
      /\ \A k \in grid : ask.slots[k] = IF places[k] = Blank THEN Blank ELSE Selected(d)[places[k]]
  BY <1>1, <1>5 DEF PagesOf
<1>8. \A k \in grid :
         ask.slots[k] = IF cell(k) \in s.cells THEN Cover(d) + Ordinal(s, cell(k)) - 1 ELSE Blank
  BY <1>2, <1>3, <1>5, <1>7
<1> QED BY <1>1, <1>4, <1>6, <1>7, <1>8 DEF AsksForTheSheet, s, ask, grid

\* What is asked for when the places are given: the sheet, with something of
\* every page, and as much of each.
AskedAsGiven(d, ask) ==
    /\ AsksForTheSheet(d, ask)
    /\ \E width, height \in Nat \ {0} :
          \A i \in Included(d) : /\ SizeOf(PageSizes(d), ask, i)[1] = width
                                 /\ SizeOf(PageSizes(d), ask, i)[2] = height

LEMMA GivenSuggestions ==
    ASSUME NEW d \in Documents, GivenPlaces(d), NEW s \in Suggestions(d)
    PROVE  AskedAsGiven(d, s.ask)
<1> DEFINE crop == d.printing.crop
           width == 6 - 2 * crop
           height == 5 - 2 * crop
           frame == [width |-> width, height |-> height]
<1>1. width \in Nat \ {0} /\ height \in Nat \ {0} /\ width = 6 - crop - crop /\ height = 5 - crop - crop
  <2>1. crop \in Nat /\ 2 * crop < 5
    BY PagesOfDocuments DEF GivenPlaces
  <2> HIDE DEF crop
  <2> QED BY <2>1
<1>2. \A i \in Included(d) : PageSizes(d)[i].width = 6 /\ PageSizes(d)[i].height = 5
  BY GivenPages
<1>3. CASE d.printing.kind = "embedded"
  <2>1. s = EmbeddedSuggestion(d)
    BY <1>3 DEF Suggestions
  <2>2. s.ask.frames = NoFrames /\ s.ask.crop = Margins(crop)
    BY <2>1 DEF EmbeddedSuggestion, Suggest
  <2>3. \A i \in Included(d) : /\ SizeOf(PageSizes(d), s.ask, i)[1] = 6 - crop - crop
                               /\ SizeOf(PageSizes(d), s.ask, i)[2] = 5 - crop - crop
    <3> HIDE DEF crop
    <3> QED BY <1>2, <2>2 DEF SizeOf, Visible, Margins
  <2>4. AsksForTheSheet(d, s.ask)
    BY <2>1, EmbeddedAsks
  <2> QED BY <1>1, <2>3, <2>4 DEF AskedAsGiven
<1>4. CASE d.printing.kind = "numbered"
  <2>1. s = NumberedSuggestion(d)
    BY <1>4 DEF Suggestions, GivenPlaces
  <2>2. s.ask.frames = frame
    BY <2>1 DEF NumberedSuggestion, Suggest
  <2>3. frame # NoFrames
    <3>1. "width" \in DOMAIN frame
      OBVIOUS
    <3> QED BY <3>1 DEF NoFrames
  <2>4. \A i \in Included(d) : /\ SizeOf(PageSizes(d), s.ask, i)[1] = width
                               /\ SizeOf(PageSizes(d), s.ask, i)[2] = height
    <3> HIDE DEF width, height
    <3> QED BY <2>2, <2>3 DEF SizeOf, Visible
  <2>5. AsksForTheSheet(d, s.ask)
    BY <1>4, <2>1, NumberedAsks
  <2> QED BY <1>1, <2>4, <2>5 DEF AskedAsGiven
<1> QED BY <1>3, <1>4 DEF GivenPlaces

\* The analysis keeps to the places it was given.
GivenInv ==
    /\ document \in Documents
    /\ GivenPlaces(document) /\ suggestion # NoSuggestion => AskedAsGiven(document, suggestion.ask)

LEMMA GivenStep == GivenInv /\ [SeamNext]_seamVars => GivenInv'
<1> SUFFICES ASSUME GivenInv, [SeamNext]_seamVars PROVE GivenInv'
  OBVIOUS
<1>1. document' = document /\ (suggestion' = suggestion \/ suggestion' \in Suggestions(document))
  BY DEF SeamNext, ReadEdges, Analyse, ApplySuggestion, ApplyManual, seamVars
<1>2. GivenPlaces(document) /\ suggestion' # NoSuggestion => AskedAsGiven(document, suggestion'.ask)
  BY <1>1, GivenSuggestions DEF GivenInv
<1> QED BY <1>1, <1>2 DEF GivenInv

\* When the tiles are numbered, or their places come with the file, every tile
\* is put back where it was cut out, for sheets of any size, with any empty
\* cells and whatever crosses their seams.
THEOREM GivenPlacesAreKept == SeamSpec => [](GivenPlaces(document) => ReliableIsRight)
<1>1. SeamInit => GivenInv
  BY DEF SeamInit, GivenInv
<1>2. GivenInv => (GivenPlaces(document) => ReliableIsRight)
  <2> SUFFICES ASSUME GivenInv, GivenPlaces(document), Reliable
               PROVE  LET built == BuildLayout(PageSizes(document), suggestion.ask, Included(document))
                      IN  built # NoLayout /\ InPlace(document, built)
    BY DEF ReliableIsRight, InPlace
  <2>1. suggestion # NoSuggestion
    BY DEF Reliable, NoSuggestion
  <2>2. AskedAsGiven(document, suggestion.ask) /\ document \in Documents
    BY <2>1 DEF GivenInv
  <2> QED BY <2>2, SheetIsRebuilt DEF AskedAsGiven
<1> QED BY <1>1, <1>2, GivenStep, PTL DEF SeamSpec

-----------------------------------------------------------------------------
(* The components together                                                 *)

LEMMA LanesStep ==
    ASSUME [LanesNext]_lanesVars
    PROVE  /\ [AdmissionNext]_admissionVars /\ [ScenesNext]_scenesVars
           /\ [PltNext]_pltVars /\ [SeamNext]_seamVars
<1>1. CASE LanesNext
  BY <1>1 DEF LanesNext
<1>2. CASE UNCHANGED lanesVars
  <2>1. UNCHANGED <<admissionVars, scenesVars, pltVars, seamVars>>
    BY <1>2 DEF lanesVars
  <2> QED BY <2>1
<1> QED BY <1>1, <1>2

\* The components share nothing: what MCSubmissions does is, seen from each
\* of them, what that component does alone.
THEOREM LanesImplement == LanesSpec => AdmissionSpec /\ ScenesSpec /\ PltSpec /\ SeamSpec
<1>1. LanesInit => AdmissionInit /\ ScenesInit /\ PltInit /\ SeamInit
  BY DEF LanesInit
<1>2. [LanesNext]_lanesVars => /\ [AdmissionNext]_admissionVars /\ [ScenesNext]_scenesVars
                               /\ [PltNext]_pltVars /\ [SeamNext]_seamVars
  BY LanesStep
<1> QED BY <1>1, <1>2, PTL DEF LanesSpec, AdmissionSpec, ScenesSpec, PltSpec, SeamSpec

\* Posts, bundles and analyses of sheets keep their types in every behaviour
\* of the composition.
THEOREM LanesTypeCorrect == LanesSpec => []LanesTypeOK
<1>1. AdmissionTypeOK /\ ScenesTypeOK /\ SeamTypeOK => LanesTypeOK
  BY DEF LanesTypeOK
<1> QED BY <1>1, LanesImplement, AdmissionTypeCorrect, ScenesTypeCorrect, SeamTypeCorrect, PTL

=============================================================================
