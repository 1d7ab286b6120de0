------------------------ MODULE PaintDocumentProofs ------------------------
(***************************************************************************)
(* Theorems about PaintDocument for every canvas, every set of colours and *)
(* pictures, any number of layers and operations.                          *)
(***************************************************************************)
EXTENDS PaintDocument, SequenceTheorems, TLAPS

\* While a stroke is open, the last entry holds nothing of an earlier drag.
TopOfStroke ==
  ~sealed /\ commands # <<>> =>
    commands[Len(commands)].drags \subseteq (IF dragging THEN {drags} ELSE {})

Inv ==
  /\ TypeOK
  /\ EntriesFit
  /\ TopOfStroke
  /\ OneEntryOneDrag

---------------------------------------------------------------------------
(* Geometry and patches                                                    *)

\* The bounds of a segment are a box.
LEMMA BoxType ==
  ASSUME NEW p \in Points, NEW q \in Points
  PROVE  Box(p, q) \in Boxes
<1>1. p[1] \in Int /\ p[2] \in Int /\ q[1] \in Int /\ q[2] \in Int
  BY GridAssumption
<1> QED BY <1>1, GridAssumption DEF Box, Boxes, Least, Greatest

\* The union of two boxes covers both.
LEMMA UnionCovers ==
  ASSUME NEW x \in Boxes, NEW y \in Boxes
  PROVE  /\ Union(x, y) \in Boxes
         /\ Region(x) \subseteq Region(Union(x, y))
         /\ Region(y) \subseteq Region(Union(x, y))
<1>1. \A c \in Cells : c[1] \in Int /\ c[2] \in Int
  BY GridAssumption
<1>2. x.l \in Int /\ x.r \in Int /\ x.t \in Int /\ x.b \in Int
  BY DEF Boxes
<1>3. y.l \in Int /\ y.r \in Int /\ y.t \in Int /\ y.b \in Int
  BY DEF Boxes
<1>4. Union(x, y) \in Boxes
  BY <1>2, <1>3 DEF Union, Boxes, Least, Greatest
<1>5. Region(x) \subseteq Region(Union(x, y))
  BY <1>1, <1>2, <1>3 DEF Union, Region, Least, Greatest
<1>6. Region(y) \subseteq Region(Union(x, y))
  BY <1>1, <1>2, <1>3 DEF Union, Region, Least, Greatest
<1> QED BY <1>4, <1>5, <1>6

\* A record with these fields is a patch.
LEMMA PatchType ==
  ASSUME NEW layer \in Nat \ {0}, NEW box \in Boxes, NEW label \in {"brush", "eraser"},
         NEW before \in [Region(box) -> Colors], NEW after \in [Region(box) -> Colors],
         NEW who \in SUBSET Nat
  PROVE  [layer |-> layer, box |-> box, label |-> label, before |-> before,
          after |-> after, drags |-> who] \in Patches
<1>1. Region(box) \in SUBSET Cells
  BY DEF Region
<1>2. before \in Parts /\ after \in Parts
  BY <1>1 DEF Parts
<1> QED BY <1>2 DEF Patches

\* The fields of a patch.
LEMMA PatchFields ==
  ASSUME NEW x \in Patches
  PROVE  /\ x.layer \in Nat \ {0} /\ x.box \in Boxes /\ x.label \in {"brush", "eraser"}
         /\ x.before \in [Region(x.box) -> Colors]
         /\ x.after \in [Region(x.box) -> Colors]
         /\ x.drags \in SUBSET Nat
BY DEF Patches

\* What a segment paints stays in its box, so its patch takes the document it
\* found to the one it leaves.
LEMMA StrokeFits ==
  ASSUME TypeOK, NEW p \in Points, NEW q \in Points, NEW who \in SUBSET Nat,
         NEW doc, doc = [layers EXCEPT ![active] = Painted(p, q)]
  PROVE  /\ PatchOf(p, q, who) \in Patches
         /\ PatchOf(p, q, who).drags = who
         /\ PatchOf(p, q, who).layer = active
         /\ doc \in Seq(Layers) /\ Len(doc) = Len(layers)
         /\ Takes(PatchOf(p, q, who), layers, doc)
<1> DEFINE box == Box(p, q)
<1>1. box \in Boxes
  BY BoxType
<1>2. layers[active] \in Layers
  BY DEF TypeOK
<1>3. Painted(p, q) \in Layers
  BY <1>2 DEF Painted, Layers, TypeOK
<1>4. doc \in Seq(Layers) /\ Len(doc) = Len(layers)
  BY <1>3 DEF TypeOK
<1>5. /\ doc[active] = Painted(p, q)
      /\ \A i \in 1..Len(layers) : i # active => doc[i] = layers[i]
  BY DEF TypeOK
<1>6. \A c \in Cells : c \notin Region(box) => Painted(p, q)[c] = layers[active][c]
  BY DEF Painted, Segment, Line
<1>7. /\ Pixels(layers[active], Region(box)) \in [Region(box) -> Colors]
      /\ Pixels(Painted(p, q), Region(box)) \in [Region(box) -> Colors]
  BY <1>2, <1>3 DEF Pixels, Layers, Region
<1>8. Label \in {"brush", "eraser"} /\ active \in Nat \ {0}
  BY DEF Label, TypeOK
<1>9. PatchOf(p, q, who) \in Patches
  BY <1>1, <1>7, <1>8, PatchType DEF PatchOf
<1>10. Takes(PatchOf(p, q, who), layers, doc)
  <2> DEFINE pa == PatchOf(p, q, who)
  <2>1. /\ pa.layer = active /\ pa.box = box
        /\ pa.before = Pixels(layers[active], Region(box))
        /\ pa.after = Pixels(Painted(p, q), Region(box))
    BY DEF PatchOf
  <2>2. \A c \in Region(box) : pa.before[c] = layers[active][c] /\ pa.after[c] = doc[active][c]
    BY <2>1, <1>5 DEF Pixels
  <2>3. active \in 1..Len(layers)
    BY DEF TypeOK
  <2> QED BY <2>1, <2>2, <2>3, <1>4, <1>5, <1>6 DEF Takes
<1> QED BY <1>4, <1>9, <1>10 DEF PatchOf

\* Two patches merge into a patch.
LEMMA MergeType ==
  ASSUME NEW top \in Patches, NEW next \in Patches, NEW canvas \in Layers
  PROVE  /\ Merged(top, next, canvas) \in Patches
         /\ Merged(top, next, canvas).drags = top.drags \union next.drags
<1> DEFINE box == Union(top.box, next.box)
           m == Merged(top, next, canvas)
<1>1. box \in Boxes
  BY UnionCovers, PatchFields
<1>2. Region(box) \subseteq Cells
  BY DEF Region
<1>3. /\ m.drags = top.drags \union next.drags
      /\ m.after = Pixels(canvas, Region(box))
      /\ m.before = [c \in Region(box) |->
                      IF c \in Region(top.box) THEN top.before[c]
                      ELSE IF c \in Region(next.box) THEN next.before[c]
                      ELSE canvas[c]]
  BY DEF Merged
<1>4. m.after \in [Region(box) -> Colors]
  BY <1>2, <1>3 DEF Pixels, Layers
<1>5. m.before \in [Region(box) -> Colors]
  <2>1. \A c \in Region(top.box) : top.before[c] \in Colors
    BY PatchFields
  <2>2. \A c \in Region(next.box) : next.before[c] \in Colors
    BY PatchFields
  <2>3. \A c \in Region(box) : canvas[c] \in Colors
    BY <1>2 DEF Layers
  <2> HIDE DEF box, m
  <2> QED BY <1>3, <2>1, <2>2, <2>3
<1>6. m \in Patches
  <2>1. m = [layer |-> top.layer, box |-> box, label |-> top.label, before |-> m.before,
             after |-> m.after, drags |-> top.drags \union next.drags]
    BY DEF Merged
  <2>2. top.drags \union next.drags \in SUBSET Nat
    BY PatchFields
  <2>3. top.layer \in Nat \ {0} /\ top.label \in {"brush", "eraser"}
    BY PatchFields
  <2>4. \A b \in Boxes :
          \A bf \in [Region(b) -> Colors], af \in [Region(b) -> Colors] :
            [layer |-> top.layer, box |-> b, label |-> top.label, before |-> bf,
             after |-> af, drags |-> top.drags \union next.drags] \in Patches
    BY <2>2, <2>3, PatchType
  <2> HIDE DEF m, box
  <2> QED BY <1>1, <1>4, <1>5, <2>1, <2>4
<1> QED BY <1>3, <1>6

\* A patch merged from two that follow each other takes the document the first
\* one found to the one the second one left.
LEMMA MergeFits ==
  ASSUME NEW top \in Patches, NEW next \in Patches, top.layer = next.layer,
         NEW v \in Seq(Layers), NEW w \in Seq(Layers), NEW x \in Seq(Layers),
         Takes(top, v, w), Takes(next, w, x)
  PROVE  Takes(Merged(top, next, x[next.layer]), v, x)
<1> DEFINE box == Union(top.box, next.box)
           canvas == x[next.layer]
           m == Merged(top, next, canvas)
<1>1. Region(top.box) \subseteq Region(box) /\ Region(next.box) \subseteq Region(box)
  BY UnionCovers, PatchFields
<1>4. /\ m.layer = top.layer /\ m.box = box
      /\ m.after = Pixels(canvas, Region(box))
      /\ m.before = [c \in Region(box) |->
                      IF c \in Region(top.box) THEN top.before[c]
                      ELSE IF c \in Region(next.box) THEN next.before[c]
                      ELSE canvas[c]]
  BY DEF Merged
<1>5. Takes(m, v, x)
  <2> DEFINE k == top.layer
  <2>1. /\ Len(v) = Len(w) /\ Len(w) = Len(x) /\ k \in 1..Len(v)
        /\ \A i \in 1..Len(v) : i # k => v[i] = x[i]
    BY DEF Takes
  <2>2. ASSUME NEW c \in Cells
        PROVE IF c \in Region(box) THEN m.before[c] = v[k][c] /\ m.after[c] = x[k][c]
              ELSE v[k][c] = x[k][c]
    <3>1. IF c \in Region(top.box) THEN top.before[c] = v[k][c] /\ top.after[c] = w[k][c]
          ELSE v[k][c] = w[k][c]
      BY DEF Takes
    <3>2. IF c \in Region(next.box) THEN next.before[c] = w[k][c] /\ next.after[c] = x[k][c]
          ELSE w[k][c] = x[k][c]
      BY DEF Takes
    <3>3. c \in Region(box) => m.after[c] = x[k][c]
      BY <1>4 DEF Pixels
    <3>4. c \in Region(box) =>
            m.before[c] = IF c \in Region(top.box) THEN top.before[c]
                          ELSE IF c \in Region(next.box) THEN next.before[c]
                          ELSE x[k][c]
      BY <1>4
    <3> HIDE DEF box, canvas, m, k
    <3> QED BY <1>1, <3>1, <3>2, <3>3, <3>4
  <2> HIDE DEF box, canvas, m
  <2> QED BY <1>4, <2>1, <2>2 DEF Takes
<1> QED BY <1>5

\* A function on 1..n is a sequence.
LEMMA FunctionIsSeq ==
  ASSUME NEW S, NEW n \in Nat, NEW f \in [1..n -> S]
  PROVE  f \in Seq(S) /\ Len(f) = n
OBVIOUS

\* Writing the pixels of a patch keeps the shape of the document.
LEMMA BlitType ==
  ASSUME NEW doc \in Seq(Layers), NEW x \in Patches,
         NEW source \in [Region(x.box) -> Colors]
  PROVE  Blit(doc, x, source) \in Seq(Layers) /\ Len(Blit(doc, x, source)) = Len(doc)
<1>1. CASE x.layer > Len(doc)
  BY <1>1 DEF Blit
<1>2. CASE ~(x.layer > Len(doc))
  <2>1. x.layer \in 1..Len(doc)
    BY <1>2, PatchFields
  <2>2. doc[x.layer] \in Layers
    BY <2>1
  <2>3. [c \in Cells |-> IF c \in Region(x.box) THEN source[c] ELSE doc[x.layer][c]] \in Layers
    BY <2>2 DEF Layers
  <2> QED BY <1>2, <2>1, <2>3, ExceptSeq DEF Blit
<1> QED BY <1>1, <1>2

\* A document given on the layer of a patch, and elsewhere, is what Blit makes.
LEMMA BlitMakes ==
  ASSUME NEW doc \in Seq(Layers), NEW res \in Seq(Layers), NEW x \in Patches,
         NEW source \in [Region(x.box) -> Colors],
         Len(doc) = Len(res), x.layer \in 1..Len(doc),
         \A i \in 1..Len(doc) : i # x.layer => doc[i] = res[i],
         \A c \in Cells : res[x.layer][c] =
            IF c \in Region(x.box) THEN source[c] ELSE doc[x.layer][c]
  PROVE  Blit(doc, x, source) = res
<1> DEFINE new == [c \in Cells |-> IF c \in Region(x.box) THEN source[c] ELSE doc[x.layer][c]]
<1>1. Blit(doc, x, source) = [doc EXCEPT ![x.layer] = new]
  BY DEF Blit
<1>2. res[x.layer] \in [Cells -> Colors]
  BY DEF Layers
<1>3. new = res[x.layer]
  BY <1>2
<1>4. Blit(doc, x, source) \in Seq(Layers) /\ Len(Blit(doc, x, source)) = Len(doc)
  BY BlitType
<1> HIDE DEF new
<1>5. \A i \in 1..Len(doc) : Blit(doc, x, source)[i] = res[i]
  BY <1>1, <1>3
<1> QED BY <1>4, <1>5, SeqEqual

\* An entry that fits undoes and redoes.
LEMMA EntryGoesBothWays ==
  ASSUME NEW v \in Seq(Layers), NEW w \in Seq(Layers), NEW x \in Patches, Takes(x, v, w)
  PROVE  Blit(w, x, x.before) = v /\ Blit(v, x, x.after) = w
<1>1. /\ Len(v) = Len(w) /\ x.layer \in 1..Len(v)
      /\ \A i \in 1..Len(v) : i # x.layer => v[i] = w[i]
  BY DEF Takes
<1>2. /\ \A c \in Cells : v[x.layer][c] =
            IF c \in Region(x.box) THEN x.before[c] ELSE w[x.layer][c]
      /\ \A c \in Cells : w[x.layer][c] =
            IF c \in Region(x.box) THEN x.after[c] ELSE v[x.layer][c]
  BY DEF Takes
<1>3. x.before \in [Region(x.box) -> Colors] /\ x.after \in [Region(x.box) -> Colors]
  BY PatchFields
<1>4. Blit(w, x, x.before) = v
  BY <1>1, <1>2, <1>3, BlitMakes
<1>5. Blit(v, x, x.after) = w
  BY <1>1, <1>2, <1>3, BlitMakes
<1> QED BY <1>4, <1>5

---------------------------------------------------------------------------
(* The history                                                             *)

\* push keeps the history well formed, and keeps every entry fitting.
LEMMA PushKeeps ==
  ASSUME TypeOK, EntriesFit, OneEntryOneDrag,
         NEW patch \in Patches, NEW doc \in Seq(Layers),
         Takes(patch, layers, doc), layers' = doc, Push(patch, doc),
         NEW D, \A d, e \in D : d = e, patch.drags \subseteq D,
         ~sealed /\ commands # <<>> => commands[Len(commands)].drags \subseteq D
  PROVE  /\ commands' \in Seq(Patches) /\ cursor' \in 0..Len(commands')
         /\ sealed' \in BOOLEAN /\ versions' \in Seq(Seq(Layers))
         /\ EntriesFit'
         /\ OneEntryOneDrag'
         /\ commands' # <<>> /\ cursor' = Len(commands')
         /\ commands'[Len(commands')].drags \subseteq D
<1> USE DEF TypeOK
<1>0. doc[patch.layer] \in Layers
  BY DEF Takes
<1>1. CASE Absorbs(patch)
  <2> DEFINE top == commands[cursor]
             m == Merged(top, patch, doc[patch.layer])
  <2>1. /\ ~sealed /\ cursor = Len(commands) /\ cursor > 0 /\ top \in Patches
        /\ top.layer = patch.layer
    BY <1>1 DEF Absorbs, CanMerge
  <2>2. m \in Patches /\ m.drags = top.drags \union patch.drags
    BY <1>0, <2>1, MergeType
  <2>3. /\ commands' = [commands EXCEPT ![cursor] = m]
        /\ versions' = IF versions = <<>> THEN <<>>
                       ELSE [versions EXCEPT ![cursor + 1] = doc]
        /\ cursor' = cursor /\ sealed' = sealed
    BY <1>1 DEF Push, Kept
  <2> HIDE DEF m
  <2>4. /\ commands' \in Seq(Patches) /\ Len(commands') = Len(commands)
        /\ commands'[cursor] = m
        /\ \A i \in 1..Len(commands) : i # cursor => commands'[i] = commands[i]
    BY <2>1, <2>2, <2>3
  <2>5. versions' \in Seq(Seq(Layers))
    <3>1. versions # <<>> => cursor + 1 \in 1..Len(versions)
      BY <2>1 DEF EntriesFit
    <3>2. versions # <<>> => [versions EXCEPT ![cursor + 1] = doc] \in Seq(Seq(Layers))
      BY <3>1, ExceptSeq
    <3> QED BY <2>3, <3>2
  <2>6. EntriesFit'
    <3> SUFFICES ASSUME versions' # <<>>
                 PROVE  /\ Len(versions') = Len(commands') + 1
                        /\ layers' = versions'[cursor' + 1]
                        /\ \A i \in 1..Len(commands') :
                              Takes(commands'[i], versions'[i], versions'[i + 1])
      BY DEF EntriesFit, Takes
    <3>1. versions # <<>>
      BY <2>3
    <3>2. /\ Len(versions) = Len(commands) + 1 /\ layers = versions[cursor + 1]
          /\ \A i \in 1..Len(commands) : Takes(commands[i], versions[i], versions[i + 1])
      BY <3>1 DEF EntriesFit
    <3>3. /\ Len(versions') = Len(versions) /\ versions'[cursor + 1] = doc
          /\ \A i \in 1..Len(versions) : i # cursor + 1 => versions'[i] = versions[i]
      BY <2>1, <2>3, <3>1, <3>2
    <3>4. Takes(m, versions[cursor], doc)
      <4>1. Takes(top, versions[cursor], layers)
        <5>1. cursor \in 1..Len(commands) /\ top = commands[cursor]
          BY <2>1
        <5>2. Takes(commands[cursor], versions[cursor], versions[cursor + 1])
          BY <3>2, <5>1
        <5> QED BY <3>2, <5>1, <5>2
      <4>2. versions[cursor] \in Seq(Layers)
        BY <2>1, <3>2
      <4> QED BY <2>1, <4>1, <4>2, MergeFits DEF m
    <3>5. ASSUME NEW i \in 1..Len(commands')
          PROVE  Takes(commands'[i], versions'[i], versions'[i + 1])
      <4>1. CASE i = cursor
        <5>1. versions'[i] = versions[cursor] /\ versions'[i + 1] = doc
          BY <2>1, <3>2, <3>3, <4>1
        <5>2. commands'[i] = m
          BY <2>4, <4>1
        <5> QED BY <3>4, <5>1, <5>2
      <4>2. CASE i # cursor
        <5>1. i \in 1..Len(commands) /\ i < cursor
          BY <2>1, <2>4, <4>2
        <5>2. versions'[i] = versions[i] /\ versions'[i + 1] = versions[i + 1]
          BY <2>1, <3>2, <3>3, <5>1, SMTT(30)
        <5> QED BY <2>4, <3>2, <4>2, <5>1, <5>2
      <4> QED BY <4>1, <4>2
    <3> QED BY <2>1, <2>3, <2>4, <3>2, <3>3, <3>5
  <2>7. m.drags \subseteq D
    BY <2>1, <2>2
  <2>8. OneEntryOneDrag'
    BY <2>4, <2>7 DEF OneEntryOneDrag
  <2> QED BY <2>1, <2>3, <2>4, <2>5, <2>6, <2>7, <2>8
<1>2. CASE ~Absorbs(patch)
  <2>1. /\ commands' = Append(SubSeq(commands, 1, cursor), patch)
        /\ cursor' = cursor + 1 /\ sealed' = FALSE
        /\ versions' = IF versions = <<>> THEN <<>>
                       ELSE Append(SubSeq(versions, 1, cursor + 1), doc)
    BY <1>2 DEF Push, Kept
  <2>2. /\ SubSeq(commands, 1, cursor) \in Seq(Patches)
        /\ Len(SubSeq(commands, 1, cursor)) = cursor
        /\ \A i \in 1..cursor : SubSeq(commands, 1, cursor)[i] = commands[i]
    BY SubSeqProperties
  <2>3. /\ commands' \in Seq(Patches) /\ Len(commands') = cursor + 1
        /\ commands'[cursor + 1] = patch
        /\ \A i \in 1..cursor : commands'[i] = commands[i]
    BY <2>1, <2>2, SMTT(30)
  <2>4. versions = <<>> => versions' \in Seq(Seq(Layers)) /\ EntriesFit'
    BY <2>1 DEF EntriesFit
  <2>5. ASSUME versions # <<>>
        PROVE  versions' \in Seq(Seq(Layers)) /\ EntriesFit'
    <3>1. /\ Len(versions) = Len(commands) + 1 /\ layers = versions[cursor + 1]
          /\ \A i \in 1..Len(commands) : Takes(commands[i], versions[i], versions[i + 1])
      BY <2>5 DEF EntriesFit
    <3>2. /\ SubSeq(versions, 1, cursor + 1) \in Seq(Seq(Layers))
          /\ Len(SubSeq(versions, 1, cursor + 1)) = cursor + 1
          /\ \A i \in 1..cursor + 1 : SubSeq(versions, 1, cursor + 1)[i] = versions[i]
      BY <3>1, SubSeqProperties
    <3>3. /\ versions' \in Seq(Seq(Layers)) /\ Len(versions') = cursor + 2
          /\ versions'[cursor + 2] = doc
          /\ \A i \in 1..cursor + 1 : versions'[i] = versions[i]
      BY <2>1, <2>5, <3>2
    <3>4. ASSUME NEW i \in 1..Len(commands')
          PROVE  Takes(commands'[i], versions'[i], versions'[i + 1])
      <4>1. CASE i = cursor + 1
        BY <2>3, <3>1, <3>3, <4>1
      <4>2. CASE i # cursor + 1
        <5>1. i \in 1..cursor /\ i \in 1..Len(commands)
          BY <2>3, <4>2
        <5>2. versions'[i] = versions[i] /\ versions'[i + 1] = versions[i + 1]
          <6>1. i \in 1..cursor + 1 /\ i + 1 \in 1..cursor + 1
            BY <5>1
          <6> QED BY <3>3, <6>1
        <5> QED BY <2>3, <3>1, <5>1, <5>2
      <4> QED BY <4>1, <4>2
    <3>5. /\ Len(versions') = Len(commands') + 1
          /\ layers' = versions'[cursor' + 1]
      BY <2>1, <2>3, <3>3
    <3> QED BY <3>3, <3>4, <3>5 DEF EntriesFit, Takes
  <2>6. OneEntryOneDrag'
    <3>1. ASSUME NEW i \in 1..Len(commands')
          PROVE  \A d, e \in commands'[i].drags : d = e
      <4>1. i = cursor + 1 \/ (i \in 1..cursor /\ i \in 1..Len(commands))
        BY <2>3
      <4>2. CASE i = cursor + 1
        BY <2>3, <4>2
      <4>3. CASE i \in 1..cursor /\ i \in 1..Len(commands)
        BY <2>3, <4>3 DEF OneEntryOneDrag
      <4> QED BY <4>1, <4>2, <4>3
    <3> QED BY <3>1 DEF OneEntryOneDrag
  <2>7. cursor' = Len(commands') /\ cursor' \in 0..Len(commands') /\ commands' # <<>>
    <3>1. cursor \in Nat /\ Len(commands') = cursor + 1 /\ cursor' = cursor + 1
      BY <2>1, <2>3
    <3>2. commands' = <<>> => Len(commands') = 0
      OBVIOUS
    <3> QED BY <3>1, <3>2
  <2>8. commands'[Len(commands')] = patch
    BY <2>3
  <2> QED BY <2>1, <2>3, <2>4, <2>5, <2>6, <2>7, <2>8
<1> QED BY <1>1, <1>2

\* A stroke, whoever makes it, keeps the history.
LEMMA StrokeKeeps ==
  ASSUME Inv, NEW p \in Points, NEW q \in Points, NEW who \in SUBSET Nat, Stroke(p, q, who),
         NEW D, \A d, e \in D : d = e, who \subseteq D,
         ~sealed /\ commands # <<>> => commands[Len(commands)].drags \subseteq D
  PROVE  /\ layers' \in Seq(Layers) /\ Len(layers') = Len(layers)
         /\ commands' \in Seq(Patches) /\ cursor' \in 0..Len(commands')
         /\ sealed' \in BOOLEAN /\ versions' \in Seq(Seq(Layers))
         /\ EntriesFit'
         /\ OneEntryOneDrag'
         /\ ~sealed' /\ commands' # <<>> => commands'[Len(commands')].drags \subseteq D
<1>1. CASE UNCHANGED <<layers, commands, cursor, sealed, versions>>
  BY <1>1 DEF Inv, TypeOK, EntriesFit, Takes, OneEntryOneDrag
<1>2. CASE /\ layers' = [layers EXCEPT ![active] = Painted(p, q)]
           /\ Push(PatchOf(p, q, who), [layers EXCEPT ![active] = Painted(p, q)])
  <2> DEFINE doc == [layers EXCEPT ![active] = Painted(p, q)]
             patch == PatchOf(p, q, who)
  <2>1. /\ patch \in Patches /\ patch.drags = who
        /\ doc \in Seq(Layers) /\ Len(doc) = Len(layers)
        /\ Takes(patch, layers, doc)
    <3>1. TypeOK
      BY DEF Inv
    <3> QED BY <3>1, StrokeFits, ZenonT(30)
  <2>2. layers' = doc /\ Push(patch, doc)
    BY <1>2
  <2> HIDE DEF doc, patch
  <2>3. TypeOK /\ EntriesFit /\ OneEntryOneDrag
    BY DEF Inv
  <2>4. patch.drags \subseteq D
    BY <2>1
  <2> QED BY <2>1, <2>2, <2>3, <2>4, PushKeeps
<1> QED BY <1>1, <1>2 DEF Stroke

---------------------------------------------------------------------------
(* One lemma per action                                                    *)

\* The initial state.
LEMMA InitInv ==
  Init => Inv
<1> SUFFICES ASSUME Init PROVE Inv
  OBVIOUS
<1>1. [c \in Cells |-> Paper] \in Layers
  BY DEF Layers, Colors
<1>2. layers \in Seq(Layers) /\ Len(layers) = 1 /\ layers # <<>>
  BY <1>1 DEF Init
<1>3. versions \in Seq(Seq(Layers)) /\ Len(versions) = 1 /\ versions[1] = layers
  BY <1>2 DEF Init
<1>4. TypeOK
  <2>1. <<>> \in Seq(Patches) /\ Len(<<>>) = 0
    BY EmptySeq
  <2>2. commands \in Seq(Patches) /\ cursor \in 0..Len(commands)
    BY <2>1 DEF Init
  <2>3. active \in 1..Len(layers)
    BY <1>2 DEF Init
  <2>4. last \in Points /\ ink \in Colors /\ drags \in Nat /\ ops \in Nat
    BY DEF Init, Colors
  <2>5. sealed \in BOOLEAN /\ locked \in BOOLEAN /\ dragging \in BOOLEAN /\ asked \in BOOLEAN
    BY DEF Init
  <2> QED BY <1>2, <1>3, <2>2, <2>3, <2>4, <2>5 DEF TypeOK
<1>5. EntriesFit
  BY <1>3 DEF EntriesFit, Init
<1> QED BY <1>4, <1>5 DEF Inv, Init, TopOfStroke, OneEntryOneDrag

\* Mouse down.
LEMMA PressKeeps ==
  ASSUME Inv, NEW p \in Points, Press(p)
  PROVE  Inv'
<1>1. /\ ~dragging /\ dragging' = TRUE /\ last' = p /\ drags' = drags + 1 /\ ops' = ops + 1
      /\ Stroke(p, p, {drags + 1})
      /\ UNCHANGED <<active, ink, locked, asked>>
  BY DEF Press, Budget, lockVars
<1>2. {drags + 1} \in SUBSET Nat
  BY DEF Inv, TypeOK
<1>3. ~sealed /\ commands # <<>> => commands[Len(commands)].drags \subseteq {drags + 1}
  BY <1>1 DEF Inv, TopOfStroke
<1>4. /\ layers' \in Seq(Layers) /\ Len(layers') = Len(layers)
      /\ commands' \in Seq(Patches) /\ cursor' \in 0..Len(commands')
      /\ sealed' \in BOOLEAN /\ versions' \in Seq(Seq(Layers))
      /\ EntriesFit'
      /\ OneEntryOneDrag'
      /\ ~sealed' /\ commands' # <<>> => commands'[Len(commands')].drags \subseteq {drags + 1}
  BY <1>1, <1>2, <1>3, StrokeKeeps
<1>5. TypeOK'
  BY <1>1, <1>4 DEF Inv, TypeOK
<1> QED BY <1>1, <1>4, <1>5 DEF Inv, TopOfStroke

\* Mouse move while the button is down.
LEMMA DragKeeps ==
  ASSUME Inv, NEW q \in Points, Drag(q)
  PROVE  Inv'
<1>1. /\ dragging /\ last' = q /\ ops' = ops + 1
      /\ Stroke(last, q, {drags})
      /\ UNCHANGED <<active, dragging, ink, drags, locked, asked>>
  BY DEF Drag, Budget, lockVars
<1>2. {drags} \in SUBSET Nat /\ last \in Points
  BY DEF Inv, TypeOK
<1>3. ~sealed /\ commands # <<>> => commands[Len(commands)].drags \subseteq {drags}
  BY <1>1 DEF Inv, TopOfStroke
<1>4. /\ layers' \in Seq(Layers) /\ Len(layers') = Len(layers)
      /\ commands' \in Seq(Patches) /\ cursor' \in 0..Len(commands')
      /\ sealed' \in BOOLEAN /\ versions' \in Seq(Seq(Layers))
      /\ EntriesFit'
      /\ OneEntryOneDrag'
      /\ ~sealed' /\ commands' # <<>> => commands'[Len(commands')].drags \subseteq {drags}
  BY <1>1, <1>2, <1>3, StrokeKeeps
<1>5. TypeOK'
  BY <1>1, <1>4 DEF Inv, TypeOK
<1> QED BY <1>1, <1>4, <1>5 DEF Inv, TopOfStroke

\* A stroke that is invoked.
LEMMA InvokeStrokeKeeps ==
  ASSUME Inv, NEW p \in Points, NEW q \in Points, InvokeStroke(p, q)
  PROVE  Inv'
<1> DEFINE D == IF dragging THEN {drags} ELSE {}
<1>1. /\ ops' = ops + 1
      /\ Stroke(p, q, {})
      /\ UNCHANGED <<active, dragging, last, ink, drags, locked, asked>>
  BY DEF InvokeStroke, Budget, lockVars, canvasVars
<1>3. ~sealed /\ commands # <<>> => commands[Len(commands)].drags \subseteq D
  BY DEF Inv, TopOfStroke
<1>4. /\ layers' \in Seq(Layers) /\ Len(layers') = Len(layers)
      /\ commands' \in Seq(Patches) /\ cursor' \in 0..Len(commands')
      /\ sealed' \in BOOLEAN /\ versions' \in Seq(Seq(Layers))
      /\ EntriesFit'
      /\ OneEntryOneDrag'
      /\ ~sealed' /\ commands' # <<>> => commands'[Len(commands')].drags \subseteq D
  <2>1. {} \in SUBSET Nat /\ {} \subseteq D /\ \A d, e \in D : d = e
    OBVIOUS
  <2> HIDE DEF D
  <2> QED BY <1>1, <1>3, <2>1, StrokeKeeps
<1>5. TypeOK'
  BY <1>1, <1>4 DEF Inv, TypeOK
<1> QED BY <1>1, <1>4, <1>5 DEF Inv, TopOfStroke

\* Actions that touch neither the layers nor the history.
LEMMA HistoryUntouched ==
  ASSUME Inv, UNCHANGED <<layers, commands, cursor, versions>>,
         sealed' = TRUE \/ (sealed' = sealed /\ UNCHANGED <<dragging, drags>>),
         active' \in 1..Len(layers), dragging' \in BOOLEAN, locked' \in BOOLEAN,
         asked' \in BOOLEAN, last' \in Points, ink' \in Colors, drags' \in Nat, ops' \in Nat
  PROVE  Inv'
<1>1. TypeOK'
  BY DEF Inv, TypeOK
<1>2. EntriesFit' /\ OneEntryOneDrag'
  BY DEF Inv, EntriesFit, Takes, OneEntryOneDrag
<1>3. TopOfStroke'
  BY DEF Inv, TopOfStroke
<1> QED BY <1>1, <1>2, <1>3 DEF Inv

\* A change behind the history.
LEMMA BehindKeeps ==
  ASSUME Inv, NEW doc \in Seq(Layers), doc # <<>>, NEW layer \in 1..Len(doc), Behind(doc, layer)
  PROVE  Inv'
<1>1. /\ layers' = doc /\ active' = layer /\ versions' = <<>> /\ ops' = ops + 1
      /\ UNCHANGED <<commands, cursor, sealed, dragging, last, ink, drags, locked, asked>>
  BY DEF Behind, Budget, lockVars, canvasVars
<1>2. versions' \in Seq(Seq(Layers))
  BY <1>1, EmptySeq
<1>3. TypeOK'
  BY <1>1, <1>2 DEF Inv, TypeOK
<1>4. EntriesFit'
  BY <1>1 DEF EntriesFit
<1> QED BY <1>1, <1>3, <1>4 DEF Inv, TopOfStroke, OneEntryOneDrag

\* A picture takes the place of the layers.
LEMMA LoadKeeps ==
  ASSUME Inv, NEW picture \in Pictures, Load(picture),
         sealed' \in BOOLEAN, locked' \in BOOLEAN, UNCHANGED <<dragging, last, ink, drags, asked>>
  PROVE  Inv'
<1>1. /\ layers' = <<picture>> /\ active' = 1 /\ commands' = <<>> /\ cursor' = 0
      /\ versions' = <<layers'>> /\ ops' = ops + 1
  BY DEF Load, Budget
<1>2. picture \in Layers
  BY PictureAssumption
<1>3. layers' \in Seq(Layers) /\ Len(layers') = 1 /\ layers' # <<>>
  BY <1>1, <1>2
<1>4. versions' \in Seq(Seq(Layers)) /\ Len(versions') = 1 /\ versions'[1] = layers'
  BY <1>1, <1>3
<1>5. commands' \in Seq(Patches) /\ Len(commands') = 0
  BY <1>1, EmptySeq
<1>6. TypeOK'
  BY <1>1, <1>3, <1>4, <1>5 DEF Inv, TypeOK
<1>7. EntriesFit'
  BY <1>1, <1>4, <1>5 DEF EntriesFit
<1> QED BY <1>1, <1>5, <1>6, <1>7 DEF Inv, TopOfStroke, OneEntryOneDrag

\* An entry fits the versions with another layer on top.
LEMMA WidenedTakes ==
  ASSUME NEW x, NEW v \in Seq(Layers), NEW w \in Seq(Layers), NEW e \in Layers,
         Takes(x, v, w)
  PROVE  Takes(x, Append(v, e), Append(w, e))
<1>1. /\ Len(v) = Len(w) /\ x.layer \in 1..Len(v) /\ Len(v) \in Nat
      /\ \A i \in 1..Len(v) : i # x.layer => v[i] = w[i]
      /\ \A c \in Cells :
           IF c \in Region(x.box)
           THEN x.before[c] = v[x.layer][c] /\ x.after[c] = w[x.layer][c]
           ELSE v[x.layer][c] = w[x.layer][c]
  BY DEF Takes
<1>2. /\ Len(Append(v, e)) = Len(v) + 1 /\ Len(Append(w, e)) = Len(v) + 1
      /\ \A i \in 1..Len(v) : Append(v, e)[i] = v[i] /\ Append(w, e)[i] = w[i]
      /\ Append(v, e)[Len(v) + 1] = e /\ Append(w, e)[Len(v) + 1] = e
  BY <1>1
<1>3. Append(v, e)[x.layer] = v[x.layer] /\ Append(w, e)[x.layer] = w[x.layer]
  BY <1>1, <1>2
<1>4. \A i \in 1..Len(v) + 1 : i # x.layer => Append(v, e)[i] = Append(w, e)[i]
  BY <1>1, <1>2
<1>5. x.layer \in 1..Len(v) + 1
  BY <1>1
<1> QED BY <1>1, <1>2, <1>3, <1>4, <1>5 DEF Takes

\* Every version gets the new layer, so the entries fit as they are.
LEMMA AddLayerKeeps ==
  ASSUME Inv, AddLayer
  PROVE  Inv'
<1> DEFINE blank == [c \in Cells |-> Clear]
<1>1. /\ layers' = Append(layers, blank) /\ active' = Len(layers) + 1 /\ ops' = ops + 1
      /\ versions' = [i \in 1..Len(versions) |-> Append(versions[i], blank)]
      /\ UNCHANGED <<commands, cursor, sealed, dragging, last, ink, drags, locked, asked>>
  BY DEF AddLayer, Budget, lockVars, canvasVars
<1>2. blank \in Layers
  BY DEF Layers, Colors
<1> HIDE DEF blank
<1>3. layers' \in Seq(Layers) /\ Len(layers') = Len(layers) + 1 /\ layers' # <<>>
  <2>1. layers' \in Seq(Layers) /\ Len(layers') = Len(layers) + 1 /\ Len(layers) \in Nat
    BY <1>1, <1>2 DEF Inv, TypeOK
  <2> QED BY <2>1, EmptySeq
<1>4. versions' \in Seq(Seq(Layers)) /\ Len(versions') = Len(versions)
  <2>1. \A i \in 1..Len(versions) : Append(versions[i], blank) \in Seq(Layers)
    BY <1>2, ElementOfSeq, AppendProperties DEF Inv, TypeOK
  <2>2. versions' \in [1..Len(versions) -> Seq(Layers)] /\ Len(versions) \in Nat
    BY <1>1, <2>1 DEF Inv, TypeOK
  <2> QED BY <2>2, FunctionIsSeq
<1>5. TypeOK'
  BY <1>1, <1>3, <1>4 DEF Inv, TypeOK
<1>6. EntriesFit'
  <2> SUFFICES ASSUME versions' # <<>>
               PROVE  /\ Len(versions') = Len(commands') + 1
                      /\ layers' = versions'[cursor' + 1]
                      /\ \A i \in 1..Len(commands') :
                            Takes(commands'[i], versions'[i], versions'[i + 1])
    BY DEF EntriesFit, Takes
  <2>1. versions # <<>>
    BY <1>4, EmptySeq DEF Inv, TypeOK
  <2>2. /\ Len(versions) = Len(commands) + 1 /\ layers = versions[cursor + 1]
        /\ \A i \in 1..Len(commands) : Takes(commands[i], versions[i], versions[i + 1])
    BY <2>1 DEF Inv, EntriesFit
  <2>3. cursor \in 0..Len(commands) /\ Len(commands) \in Nat
    BY DEF Inv, TypeOK
  <2>4. layers' = versions'[cursor' + 1]
    BY <1>1, <2>2, <2>3
  <2>5. ASSUME NEW i \in 1..Len(commands)
        PROVE  Takes(commands[i], versions'[i], versions'[i + 1])
    <3>1. i \in 1..Len(versions) /\ i + 1 \in 1..Len(versions)
      BY <2>2, <2>3
    <3>2. versions[i] \in Seq(Layers) /\ versions[i + 1] \in Seq(Layers)
      BY <3>1, ElementOfSeq DEF Inv, TypeOK
    <3>3. versions'[i] = Append(versions[i], blank) /\ versions'[i + 1] = Append(versions[i + 1], blank)
      BY <1>1, <3>1
    <3>4. Takes(commands[i], versions[i], versions[i + 1])
      BY <2>2
    <3> QED BY <1>2, <3>2, <3>3, <3>4, WidenedTakes
  <2> QED BY <1>1, <1>4, <2>2, <2>4, <2>5
<1> QED BY <1>1, <1>5, <1>6 DEF Inv, TopOfStroke, OneEntryOneDrag

\* The document after an undo is the version before.
LEMMA UndoGoesBack ==
  ASSUME Inv, Undo
  PROVE  /\ layers' \in Seq(Layers) /\ Len(layers') = Len(layers)
         /\ versions # <<>> => layers' = versions[cursor]
<1>1. cursor \in 1..Len(commands) /\ layers' = Blit(layers, commands[cursor], commands[cursor].before)
  BY DEF Undo, Inv, TypeOK
<1>2. commands[cursor] \in Patches /\ commands[cursor].before \in [Region(commands[cursor].box) -> Colors]
  BY <1>1, PatchFields DEF Inv, TypeOK
<1>3. layers' \in Seq(Layers) /\ Len(layers') = Len(layers)
  BY <1>1, <1>2, BlitType DEF Inv, TypeOK
<1>4. ASSUME versions # <<>> PROVE layers' = versions[cursor]
  <2>1. /\ Len(versions) = Len(commands) + 1 /\ layers = versions[cursor + 1]
        /\ Takes(commands[cursor], versions[cursor], versions[cursor + 1])
    BY <1>1, <1>4 DEF Inv, EntriesFit
  <2>2. versions[cursor] \in Seq(Layers) /\ versions[cursor + 1] \in Seq(Layers)
    BY <1>1, <2>1 DEF Inv, TypeOK
  <2> QED BY <1>1, <1>2, <2>1, <2>2, EntryGoesBothWays
<1> QED BY <1>3, <1>4

\* The document after a redo is the version after.
LEMMA RedoGoesForward ==
  ASSUME Inv, Redo
  PROVE  /\ layers' \in Seq(Layers) /\ Len(layers') = Len(layers)
         /\ versions # <<>> => layers' = versions[cursor + 2]
<1> DEFINE x == commands[cursor + 1]
<1>1. cursor + 1 \in 1..Len(commands) /\ layers' = Blit(layers, x, x.after)
  BY DEF Redo, Inv, TypeOK
<1>2. x \in Patches /\ x.after \in [Region(x.box) -> Colors]
  BY <1>1, PatchFields DEF Inv, TypeOK
<1>3. layers' \in Seq(Layers) /\ Len(layers') = Len(layers)
  BY <1>1, <1>2, BlitType DEF Inv, TypeOK
<1>4. ASSUME versions # <<>> PROVE layers' = versions[cursor + 2]
  <2>0. cursor \in Nat /\ (cursor + 1) + 1 = cursor + 2
    BY DEF Inv, TypeOK
  <2>1. /\ Len(versions) = Len(commands) + 1 /\ layers = versions[cursor + 1]
        /\ Takes(x, versions[cursor + 1], versions[cursor + 2])
    BY <1>1, <1>4, <2>0 DEF Inv, EntriesFit
  <2>2. versions[cursor + 1] \in Seq(Layers) /\ versions[cursor + 2] \in Seq(Layers)
    <3>1. cursor + 1 \in 1..Len(versions) /\ cursor + 2 \in 1..Len(versions)
      BY <1>1, <2>0, <2>1
    <3> QED BY <3>1, ElementOfSeq DEF Inv, TypeOK
  <2> HIDE DEF x
  <2> QED BY <1>1, <1>2, <2>1, <2>2, EntryGoesBothWays
<1> QED BY <1>3, <1>4

\* Undo and redo only move the cursor.
LEMMA WalkKeeps ==
  ASSUME Inv, Undo \/ Redo
  PROVE  Inv'
<1>1. /\ UNCHANGED <<active, commands, sealed, dragging, last, ink, drags, locked, asked, versions>>
      /\ ops' = ops + 1
  BY DEF Undo, Redo, Budget, canvasVars, lockVars
<1>2. layers' \in Seq(Layers) /\ Len(layers') = Len(layers)
  BY UndoGoesBack, RedoGoesForward
<1>3. cursor' \in 0..Len(commands)
  BY DEF Undo, Redo, Inv, TypeOK
<1>4. TypeOK'
  <2>1. Len(layers) \in Nat /\ Len(layers) # 0
    BY DEF Inv, TypeOK
  <2>2. layers' # <<>>
    BY <1>2, <2>1
  <2> QED BY <1>1, <1>2, <1>3, <2>2 DEF Inv, TypeOK
<1>5. versions # <<>> => layers' = versions[cursor' + 1]
  <2>1. CASE Undo
    BY <2>1, UndoGoesBack DEF Undo, Inv, TypeOK
  <2>2. CASE Redo
    <3>1. cursor' + 1 = cursor + 2
      BY <2>2 DEF Redo, Inv, TypeOK
    <3> QED BY <2>2, <3>1, RedoGoesForward
  <2> QED BY <2>1, <2>2
<1>6. EntriesFit'
  BY <1>1, <1>5 DEF Inv, EntriesFit, Takes
<1> QED BY <1>1, <1>4, <1>6 DEF Inv, TopOfStroke, OneEntryOneDrag

\* The history is cleared, the document stays.
LEMMA ClearHistoryKeeps ==
  ASSUME Inv, ClearHistory
  PROVE  Inv'
<1>1. /\ commands' = <<>> /\ cursor' = 0 /\ versions' = <<layers>> /\ ops' = ops + 1
      /\ UNCHANGED <<layers, active, sealed, dragging, last, ink, drags, locked, asked>>
  BY DEF ClearHistory, Budget, canvasVars, lockVars
<1>2. versions' \in Seq(Seq(Layers)) /\ Len(versions') = 1 /\ versions'[1] = layers
  BY <1>1 DEF Inv, TypeOK
<1>3. commands' \in Seq(Patches) /\ Len(commands') = 0
  BY <1>1, EmptySeq
<1>4. TypeOK'
  BY <1>1, <1>2, <1>3 DEF Inv, TypeOK
<1>5. EntriesFit'
  BY <1>1, <1>2, <1>3 DEF EntriesFit
<1> QED BY <1>1, <1>3, <1>4, <1>5 DEF Inv, TopOfStroke, OneEntryOneDrag

\* The document without one of its layers.
LEMMA WithoutType ==
  ASSUME Inv, NEW i \in 1..Len(layers), Len(layers) > 1
  PROVE  Without(i) \in Seq(Layers) /\ Len(Without(i)) = Len(layers) - 1
<1>1. Len(layers) \in Nat /\ Len(layers) - 1 \in Nat
  BY DEF Inv, TypeOK
<1>2. \A j \in 1..Len(layers) - 1 : layers[IF j < i THEN j ELSE j + 1] \in Layers
  <2> SUFFICES ASSUME NEW j \in 1..Len(layers) - 1
               PROVE  layers[IF j < i THEN j ELSE j + 1] \in Layers
    OBVIOUS
  <2>1. (IF j < i THEN j ELSE j + 1) \in 1..Len(layers)
    BY <1>1
  <2> QED BY <2>1, ElementOfSeq DEF Inv, TypeOK
<1>3. Without(i) \in [1..Len(layers) - 1 -> Layers]
  BY <1>2 DEF Without
<1> QED BY <1>1, <1>3, FunctionIsSeq

\* A layer is removed.
LEMMA RemoveLayerKeeps ==
  ASSUME Inv, NEW i \in 1..Len(layers), RemoveLayer(i)
  PROVE  Inv'
<1>1. Len(layers) > 1 /\ Behind(Without(i), Least(active, Len(layers) - 1))
  BY DEF RemoveLayer
<1>2. Without(i) \in Seq(Layers) /\ Len(Without(i)) = Len(layers) - 1
  BY <1>1, WithoutType
<1>3. Least(active, Len(layers) - 1) \in 1..Len(Without(i))
  BY <1>1, <1>2 DEF Least, Inv, TypeOK
<1>4. Without(i) # <<>>
  BY <1>1, <1>2 DEF Inv, TypeOK
<1> QED BY <1>1, <1>2, <1>3, <1>4, BehindKeeps

\* A layer is merged into the one below.
LEMMA MergeDownKeeps ==
  ASSUME Inv, NEW i \in 1..Len(layers), MergeDown(i)
  PROVE  Inv'
<1> PICK visible \in BOOLEAN :
       Behind([Without(i) EXCEPT ![i - 1] =
                 [c \in Cells |-> IF visible /\ layers[i][c] # Clear
                                  THEN layers[i][c] ELSE layers[i - 1][c]]],
              Least(active, Len(layers) - 1))
  BY DEF MergeDown
<1> DEFINE mix == [c \in Cells |-> IF visible /\ layers[i][c] # Clear
                                   THEN layers[i][c] ELSE layers[i - 1][c]]
           doc == [Without(i) EXCEPT ![i - 1] = mix]
<1>1. i > 1 /\ Len(layers) > 1 /\ i - 1 \in 1..Len(layers) - 1 /\ i - 1 \in 1..Len(layers)
  BY DEF MergeDown, Inv, TypeOK
<1>2. Without(i) \in Seq(Layers) /\ Len(Without(i)) = Len(layers) - 1
  BY <1>1, WithoutType
<1>3. mix \in Layers
  <2>1. layers[i] \in Layers /\ layers[i - 1] \in Layers
    BY <1>1, ElementOfSeq DEF Inv, TypeOK
  <2> QED BY <2>1 DEF Layers
<1> HIDE DEF mix
<1>4. doc \in Seq(Layers) /\ Len(doc) = Len(layers) - 1
  BY <1>1, <1>2, <1>3, ExceptSeq
<1>5. Least(active, Len(layers) - 1) \in 1..Len(doc) /\ doc # <<>>
  BY <1>1, <1>4 DEF Least, Inv, TypeOK
<1>6. Behind(doc, Least(active, Len(layers) - 1))
  BY DEF mix
<1> HIDE DEF doc
<1> QED BY <1>4, <1>5, <1>6, BehindKeeps

\* What is invoked on the pixels of a layer or on the order of the layers.
LEMMA InvokedBehindKeeps ==
  ASSUME Inv,
         \/ ClearLayer
         \/ \E k \in Colors : ResetLayers(k) \/ \E c \in Cells : SetPixel(c, k)
         \/ \E i \in 1..Len(layers) : MoveLayer(i)
  PROVE  Inv'
<1>0. /\ layers \in Seq(Layers) /\ Len(layers) \in Nat /\ active \in 1..Len(layers)
      /\ layers[active] \in Layers
  BY DEF Inv, TypeOK
<1>1. CASE ClearLayer
  <2> DEFINE e == [c \in Cells |-> Clear]
             doc == [layers EXCEPT ![active] = e]
  <2>1. e \in Layers
    BY DEF Layers, Colors
  <2> HIDE DEF e
  <2>2. doc \in Seq(Layers) /\ Len(doc) = Len(layers)
    BY <1>0, <2>1, ExceptSeq
  <2>3. doc # <<>>
    BY <1>0, <2>2
  <2>4. Behind(doc, active)
    BY <1>1 DEF ClearLayer, e
  <2> HIDE DEF doc
  <2> QED BY <1>0, <2>2, <2>3, <2>4, BehindKeeps
<1>2. ASSUME NEW k \in Colors, ResetLayers(k) PROVE Inv'
  <2> DEFINE e == [c \in Cells |-> k]
             doc == <<e>>
  <2>1. e \in Layers
    BY DEF Layers
  <2>2. Behind(doc, 1)
    BY <1>2 DEF ResetLayers
  <2> HIDE DEF e
  <2>3. doc \in Seq(Layers) /\ Len(doc) = 1 /\ doc # <<>>
    BY <2>1
  <2>4. 1 \in 1..Len(doc)
    BY <2>3
  <2> HIDE DEF doc
  <2> QED BY <2>2, <2>3, <2>4, BehindKeeps
<1>3. ASSUME NEW k \in Colors, NEW c \in Cells, SetPixel(c, k) PROVE Inv'
  <2> DEFINE e == [layers[active] EXCEPT ![c] = k]
             doc == [layers EXCEPT ![active] = e]
  <2>1. e \in Layers
    BY <1>0 DEF Layers
  <2>2. Behind(doc, active)
    BY <1>3 DEF SetPixel
  <2> HIDE DEF e
  <2>3. doc \in Seq(Layers) /\ Len(doc) = Len(layers)
    BY <1>0, <2>1, ExceptSeq
  <2>4. doc # <<>>
    BY <1>0, <2>3
  <2> HIDE DEF doc
  <2> QED BY <1>0, <2>2, <2>3, <2>4, BehindKeeps
<1>4. ASSUME NEW i \in 1..Len(layers), MoveLayer(i) PROVE Inv'
  <2> DEFINE half == [layers EXCEPT ![i] = layers[i + 1]]
             doc == [half EXCEPT ![i + 1] = layers[i]]
             k == IF active = i THEN i + 1 ELSE IF active = i + 1 THEN i ELSE active
  <2>1. i + 1 \in 1..Len(layers)
    BY <1>0, <1>4 DEF MoveLayer
  <2>2. layers[i] \in Layers /\ layers[i + 1] \in Layers
    BY <1>0, <2>1, ElementOfSeq
  <2>3. half \in Seq(Layers) /\ Len(half) = Len(layers)
    BY <1>0, <2>2, ExceptSeq
  <2>4. Behind(doc, k)
    BY <1>4 DEF MoveLayer
  <2>5. k \in 1..Len(layers)
    BY <1>0, <2>1
  <2> HIDE DEF half, k
  <2>6. doc \in Seq(Layers) /\ Len(doc) = Len(layers)
    BY <2>1, <2>2, <2>3, ExceptSeq
  <2>7. doc # <<>>
    BY <1>0, <2>6
  <2> HIDE DEF doc
  <2> QED BY <2>4, <2>5, <2>6, <2>7, BehindKeeps
<1> QED BY <1>1, <1>2, <1>3, <1>4

---------------------------------------------------------------------------
(* The theorems                                                            *)

\* Every step keeps the invariant.
LEMMA NextKeeps ==
  Inv /\ [Next]_vars => Inv'
<1> SUFFICES ASSUME Inv, [Next]_vars PROVE Inv'
  OBVIOUS
<1>1. CASE PersonPaints
  BY <1>1, PressKeeps, DragKeeps DEF PersonPaints
<1>2. CASE Release
  BY <1>2, HistoryUntouched DEF Release, lockVars, Inv, TypeOK
<1>3. ASSUME NEW k \in Inks \union {Clear}, ChooseInk(k) PROVE Inv'
  BY <1>3, HistoryUntouched DEF ChooseInk, lockVars, Inv, TypeOK, Colors
<1>4. ASSUME NEW i \in 1..Len(layers), ChooseLayer(i) PROVE Inv'
  BY <1>4, HistoryUntouched DEF ChooseLayer, canvasVars, lockVars, Inv, TypeOK
<1>5. ASSUME NEW i \in 1..Len(layers), RemoveLayer(i) \/ MergeDown(i) \/ InvokeRemove(i)
      PROVE Inv'
  BY <1>5, RemoveLayerKeeps, MergeDownKeeps DEF InvokeRemove
<1>6. ASSUME NEW on \in BOOLEAN, SetControl(on) PROVE Inv'
  BY <1>6, HistoryUntouched DEF SetControl, canvasVars, Inv, TypeOK
<1>7. CASE AddLayer
  BY <1>7, AddLayerKeeps
<1>8. ASSUME NEW picture \in Pictures, OpenFile(picture) PROVE Inv'
  <2>1. /\ Load(picture)
        /\ UNCHANGED <<sealed, locked, dragging, last, ink, drags, asked>>
    BY <1>8 DEF OpenFile, canvasVars, lockVars
  <2>2. sealed' \in BOOLEAN /\ locked' \in BOOLEAN
    BY <2>1 DEF Inv, TypeOK
  <2> QED BY <2>1, <2>2, LoadKeeps
<1>9. ASSUME NEW picture \in Pictures, ApplyPoster(picture) PROVE Inv'
  <2>1. /\ Load(picture) /\ sealed' = TRUE /\ locked' = FALSE
        /\ UNCHANGED <<dragging, last, ink, drags, asked>>
    BY <1>9 DEF ApplyPoster, canvasVars
  <2> QED BY <2>1, LoadKeeps
<1>10. ASSUME NEW p \in Points, NEW q \in Points, InvokeStroke(p, q) PROVE Inv'
  BY <1>10, InvokeStrokeKeeps
<1>11. CASE Undo \/ Redo
  BY <1>11, WalkKeeps
<1>12. CASE ClearHistory
  BY <1>12, ClearHistoryKeeps
<1>13. CASE \/ ClearLayer
            \/ \E k \in Colors : ResetLayers(k) \/ \E c \in Cells : SetPixel(c, k)
            \/ \E i \in 1..Len(layers) : MoveLayer(i)
  BY <1>13, InvokedBehindKeeps
<1>14. CASE UNCHANGED vars
  BY <1>14, HistoryUntouched DEF vars, canvasVars, lockVars, Inv, TypeOK
<1> QED BY <1>1, <1>2, <1>3, <1>4, <1>5, <1>6, <1>7, <1>8, <1>9, <1>10, <1>11, <1>12,
           <1>13, <1>14 DEF Next

\* The inductive invariant holds.
THEOREM Invariance == Spec => []Inv
<1> QED BY InitInv, NextKeeps, PTL DEF Spec

\* Every variable has its type: the active layer exists, the cursor is in the
\* history, every patch knows every pixel of its box.
THEOREM TypeCorrect == Spec => []TypeOK
<1>1. Inv => TypeOK
  BY DEF Inv
<1> QED BY <1>1, Invariance, PTL

\* Every entry, however many segments were merged into it, takes the document
\* its stroke found to the one it left and back.
THEOREM EntriesAlwaysFit == Spec => []EntriesFit
<1>1. Inv => EntriesFit
  BY DEF Inv
<1> QED BY <1>1, Invariance, PTL

\* No entry holds pieces of two drags.
THEOREM StrokesStayApart == Spec => []OneEntryOneDrag
<1>1. Inv => OneEntryOneDrag
  BY DEF Inv
<1> QED BY <1>1, Invariance, PTL

\* A step that leaves no line of versions is one behind the history.
LEMMA NoLineIsStray ==
  ASSUME TypeOK', versions' = <<>>
  PROVE  History!Stray
BY DEF History!Stray, TypeOK

\* A stroke is an edit, a redrawing of the last version, or nothing.
LEMMA StrokeIsStep ==
  ASSUME Inv, Inv', versions # <<>>, versions' # <<>>,
         NEW p, NEW q, NEW who, Stroke(p, q, who)
  PROVE  [History!TimelineNext]_History!timelineVars
<1>1. CASE UNCHANGED <<layers, commands, cursor, sealed, versions>>
  BY <1>1 DEF History!timelineVars
<1>2. ASSUME layers' = [layers EXCEPT ![active] = Painted(p, q)],
             Push(PatchOf(p, q, who), [layers EXCEPT ![active] = Painted(p, q)])
      PROVE  [History!TimelineNext]_History!timelineVars
  <2>0. /\ Len(versions) = Len(commands) + 1 /\ cursor \in Nat /\ Len(commands) \in Nat
        /\ layers' \in Seq(Layers)
    BY DEF Inv, EntriesFit, TypeOK
  <2>1. CASE Absorbs(PatchOf(p, q, who))
    <3>1. /\ cursor = Len(commands) /\ cursor > 0
          /\ versions' = [versions EXCEPT ![cursor + 1] = layers'] /\ cursor' = cursor
      BY <1>2, <2>1 DEF Push, Kept, Absorbs
    <3>2. History!Amend
      BY <2>0, <3>1 DEF History!Amend, History!Intact
    <3> QED BY <3>2 DEF History!TimelineNext
  <2>2. CASE ~Absorbs(PatchOf(p, q, who))
    <3>1. /\ cursor' = cursor + 1
          /\ versions' = Append(SubSeq(versions, 1, cursor + 1), layers')
      BY <1>2, <2>2 DEF Push, Kept
    <3>2. History!Edit
      BY <2>0, <3>1 DEF History!Edit, History!Intact
    <3> QED BY <3>2 DEF History!TimelineNext
  <2> QED BY <2>1, <2>2
<1> QED BY <1>1, <1>2 DEF Stroke

\* Every step of the document is a step of the timeline, or none.
LEMMA StepIsStep ==
  Inv /\ Inv' /\ [Next]_vars => [History!TimelineNext]_History!timelineVars
<1> SUFFICES ASSUME Inv, Inv', [Next]_vars
             PROVE  [History!TimelineNext]_History!timelineVars
  OBVIOUS
<1>1. CASE versions' = <<>>
  BY <1>1, NoLineIsStray DEF History!TimelineNext, Inv
<1>2. CASE versions' # <<>> /\ UNCHANGED <<layers, cursor, versions>>
  BY <1>2 DEF History!timelineVars
<1>3. ASSUME versions' # <<>>, NEW picture \in Pictures, Load(picture)
      PROVE  [History!TimelineNext]_History!timelineVars
  <2>1. versions' = <<layers'>> /\ cursor' = 0 /\ layers' \in Seq(Layers)
    BY <1>3 DEF Load, Inv, TypeOK
  <2>2. History!Renew
    BY <1>3, <2>1 DEF History!Renew
  <2> QED BY <2>2 DEF History!TimelineNext
<1>4. CASE versions' # <<>> /\ ClearHistory
  <2>1. versions' = <<layers'>> /\ cursor' = 0 /\ layers' \in Seq(Layers)
    BY <1>4 DEF ClearHistory, Inv, TypeOK
  <2>2. History!Renew
    BY <1>4, <2>1 DEF History!Renew
  <2> QED BY <2>2 DEF History!TimelineNext
<1>5. CASE versions' # <<>> /\ AddLayer
  <2>1. versions # <<>>
    <3>1. versions = <<>> => Len(versions) = 0
      OBVIOUS
    <3>2. versions' = [i \in 1..Len(versions) |-> Append(versions[i], [c \in Cells |-> Clear])]
      BY <1>5 DEF AddLayer
    <3>3. versions' \in Seq(Seq(Layers)) /\ DOMAIN versions' = 1..Len(versions')
      BY DEF Inv, TypeOK
    <3>4. versions = <<>> => Len(versions') = 0
      BY <3>1, <3>2, <3>3
    <3> QED BY <1>5, <3>3, <3>4, EmptySeq
  <2>2. History!Widen
    BY <1>5, <2>1 DEF AddLayer, History!Widen, History!Intact
  <2> QED BY <2>2 DEF History!TimelineNext
<1>6. CASE versions' # <<>> /\ Undo
  <2>1. versions # <<>> /\ versions' = versions /\ cursor' = cursor - 1 /\ cursor > 0
    BY <1>6 DEF Undo
  <2>2. layers' = versions[cursor] /\ cursor \in Nat
    BY <1>6, <2>1, UndoGoesBack DEF Inv, TypeOK
  <2>3. History!Back
    BY <2>1, <2>2 DEF History!Back, History!Intact
  <2> QED BY <2>3 DEF History!TimelineNext
<1>7. CASE versions' # <<>> /\ Redo
  <2>1. /\ versions # <<>> /\ versions' = versions /\ cursor' = cursor + 1
        /\ cursor < Len(commands)
    BY <1>7 DEF Redo
  <2>2. /\ layers' = versions[cursor + 2] /\ cursor \in Nat
        /\ Len(versions) = Len(commands) + 1 /\ Len(commands) \in Nat
    BY <1>7, <2>1, RedoGoesForward DEF Inv, TypeOK, EntriesFit
  <2>3. (cursor + 1) + 1 = cursor + 2
    BY <2>2
  <2>4. History!Forward
    BY <2>1, <2>2, <2>3 DEF History!Forward, History!Intact
  <2> QED BY <2>4 DEF History!TimelineNext
<1>8. ASSUME versions' # <<>>, NEW p, NEW q, NEW who, Stroke(p, q, who)
      PROVE  [History!TimelineNext]_History!timelineVars
  <2>1. versions # <<>>
    BY <1>8 DEF Stroke, Push, Kept
  <2> QED BY <1>8, <2>1, StrokeIsStep
<1>9. \A doc, i : Behind(doc, i) => versions' = <<>>
  BY DEF Behind
<1>10. CASE PersonPaints
  BY <1>1, <1>8, <1>10 DEF PersonPaints, Press, Drag
<1>11. CASE \E p, q \in Points : InvokeStroke(p, q)
  BY <1>1, <1>8, <1>11 DEF InvokeStroke
<1>12. CASE \/ Release
            \/ \E k \in Inks \union {Clear} : ChooseInk(k)
            \/ \E i \in 1..Len(layers) : ChooseLayer(i)
            \/ \E on \in BOOLEAN : SetControl(on)
            \/ UNCHANGED vars
  BY <1>1, <1>2, <1>12 DEF Release, ChooseInk, ChooseLayer, SetControl, vars
<1>13. CASE \E i \in 1..Len(layers) : RemoveLayer(i) \/ MergeDown(i) \/ InvokeRemove(i) \/ MoveLayer(i)
  BY <1>1, <1>9, <1>13 DEF RemoveLayer, MergeDown, InvokeRemove, MoveLayer
<1>14. CASE \/ ClearLayer
            \/ \E k \in Colors : ResetLayers(k) \/ \E c \in Cells : SetPixel(c, k)
  BY <1>1, <1>9, <1>14 DEF ClearLayer, ResetLayers, SetPixel
<1>15. CASE \E picture \in Pictures : OpenFile(picture) \/ ApplyPoster(picture)
  BY <1>1, <1>3, <1>15 DEF OpenFile, ApplyPoster
<1> QED BY <1>1, <1>4, <1>5, <1>6, <1>7, <1>10, <1>11, <1>12, <1>13, <1>14, <1>15 DEF Next

\* The document implements the timeline: undo and redo walk along the versions
\* that were on the screen as long as every change has its entry.
THEOREM HistoryImplements == Spec => HistoryHolds
<1>1. Init => History!TimelineInit
  <2> SUFFICES ASSUME Init PROVE History!TimelineInit
    OBVIOUS
  <2>1. Inv
    BY InitInv
  <2>2. layers \in Seq(Layers) /\ versions = <<layers>> /\ versions # <<>> /\ cursor = 0
    BY <2>1 DEF Inv, TypeOK, Init
  <2> QED BY <2>2 DEF History!TimelineInit
<1> QED BY <1>1, StepIsStep, Invariance, PTL DEF Spec, HistoryHolds, History!TimelineSpec
=============================================================================
