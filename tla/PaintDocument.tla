--------------------------- MODULE PaintDocument ---------------------------
(***************************************************************************)
(* The document of the painting application (src/shuangtian/apps/louyue):  *)
(* layers of pixels, the undo history of pixel patches that merge while a  *)
(* stroke goes on, the canvas that turns a drag of the mouse into strokes, *)
(* the actions scripts and agents invoke, and the lock an agent may take.  *)
(* One action per handler: everything runs on the thread of the page, but  *)
(* the handlers of the person and of the agent come in any order.          *)
(* Opacity, visibility and blend modes of layers are left out: only what   *)
(* merge_down makes of them is in the pixels.                              *)
(***************************************************************************)
EXTENDS Integers, Sequences

CONSTANTS
  Cells,       \* the pixels of the canvas, pairs of integers
  Points,      \* where the mouse can be, on the canvas or beside it
  Inks,        \* foreground colours, all opaque
  Paper,       \* the colour of a new background
  Clear,       \* transparent; painting with it is what the eraser does
  Pictures,    \* layers that can be loaded or rendered
  Pad,         \* how far the bounds of a stroke reach beyond it
  Invocable,   \* the actions scripts and agents may invoke
  MaxLayers,   \* 16 on the panel
  MaxOps       \* bound on what is done to the document

Colors == Inks \union {Paper, Clear}
Layers == [Cells -> Colors]
Actions == {"stroke", "undo", "redo", "remove_layer", "clear_layer",
            "reset_layers", "set_pixel", "clear_history", "move_layer",
            "apply_poster"}

ASSUME GridAssumption ==
  /\ Cells \subseteq Int \X Int
  /\ Points \subseteq Int \X Int
  /\ Pad \in Nat
ASSUME PictureAssumption == Pictures \subseteq Layers
ASSUME BoundsAssumption == MaxLayers \in Nat \ {0} /\ MaxOps \in Nat

VARIABLES
  layers,     \* pixels, the lowest layer first
  active,     \* index of the layer that is painted on
  commands,   \* the history
  cursor,     \* how many of them are done
  sealed,     \* stroke_sealed_: a new patch starts a new entry
  locked,     \* ai_controlled
  dragging,   \* the canvas has seen the button go down and not up
  last,       \* where the last segment of the drag ended
  ink,        \* what is painted
  drags,      \* number of drags so far
  ops,        \* operations so far
  asked,      \* history: what set_control was last told
  versions    \* history: the document before each command and after the last,
              \* <<>> once it was changed without a command

vars == <<layers, active, commands, cursor, sealed, locked, dragging, last,
          ink, drags, ops, asked, versions>>
canvasVars == <<dragging, last, ink, drags>>
lockVars == <<locked, asked>>

---------------------------------------------------------------------------
(* Geometry.  A box holds the first and the last column and row it covers. *)

Least(a, b) == IF a <= b THEN a ELSE b
Greatest(a, b) == IF a >= b THEN a ELSE b
Distance(a, b) == IF a <= b THEN b - a ELSE a - b

Box(p, q) ==
  [l |-> Least(p[1], q[1]) - Pad, r |-> Greatest(p[1], q[1]) + Pad,
   t |-> Least(p[2], q[2]) - Pad, b |-> Greatest(p[2], q[2]) + Pad]

\* The pixels of the canvas in a box.
Region(x) ==
  {c \in Cells : /\ x.l <= c[1] /\ c[1] <= x.r
                 /\ x.t <= c[2] /\ c[2] <= x.b}

\* Grown by one pixel, x meets y.
Touches(x, y) ==
  /\ x.l - 1 <= y.r /\ y.l <= x.r + 1
  /\ x.t - 1 <= y.b /\ y.t <= x.b + 1

Union(x, y) ==
  [l |-> Least(x.l, y.l), r |-> Greatest(x.r, y.r),
   t |-> Least(x.t, y.t), b |-> Greatest(x.b, y.b)]

\* The pixels on the segment from p to q.
Line(p, q) ==
  {c \in Region(Box(p, q)) :
     2 * Distance((q[1] - p[1]) * (c[2] - p[2]), (q[2] - p[2]) * (c[1] - p[1]))
       <= Greatest(Distance(p[1], q[1]), Distance(p[2], q[2]))}

Segment(p, q) == IF p = q THEN Region(Box(p, p)) \intersect {p} ELSE Line(p, q)

---------------------------------------------------------------------------
(* Patches                                                                 *)

Label == IF ink = Clear THEN "eraser" ELSE "brush"

Pixels(layer, S) == [c \in S |-> layer[c]]

\* write_region: the pixels of a patch go back onto its layer.
Blit(doc, command, source) ==
  IF command.layer > Len(doc) THEN doc
  ELSE [doc EXCEPT ![command.layer] =
          [c \in Cells |-> IF c \in Region(command.box) THEN source[c]
                                                        ELSE doc[command.layer][c]]]

\* try_merge: the three conditions.
CanMerge(top, next) ==
  /\ top.layer = next.layer
  /\ top.label = next.label
  /\ Touches(top.box, next.box)

\* Mutant of Merged: the newer patch is asked first.
MergedNewest(top, next, canvas) ==
  LET box == Union(top.box, next.box) IN
  [layer  |-> top.layer,
   box    |-> box,
   label  |-> top.label,
   before |-> [c \in Region(box) |->
                 IF c \in Region(next.box) THEN next.before[c]
                 ELSE IF c \in Region(top.box) THEN top.before[c]
                 ELSE canvas[c]],
   after  |-> Pixels(canvas, Region(box)),
   drags  |-> top.drags \union next.drags]

\* try_merge: what a pixel was before the stroke is known to the older patch,
\* else to the newer one, else it is what the canvas shows; what it is after
\* the stroke is what the canvas shows.
Merged(top, next, canvas) ==
  LET box == Union(top.box, next.box) IN
  [layer  |-> top.layer,
   box    |-> box,
   label  |-> top.label,
   before |-> [c \in Region(box) |->
                 IF c \in Region(top.box) THEN top.before[c]
                 ELSE IF c \in Region(next.box) THEN next.before[c]
                 ELSE canvas[c]],
   after  |-> Pixels(canvas, Region(box)),
   drags  |-> top.drags \union next.drags]

---------------------------------------------------------------------------
Init ==
  /\ layers = <<[c \in Cells |-> Paper]>>
  /\ active = 1
  /\ commands = <<>>
  /\ cursor = 0
  /\ sealed = TRUE
  /\ locked = FALSE /\ asked = FALSE
  /\ dragging = FALSE
  /\ last \in Points
  /\ ink \in Inks
  /\ drags = 0
  /\ ops = 0
  /\ versions = <<layers>>

Budget ==
  /\ ops < MaxOps
  /\ ops' = ops + 1

\* The versions follow as long as every change had its command.
Kept(line) == IF versions = <<>> THEN <<>> ELSE line

\* The top of the history takes the patch in.
Absorbs(patch) ==
  /\ ~sealed /\ cursor = Len(commands) /\ cursor > 0
  /\ CanMerge(commands[cursor], patch)

\* Mutant of Push: what was undone is not given up.
PushKeepsFuture(patch, doc) ==
  \/ /\ Absorbs(patch)
     /\ commands' = [commands EXCEPT ![cursor] = Merged(@, patch, doc[patch.layer])]
     /\ versions' = Kept([versions EXCEPT ![cursor + 1] = doc])
     /\ UNCHANGED <<cursor, sealed>>
  \/ /\ ~Absorbs(patch)
     /\ commands' = Append(commands, patch)
     /\ cursor' = cursor + 1
     /\ sealed' = FALSE
     /\ versions' = Kept(Append(SubSeq(versions, 1, cursor + 1), doc))

\* Document::push of a patch that has turned the document into doc.
Push(patch, doc) ==
  \/ /\ Absorbs(patch)
     /\ commands' = [commands EXCEPT ![cursor] = Merged(@, patch, doc[patch.layer])]
     /\ versions' = Kept([versions EXCEPT ![cursor + 1] = doc])
     /\ UNCHANGED <<cursor, sealed>>
  \/ /\ ~Absorbs(patch)
     /\ commands' = Append(SubSeq(commands, 1, cursor), patch)
     /\ cursor' = cursor + 1
     /\ sealed' = FALSE
     /\ versions' = Kept(Append(SubSeq(versions, 1, cursor + 1), doc))

\* The active layer once the segment from p to q is painted.
Painted(p, q) ==
  [c \in Cells |-> IF c \in Segment(p, q) THEN ink ELSE layers[active][c]]

PatchOf(p, q, who) ==
  LET box == Box(p, q) IN
  [layer  |-> active,
   box    |-> box,
   label  |-> Label,
   before |-> Pixels(layers[active], Region(box)),
   after  |-> Pixels(Painted(p, q), Region(box)),
   drags  |-> who]

\* CanvasView::stroke: nothing while the agent has the lock, and no entry for
\* a segment that changes no pixel.
Stroke(p, q, who) ==
  \/ /\ locked \/ Painted(p, q) = layers[active]
     /\ UNCHANGED <<layers, commands, cursor, sealed, versions>>
  \/ /\ ~locked /\ Painted(p, q) # layers[active]
     /\ layers' = [layers EXCEPT ![active] = Painted(p, q)]
     /\ Push(PatchOf(p, q, who), [layers EXCEPT ![active] = Painted(p, q)])

---------------------------------------------------------------------------
(* The person                                                              *)

Press(p) ==
  /\ ~dragging
  /\ Budget
  /\ dragging' = TRUE
  /\ last' = p
  /\ drags' = drags + 1
  /\ Stroke(p, p, {drags + 1})
  /\ UNCHANGED <<active, ink, lockVars>>

Drag(q) ==
  /\ dragging
  /\ Budget
  /\ last' = q
  /\ Stroke(last, q, {drags})
  /\ UNCHANGED <<active, dragging, ink, drags, lockVars>>

\* Mutant of Release: the stroke is not sealed.
ReleaseOpen ==
  /\ dragging' = FALSE
  /\ UNCHANGED <<layers, active, commands, cursor, sealed, last, ink, drags, ops, lockVars, versions>>

\* The element that saw the press sees the release, whatever the tool was.
Release ==
  /\ dragging' = FALSE
  /\ sealed' = TRUE
  /\ UNCHANGED <<layers, active, commands, cursor, last, ink, drags, ops, lockVars, versions>>

ChooseInk(k) ==
  /\ ink' = k
  /\ UNCHANGED <<layers, active, commands, cursor, sealed, dragging, last, drags, ops,
                 lockVars, versions>>

ChooseLayer(i) ==
  /\ active' = i
  /\ UNCHANGED <<layers, commands, cursor, sealed, canvasVars, ops, lockVars, versions>>

\* The switch of the panel and the edit_lock of the agent.
SetControl(on) ==
  /\ locked' = on
  /\ asked' = on
  /\ UNCHANGED <<layers, active, commands, cursor, sealed, canvasVars, ops, versions>>

AddLayer ==
  /\ ~locked
  /\ Len(layers) < MaxLayers
  /\ Budget
  /\ layers' = Append(layers, [c \in Cells |-> Clear])
  /\ active' = Len(layers) + 1
  /\ versions' = [i \in 1..Len(versions) |-> Append(versions[i], [c \in Cells |-> Clear])]
  /\ UNCHANGED <<commands, cursor, sealed, canvasVars, lockVars>>

\* The document becomes doc, and the history does not know.
Behind(doc, layer) ==
  /\ ~locked
  /\ Budget
  /\ layers' = doc
  /\ active' = layer
  /\ versions' = <<>>
  /\ UNCHANGED <<commands, cursor, sealed, canvasVars, lockVars>>

Without(i) == [j \in 1..Len(layers) - 1 |-> layers[IF j < i THEN j ELSE j + 1]]

\* Mutant of RemoveLayer: the active layer may be gone.
RemoveLayerLoose(i) ==
  /\ Len(layers) > 1
  /\ Behind(Without(i), active)

RemoveLayer(i) ==
  /\ Len(layers) > 1
  /\ Behind(Without(i), Least(active, Len(layers) - 1))

\* An invisible upper layer leaves the lower one as it is.
MergeDown(i) ==
  /\ i > 1
  /\ \E visible \in BOOLEAN :
       Behind([Without(i) EXCEPT ![i - 1] =
                 [c \in Cells |-> IF visible /\ layers[i][c] # Clear
                                  THEN layers[i][c] ELSE layers[i - 1][c]]],
              Least(active, Len(layers) - 1))

\* Another picture takes the place of the layers, the history is cleared.
Load(picture) ==
  /\ Budget
  /\ layers' = <<picture>>
  /\ active' = 1
  /\ commands' = <<>>
  /\ cursor' = 0
  /\ versions' = <<layers'>>

OpenFile(picture) ==
  /\ Load(picture)
  /\ UNCHANGED <<sealed, canvasVars, lockVars>>

---------------------------------------------------------------------------
(* Scripts and agents                                                      *)

Invoke(action) == action \in Invocable /\ ~locked

InvokeStroke(p, q) ==
  /\ Invoke("stroke")
  /\ Budget
  /\ Stroke(p, q, {})
  /\ UNCHANGED <<active, canvasVars, lockVars>>

Undo ==
  /\ Invoke("undo")
  /\ cursor > 0
  /\ Budget
  /\ cursor' = cursor - 1
  /\ layers' = Blit(layers, commands[cursor], commands[cursor].before)
  /\ UNCHANGED <<active, commands, sealed, canvasVars, lockVars, versions>>

Redo ==
  /\ Invoke("redo")
  /\ cursor < Len(commands)
  /\ Budget
  /\ cursor' = cursor + 1
  /\ layers' = Blit(layers, commands[cursor + 1], commands[cursor + 1].after)
  /\ UNCHANGED <<active, commands, sealed, canvasVars, lockVars, versions>>

ClearHistory ==
  /\ Invoke("clear_history")
  /\ Budget
  /\ commands' = <<>>
  /\ cursor' = 0
  /\ versions' = <<layers>>
  /\ UNCHANGED <<layers, active, sealed, canvasVars, lockVars>>

InvokeRemove(i) == Invoke("remove_layer") /\ RemoveLayer(i)

ClearLayer ==
  /\ Invoke("clear_layer")
  /\ Behind([layers EXCEPT ![active] = [c \in Cells |-> Clear]], active)

ResetLayers(k) ==
  /\ Invoke("reset_layers")
  /\ Behind(<<[c \in Cells |-> k]>>, 1)

SetPixel(c, k) ==
  /\ Invoke("set_pixel")
  /\ Behind([layers EXCEPT ![active] = [@ EXCEPT ![c] = k]], active)

\* move_layer: the active layer stays the same one.
MoveLayer(i) ==
  /\ Invoke("move_layer")
  /\ i < Len(layers)
  /\ Behind([layers EXCEPT ![i] = layers[i + 1], ![i + 1] = layers[i]],
            IF active = i THEN i + 1 ELSE IF active = i + 1 THEN i ELSE active)

\* apply_poster makes a new Document and loads what was rendered into it; it is
\* not behind the gate of invoke_action, which is the canvas's.
ApplyPoster(picture) ==
  /\ "apply_poster" \in Invocable
  /\ Load(picture)
  /\ sealed' = TRUE
  /\ locked' = FALSE
  /\ UNCHANGED <<canvasVars, asked>>

PersonPaints == \E p \in Points : Press(p) \/ Drag(p)

Next ==
  \/ PersonPaints
  \/ Release
  \/ \E k \in Inks \union {Clear} : ChooseInk(k)
  \/ \E i \in 1..Len(layers) : ChooseLayer(i) \/ RemoveLayer(i) \/ MergeDown(i)
  \/ \E on \in BOOLEAN : SetControl(on)
  \/ AddLayer
  \/ \E picture \in Pictures : OpenFile(picture) \/ ApplyPoster(picture)
  \/ \E p, q \in Points : InvokeStroke(p, q)
  \/ Undo \/ Redo \/ ClearHistory \/ ClearLayer
  \/ \E i \in 1..Len(layers) : InvokeRemove(i) \/ MoveLayer(i)
  \/ \E k \in Colors : ResetLayers(k) \/ \E c \in Cells : SetPixel(c, k)

Spec == Init /\ [][Next]_vars

---------------------------------------------------------------------------
(* Properties                                                              *)

Boxes == [l : Int, r : Int, t : Int, b : Int]
Parts == UNION {[S -> Colors] : S \in SUBSET Cells}

\* A patch knows the pixels of its box, before and after.
Patches ==
  {x \in [layer : Nat \ {0}, box : Boxes, label : {"brush", "eraser"},
          before : Parts, after : Parts, drags : SUBSET Nat] :
     x.before \in [Region(x.box) -> Colors] /\ x.after \in [Region(x.box) -> Colors]}

TypeOK ==
  /\ layers \in Seq(Layers) /\ layers # <<>>
  /\ active \in 1..Len(layers)
  /\ commands \in Seq(Patches)
  /\ cursor \in 0..Len(commands)
  /\ sealed \in BOOLEAN /\ locked \in BOOLEAN /\ dragging \in BOOLEAN /\ asked \in BOOLEAN
  /\ last \in Points /\ ink \in Colors
  /\ drags \in Nat /\ ops \in Nat
  /\ versions \in Seq(Seq(Layers))

\* The command takes document v to document w and back: the two differ at most
\* on its layer and in its box, and it knows the pixels of both there.
Takes(command, v, w) ==
  /\ Len(v) = Len(w)
  /\ command.layer \in 1..Len(v)
  /\ \A i \in 1..Len(v) : i # command.layer => v[i] = w[i]
  /\ \A c \in Cells :
       IF c \in Region(command.box)
       THEN command.before[c] = v[command.layer][c] /\ command.after[c] = w[command.layer][c]
       ELSE v[command.layer][c] = w[command.layer][c]

\* Every entry of the history, also one merged from many segments, undoes to
\* the document its stroke found and redoes to the one it left.
EntriesFit ==
  versions # <<>> =>
    /\ Len(versions) = Len(commands) + 1
    /\ layers = versions[cursor + 1]
    /\ \A i \in 1..Len(commands) : Takes(commands[i], versions[i], versions[i + 1])

\* The comment at MouseUp: two strokes never become one entry, whatever else is
\* invoked, undone or switched between and during them.
OneEntryOneDrag ==
  \A i \in 1..Len(commands) : \A d, e \in commands[i].drags : d = e

\* As long as nothing goes behind the history's back, undo and redo are a walk
\* along the versions that were on the screen.
History == INSTANCE Timeline WITH
  Documents <- Seq(Layers),
  Blank     <- [c \in Cells |-> Clear],
  shown     <- layers,
  past      <- versions,
  at        <- IF versions = <<>> THEN 0 ELSE cursor + 1
HistoryHolds == History!TimelineSpec

\* The doc of ai_controlled: while the agent has taken over, people look on.
PeopleOnlyLook ==
  [][asked /\ PersonPaints => UNCHANGED layers]_vars
=============================================================================
