------------------------------- MODULE Vision -------------------------------
(***************************************************************************)
(* gateway/app/runner.py: what predict makes of the photos of a board.     *)
(* Each view is cut into instances (preprocess_view, grid_boxes), all of   *)
(* them go through the model as one batch (_forward of a TorchScript       *)
(* archive, without tta), and the output is read by the function of the    *)
(* task; attention over the instances is then summed per view again.       *)
(* One call on one model: what another thread may do to the slot meanwhile *)
(* is in ModelRunner.                                                      *)
(*                                                                         *)
(* A view is its size in pixels.  An instance is the box it was cut from,  *)
(* and a sum of attention weights is the sequence of the instances they    *)
(* are of.  Of the model's output only the winner of each item counts: the *)
(* class with the highest logit (of the image, or of each pixel), or the   *)
(* labels of the detections, best score first.                             *)
(***************************************************************************)
EXTENDS Integers, Sequences, FiniteSets

CONSTANTS
  Views,      \* <<width, height>> of the photos there may be
  Manifests,  \* what parse_metadata accepted
  MaxUpload,  \* bound: how many views a board has
  Pixels,     \* those of a segmentation mask
  Winners,    \* channels that may win a pixel, labels of a detection
  Nothing     \* Python's None

ASSUME ViewsAssumption == Views \subseteq (Nat \ {0}) \X (Nat \ {0})
ASSUME ManifestsAssumption ==
  Manifests \subseteq
    [task : {"classification", "detection", "segmentation"},
     layout : {"board", "image"}, max_views : Nat \ {0}, patch_mode : BOOLEAN,
     image_size : Nat \ {0}, patches_per_view : Nat, classes : Nat \ {0}]
ASSUME OutputAssumption ==
  /\ MaxUpload \in Nat \ {0}
  /\ IsFiniteSet(Pixels)
  /\ Winners \subseteq Nat

VARIABLES
  stage,     \* "preprocess", "forward", "raised" or "done"
  meta,      \* the manifest of the model
  upload,    \* the views
  per_view,  \* of each view done: its size after resizing, and its boxes
  instances, \* all of them one after the other, each with its view
  result     \* what predict returns, Nothing before

vars == <<stage, meta, upload, per_view, instances, result>>
----------------------------------------------------------------------------
(* Arithmetic.  A quotient of two integers is a float: exact at a half,    *)
(* where Python rounds to even; a product with such a quotient may fall to *)
(* either side of a half.                                                  *)

Round(a, b) ==
  LET q == a \div b
      r == 2 * (a % b)
  IN  IF r < b \/ (r = b /\ q % 2 = 0) THEN q ELSE q + 1

Nearest(a, b) ==
  IF 2 * (a % b) = b THEN {a \div b, a \div b + 1} ELSE {Round(a, b)}

Least(a, b) == IF a < b THEN a ELSE b
Most(a, b) == IF a > b THEN a ELSE b

\* max(1, round(k ** 0.5)): the n >= 1 with n - 1/2 < sqrt(k), counted
Columns(k) == Most(1, Cardinality({n \in 1..k : (2*n - 1) * (2*n - 1) < 4 * k}))

Rows(k, cols) == (k + cols - 1) \div cols

\* One coordinate of the i-th of n boxes of a line, with room to spare.
Offset(i, n, room) == IF n > 1 THEN Round(i * room, n - 1) ELSE room \div 2

Box(x, y, size) == <<x, y, x + size, y + size>>

\* Mutant: rows = k // cols
GridBoxesFloor(width, height, size, k) ==
  LET cols == Columns(k)
      rows == k \div cols
  IN  [j \in 1..Least(k, rows * cols) |->
         Box(Offset((j - 1) % cols, cols, width - size),
             Offset((j - 1) \div cols, rows, height - size), size)]

\* Row by row until there are k of them.
GridBoxes(width, height, size, k) ==
  LET cols == Columns(k)
      rows == Rows(k, cols)
  IN  [j \in 1..Least(k, rows * cols) |->
         Box(Offset((j - 1) % cols, cols, width - size),
             Offset((j - 1) \div cols, rows, height - size), size)]

\* int(size * 1.15): where 1.15 * size is an integer, the float may be less
ShortSides(size) ==
  LET t == (23 * size) \div 20
  IN  IF size % 20 = 0 THEN {t - 1, t} ELSE {t}

\* Patches: a view too small for one is enlarged until its short side is size.
Enlarged(w, h, size) ==
  IF Least(w, h) < size
    THEN {<<Most(size, w2), Most(size, h2)>> :
            w2 \in Nearest(w * size, Least(w, h)),
            h2 \in Nearest(h * size, Least(w, h))}
    ELSE {<<w, h>>}

Patches(m, w, h) ==
  {[size |-> s, boxes |-> GridBoxes(s[1], s[2], m.image_size, m.patches_per_view)] :
     s \in Enlarged(w, h, m.image_size)}

\* The whole face: the short side to 1.15 of the size, and the centre of it.
WholeFace(m, w, h) ==
  UNION {{[size |-> <<w2, h2>>,
           boxes |-> <<Box((w2 - m.image_size) \div 2, (h2 - m.image_size) \div 2,
                           m.image_size)>>] :
            w2 \in Nearest(w * t, Least(w, h)), h2 \in Nearest(h * t, Least(w, h))} :
         t \in ShortSides(m.image_size)}

preprocess_view(m, view) ==
  IF m.patch_mode THEN Patches(m, view[1], view[2]) ELSE WholeFace(m, view[1], view[2])
----------------------------------------------------------------------------
(* Output.                                                                 *)

NoReport == [label |-> Nothing, coverage |-> Nothing, view_attention |-> Nothing]

\* Mutant: every view is taken to have patches_per_view instances.
CollapsePatches(attn) ==
  LET k == meta.patches_per_view
  IN  [i \in 1..Len(per_view) |->
         SubSeq(attn, (i - 1) * k + 1, Least(i * k, Len(attn)))]

\* sum(attn[i * k:(i + 1) * k]), for each view
Collapse(attn) ==
  LET k == Len(per_view[1].boxes)
  IN  [i \in 1..Len(per_view) |->
         SubSeq(attn, (i - 1) * k + 1, Least(i * k, Len(attn)))]

\* forward_with_attention is called for a board, and the model for an image.
Classification(best) ==
  [NoReport EXCEPT
     !.label = best,
     !.view_attention = IF meta.layout = "board" THEN Collapse(instances) ELSE Nothing]

\* The best detection gives the label; one that is no class stands for itself.
Detection(labels) ==
  [NoReport EXCEPT !.label = IF labels = <<>> THEN Nothing ELSE labels[1]]

\* argmax(0).to(torch.uint8)
Mask(winner) == [p \in Pixels |-> winner[p] % 2^8]

Coverage(mask) ==
  [c \in {mask[p] : p \in Pixels} \cap 0..(meta.classes - 1) |->
     Cardinality({p \in Pixels : mask[p] = c})]

\* max(counts, key=counts.get): the first of the classes that cover most
Segmentation(winner) ==
  LET counts == Coverage(Mask(winner))
      most == {c \in DOMAIN counts : \A d \in DOMAIN counts : counts[d] <= counts[c]}
  IN  [NoReport EXCEPT
         !.coverage = counts,
         !.label = IF most = {} THEN Nothing ELSE CHOOSE c \in most : \A d \in most : c <= d]
----------------------------------------------------------------------------
Boxes == Nat \X Nat \X Nat \X Nat
Cuts == [size : Nat \X Nat, boxes : Seq(Boxes)]

VisionTypeOK ==
  /\ stage \in {"preprocess", "forward", "raised", "done"}
  /\ meta \in Manifests
  /\ upload \in Seq(Views)
  /\ per_view \in Seq(Cuts)
  /\ instances \in Seq(Nat \X Boxes)

Init ==
  /\ stage = "preprocess"
  /\ meta \in Manifests
  /\ upload \in UNION {[1..n -> Views] : n \in 1..MaxUpload}
  /\ per_view = <<>> /\ instances = <<>>
  /\ result = Nothing

Fits == Len(upload) <= meta.max_views

\* ValueError: expected 1..max_views views
TooMany ==
  /\ stage = "preprocess"
  /\ ~Fits
  /\ stage' = "raised"
  /\ UNCHANGED <<meta, upload, per_view, instances, result>>

OfView(i, cut) == [j \in 1..Len(cut.boxes) |-> <<i, cut.boxes[j]>>]

Preprocess ==
  /\ stage = "preprocess"
  /\ Fits
  /\ \E cut \in preprocess_view(meta, upload[Len(per_view) + 1]) :
       /\ per_view' = Append(per_view, cut)
       /\ instances' = instances \o OfView(Len(per_view) + 1, cut)
  /\ stage' = IF Len(per_view) + 1 = Len(upload) THEN "forward" ELSE stage
  /\ UNCHANGED <<meta, upload, result>>

\* torch.stack of no instance raises.
NothingToStack ==
  /\ stage = "forward"
  /\ instances = <<>>
  /\ stage' = "raised"
  /\ UNCHANGED <<meta, upload, per_view, instances, result>>

Return(report) ==
  /\ stage = "forward"
  /\ instances # <<>>
  /\ stage' = "done"
  /\ result' = report
  /\ UNCHANGED <<meta, upload, per_view, instances>>

\* A model with more logits than classes makes classes[top] raise.
Classify ==
  /\ meta.task = "classification"
  /\ \E best \in 0..(meta.classes - 1) : Return(Classification(best))

ClassifyRaises ==
  /\ meta.task = "classification"
  /\ stage = "forward"
  /\ instances # <<>>
  /\ \E best \in Winners : best >= meta.classes
  /\ stage' = "raised"
  /\ UNCHANGED <<meta, upload, per_view, instances, result>>

Detect ==
  /\ meta.task = "detection"
  /\ \E labels \in {<<>>} \cup {<<l>> : l \in Winners} : Return(Detection(labels))

Segment ==
  /\ meta.task = "segmentation"
  /\ \E winner \in [Pixels -> Winners] : Return(Segmentation(winner))

Next ==
  \/ TooMany \/ Preprocess \/ NothingToStack
  \/ Classify \/ ClassifyRaises \/ Detect \/ Segment

Spec == Init /\ [][Next]_vars
----------------------------------------------------------------------------
BoxesIn(width, height, size) ==
  {Box(x, y, size) : x \in 0..(width - size), y \in 0..(height - size)}

\* runner.py 155-157: whatever the photo's shape, a view gives the promised
\* number of instances, and each is a size x size box inside the resized view.
Inside(m, cut) ==
  /\ Len(cut.boxes) = IF m.patch_mode THEN m.patches_per_view ELSE 1
  /\ \A j \in DOMAIN cut.boxes :
       cut.boxes[j] \in BoxesIn(cut.size[1], cut.size[2], m.image_size)

InstancesInside == \A i \in DOMAIN per_view : Inside(meta, per_view[i])

\* runner.py 403-405: "which lighting condition drove this": the attention of a
\* photo is that of its own instances, every one of them once.
AttentionIsOwn ==
  stage = "done" /\ result.view_attention # Nothing =>
    /\ DOMAIN result.view_attention = DOMAIN upload
    /\ \A i \in DOMAIN upload : result.view_attention[i] = OfView(i, per_view[i])
=============================================================================
