--------------------------- MODULE Vision_proofs ---------------------------
(***************************************************************************)
(* Proofs about the preprocessing and the attention of runner.py, for any  *)
(* photos, manifests and outputs: the arithmetic of the grid and of the    *)
(* resizing first, then the invariants of predict.                         *)
(***************************************************************************)
EXTENDS Vision, FiniteSetTheorems, TLAPS

\* Division with remainder.
LEMMA DivMod ==
  ASSUME NEW a \in Nat, NEW b \in Nat \ {0}
  PROVE  /\ a \div b \in Nat /\ a % b \in Nat
         /\ a = b * (a \div b) + (a % b)
         /\ a % b < b
<1>1. a \div b \in Nat /\ a % b \in Nat /\ a % b < b
  OBVIOUS
<1> QED
  BY <1>1

\* Multiplication by a positive number keeps strict order.
LEMMA Cancel ==
  ASSUME NEW b \in Nat \ {0}, NEW m \in Int, NEW n \in Int, b * m < b * n
  PROVE  m < n
<1> SUFFICES ASSUME m >= n PROVE FALSE
  OBVIOUS
<1>1. b * (m - n) >= 0
  OBVIOUS
<1> QED
  BY <1>1

\* A quotient of at most n is rounded to at most n.
LEMMA RoundAtMost ==
  ASSUME NEW a \in Nat, NEW b \in Nat \ {0}, NEW n \in Nat, a <= b * n
  PROVE  Round(a, b) \in 0..n
<1> DEFINE q == a \div b
           r == a % b
<1>1. q \in Nat /\ r \in Nat /\ a = b * q + r /\ r < b
  BY DivMod
<1> HIDE DEF q, r
<1>2. b * q < b * (n + 1)
  BY <1>1
<1>3. q <= n
  BY <1>1, <1>2, Cancel
<1>4. r > 0 => q + 1 <= n
  <2> SUFFICES ASSUME r > 0 PROVE q < n
    BY <1>1
  <2>1. b * q < b * n
    BY <1>1
  <2> QED
    BY <1>1, <2>1, Cancel
<1>5. Round(a, b) = IF 2 * r < b \/ (2 * r = b /\ q % 2 = 0) THEN q ELSE q + 1
  BY DEF Round, q, r
<1> QED
  BY <1>1, <1>3, <1>4, <1>5

\* A quotient of at least n goes to at least n, whichever way a half falls.
LEMMA NearestAtLeast ==
  ASSUME NEW a \in Nat, NEW b \in Nat \ {0}, NEW n \in Nat, b * n <= a,
         NEW v \in Nearest(a, b)
  PROVE  v \in Nat /\ v >= n
<1>1. a \div b \in Nat /\ a = b * (a \div b) + (a % b) /\ a % b < b /\ a % b \in Nat
  BY DivMod
<1>2. b * n < b * (a \div b + 1)
  BY <1>1
<1>3. n <= a \div b
  BY <1>1, <1>2, Cancel
<1>4. v \in {a \div b, a \div b + 1}
  BY DEF Nearest, Round
<1> QED
  BY <1>1, <1>3, <1>4

\* Boxes of a line stay within the room there is.
LEMMA OffsetInRoom ==
  ASSUME NEW n \in Nat, NEW i \in Nat, i < n, NEW room \in Nat
  PROVE  Offset(i, n, room) \in 0..room
<1>1. CASE n > 1
  <2>1. i * room \in Nat /\ n - 1 \in Nat \ {0} /\ i <= n - 1
    BY <1>1
  <2>2. i * room <= (n - 1) * room
    BY <2>1
  <2>3. Round(i * room, n - 1) \in 0..room
    BY <2>1, <2>2, RoundAtMost
  <2> QED
    BY <1>1, <2>3 DEF Offset
<1>2. CASE ~(n > 1)
  <2>1. room \div 2 \in 0..room
    OBVIOUS
  <2> QED
    BY <1>2, <2>1 DEF Offset
<1> QED
  BY <1>1, <1>2

\* There is at least one column.
LEMMA ColumnsPositive == ASSUME NEW k \in Nat PROVE Columns(k) \in Nat \ {0}
<1> DEFINE S == {n \in 1..k : (2*n - 1) * (2*n - 1) < 4 * k}
<1>1. IsFiniteSet(S)
  <2>1. IsFiniteSet(1..k) /\ S \subseteq 1..k
    BY FS_Interval
  <2> QED
    BY <2>1, FS_Subset
<1>2. Cardinality(S) \in Nat
  BY <1>1, FS_CardinalityType
<1> HIDE DEF S
<1>3. Columns(k) = Most(1, Cardinality(S))
  BY DEF Columns, S
<1> QED
  BY <1>2, <1>3 DEF Most

\* The rows have places enough for k boxes, and the j-th box is in one of them.
LEMMA RowsSuffice ==
  ASSUME NEW k \in Nat, NEW cols \in Nat \ {0}
  PROVE  /\ Rows(k, cols) \in Nat
         /\ k <= Rows(k, cols) * cols
         /\ \A j \in 1..k : (j - 1) \div cols \in Nat /\ (j - 1) \div cols < Rows(k, cols)
<1> DEFINE a == k + cols - 1
           q == Rows(k, cols)
<1>1. q \in Nat /\ a = cols * q + (a % cols) /\ a % cols < cols /\ a % cols \in Nat
  BY DivMod DEF Rows
<1>c. cols * q = q * cols
  BY <1>1
<1> HIDE DEF q
<1>2. k <= q * cols
  BY <1>1, <1>c
<1>3. ASSUME NEW j \in 1..k PROVE (j - 1) \div cols \in Nat /\ (j - 1) \div cols < q
  <2>1. /\ (j - 1) \div cols \in Nat
        /\ j - 1 = cols * ((j - 1) \div cols) + ((j - 1) % cols)
        /\ (j - 1) % cols \in Nat
    BY DivMod
  <2>2. cols * ((j - 1) \div cols) < cols * q
    BY <2>1, <1>1, <1>2, <1>c
  <2> QED
    BY <1>1, <2>1, <2>2, Cancel
<1> QED
  BY <1>1, <1>2, <1>3 DEF q

\* grid_boxes: k boxes, all of them inside, of every image they fit in.
THEOREM GridInside ==
  ASSUME NEW size \in Nat, NEW width \in Nat, NEW height \in Nat, NEW k \in Nat,
         size <= width, size <= height
  PROVE  GridBoxes(width, height, size, k) \in [1..k -> BoxesIn(width, height, size)]
<1> DEFINE cols == Columns(k)
           rows == Rows(k, cols)
           X(j) == Offset((j - 1) % cols, cols, width - size)
           Y(j) == Offset((j - 1) \div cols, rows, height - size)
<1>1. cols \in Nat \ {0}
  BY ColumnsPositive
<1>2. /\ rows \in Nat /\ k <= rows * cols
      /\ \A j \in 1..k : (j - 1) \div cols \in Nat /\ (j - 1) \div cols < rows
  BY <1>1, RowsSuffice
<1>g. GridBoxes(width, height, size, k) =
        [j \in 1..Least(k, rows * cols) |-> Box(X(j), Y(j), size)]
  BY DEF GridBoxes
<1>3. Least(k, rows * cols) = k
  <2> HIDE DEF rows, cols
  <2>1. rows * cols \in Nat
    BY <1>1, <1>2
  <2> QED
    BY <1>2, <2>1 DEF Least
<1>4. ASSUME NEW j \in 1..k
      PROVE  X(j) \in 0..(width - size) /\ Y(j) \in 0..(height - size)
  <2>1. (j - 1) % cols \in Nat /\ (j - 1) % cols < cols
    BY <1>1, DivMod
  <2>2. width - size \in Nat /\ height - size \in Nat
    OBVIOUS
  <2> HIDE DEF rows, cols
  <2> QED
    BY <1>1, <1>2, <2>1, <2>2, OffsetInRoom
<1>5. ASSUME NEW j \in 1..k PROVE Box(X(j), Y(j), size) \in BoxesIn(width, height, size)
  <2> HIDE DEF X, Y
  <2> QED
    BY <1>4 DEF BoxesIn
<1>6. GridBoxes(width, height, size, k) = [j \in 1..k |-> Box(X(j), Y(j), size)]
  BY <1>g, <1>3
<1> HIDE DEF X, Y
<1> QED
  BY <1>5, <1>6

----------------------------------------------------------------------------
\* Resizing leaves room for a crop: patches ...
LEMMA EnlargedFits ==
  ASSUME NEW w \in Nat \ {0}, NEW h \in Nat \ {0}, NEW size \in Nat \ {0},
         NEW s \in Enlarged(w, h, size)
  PROVE  s \in Nat \X Nat /\ s[1] >= size /\ s[2] >= size
<1>1. CASE Least(w, h) < size
  <2>1. PICK w2 \in Nearest(w * size, Least(w, h)), h2 \in Nearest(h * size, Least(w, h)) :
          s = <<Most(size, w2), Most(size, h2)>>
    BY <1>1 DEF Enlarged
  <2>2. Least(w, h) \in Nat \ {0} /\ w * size \in Nat /\ h * size \in Nat
    BY DEF Least
  <2>3. w2 \in Nat /\ h2 \in Nat
    <3>1. Least(w, h) * 0 <= w * size /\ Least(w, h) * 0 <= h * size
      BY <2>2
    <3> QED
      BY <2>2, <3>1, NearestAtLeast
  <2> QED
    BY <2>1, <2>3 DEF Most
<1>2. CASE ~(Least(w, h) < size)
  BY <1>2 DEF Enlarged, Least
<1> QED
  BY <1>1, <1>2

\* ... and the whole face.
LEMMA ShortSidesSuffice ==
  ASSUME NEW size \in Nat \ {0}, NEW t \in ShortSides(size)
  PROVE  t \in Nat /\ t >= size
  BY DEF ShortSides

\* Scaled by t / d, what is at least d is at least t.
LEMMA WholeFits ==
  ASSUME NEW w \in Nat \ {0}, NEW d \in Nat \ {0}, NEW t \in Nat, d <= w,
         NEW v \in Nearest(w * t, d)
  PROVE  v \in Nat /\ v >= t
<1>1. d * t <= w * t /\ w * t \in Nat
  <2>1. (w - d) * t >= 0
    OBVIOUS
  <2> QED
    BY <2>1
<1> QED
  BY <1>1, NearestAtLeast

\* k of predict: len(per_view[0])
InstancesPerView(m) == IF m.patch_mode THEN m.patches_per_view ELSE 1

\* The number of instances of a view depends on the manifest alone, and each is
\* a box inside the resized view.
THEOREM PreprocessInside ==
  ASSUME NEW m \in Manifests, NEW view \in Views, NEW cut \in preprocess_view(m, view)
  PROVE  cut \in Cuts /\ Inside(m, cut)
<1> DEFINE w == view[1]
           h == view[2]
           size == m.image_size
<1>1. w \in Nat \ {0} /\ h \in Nat \ {0}
  BY ViewsAssumption
<1>2. size \in Nat \ {0} /\ m.patches_per_view \in Nat /\ m.patch_mode \in BOOLEAN
  BY ManifestsAssumption
<1>b. \A width, height \in Nat :
        size <= width /\ size <= height => BoxesIn(width, height, size) \subseteq Boxes
  BY <1>2 DEF BoxesIn, Box, Boxes
<1>3. CASE m.patch_mode
  <2>1. PICK s \in Enlarged(w, h, size) :
          cut = [size |-> s, boxes |-> GridBoxes(s[1], s[2], size, m.patches_per_view)]
    BY <1>3 DEF preprocess_view, Patches
  <2>2. s \in Nat \X Nat /\ s[1] >= size /\ s[2] >= size
    BY <1>1, <1>2, EnlargedFits
  <2>3. cut.boxes \in [1..m.patches_per_view -> BoxesIn(s[1], s[2], size)]
    BY <1>2, <2>1, <2>2, GridInside
  <2>4. cut.boxes \in Seq(Boxes) /\ Len(cut.boxes) = m.patches_per_view
    BY <1>2, <1>b, <2>2, <2>3
  <2> QED
    BY <1>3, <2>1, <2>2, <2>3, <2>4 DEF Inside, Cuts
<1>4. CASE ~m.patch_mode
  <2>1. PICK t \in ShortSides(size) :
          \E w2 \in Nearest(w * t, Least(w, h)), h2 \in Nearest(h * t, Least(w, h)) :
            cut = [size |-> <<w2, h2>>,
                   boxes |-> <<Box((w2 - size) \div 2, (h2 - size) \div 2, size)>>]
    BY <1>4 DEF preprocess_view, WholeFace
  <2>2. PICK w2 \in Nearest(w * t, Least(w, h)), h2 \in Nearest(h * t, Least(w, h)) :
          cut = [size |-> <<w2, h2>>,
                 boxes |-> <<Box((w2 - size) \div 2, (h2 - size) \div 2, size)>>]
    BY <2>1
  <2>3. t \in Nat /\ t >= size
    BY <1>2, ShortSidesSuffice
  <2>4. Least(w, h) \in Nat \ {0} /\ Least(w, h) <= w /\ Least(w, h) <= h
    BY <1>1 DEF Least
  <2>5. w2 \in Nat /\ w2 >= size /\ h2 \in Nat /\ h2 >= size
    <3>1. w2 \in Nat /\ w2 >= t
      BY <1>1, <2>3, <2>4, WholeFits
    <3>2. h2 \in Nat /\ h2 >= t
      BY <1>1, <2>3, <2>4, WholeFits
    <3> QED
      BY <1>2, <2>3, <3>1, <3>2
  <2>6. (w2 - size) \div 2 \in 0..(w2 - size) /\ (h2 - size) \div 2 \in 0..(h2 - size)
    BY <1>2, <2>5
  <2>7. Box((w2 - size) \div 2, (h2 - size) \div 2, size) \in BoxesIn(w2, h2, size)
    BY <2>6 DEF BoxesIn
  <2>8. cut.boxes \in Seq(Boxes) /\ cut.size \in Nat \X Nat
    BY <1>b, <2>2, <2>5, <2>7
  <2> QED
    BY <1>4, <2>2, <2>7, <2>8 DEF Inside, Cuts
<1> QED
  BY <1>2, <1>3, <1>4

----------------------------------------------------------------------------
\* A sequence behind another, place by place ...
LEMMA Behind ==
  ASSUME NEW S, NEW s \in Seq(S), NEW t \in Seq(S)
  PROVE  /\ Len(s \o t) = Len(s) + Len(t)
         /\ \A j \in 1..Len(s) : (s \o t)[j] = s[j]
         /\ \A j \in 1..Len(t) : (s \o t)[Len(s) + j] = t[j]
  OBVIOUS

\* ... and a piece of one.
LEMMA Piece ==
  ASSUME NEW S, NEW s \in Seq(S), NEW a \in Nat, NEW k \in Nat, a + k <= Len(s)
  PROVE  SubSeq(s, a + 1, a + k) = [j \in 1..k |-> s[a + j]]
<1>1. Len(SubSeq(s, a + 1, a + k)) = k
  OBVIOUS
<1>2. \A j \in 1..k : SubSeq(s, a + 1, a + k)[j] = s[a + j]
  OBVIOUS
<1>3. SubSeq(s, a + 1, a + k) \in Seq(S)
  OBVIOUS
<1> QED
  BY <1>1, <1>2, <1>3

\* The j-th instance of the i-th view is where Collapse looks for it.
Packed ==
  LET k == InstancesPerView(meta) IN
    /\ Len(instances) = Len(per_view) * k
    /\ \A i \in 1..Len(per_view), j \in 1..k :
         instances[(i - 1) * k + j] = <<i, per_view[i].boxes[j]>>

VInv ==
  /\ VisionTypeOK
  /\ InstancesInside
  /\ Packed
  /\ stage = "preprocess" => Len(per_view) < Len(upload)
  /\ stage \in {"forward", "done"} => Len(per_view) = Len(upload) /\ Len(upload) > 0
  /\ AttentionIsOwn

\* The invariant holds initially: nothing is cut.
LEMMA InitVInv == Init => VInv
<1> SUFFICES ASSUME Init PROVE VInv
  OBVIOUS
<1>1. upload \in Seq(Views) /\ Len(upload) > 0
  BY OutputAssumption DEF Init
<1>2. per_view = <<>> /\ instances = <<>> /\ stage = "preprocess" /\ meta \in Manifests
  BY DEF Init
<1>3. InstancesPerView(meta) \in Nat
  BY <1>2, ManifestsAssumption DEF InstancesPerView
<1>4. Packed
  BY <1>2, <1>3 DEF Packed
<1> QED
  BY <1>1, <1>2, <1>4 DEF VInv, VisionTypeOK, InstancesInside, AttentionIsOwn

\* A view is appended behind the instances of those before it.
LEMMA PreprocessVInv == VInv /\ Preprocess => VInv'
<1> SUFFICES ASSUME VInv, Preprocess PROVE VInv'
  OBVIOUS
<1> DEFINE n == Len(per_view)
           k == InstancesPerView(meta)
<1>t. VisionTypeOK
  BY DEF VInv
<1>1. /\ n \in Nat /\ n < Len(upload) /\ meta' = meta /\ upload' = upload
      /\ meta \in Manifests /\ upload[n + 1] \in Views
      /\ stage' = IF n + 1 = Len(upload) THEN "forward" ELSE "preprocess"
  BY <1>t DEF VInv, Preprocess, VisionTypeOK
<1>2. PICK cut \in preprocess_view(meta, upload[n + 1]) :
        /\ per_view' = Append(per_view, cut)
        /\ instances' = instances \o OfView(n + 1, cut)
  BY DEF Preprocess
<1>3. cut \in Cuts /\ Inside(meta, cut)
  BY <1>1, <1>2, PreprocessInside
<1>4. k \in Nat /\ Len(cut.boxes) = k /\ cut.boxes \in Seq(Boxes)
  BY <1>1, <1>3, ManifestsAssumption DEF InstancesPerView, Inside, Cuts
<1>5. /\ OfView(n + 1, cut) \in Seq(Nat \X Boxes)
      /\ Len(OfView(n + 1, cut)) = k
      /\ \A j \in 1..k : OfView(n + 1, cut)[j] = <<n + 1, cut.boxes[j]>>
  BY <1>1, <1>4 DEF OfView
<1>6. VisionTypeOK'
  BY <1>t, <1>1, <1>2, <1>3, <1>5 DEF VisionTypeOK
<1>7. InstancesInside'
  BY <1>t, <1>1, <1>2, <1>3 DEF VInv, InstancesInside, VisionTypeOK
<1>8. Packed'
  <2> HIDE DEF k
  <2>1. Len(instances) = n * k /\ n * k \in Nat /\ instances \in Seq(Nat \X Boxes)
    BY <1>t, <1>1, <1>4 DEF VInv, Packed, VisionTypeOK, k
  <2>2. Len(instances') = n * k + k /\ Len(per_view') = n + 1
    <3>1. Len(instances') = Len(instances) + Len(OfView(n + 1, cut))
      BY <2>1, <1>2, <1>5, Behind
    <3>2. Len(per_view') = n + 1
      BY <1>t, <1>2, <1>3 DEF VisionTypeOK
    <3> QED
      BY <2>1, <1>5, <3>1, <3>2
  <2>3. (n + 1) * k = n * k + k
    BY <1>1, <1>4
  <2>4. ASSUME NEW i \in 1..n, NEW j \in 1..k
        PROVE  instances'[(i - 1) * k + j] = <<i, per_view'[i].boxes[j]>>
    <3>1. instances[(i - 1) * k + j] = <<i, per_view[i].boxes[j]>>
      BY <2>4, <1>1 DEF VInv, Packed, k
    <3>2. (i - 1) * k + j \in 1..(n * k)
      <4>1. (i - 1) * k \in Nat /\ (n - i) * k \in Nat
        BY <1>1, <1>4
      <4>2. n * k = (i - 1) * k + k + (n - i) * k
        BY <1>1, <1>4
      <4> DEFINE a == (i - 1) * k
                 b == (n - i) * k
      <4> HIDE DEF a, b
      <4>3. a \in Nat /\ b \in Nat /\ n * k = a + k + b
        BY <4>1, <4>2 DEF a, b
      <4>4. a + j \in 1..(n * k)
        BY <4>3, <2>1, <1>4
      <4> QED
        BY <4>4 DEF a
    <3>3. per_view'[i] = per_view[i]
      BY <1>t, <1>2, <1>3 DEF VisionTypeOK
    <3>4. instances'[(i - 1) * k + j] = instances[(i - 1) * k + j]
      <4> DEFINE t == OfView(n + 1, cut)
      <4>1. t \in Seq(Nat \X Boxes)
        BY <1>5
      <4>2. instances' = instances \o t
        BY <1>2
      <4> HIDE DEF t
      <4>3. (instances \o t)[(i - 1) * k + j] = instances[(i - 1) * k + j]
        BY <2>1, <3>2, <4>1, Behind
      <4> QED
        BY <4>2, <4>3
    <3> QED
      BY <3>1, <3>3, <3>4
  <2>5. ASSUME NEW j \in 1..k
        PROVE  instances'[n * k + j] = <<n + 1, per_view'[n + 1].boxes[j]>>
    <3>1. per_view'[n + 1] = cut
      BY <1>t, <1>1, <1>2, <1>3 DEF VisionTypeOK
    <3>2. instances'[n * k + j] = OfView(n + 1, cut)[j]
      <4> DEFINE t == OfView(n + 1, cut)
      <4>1. t \in Seq(Nat \X Boxes) /\ j \in 1..Len(t)
        BY <1>5
      <4>2. instances' = instances \o t
        BY <1>2
      <4> HIDE DEF t
      <4>3. (instances \o t)[Len(instances) + j] = t[j]
        BY <2>1, <4>1, Behind
      <4> QED
        BY <2>1, <4>2, <4>3 DEF t
    <3> QED
      BY <1>5, <3>1, <3>2
  <2>6. ASSUME NEW i \in 1..Len(per_view'), NEW j \in 1..k
        PROVE  instances'[(i - 1) * k + j] = <<i, per_view'[i].boxes[j]>>
    <3>1. CASE i \in 1..n
      BY <3>1, <2>4
    <3>2. CASE i = n + 1
      BY <3>2, <2>5, <1>1
    <3> QED
      BY <3>1, <3>2, <2>2, <1>1
  <2>7. InstancesPerView(meta)' = k
    BY <1>1 DEF k, InstancesPerView
  <2> QED
    BY <2>2, <2>3, <2>6, <2>7 DEF Packed
<1>9. Len(per_view') = n + 1 /\ AttentionIsOwn'
  BY <1>t, <1>1, <1>2, <1>3 DEF VisionTypeOK, AttentionIsOwn
<1> QED
  BY <1>1, <1>6, <1>7, <1>8, <1>9 DEF VInv

\* What Collapse cuts out of the attention is what was packed for the view.
LEMMA CollapseOwn ==
  ASSUME VInv, stage = "forward", instances # <<>>
  PROVE  Collapse(instances) = [i \in 1..Len(upload) |-> OfView(i, per_view[i])]
<1> DEFINE n == Len(per_view)
           k == InstancesPerView(meta)
<1>1. /\ n \in Nat /\ n = Len(upload) /\ n > 0 /\ instances \in Seq(Nat \X Boxes)
      /\ per_view \in Seq(Cuts) /\ meta \in Manifests
  BY DEF VInv, VisionTypeOK
<1>2. k \in Nat /\ \A i \in 1..n : Len(per_view[i].boxes) = k
  BY <1>1, ManifestsAssumption DEF VInv, InstancesInside, Inside, InstancesPerView
<1>3. Len(instances) = n * k
  BY DEF VInv, Packed
<1>4. \A i \in 1..n, j \in 1..k : instances[(i - 1) * k + j] = <<i, per_view[i].boxes[j]>>
  BY DEF VInv, Packed
<1> HIDE DEF k
<1>5. Len(per_view[1].boxes) = k
  BY <1>1, <1>2
<1>6. ASSUME NEW i \in 1..n
      PROVE  SubSeq(instances, (i - 1) * k + 1, Least(i * k, Len(instances)))
               = OfView(i, per_view[i])
  <2>1. (i - 1) * k \in Nat /\ i * k = (i - 1) * k + k /\ i * k <= n * k /\ n * k \in Nat
    <3>1. (n - i) * k >= 0 /\ (i - 1) * k >= 0
      BY <1>1, <1>2
    <3> QED
      BY <3>1, <1>1, <1>2
  <2>2. Least(i * k, Len(instances)) = (i - 1) * k + k
    BY <1>2, <1>3, <2>1 DEF Least
  <2> DEFINE a == (i - 1) * k
  <2>3. a \in Nat /\ a + k <= Len(instances)
    BY <2>1, <1>3
  <2>4. \A j \in 1..k : instances[a + j] = <<i, per_view[i].boxes[j]>>
    BY <1>4
  <2>5. SubSeq(instances, a + 1, Least(i * k, Len(instances))) = SubSeq(instances, a + 1, a + k)
    BY <2>2
  <2> HIDE DEF a
  <2>6. SubSeq(instances, a + 1, a + k) = [j \in 1..k |-> instances[a + j]]
    BY <1>1, <1>2, <2>3, Piece
  <2>7. [j \in 1..k |-> instances[a + j]] = OfView(i, per_view[i])
    BY <1>2, <2>4 DEF OfView
  <2> QED
    BY <2>5, <2>6, <2>7 DEF a
<1>7. Collapse(instances) =
        [i \in 1..n |-> SubSeq(instances, (i - 1) * k + 1, Least(i * k, Len(instances)))]
  BY <1>5 DEF Collapse
<1> QED
  BY <1>1, <1>6, <1>7

\* The invariant is inductive.
LEMMA NextVInv == VInv /\ [Next]_vars => VInv'
<1> SUFFICES ASSUME VInv, [Next]_vars PROVE VInv'
  OBVIOUS
<1>1. CASE UNCHANGED vars
  BY <1>1 DEF vars, VInv, VisionTypeOK, InstancesInside, Packed, AttentionIsOwn
<1>2. CASE Preprocess
  BY <1>2, PreprocessVInv
<1>3. CASE TooMany \/ NothingToStack \/ ClassifyRaises
  BY <1>3 DEF TooMany, NothingToStack, ClassifyRaises, VInv, VisionTypeOK, InstancesInside,
     Packed, AttentionIsOwn
<1>4. ASSUME NEW report, Return(report),
             \/ report.view_attention = Nothing
             \/ report.view_attention = Collapse(instances)
      PROVE  VInv'
  <2>1. stage = "forward" /\ instances # <<>>
    BY <1>4 DEF Return
  <2>2. /\ stage' = "done" /\ result' = report
        /\ UNCHANGED <<meta, upload, per_view, instances>>
    BY <1>4 DEF Return
  <2>3. AttentionIsOwn'
    BY <1>4, <2>1, <2>2, CollapseOwn DEF AttentionIsOwn, VInv, VisionTypeOK
  <2> QED
    BY <2>1, <2>2, <2>3 DEF VInv, VisionTypeOK, InstancesInside, Packed
<1>5. CASE Classify
  <2>1. PICK best : Return(Classification(best))
    BY <1>5 DEF Classify
  <2> QED
    BY <2>1, <1>4 DEF Classification, NoReport
<1>6. CASE Detect
  <2>1. PICK labels : Return(Detection(labels))
    BY <1>6 DEF Detect
  <2> QED
    BY <2>1, <1>4 DEF Detection, NoReport
<1>7. CASE Segment
  <2>1. PICK winner : Return(Segmentation(winner))
    BY <1>7 DEF Segment
  <2> QED
    BY <2>1, <1>4 DEF Segmentation, NoReport
<1> QED
  BY <1>1, <1>2, <1>3, <1>5, <1>6, <1>7 DEF Next

\* VInv holds in every reachable state.
LEMMA VisionInvariance == Spec => []VInv
  BY InitVInv, NextVInv, PTL DEF Spec

\* Whatever the photos and the manifest, every view gives the promised number
\* of instances, and each is a full-size box inside the resized view.
THEOREM InstancesStayInside == Spec => []InstancesInside
<1>1. VInv => InstancesInside
  BY DEF VInv
<1> QED
  BY <1>1, VisionInvariance, PTL

\* Whatever the photos and the manifest, the attention reported for a photo is
\* that of its own instances, each once.
THEOREM AttentionStaysOwn == Spec => []AttentionIsOwn
<1>1. VInv => AttentionIsOwn
  BY DEF VInv
<1> QED
  BY <1>1, VisionInvariance, PTL
=============================================================================
