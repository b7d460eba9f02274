------------------------------ MODULE MCVision ------------------------------
(* A small instance of Vision: photos smaller and larger than the model's   *)
(* input, square, oblong and very long; grids of 0 to 7 patches; the sizes  *)
(* 3 and 20, at which 1.15 * size is no integer and one; a channel beyond   *)
(* the classes and one beyond uint8.                                        *)
EXTENDS Vision, TLC

MCViews == {<<2, 2>>, <<3, 7>>, <<9, 2>>, <<20, 25>>, <<41, 22>>}

MCManifest(t, l, n, p, s, k) ==
  [task |-> t, layout |-> l, max_views |-> n, patch_mode |-> p, image_size |-> s,
   patches_per_view |-> k, classes |-> 2]

MCManifests ==
  {MCManifest("classification", "board", 3, TRUE, s, k) : s \in {3, 20}, k \in 0..7}
    \cup {MCManifest("classification", "board", 3, FALSE, s, 4) : s \in {3, 20}}
    \cup {MCManifest(t, "image", 1, FALSE, 3, 4) :
            t \in {"classification", "detection", "segmentation"}}
=============================================================================
