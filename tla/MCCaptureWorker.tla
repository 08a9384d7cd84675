--------------------------- MODULE MCCaptureWorker ---------------------------
(* Two outputs side by side, the second lower and with another scale, and  *)
(* an area across both, inside one, or partly outside both.                *)
EXTENDS CaptureWorker

Output(x, y, w, h, pw, ph, t) ==
    [x |-> x, y |-> y, w |-> w, h |-> h, pw |-> pw, ph |-> ph, transform |-> t]

Area(x, y, w, h) == [x |-> x, y |-> y, w |-> w, h |-> h]

Frame(w, h, t, i) == [w |-> w, h |-> h, transform |-> t, inverted |-> i]

\* The whole output comes, in any of the eight orientations, with scales
\* 1 and 5/3 beside 1 and 3/2.
ImageCopies ==
    {[area |-> a, screencopy |-> FALSE,
      frames |-> <<Frame(1, 1, 0, FALSE), Frame(1, 1, 0, FALSE)>>,
      outputs |-> <<Output(0, 0, 3, 2, p, 3, t), Output(3, 1, 2, 3, q, 3, 0)>>] :
        a \in {Area(1, 0, 4, 3), Area(-1, 0, 3, 2), Area(2, 1, 1, 1),
               Area(6, 6, 1, 1)},
        p \in {3, 5}, q \in 2 .. 3, t \in 0 .. 7}

\* The part asked for comes.  The outputs have scales 5/3 by 3/2, and 1 or
\* 3/2 by 1 upside down.  The first area needs 3 by 3 pixels of the one and 2
\* or 3 by 2 of the other, the second area 2 by 2 of the first alone.  The
\* frames are these, from the first or from the last row; or one is turned,
\* of another size, or empty.
Screencopies ==
    {[area |-> a, screencopy |-> TRUE, frames |-> <<f, g>>,
      outputs |-> <<Output(0, 0, 3, 2, 5, 3, 0), Output(3, 1, 2, 3, q, 3, 2)>>] :
        a \in {Area(1, 0, 4, 3), Area(2, 1, 1, 1)}, q \in 2 .. 3,
        f \in {Frame(3, 3, 0, FALSE), Frame(3, 3, 0, TRUE), Frame(3, 3, 2, FALSE),
               Frame(2, 2, 0, TRUE), Frame(0, 1, 0, FALSE)},
        g \in {Frame(2, 2, 0, FALSE), Frame(3, 2, 0, TRUE)}}

MCScenes == ImageCopies \cup Screencopies
=============================================================================
