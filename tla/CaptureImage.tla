---------------------------- MODULE CaptureImage ----------------------------
(***************************************************************************)
(* How a Wayland capture of an area is put together from its outputs       *)
(* (src/src/wayland/wl_capture.c): which part of which output is asked     *)
(* for, where its pixels go in the picture, and which pixel of a turned or *)
(* mirrored buffer is read for each of them.                               *)
(*                                                                         *)
(* An output is [x, y, w, h, pw, ph, transform]: its logical bounds, its   *)
(* size in pixels as the user sees it, and the wl_output transform of its  *)
(* buffer, 0 .. 7.  A pixel's value is its origin: the output's number and *)
(* the coordinates in that output as the user sees it.                     *)
(***************************************************************************)
EXTENDS Integers, Sequences

\* A pixel that nothing is copied to.
Blank == <<>>

Lengths == Nat \ {0}
Areas == [x: Int, y: Int, w: Lengths, h: Lengths]
Outputs == [x: Int, y: Int, w: Lengths, h: Lengths, pw: Lengths, ph: Lengths,
            transform: 0 .. 7]

\* What a compositor sends for a part of an output: a buffer of its own
\* choice of size, the picture in it upright or turned, and from its last row
\* to its first if the Y_INVERT flag says so.
Frames == [w: Nat, h: Nat, transform: 0 .. 7, inverted: BOOLEAN]

MinOf(a, b) == IF a < b THEN a ELSE b
MaxOf(a, b) == IF a > b THEN a ELSE b

-----------------------------------------------------------------------------
(* The code's arithmetic. *)

\* rounded_ratio: to the nearest, a tie to the even number.
RoundedRatio(n, d) ==
    LET q == n \div d
        r == n % d
    IN IF r > d \div 2 \/ (r * 2 = d /\ q % 2 = 1) THEN q + 1 ELSE q

\* A mutant of MappedEdge that rounds an edge down to a whole pixel.
MappedEdgeFloor(offset, screen, pixels) == (offset * pixels) \div screen

\* mapped_edge: the first of `pixels' pixels whose centre is at or past an
\* offset of a length of `screen'.
MappedEdge(offset, screen, pixels) ==
    LET n == 2 * offset * pixels - screen
    IN IF offset = 0 \/ n <= 0 THEN 0
       ELSE (n + 2 * screen - 1) \div (2 * screen)

\* inverse_transform: where a pixel the user sees at (x, y) is in a buffer
\* of w by h pixels.
InverseTransform(x, y, w, h, transform) ==
    CASE transform = 1 -> <<y, h - 1 - x>>
      [] transform = 2 -> <<w - 1 - x, h - 1 - y>>
      [] transform = 3 -> <<w - 1 - y, x>>
      [] transform = 4 -> <<w - 1 - x, y>>
      [] transform = 5 -> <<y, x>>
      [] transform = 6 -> <<x, h - 1 - y>>
      [] transform = 7 -> <<w - 1 - y, h - 1 - x>>
      [] OTHER -> <<x, y>>

\* ksd_wayland_capture_area: the part of an output inside the area.
Intersection(o, area) ==
    LET left == MaxOf(area.x, o.x)
        top == MaxOf(area.y, o.y)
    IN [x |-> left, y |-> top,
        w |-> MinOf(area.x + area.w, o.x + o.w) - left,
        h |-> MinOf(area.y + area.h, o.y + o.h) - top]

Intersects(o, area) ==
    Intersection(o, area).w > 0 /\ Intersection(o, area).h > 0

Turned(transform) == transform % 2 = 1

\* The pixels of an output that an offset and a length of it stand for.
Crop(offset, length, logical, pixels) ==
    LET first == MappedEdge(offset, logical, pixels)
    IN [first |-> first,
        count |-> MappedEdge(offset + length, logical, pixels) - first]

\* The frame is the part asked for, pixel by pixel and upright.
UprightCrop(o, part, frame) ==
    /\ frame.transform = 0
    /\ frame.w = Crop(part.x - o.x, part.w, o.w, o.pw).count
    /\ frame.h = Crop(part.y - o.y, part.h, o.h, o.ph).count

\* capture_output: the buffer is taken at the size the compositor announced
\* and for upright, whatever it is.  sent: how the picture really is turned;
\* shown: the pixel of the output that the picture's first pixel is.
ScreencopySegment(o, part, frame) ==
    [x |-> part.x, y |-> part.y, w |-> part.w, h |-> part.h,
     pixelW |-> frame.w, pixelH |-> frame.h,
     bufferW |-> frame.w, bufferH |-> frame.h,
     sourceX |-> 0, sourceY |-> 0, transform |-> 0, inverted |-> frame.inverted,
     sent |-> frame.transform,
     shown |-> <<Crop(part.x - o.x, part.w, o.w, o.pw).first,
                 Crop(part.y - o.y, part.h, o.h, o.ph).first>>]

\* capture_source_image_copy: the compositor sends the whole output the way
\* its hardware scans it, and the code crops it.
ImageCopySegment(o, part) ==
    LET cx == Crop(part.x - o.x, part.w, o.w, o.pw)
        cy == Crop(part.y - o.y, part.h, o.h, o.ph)
    IN [x |-> part.x, y |-> part.y, w |-> part.w, h |-> part.h,
        pixelW |-> cx.count, pixelH |-> cy.count,
        bufferW |-> IF Turned(o.transform) THEN o.ph ELSE o.pw,
        bufferH |-> IF Turned(o.transform) THEN o.pw ELSE o.ph,
        sourceX |-> cx.first, sourceY |-> cy.first,
        transform |-> o.transform, inverted |-> FALSE,
        sent |-> o.transform, shown |-> <<0, 0>>]

\* compose_capture: the picture's size along one side, from the sharpest of
\* the segments' sides there; never less than one pixel for a unit.
Scaled(length, sides) ==
    LET I == {i \in DOMAIN sides : sides[i].pixels > sides[i].units}
        best == CHOOSE i \in I : \A j \in I :
                   sides[j].pixels * sides[i].units
                     <= sides[i].pixels * sides[j].units
    IN IF I = {} THEN length
       ELSE RoundedRatio(length * sides[best].pixels, sides[best].units)

PictureWidth(area, segments) ==
    Scaled(area.w, [i \in DOMAIN segments |->
                       [pixels |-> segments[i].pixelW, units |-> segments[i].w]])

PictureHeight(area, segments) ==
    Scaled(area.h, [i \in DOMAIN segments |->
                       [pixels |-> segments[i].pixelH, units |-> segments[i].h]])

\* compose_segment along one side: the pixels of the picture from `first' up
\* to `end' that a segment fills.
Filled(offset, length, areaLength, pictureLength) ==
    [first |-> MinOf(MappedEdge(offset, areaLength, pictureLength),
                     pictureLength),
     end |-> MinOf(MappedEdge(offset + length, areaLength, pictureLength),
                   pictureLength)]

\* compose_segment: the buffer's pixel read for column c of n.
Sample(source, c, pixels, n) == source + ((2 * c + 1) * pixels) \div (2 * n)

\* The buffer's pixel that compose_segment copies to (c, r) of the picture.
ReadFrom(s, c, r, fx, fy) ==
    LET at == InverseTransform(
                  Sample(s.sourceX, c - fx.first, s.pixelW, fx.end - fx.first),
                  Sample(s.sourceY, r - fy.first, s.pixelH, fy.end - fy.first),
                  s.bufferW, s.bufferH, s.transform)
    IN IF s.inverted THEN <<at[1], s.bufferH - 1 - at[2]>> ELSE at

-----------------------------------------------------------------------------
(* What the compositor puts in a buffer, by the meaning of a transform: the *)
(* picture is mirrored if the transform says so and turned by so many       *)
(* quarters.                                                                *)

\* The k-th quarter turn of a point (x, y) of a w by h picture.
QuarterTurned(x, y, w, h, k) ==
    CASE k = 0 -> <<x, y>>
      [] k = 1 -> <<y, w - 1 - x>>
      [] k = 2 -> <<w - 1 - x, h - 1 - y>>
      [] k = 3 -> <<h - 1 - y, x>>

\* Where the compositor puts the pixel (x, y) of a w by h picture.
Placed(x, y, w, h, transform) ==
    QuarterTurned(IF transform > 3 THEN w - 1 - x ELSE x, y, w, h, transform % 4)

\* The pixel the user sees that the compositor put at `at' of a buffer.
Contents(s, at) ==
    LET w == IF Turned(s.sent) THEN s.bufferH ELSE s.bufferW
        h == IF Turned(s.sent) THEN s.bufferW ELSE s.bufferH
        row == IF s.inverted THEN s.bufferH - 1 - at[2] ELSE at[2]
        p == CHOOSE p \in (0 .. w - 1) \X (0 .. h - 1) :
                Placed(p[1], p[2], w, h, s.sent) = <<at[1], row>>
    IN <<p[1] + s.shown[1], p[2] + s.shown[2]>>

InBuffer(s, at) ==
    at[1] \in 0 .. s.bufferW - 1 /\ at[2] \in 0 .. s.bufferH - 1

\* The pixels that compose_segment fills from a segment: from `left' to
\* `right', and from `top' to `bottom'.
Across(area, s, width) == Filled(s.x - area.x, s.w, area.w, width)
Down(area, s, height) == Filled(s.y - area.y, s.h, area.h, height)

Fills(area, s, width, height, c, r) ==
    LET fx == Across(area, s, width)
        fy == Down(area, s, height)
    IN fx.first <= c /\ c < fx.end /\ fy.first <= r /\ r < fy.end

\* What compose_segment copies from the buffer of output o to (c, r).
Copied(area, s, o, width, height, c, r) ==
    LET at == ReadFrom(s, c, r, Across(area, s, width), Down(area, s, height))
        seen == Contents(s, at)
    IN IF InBuffer(s, at) THEN <<o, seen[1], seen[2]>> ELSE <<o, -1, -1>>

\* compose_capture: segments are painted in order, one over another.
\* which[i]: the output of segment i.
PixelAt(area, segments, which, width, height, c, r) ==
    LET on == {i \in DOMAIN segments :
                 Fills(area, segments[i], width, height, c, r)}
        top == CHOOSE i \in on : \A j \in on : j <= i
    IN IF on = {} THEN Blank
       ELSE Copied(area, segments[top], which[top], width, height, c, r)

Compose(area, segments, which) ==
    LET width == PictureWidth(area, segments)
        height == PictureHeight(area, segments)
    IN [w |-> width, h |-> height,
        pixel |-> [p \in (0 .. width - 1) \X (0 .. height - 1) |->
                      PixelAt(area, segments, which, width, height, p[1], p[2])]]

-----------------------------------------------------------------------------
(* The reference: what the user sees at the centre of each pixel. *)

\* Twice `pictureLength' times the offset of the centre of pixel c.
Centre(c, areaLength) == (2 * c + 1) * areaLength

\* The centre of pixel c lies on the outputs from `start' of length `length'.
CentreOn(c, area0, areaLength, pictureLength, start, length) ==
    LET centre == Centre(c, areaLength) + 2 * pictureLength * area0
    IN /\ 2 * pictureLength * start <= centre
       /\ centre < 2 * pictureLength * (start + length)

\* Pixel q of an output is within one of its pixels of that centre.
CentreNear(c, area0, areaLength, pictureLength, start, length, pixels, q) ==
    LET \* in units of a pixel of the output over 2 * pictureLength * length
        centre == (Centre(c, areaLength) + 2 * pictureLength * (area0 - start))
                     * pixels
        middle == (2 * q + 1) * pictureLength * length
        unit == 2 * pictureLength * length
    IN middle - unit < centre /\ centre < middle + unit

OnOutput(o, area, image, p) ==
    /\ CentreOn(p[1], area.x, area.w, image.w, o.x, o.w)
    /\ CentreOn(p[2], area.y, area.h, image.h, o.y, o.h)

\* Every pixel of the picture shows what is on the screen at its centre: a
\* pixel, at most one away, of an output that is there, and nothing where no
\* output is.
Shows(image, area, outputs) ==
    \A p \in DOMAIN image.pixel :
        LET v == image.pixel[p] IN
        IF v = Blank
        THEN \A i \in DOMAIN outputs : ~OnOutput(outputs[i], area, image, p)
        ELSE LET o == outputs[v[1]] IN
             /\ OnOutput(o, area, image, p)
             /\ CentreNear(p[1], area.x, area.w, image.w, o.x, o.w, o.pw, v[2])
             /\ CentreNear(p[2], area.y, area.h, image.h, o.y, o.h, o.ph, v[3])
=============================================================================
