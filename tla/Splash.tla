------------------------------ MODULE Splash ------------------------------
(***************************************************************************)
(* show_boot_splash of app/init/init.cpp: the logo, scaled to the screen,  *)
(* below it a ring of eleven segments that turns for eighty frames, or a   *)
(* spinner in text mode.  PID 1 does nothing else meanwhile: the boot goes *)
(* on when the last line is drawn.                                         *)
(*                                                                         *)
(* Each frame first erases the square of the ring.  What is drawn outside  *)
(* of it would stay on the screen for ever.                                *)
(***************************************************************************)
EXTENDS Integers, Sequences

CONSTANTS
  Modes,     \* resolutions of the framebuffer
  Logos,     \* sizes of /etc/dewos-logo.ppm
  MaxInt     \* INT_MAX

ASSUME IntAssumption == MaxInt \in Nat
ASSUME ModesAssumption == Modes \subseteq [x : 1 .. MaxInt, y : 1 .. MaxInt]
ASSUME LogosAssumption == Logos \subseteq [w : 1 .. MaxInt, h : 1 .. MaxInt]

Frames == 80
Parts == 11
Spins == 32

VARIABLES
  pc,         \* what is drawn
  res,        \* vinfo.xres and yres
  logo,       \* width and height of the image
  row,        \* the row of the logo being drawn
  frame,      \* frames begun
  part,       \* segment of the ring
  at,         \* x0 and y0 of draw_loader_segment, which move
  to,         \* x1 and y1
  err,        \* the error term
  from        \* history: where this segment began

vars == <<pc, res, logo, row, frame, part, at, to, err, from>>

Point == [x : Int, y : Int]

-----------------------------------------------------------------------------
(* Geometry.                                                               *)

\* Division as in C, towards zero.
Quotient(a, b) == IF a >= 0 THEN a \div b ELSE -((-a) \div b)

\* What a multiplication leaves in an int.
CInt(n) == ((n + MaxInt + 1) % (2 * (MaxInt + 1))) - (MaxInt + 1)

\* The logo is a third of the screen high, or half of it wide.
Third == res.y \div 3
Half == res.x \div 2
LogoSize ==
  LET w == Quotient(CInt(logo.w * Third), logo.h)
  IN  IF w > Half THEN [w |-> Half, h |-> Quotient(CInt(logo.h * Half), logo.w)]
      ELSE [w |-> w, h |-> Third]

LogoTop_Centred == res.y \div 2 - LogoSize.h \div 2
LogoTop == res.y \div 2 - LogoSize.h \div 2 - 70
LogoBottom == LogoTop + LogoSize.h - 1

\* The pixel of the image for the k-th of those shown.  Variant: rounded up.
Source_Up(k, size, shown) == Quotient(CInt(k * size) + shown - 1, shown)
Source(k, size, shown) == Quotient(CInt(k * size), shown)

loader_size == LET s == res.y \div 12 IN IF s < 48 THEN 48 ELSE IF s > 96 THEN 96 ELSE s
loader_x == Quotient(res.x - loader_size, 2)
loader_y == res.y \div 2 + res.y \div 5
loader_cx == loader_x + loader_size \div 2
loader_cy == loader_y + loader_size \div 2
loader_radius == loader_size \div 2 - 6
loader_thick == LET t == loader_size \div 16 IN IF t < 4 THEN 4 ELSE t

Quarter == << <<0, -100>>, <<20, -98>>, <<38, -92>>, <<56, -83>>,
              <<71, -71>>, <<83, -56>>, <<92, -38>>, <<98, -20>> >>

\* The other three quarters are this one, turned.
circle_points(k) ==
  LET p == Quarter[(k % 8) + 1]
  IN  CASE k \div 8 = 0 -> p
        [] k \div 8 = 1 -> <<-p[2], p[1]>>
        [] k \div 8 = 2 -> <<-p[1], -p[2]>>
        [] OTHER -> <<p[2], -p[1]>>

OnRing(k) ==
  [x |-> loader_cx + Quotient(circle_points(k)[1] * loader_radius, 100),
   y |-> loader_cy + Quotient(circle_points(k)[2] * loader_radius, 100)]

\* The square a frame erases, without and with a margin.
Erased_Tight == [left |-> loader_x, right |-> loader_x + loader_size - 1,
                 top |-> loader_y, bottom |-> loader_y + loader_size - 1]
Erased == [left |-> loader_x - 10, right |-> loader_x + loader_size + 9,
           top |-> loader_y - 10, bottom |-> loader_y + loader_size + 9]

Distance(a, b) == IF b > a THEN b - a ELSE a - b
Towards(a, b) == IF a < b THEN 1 ELSE -1
dx == Distance(from.x, to.x)
dy == Distance(from.y, to.y)

-----------------------------------------------------------------------------
TypeOK ==
  /\ pc \in {"open", "logo", "frame", "segment", "spinner", "done"}
  /\ res \in Modes
  /\ logo \in Logos
  /\ row \in Nat
  /\ frame \in 0 .. Frames
  /\ part \in 0 .. Parts - 1
  /\ at \in Point
  /\ to \in Point
  /\ from \in Point
  /\ err \in Int

Init ==
  /\ pc = "open"
  /\ res \in Modes
  /\ logo \in Logos
  /\ row = 0
  /\ frame = 0
  /\ part = 0
  /\ at = [x |-> 0, y |-> 0]
  /\ to = at
  /\ from = at
  /\ err = 0

\* No framebuffer, no mapping, or a format put_pixel does not know.
OpenFails ==
  /\ pc = "open"
  /\ pc' = "spinner"
  /\ UNCHANGED <<res, logo, row, frame, part, at, to, from, err>>

\* Without a readable logo there is only the ring.
Open ==
  /\ pc = "open"
  /\ pc' \in {"logo", "frame"}
  /\ UNCHANGED <<res, logo, row, frame, part, at, to, from, err>>

DrawRow ==
  /\ pc = "logo"
  /\ IF row < LogoSize.h /\ LogoSize.w > 0
     THEN row' = row + 1 /\ UNCHANGED pc
     ELSE pc' = "frame" /\ UNCHANGED row
  /\ UNCHANGED <<res, logo, frame, part, at, to, from, err>>

\* Segment k of the frame that begins with point "start" of the ring.
Begin(start, k) ==
  LET index == (start + k) % 32
      next == (index + 1) % 32
  IN  /\ from' = OnRing(index)
      /\ at' = from'
      /\ to' = OnRing(next)
      /\ err' = Distance(from'.x, to'.x) - Distance(from'.y, to'.y)

\* One counter for the frames and for the ring.
NextFrame_Wraps ==
  /\ pc = "frame"
  /\ IF frame < Frames
     THEN /\ pc' = "segment"
          /\ frame' = (frame + 1) % 32
          /\ part' = 0
          /\ Begin(frame, 0)
     ELSE pc' = "done" /\ UNCHANGED <<frame, part, at, to, from, err>>
  /\ UNCHANGED <<res, logo, row>>

\* Erase and begin, or give the framebuffer back.
NextFrame ==
  /\ pc = "frame"
  /\ IF frame < Frames
     THEN /\ pc' = "segment"
          /\ frame' = frame + 1
          /\ part' = 0
          /\ Begin(frame % 32, 0)
     ELSE pc' = "done" /\ UNCHANGED <<frame, part, at, to, from, err>>
  /\ UNCHANGED <<res, logo, row>>

\* One step of draw_loader_segment: in x, in y, or both.
Move ==
  LET stepX == err * 2 > -dy
      stepY == err * 2 < dx
  IN  /\ at' = [x |-> IF stepX THEN at.x + Towards(from.x, to.x) ELSE at.x,
                y |-> IF stepY THEN at.y + Towards(from.y, to.y) ELSE at.y]
      /\ err' = err - (IF stepX THEN dy ELSE 0) + (IF stepY THEN dx ELSE 0)

Draw ==
  /\ pc = "segment"
  /\ at # to
  /\ Move
  /\ UNCHANGED <<pc, res, logo, row, frame, part, to, from>>

NextPart ==
  /\ pc = "segment"
  /\ at = to
  /\ IF part < Parts - 1
     THEN part' = part + 1 /\ Begin((frame - 1) % 32, part + 1) /\ UNCHANGED pc
     ELSE pc' = "frame" /\ UNCHANGED <<part, at, to, from, err>>
  /\ UNCHANGED <<res, logo, row, frame>>

\* The spinner counts in the same variable.
Spin ==
  /\ pc = "spinner"
  /\ IF frame < Spins THEN frame' = frame + 1 /\ UNCHANGED pc ELSE pc' = "done" /\ UNCHANGED frame
  /\ UNCHANGED <<res, logo, row, part, at, to, from, err>>

Next == OpenFails \/ Open \/ DrawRow \/ NextFrame \/ Draw \/ NextPart \/ Spin

Spec == Init /\ [][Next]_vars

\* PID 1 is the only process there is.
FairSpec == Spec /\ WF_vars(Next)

-----------------------------------------------------------------------------
(* Properties.                                                             *)

\* No pixel is ever left behind: what a frame draws, with the width of the line,
\* is in the square the next one erases, whatever the resolution.
InsideErased ==
  pc = "segment" =>
    /\ at.x - loader_thick >= Erased.left /\ at.x + loader_thick <= Erased.right
    /\ at.y - loader_thick >= Erased.top /\ at.y + loader_thick <= Erased.bottom

\* A segment is drawn where the segment is: no pixel is more than half a step in
\* each direction away from the line.
OnSegment ==
  LET gone == Distance(from.x, at.x) * dy - Distance(from.y, at.y) * dx
  IN  pc = "segment" => 2 * Distance(0, gone) <= dx + dy

\* The ring turns without ever erasing a row of the logo.
LogoKept == LogoBottom < Erased.top

\* The products of the scaling are ints.
Fits == /\ logo.w * Third <= MaxInt /\ logo.h * Third <= MaxInt
        /\ logo.w * Half <= MaxInt

\* Every pixel read for the logo is in the image, as long as the image times the
\* screen does not overflow.  (Where it does, load_ppm has no limit to prevent it:
\* what is read then lies before the image.)
InImage ==
  Fits /\ pc = "logo" /\ row < LogoSize.h =>
    \A column \in 0 .. LogoSize.w - 1 :
      LET pos == (Source(row, logo.h, LogoSize.h) * logo.w
                    + Source(column, logo.w, LogoSize.w)) * 3
      IN  0 <= pos /\ pos + 2 < logo.w * logo.h * 3

\* The boot goes on: every segment reaches its end and the animation ends.
Boots == <>(pc = "done")
=============================================================================
