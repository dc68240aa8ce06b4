---------------------------- MODULE SplashProofs ----------------------------
(***************************************************************************)
(* Proofs about Splash, for every resolution and every size of the logo.   *)
(* The facts about division and products come first; the segment's error   *)
(* term is then expressed by how far the point has gone in each direction. *)
(***************************************************************************)
EXTENDS Splash, TLAPS

-----------------------------------------------------------------------------
(* Numbers.                                                                *)

\* What \div gives.
LEMMA DivBounds ==
  ASSUME NEW a \in Int, NEW b \in Nat \ {0}
  PROVE  a \div b \in Int /\ b * (a \div b) <= a /\ a < b * (a \div b) + b
OBVIOUS

\* A product grows with its factor.
LEMMA ProductGrows ==
  ASSUME NEW a \in Int, NEW b \in Int, NEW c \in Nat, a <= b
  PROVE  a * c <= b * c
<1>1. (b - a) * c >= 0
  BY SMT
<1>2. (b - a) * c = b * c - a * c
  BY SMT
<1> QED
  BY <1>1, <1>2

\* A percentage of r is at most r.
LEMMA Percentage ==
  ASSUME NEW p \in -100 .. 100, NEW r \in Nat
  PROVE  Quotient(p * r, 100) \in -r .. r
<1>1. p * r \in Int /\ p * r <= 100 * r /\ -100 * r <= p * r
  BY ProductGrows
<1> DEFINE a == p * r
<1>2. a \in Int /\ a <= 100 * r /\ -100 * r <= a
  BY <1>1
<1> HIDE DEF a
<1>3. CASE a >= 0
  <2>1. a \div 100 \in Int /\ 0 <= a \div 100 /\ a \div 100 <= r
    BY <1>2, <1>3
  <2> QED
    BY <2>1, <1>3 DEF Quotient, a
<1>4. CASE a < 0
  <2>1. (-a) \div 100 \in Int /\ 0 <= (-a) \div 100 /\ (-a) \div 100 <= r
    BY <1>2, <1>4
  <2> QED
    BY <2>1, <1>4, <1>2 DEF Quotient, a
<1> QED
  BY <1>2, <1>3, <1>4

\* Products of whole numbers, one more and one less.
LEMMA Products ==
  ASSUME NEW a \in Int, NEW b \in Int
  PROVE  /\ a * b \in Int /\ a * b = b * a
         /\ (a + 1) * b = a * b + b
         /\ (a - 1) * b = a * b - b
<1>1. a * b \in Int /\ a * b = b * a
  BY SMT
<1>2. (a + 1) * b = a * b + b
  BY SMT
<1>3. (a - 1) * b = a * b - b
  BY SMT
<1> QED
  BY <1>1, <1>2, <1>3

\* Natural numbers have natural quotients.
LEMMA DivNat ==
  ASSUME NEW a \in Nat, NEW b \in Nat \ {0}
  PROVE  a \div b \in Nat
<1> DEFINE q == a \div b
<1>1. q \in Int /\ a < b * q + b
  BY DivBounds
<1> HIDE DEF q
<1>2. ~(q <= -1)
  <2> SUFFICES ASSUME q <= -1 PROVE FALSE
    OBVIOUS
  <2>1. q * b <= -1 * b /\ q * b = b * q
    BY <1>1, ProductGrows, Products
  <2> QED
    BY <1>1, <2>1
<1> QED
  BY <1>1, <1>2 DEF q

\* What an int holds of a product: the product when it fits, and never more.
LEMMA IntFits ==
  ASSUME NEW n \in Nat
  PROVE  /\ CInt(n) \in Int /\ CInt(n) <= n /\ CInt(n) <= MaxInt
         /\ n <= MaxInt => CInt(n) = n
<1> DEFINE m == MaxInt + 1
           b == 2 * m
           a == n + m
           q == a \div b
           p == b * q
<1>1. m \in Nat \ {0} /\ b \in Nat \ {0} /\ a \in Nat /\ a >= m /\ MaxInt = m - 1
  BY IntAssumption
<1>2. CInt(n) = (a % b) - m
  BY IntAssumption DEF CInt
<1> HIDE DEF m, a, b
<1>3. q \in Nat /\ b * q <= a /\ a < b * q + b
  BY <1>1, DivBounds, DivNat
<1>4. a % b = a - p
  BY <1>1
<1> HIDE DEF q
<1>5. p \in Int /\ p >= 0 /\ (q = 0 => p = 0) /\ (q >= 1 => p >= b)
  <2>1. p \in Int /\ p = q * b
    BY <1>1, <1>3, Products
  <2>2. 0 * b <= q * b
    BY <1>1, <1>3, ProductGrows
  <2>3. q >= 1 => 1 * b <= q * b
    BY <1>1, <1>3, ProductGrows
  <2> QED
    BY <1>1, <1>3, <2>1, <2>2, <2>3
<1>6. p <= a /\ a < p + b
  BY <1>3
<1> HIDE DEF p
<1>7. n \in Int /\ a = n + m /\ b = 2 * m
  BY DEF a, b
<1>8. CInt(n) \in Int /\ CInt(n) <= n /\ CInt(n) <= MaxInt
  BY <1>1, <1>2, <1>4, <1>5, <1>6, <1>7
<1>9. ASSUME n <= MaxInt PROVE CInt(n) = n
  <2>1. a < b
    BY <1>1, <1>7, <1>9
  <2>2. q = 0
    BY <1>1, <1>3, <1>5, <1>6, <2>1
  <2> QED
    BY <1>1, <1>2, <1>4, <1>5, <1>7, <2>2
<1> QED
  BY <1>8, <1>9

\* A pixel shown comes from within the image, when no product overflows.
LEMMA SourceBound ==
  ASSUME NEW shown \in Nat \ {0}, NEW size \in Nat \ {0}, NEW k \in 0 .. shown - 1,
         shown * size <= MaxInt
  PROVE  Source(k, size, shown) \in 0 .. size - 1
<1> DEFINE a == k * size
           q == a \div shown
           all == shown * size
<1>1. a \in Nat /\ a <= (shown - 1) * size /\ (shown - 1) * size = all - size /\ all \in Int
  <2>1. k * size <= (shown - 1) * size /\ 0 * size <= k * size
    BY ProductGrows
  <2>2. (shown - 1) * size = all - size /\ all \in Int /\ a \in Int
    BY Products
  <2> QED
    BY <2>1, <2>2
<1>0. all <= MaxInt
  OBVIOUS
<1> HIDE DEF a, all
<1>2. a <= MaxInt
  BY <1>0, <1>1, IntAssumption
<1>3. Source(k, size, shown) = q
  BY <1>1, <1>2, IntFits DEF Source, Quotient, a
<1>4. q \in Int /\ shown * q <= a /\ a < shown * q + shown
  BY <1>1, DivBounds
<1> HIDE DEF q
<1>5. q * shown = shown * q /\ size * shown = all /\ q * shown \in Int
  BY <1>4, Products DEF all
<1>6. ~(size <= q)
  <2> SUFFICES ASSUME size <= q PROVE FALSE
    OBVIOUS
  <2>1. size * shown <= q * shown
    BY <1>4, ProductGrows
  <2> QED
    BY <2>1, <1>1, <1>4, <1>5
<1>7. ~(q <= -1)
  <2> SUFFICES ASSUME q <= -1 PROVE FALSE
    OBVIOUS
  <2>1. q * shown <= -1 * shown
    BY <1>4, ProductGrows
  <2> QED
    BY <2>1, <1>1, <1>4, <1>5
<1> QED
  BY <1>3, <1>4, <1>6, <1>7

\* What has to be made narrower to fit becomes no higher.
LEMMA NarrowerIsLower ==
  ASSUME NEW w \in Nat \ {0}, NEW h \in Nat \ {0}, NEW high \in Nat, NEW half \in Nat,
         (w * high) \div h > half
  PROVE  (h * half) \div w <= high
<1> DEFINE wh == w * high
           hh == h * half
           wide == wh \div h
           low == hh \div w
<1>1. wh \in Int /\ hh \in Int /\ wh = high * w /\ hh = half * h
  BY Products
<1> HIDE DEF wh, hh
<1>2. wide \in Int /\ h * wide <= wh
  BY <1>1, DivBounds
<1>3. low \in Int /\ w * low <= hh
  BY <1>1, DivBounds
<1>4. wide > half
  BY DEF wh
<1> HIDE DEF wide, low
<1>5. half * h + h <= wh
  <2>1. half + 1 <= wide /\ half + 1 \in Int
    BY <1>2, <1>4
  <2>2. (half + 1) * h <= wide * h
    BY <1>2, <2>1, ProductGrows
  <2>3. wide * h = h * wide /\ (half + 1) * h = half * h + h
    BY <1>2, Products
  <2> DEFINE p == wide * h
             q == half * h
  <2>4. p <= wh /\ (half + 1) * h = q + h /\ (half + 1) * h <= p /\ p \in Int /\ q \in Int
    BY <1>2, <2>2, <2>3, Products
  <2> HIDE DEF p, q
  <2>5. q + h <= wh
    BY <1>1, <2>4
  <2> QED
    BY <2>5 DEF q
<1>6. ASSUME high + 1 <= low PROVE high * w + w <= hh
  <2>1. (high + 1) * w <= low * w
    BY <1>3, <1>6, ProductGrows
  <2>2. low * w = w * low /\ (high + 1) * w = high * w + w
    BY <1>3, Products
  <2> DEFINE p == low * w
             q == high * w
  <2>3. p <= hh /\ (high + 1) * w = q + w /\ (high + 1) * w <= p /\ p \in Int /\ q \in Int
    BY <1>3, <2>1, <2>2, Products
  <2> HIDE DEF p, q
  <2>4. q + w <= hh
    BY <1>1, <2>3
  <2> QED
    BY <2>4 DEF q
<1>7. low <= high
  BY <1>1, <1>3, <1>5, <1>6
<1> QED
  BY <1>7 DEF low, hh

-----------------------------------------------------------------------------
(* Geometry.                                                               *)

Sizes == res \in [x : Nat \ {0}, y : Nat \ {0}] /\ logo \in [w : Nat \ {0}, h : Nat \ {0}]

\* A quotient above a natural number is one of natural numbers.
LEMMA QuotientAbove ==
  ASSUME NEW c \in Int, NEW h \in Nat \ {0}, NEW half \in Nat, Quotient(c, h) > half
  PROVE  c \in Nat /\ Quotient(c, h) = c \div h
<1>1. CASE c >= 0
  BY <1>1 DEF Quotient
<1>2. CASE c < 0
  <2>1. (-c) \div h \in Nat
    BY <1>2, DivNat
  <2>2. Quotient(c, h) = -((-c) \div h)
    BY <1>2 DEF Quotient
  <2> QED
    BY <2>1, <2>2
<1> QED
  BY <1>1, <1>2

\* Any other is a number.
LEMMA QuotientInt ==
  ASSUME NEW c \in Int, NEW h \in Nat \ {0}
  PROVE  Quotient(c, h) \in Int
<1>1. CASE c >= 0
  BY <1>1, DivBounds DEF Quotient
<1>2. CASE c < 0
  <2>1. (-c) \div h \in Nat
    BY <1>2, DivNat
  <2>2. Quotient(c, h) = -((-c) \div h)
    BY <1>2 DEF Quotient
  <2> QED
    BY <2>1, <2>2
<1> QED
  BY <1>1, <1>2

\* What has to be made narrower becomes no higher, also where products overflow: the
\* second of them cannot, when the first was large enough to count.
LEMMA NarrowerInInts ==
  ASSUME NEW w \in Nat \ {0}, NEW h \in Nat \ {0}, NEW high \in Nat, NEW half \in Nat,
         Quotient(CInt(w * high), h) > half
  PROVE  Quotient(CInt(h * half), w) \in Nat /\ Quotient(CInt(h * half), w) <= high
<1> DEFINE all == w * high
           hh == h * half
           c == CInt(all)
           q == c \div h
           hq == h * q
<1>1. all \in Nat /\ hh \in Nat
  BY SMT
<1>2. Quotient(c, h) > half
  OBVIOUS
<1> HIDE DEF all, hh
<1>3. c \in Int /\ c <= all /\ c <= MaxInt
  BY <1>1, IntFits
<1> HIDE DEF c
<1>4. c \in Nat /\ Quotient(c, h) = q
  BY <1>2, <1>3, QuotientAbove
<1>5. q > half
  BY <1>2, <1>4
<1>6. q \in Int /\ hq <= c
  BY <1>4, DivBounds
<1> HIDE DEF q
<1>7. hh <= hq /\ hq \in Int
  <2>1. half * h <= q * h
    BY <1>5, <1>6, ProductGrows
  <2>2. half * h = h * half /\ q * h = h * q /\ hq \in Int
    BY <1>6, Products
  <2> QED
    BY <2>1, <2>2 DEF hh
<1>8. hh <= MaxInt
  <2> HIDE DEF hq
  <2> QED
    BY <1>1, <1>3, <1>6, <1>7, IntAssumption
<1>9. CInt(hh) = hh
  BY <1>1, <1>8, IntFits
<1>10. hh \div w \in Nat /\ Quotient(hh, w) = hh \div w
  BY <1>1, DivNat DEF Quotient
<1>11. all \div h > half
  <2> DEFINE d == all \div h
             hd == h * d
  <2>1. d \in Int /\ all < hd + h
    BY <1>1, DivBounds
  <2> HIDE DEF d
  <2>2. ASSUME d <= half PROVE FALSE
    <3>1. d + 1 <= q /\ d + 1 \in Int
      BY <1>5, <1>6, <2>1, <2>2
    <3>2. (d + 1) * h <= q * h
      BY <1>6, <3>1, ProductGrows
    <3>3. (d + 1) * h = d * h + h /\ d * h = hd /\ q * h = hq /\ hd \in Int
      BY <1>6, <2>1, Products
    <3>4. hd + h <= hq
      BY <3>2, <3>3
    <3> HIDE DEF hd, hq
    <3> QED
      BY <1>1, <1>3, <1>6, <1>7, <2>1, <3>3, <3>4
  <2> QED
    BY <2>1, <2>2 DEF d
<1>12. hh \div w <= high
  BY <1>11, NarrowerIsLower DEF all, hh
<1> QED
  BY <1>9, <1>10, <1>12 DEF hh

\* The logo is at most a third of the screen high, also when it is limited in width,
\* and whatever overflows.
LEMMA LogoHeight ==
  ASSUME Sizes
  PROVE  LogoSize.h \in Nat /\ LogoSize.w \in Int /\ LogoSize.h <= Third /\ LogoSize.w <= Half
<1> DEFINE wide == Quotient(CInt(logo.w * Third), logo.h)
           low == Quotient(CInt(logo.h * Half), logo.w)
<1>1. LogoSize = IF wide > Half THEN [w |-> Half, h |-> low] ELSE [w |-> wide, h |-> Third]
  BY DEF LogoSize
<1>2. /\ logo.w \in Nat \ {0} /\ logo.h \in Nat \ {0}
      /\ Third \in Nat /\ Half \in Nat
  BY DEF Sizes, Third, Half
<1>3. wide \in Int
  <2> DEFINE all == logo.w * Third
  <2>1. all \in Nat
    BY <1>2, SMT
  <2> HIDE DEF all
  <2>2. CInt(all) \in Int
    BY <2>1, IntFits
  <2>3. Quotient(CInt(all), logo.h) \in Int
    BY <1>2, <2>2, QuotientInt
  <2> QED
    BY <2>3 DEF all
<1>4. wide > Half => low \in Nat /\ low <= Third
  BY <1>2, NarrowerInInts
<1> HIDE DEF wide, low
<1> QED
  BY <1>1, <1>2, <1>3, <1>4

\* The logo ends above the square of the ring.
LEMMA LogoAbove == Sizes => LogoKept
<1> SUFFICES ASSUME Sizes PROVE LogoKept
  OBVIOUS
<1>1. LogoSize.h \in Nat /\ LogoSize.h <= res.y \div 3 /\ res.y \in Nat
  BY LogoHeight DEF Sizes, Third
<1>2. LogoBottom = (res.y \div 2 - LogoSize.h \div 2 - 70) + LogoSize.h - 1
  BY DEF LogoBottom, LogoTop, Sizes
<1>3. Erased.top = (res.y \div 2 + res.y \div 5) - 10
  <2>1. Erased.top = loader_y - 10
    BY DEF Erased
  <2> QED
    BY <2>1 DEF loader_y
<1> DEFINE h == LogoSize.h
           y == res.y
<1>4. h \in Nat /\ y \in Nat /\ h <= y \div 3
  BY <1>1
<1> HIDE DEF h, y
<1>5. (y \div 2 - h \div 2 - 70) + h - 1 < (y \div 2 + y \div 5) - 10
  BY <1>4
<1> QED
  BY <1>2, <1>3, <1>5 DEF LogoKept, h, y

\* No pixel outside the image is read.
LEMMA ImageRead == Sizes /\ row \in Nat => InImage
<1> SUFFICES ASSUME Sizes, Fits, row \in Nat, row < LogoSize.h, NEW column \in 0 .. LogoSize.w - 1
             PROVE  LET pos == (Source(row, logo.h, LogoSize.h) * logo.w
                                  + Source(column, logo.w, LogoSize.w)) * 3
                    IN  0 <= pos /\ pos + 2 < logo.w * logo.h * 3
  BY DEF InImage
<1>1. /\ logo.w \in Nat \ {0} /\ logo.h \in Nat \ {0}
      /\ LogoSize.h \in Nat \ {0} /\ LogoSize.w \in Nat \ {0}
  BY LogoHeight DEF Sizes
<1>0. LogoSize.h * logo.h <= MaxInt /\ LogoSize.w * logo.w <= MaxInt
  <2>1. Third \in Nat /\ Half \in Nat /\ LogoSize.h <= Third /\ LogoSize.w <= Half
    BY LogoHeight DEF Sizes, Third, Half
  <2>2. LogoSize.h * logo.h <= Third * logo.h /\ LogoSize.w * logo.w <= Half * logo.w
    BY <1>1, <2>1, ProductGrows
  <2>3. Third * logo.h = logo.h * Third /\ Half * logo.w = logo.w * Half
    BY <1>1, <2>1, Products
  <2> DEFINE th == Third * logo.h
             hw == Half * logo.w
             a == LogoSize.h * logo.h
             b == LogoSize.w * logo.w
  <2>4. th <= MaxInt /\ hw <= MaxInt
    BY <2>3 DEF Fits
  <2>5. th \in Int /\ hw \in Int /\ a \in Int /\ b \in Int
    BY <1>1, <2>1, Products
  <2>6. a <= th /\ b <= hw
    BY <2>2
  <2> HIDE DEF th, hw, a, b
  <2>7. a <= MaxInt /\ b <= MaxInt
    BY <2>4, <2>5, <2>6, IntAssumption
  <2> QED
    BY <2>7 DEF a, b
<1> DEFINE y == Source(row, logo.h, LogoSize.h)
           x == Source(column, logo.w, LogoSize.w)
<1>2. y \in 0 .. logo.h - 1 /\ x \in 0 .. logo.w - 1
  <2>1. row \in 0 .. LogoSize.h - 1
    BY <1>1
  <2> QED
    BY <1>0, <1>1, <2>1, SourceBound
<1> HIDE DEF x, y
<1>3. y * logo.w \in Nat /\ y * logo.w <= (logo.h - 1) * logo.w
  <2>1. y \in Int /\ logo.h - 1 \in Int /\ y <= logo.h - 1 /\ logo.w \in Nat
    BY <1>1, <1>2
  <2>2. y * logo.w <= (logo.h - 1) * logo.w /\ 0 * logo.w <= y * logo.w /\ y * logo.w \in Int
    BY <1>2, <2>1, ProductGrows, Products
  <2> QED
    BY <2>1, <2>2
<1>4. (logo.h - 1) * logo.w = logo.h * logo.w - logo.w /\ logo.h * logo.w = logo.w * logo.h
  BY <1>1, Products
<1>5. logo.h * logo.w \in Int
  BY <1>1, Products
<1> DEFINE yw == y * logo.w
           hw == (logo.h - 1) * logo.w
           wh == logo.w * logo.h
<1>7. yw \in Nat /\ yw <= hw /\ hw = wh - logo.w /\ wh \in Int
  BY <1>3, <1>4, <1>5
<1> HIDE DEF yw, hw, wh
<1>6. 0 <= (yw + x) * 3 /\ (yw + x) * 3 + 2 < wh * 3
  BY <1>1, <1>2, <1>7
<1> QED
  BY <1>6 DEF yw, wh, x, y

\* The points of the ring are percentages.
LEMMA PointsBound ==
  ASSUME NEW k \in 0 .. 31
  PROVE  circle_points(k)[1] \in -100 .. 100 /\ circle_points(k)[2] \in -100 .. 100
<1>1. (k % 8) + 1 \in 1 .. 8
  OBVIOUS
<1>2. \A j \in 1 .. 8 : Quarter[j][1] \in 0 .. 100 /\ Quarter[j][2] \in -100 .. 0
  BY DEF Quarter
<1> DEFINE p == Quarter[(k % 8) + 1]
<1>3. p[1] \in 0 .. 100 /\ p[2] \in -100 .. 0
  BY <1>1, <1>2
<1>4. circle_points(k) = p \/ circle_points(k) = <<-p[2], p[1]>>
        \/ circle_points(k) = <<-p[1], -p[2]>> \/ circle_points(k) = <<p[2], -p[1]>>
  BY DEF circle_points
<1> HIDE DEF p
<1> QED
  BY <1>3, <1>4

\* The measures of the ring, whatever the resolution.
LEMMA RingMeasures ==
  ASSUME Sizes
  PROVE  /\ loader_cx \in Int /\ loader_cy \in Int
         /\ loader_radius \in Nat /\ loader_thick \in Nat
         /\ Erased.left <= loader_cx - loader_radius - loader_thick
         /\ loader_cx + loader_radius + loader_thick <= Erased.right
         /\ Erased.top <= loader_cy - loader_radius - loader_thick
         /\ loader_cy + loader_radius + loader_thick <= Erased.bottom
<1>1. res.x \in Nat /\ res.y \in Nat
  BY DEF Sizes
<1>2. loader_size \in 48 .. 96
  BY <1>1 DEF loader_size
<1>3. loader_x \in Int /\ loader_y \in Int
  BY <1>1, <1>2 DEF loader_x, loader_y, Quotient
<1>4. /\ loader_radius = loader_size \div 2 - 6
      /\ loader_thick \in 4 .. 6
      /\ loader_cx = loader_x + loader_size \div 2
      /\ loader_cy = loader_y + loader_size \div 2
  BY <1>2 DEF loader_radius, loader_thick, loader_cx, loader_cy
<1>5. /\ Erased.left = loader_x - 10 /\ Erased.right = (loader_x + loader_size) + 9
      /\ Erased.top = loader_y - 10 /\ Erased.bottom = (loader_y + loader_size) + 9
  BY <1>2, <1>3 DEF Erased
<1> QED
  BY <1>2, <1>3, <1>4, <1>5

\* The square around the centre that the ends of all segments lie in.
InRing(p) == /\ p \in Point
             /\ p.x \in loader_cx - loader_radius .. loader_cx + loader_radius
             /\ p.y \in loader_cy - loader_radius .. loader_cy + loader_radius

LEMMA RingPoint ==
  ASSUME Sizes, NEW k \in 0 .. 31
  PROVE  InRing(OnRing(k))
<1>1. loader_cx \in Int /\ loader_cy \in Int /\ loader_radius \in Nat
  BY RingMeasures
<1> DEFINE X == Quotient(circle_points(k)[1] * loader_radius, 100)
           Y == Quotient(circle_points(k)[2] * loader_radius, 100)
<1>2. X \in -loader_radius .. loader_radius /\ Y \in -loader_radius .. loader_radius
  BY <1>1, PointsBound, Percentage
<1>3. OnRing(k) = [x |-> loader_cx + X, y |-> loader_cy + Y]
  BY DEF OnRing
<1> HIDE DEF X, Y
<1> QED
  BY <1>1, <1>2, <1>3 DEF InRing, Point

-----------------------------------------------------------------------------
(* The segment.                                                            *)

\* c is between a and b, whichever is the smaller.
Between(a, c, b) == c \in Int /\ ((a <= c /\ c <= b) \/ (b <= c /\ c <= a))

\* While there is way to go in one direction, a finished one is left alone.
LEMMA NoOvershoot ==
  ASSUME NEW a \in Nat, NEW b \in Nat, NEW i \in 0 .. a, NEW j \in 0 .. b,
         NEW e \in Int, e = ((a - b) - i * b) + j * a, i # a \/ j # b
  PROVE  (e * 2 > -b => i < a) /\ (e * 2 < a => j < b)
<1>1. ASSUME i = a PROVE e <= -b
  <2>1. j + 1 <= b /\ j + 1 \in Int
    BY <1>1
  <2>2. (j + 1) * a <= b * a /\ (j + 1) * a = j * a + a /\ b * a = a * b
    BY <2>1, ProductGrows, Products
  <2> DEFINE ja == j * a
             ba == a * b
  <2>3. ja + a <= ba /\ ja \in Int /\ ba \in Int /\ e = ((a - b) - ba) + ja
    BY <1>1, <2>2, Products
  <2> HIDE DEF ja, ba
  <2> QED
    BY <2>3
<1>2. ASSUME j = b PROVE a <= e
  <2>1. i + 1 <= a /\ i + 1 \in Int
    BY <1>2
  <2>2. (i + 1) * b <= a * b /\ (i + 1) * b = i * b + b /\ b * a = a * b
    BY <2>1, ProductGrows, Products
  <2> DEFINE ib == i * b
             ba == b * a
  <2>3. ib + b <= ba /\ ib \in Int /\ ba \in Int /\ e = ((a - b) - ib) + ba
    BY <1>2, <2>2, Products
  <2> HIDE DEF ib, ba
  <2> QED
    BY <2>3
<1> QED
  BY <1>1, <1>2

\* The error term says how far the point is, the point is between the ends, and
\* neither direction is ever more than one step ahead.
SegmentInv ==
  pc = "segment" =>
    /\ InRing(from) /\ InRing(to)
    /\ Between(from.x, at.x, to.x) /\ Between(from.y, at.y, to.y)
    /\ err = ((dx - dy) - Distance(from.x, at.x) * dy) + Distance(from.y, at.y) * dx
    /\ dx - 3 * dy <= 2 * err /\ 2 * err <= 3 * dx - dy

IInv == TypeOK /\ SegmentInv

\* One step towards the end.
LEMMA OneStep ==
  ASSUME NEW a \in Int, NEW b \in Int, NEW c, Between(a, c, b), Distance(a, c) < Distance(a, b)
  PROVE  /\ Between(a, c + Towards(a, b), b)
         /\ Distance(a, c + Towards(a, b)) = Distance(a, c) + 1
<1>1. CASE a < b
  <2>1. a <= c /\ c < b /\ c \in Int
    BY <1>1 DEF Between, Distance
  <2> QED
    BY <1>1, <2>1 DEF Between, Distance, Towards
<1>2. CASE b < a
  <2>1. c <= a /\ b < c /\ c \in Int
    BY <1>2 DEF Between, Distance
  <2> QED
    BY <1>2, <2>1 DEF Between, Distance, Towards
<1>3. CASE a = b
  BY <1>3 DEF Between, Distance
<1> QED
  BY <1>1, <1>2, <1>3

LEMMA DistanceRange ==
  ASSUME NEW a \in Int, NEW b \in Int, NEW c, Between(a, c, b)
  PROVE  /\ Distance(a, b) \in Nat /\ Distance(a, c) \in 0 .. Distance(a, b)
         /\ Distance(a, c) = Distance(a, b) <=> c = b
BY DEF Between, Distance

-----------------------------------------------------------------------------
(* The invariant.                                                          *)

LEMMA SizesKnown == TypeOK => Sizes
BY IntAssumption, ModesAssumption, LogosAssumption DEF TypeOK, Sizes

LEMMA InitIInv == Init => IInv
BY DEF Init, IInv, TypeOK, SegmentInv, Point, Frames, Parts

\* The measures depend on the resolution alone.
LEMMA SameRing ==
  ASSUME UNCHANGED res, NEW p, InRing(p)
  PROVE  InRing(p)'
BY DEF InRing, loader_cx, loader_cy, loader_radius, loader_x, loader_y, loader_size

\* A segment begins between two points of the ring, with nothing gone.
LEMMA BeginStep ==
  ASSUME Sizes, UNCHANGED res, NEW start \in Nat, NEW k \in Nat, Begin(start, k)
  PROVE  /\ SegmentInv' /\ err' \in Int
         /\ at' \in Point /\ to' \in Point /\ from' \in Point
<1> DEFINE index == (start + k) % 32
           next == (index + 1) % 32
<1>1. index \in 0 .. 31 /\ next \in 0 .. 31
  OBVIOUS
<1>2. /\ from' = OnRing(index) /\ at' = from' /\ to' = OnRing(next)
      /\ err' = Distance(from'.x, to'.x) - Distance(from'.y, to'.y)
  BY DEF Begin
<1> HIDE DEF index, next
<1>3. InRing(from') /\ InRing(to')
  BY <1>1, <1>2, RingPoint
<1>4. from' \in Point /\ to' \in Point /\ at' \in Point
  BY <1>2, <1>3 DEF InRing
<1>5. InRing(from)' /\ InRing(to)'
  BY <1>3 DEF InRing, loader_cx, loader_cy, loader_radius, loader_x, loader_y, loader_size
<1> DEFINE a == from'.x
           b == from'.y
           c == to'.x
           d == to'.y
<1>6. a \in Int /\ b \in Int /\ c \in Int /\ d \in Int /\ at'.x = a /\ at'.y = b
  BY <1>2, <1>4 DEF Point
<1>7. Between(a, a, c) /\ Between(b, b, d) /\ Distance(a, a) = 0 /\ Distance(b, b) = 0
  BY <1>6 DEF Between, Distance
<1> DEFINE ac == Distance(a, c)
           bd == Distance(b, d)
<1>8. ac \in Int /\ bd \in Int
  BY <1>6 DEF Distance
<1>9. err' = ac - bd
  BY <1>2
<1>10. dx' = ac /\ dy' = bd
  BY DEF dx, dy, Distance
<1> HIDE DEF ac, bd
<1>11. err' = ((ac - bd) - 0 * bd) + 0 * ac
  BY <1>8, <1>9
<1> HIDE DEF a, b, c, d
<1>12. err' = ((dx' - dy') - Distance(a, a) * dy') + Distance(b, b) * dx'
  BY <1>7, <1>10, <1>11
<1>13. /\ Between(from.x, at.x, to.x)' /\ Between(from.y, at.y, to.y)'
       /\ Distance(from.x, at.x)' = Distance(a, a) /\ Distance(from.y, at.y)' = Distance(b, b)
  BY <1>6, <1>7 DEF a, b, c, d, Between, Distance
<1>14. (err = ((dx - dy) - Distance(from.x, at.x) * dy) + Distance(from.y, at.y) * dx)'
  BY <1>12, <1>13
<1>16. (dx - 3 * dy <= 2 * err /\ 2 * err <= 3 * dx - dy)'
  <2>1. ac \in Nat /\ bd \in Nat
    BY <1>6 DEF Distance, ac, bd
  <2> QED
    BY <1>9, <1>10, <2>1
<1>15. SegmentInv'
  BY <1>5, <1>13, <1>14, <1>16 DEF SegmentInv
<1> QED
  BY <1>4, <1>8, <1>9, <1>15

LEMMA DrawStep == IInv /\ Draw => IInv'
<1> SUFFICES ASSUME IInv, Draw PROVE IInv'
  OBVIOUS
<1>1. /\ pc = "segment" /\ at # to /\ Move
      /\ UNCHANGED <<pc, res, logo, row, frame, part, to, from>>
  BY DEF Draw
<1>2. /\ at \in Point /\ to \in Point /\ from \in Point /\ err \in Int
      /\ InRing(from) /\ InRing(to)
      /\ Between(from.x, at.x, to.x) /\ Between(from.y, at.y, to.y)
      /\ err = ((dx - dy) - Distance(from.x, at.x) * dy) + Distance(from.y, at.y) * dx
  BY <1>1 DEF IInv, TypeOK, SegmentInv
<1> DEFINE a == from.x
           b == from.y
           c == to.x
           d == to.y
           x == at.x
           y == at.y
           i == Distance(a, x)
           j == Distance(b, y)
           right == err * 2 > -dy
           down == err * 2 < dx
<1>3. a \in Int /\ b \in Int /\ c \in Int /\ d \in Int /\ x \in Int /\ y \in Int
  BY <1>2 DEF Point
<1>4. x # c \/ y # d
  BY <1>1, <1>2 DEF Point
<1>5. /\ at'.x = IF right THEN x + Towards(a, c) ELSE x
      /\ at'.y = IF down THEN y + Towards(b, d) ELSE y
      /\ err' = (err - (IF right THEN dy ELSE 0)) + (IF down THEN dx ELSE 0)
  BY <1>1 DEF Move
<1>6. dx = Distance(a, c) /\ dy = Distance(b, d) /\ dx' = dx /\ dy' = dy
  BY <1>1 DEF dx, dy, Distance
<1>7. Between(a, x, c) /\ Between(b, y, d)
  BY <1>2
<1>8. err = ((dx - dy) - i * dy) + j * dx
  BY <1>2
<1>9. at' \in Point
  <2>1. Towards(a, c) \in Int /\ Towards(b, d) \in Int
    BY DEF Towards
  <2> QED
    BY <1>1, <1>3, <2>1 DEF Move, Point
<1>a. a' = a /\ b' = b /\ c' = c /\ d' = d
  BY <1>1
<1> HIDE DEF a, b, c, d, x, y
<1>10. dx \in Nat /\ dy \in Nat /\ i \in 0 .. dx /\ j \in 0 .. dy
       /\ (i = dx <=> x = c) /\ (j = dy <=> y = d)
  BY <1>3, <1>6, <1>7, DistanceRange
<1>11. (right => i < dx) /\ (down => j < dy)
  <2>1. i # dx \/ j # dy
    BY <1>4, <1>10
  <2> HIDE DEF i, j
  <2> QED
    BY <1>2, <1>8, <1>10, <2>1, NoOvershoot
<1> DEFINE X == IF right THEN x + Towards(a, c) ELSE x
           Y == IF down THEN y + Towards(b, d) ELSE y
<1>12. Between(a, X, c) /\ Distance(a, X) = IF right THEN i + 1 ELSE i
  <2>1. CASE right
    <3>1. Distance(a, x) < Distance(a, c)
      BY <1>6, <1>11, <2>1
    <3> QED
      BY <1>3, <1>7, <2>1, <3>1, OneStep
  <2>2. CASE ~right
    BY <1>7, <2>2
  <2> QED
    BY <2>1, <2>2
<1>13. Between(b, Y, d) /\ Distance(b, Y) = IF down THEN j + 1 ELSE j
  <2>1. CASE down
    <3>1. Distance(b, y) < Distance(b, d)
      BY <1>6, <1>11, <2>1
    <3> QED
      BY <1>3, <1>7, <2>1, <3>1, OneStep
  <2>2. CASE ~down
    BY <1>7, <2>2
  <2> QED
    BY <2>1, <2>2
<1>14. at'.x = X /\ at'.y = Y
  BY <1>5
<1> DEFINE I == IF right THEN i + 1 ELSE i
           J == IF down THEN j + 1 ELSE j
<1>15. err' \in Int /\ err' = ((dx - dy) - I * dy) + J * dx
  <2> HIDE DEF i, j
  <2> DEFINE idy == i * dy
             jdx == j * dx
  <2>1. idy \in Int /\ jdx \in Int /\ (i + 1) * dy = idy + dy /\ (j + 1) * dx = jdx + dx
    BY <1>10, Products
  <2>2. I * dy = IF right THEN idy + dy ELSE idy
    BY <2>1
  <2>3. J * dx = IF down THEN jdx + dx ELSE jdx
    BY <2>1
  <2>4. err = ((dx - dy) - idy) + jdx
    BY <1>8
  <2> DEFINE Idy == I * dy
             Jdx == J * dx
  <2>5. Idy = (IF right THEN idy + dy ELSE idy) /\ Jdx = IF down THEN jdx + dx ELSE jdx
    BY <2>2, <2>3
  <2> HIDE DEF idy, jdx, I, J, right, down, Idy, Jdx
  <2>6. err' \in Int /\ err' = ((dx - dy) - Idy) + Jdx
    BY <1>2, <1>5, <1>10, <2>1, <2>4, <2>5
  <2> QED
    BY <2>6 DEF Idy, Jdx
<1>17. (dx - 3 * dy <= 2 * err /\ 2 * err <= 3 * dx - dy)'
  <2>1. dx - 3 * dy <= 2 * err /\ 2 * err <= 3 * dx - dy
    BY <1>1 DEF IInv, SegmentInv
  <2>2. dx # 0 \/ dy # 0
    BY <1>3, <1>4, <1>7, <1>10
  <2> HIDE DEF i, j
  <2> QED
    BY <1>2, <1>5, <1>6, <1>10, <2>1, <2>2
<1> HIDE DEF X, Y, I, J, i, j, right, down
<1>16. SegmentInv'
  <2>1. InRing(from)' /\ InRing(to)'
    BY <1>1, <1>2, SameRing DEF InRing, loader_cx, loader_cy, loader_radius,
                                 loader_x, loader_y, loader_size
  <2>2. Between(from.x, at.x, to.x)' /\ Between(from.y, at.y, to.y)'
    BY <1>1, <1>12, <1>13, <1>14 DEF Between, a, b, c, d
  <2>3. Distance(from.x, at.x)' = I /\ Distance(from.y, at.y)' = J
    BY <1>1, <1>12, <1>13, <1>14 DEF Distance, I, J, a, b
  <2>4. (err = ((dx - dy) - Distance(from.x, at.x) * dy) + Distance(from.y, at.y) * dx)'
    BY <1>6, <1>15, <2>3
  <2> QED
    BY <1>17, <2>1, <2>2, <2>4 DEF SegmentInv
<1> QED
  BY <1>1, <1>9, <1>15, <1>16 DEF IInv, TypeOK

LEMMA SegmentStep == IInv /\ (NextFrame \/ NextPart) => IInv'
<1> SUFFICES ASSUME IInv, NextFrame \/ NextPart PROVE IInv'
  OBVIOUS
<1>1. Sizes /\ TypeOK /\ UNCHANGED <<res, logo, row>>
  BY SizesKnown DEF IInv, NextFrame, NextPart
<1>2. CASE NextFrame
  <2>1. CASE frame < Frames
    <3>1. Begin(frame % 32, 0) /\ pc' = "segment" /\ frame' = frame + 1 /\ part' = 0
      BY <1>2, <2>1 DEF NextFrame
    <3>2. frame % 32 \in Nat /\ 0 \in Nat
      BY <1>1 DEF TypeOK
    <3>3. SegmentInv' /\ err' \in Int /\ at' \in Point /\ to' \in Point /\ from' \in Point
      BY <1>1, <3>1, <3>2, BeginStep
    <3> QED
      BY <1>1, <2>1, <3>1, <3>3 DEF IInv, TypeOK, Frames, Parts
  <2>2. CASE ~(frame < Frames)
    BY <1>1, <1>2, <2>2 DEF NextFrame, IInv, TypeOK, SegmentInv
  <2> QED
    BY <2>1, <2>2
<1>3. CASE NextPart
  <2>1. CASE part < Parts - 1
    <3>1. /\ Begin((frame - 1) % 32, part + 1) /\ part' = part + 1
          /\ UNCHANGED <<pc, frame>>
      BY <1>3, <2>1 DEF NextPart
    <3>2. (frame - 1) % 32 \in Nat /\ part + 1 \in Nat
      BY <1>1 DEF TypeOK
    <3>3. SegmentInv' /\ err' \in Int /\ at' \in Point /\ to' \in Point /\ from' \in Point
      BY <1>1, <3>1, <3>2, BeginStep
    <3> QED
      BY <1>1, <2>1, <3>1, <3>3 DEF IInv, TypeOK, Frames, Parts
  <2>2. CASE ~(part < Parts - 1)
    BY <1>1, <1>3, <2>2 DEF NextPart, IInv, TypeOK, SegmentInv
  <2> QED
    BY <2>1, <2>2
<1> QED
  BY <1>2, <1>3

LEMMA OtherSteps == IInv /\ (OpenFails \/ Open \/ DrawRow \/ Spin) => IInv'
<1> SUFFICES ASSUME IInv, OpenFails \/ Open \/ DrawRow \/ Spin PROVE IInv'
  OBVIOUS
<1>1. TypeOK'
  BY DEF IInv, TypeOK, OpenFails, Open, DrawRow, Spin, Spins, Frames
<1>2. pc' # "segment"
  BY DEF OpenFails, Open, DrawRow, Spin
<1> QED
  BY <1>1, <1>2 DEF IInv, SegmentInv

LEMMA StutterStep == IInv /\ UNCHANGED vars => IInv'
<1> SUFFICES ASSUME IInv, UNCHANGED vars PROVE IInv'
  OBVIOUS
<1>1. TypeOK'
  BY DEF IInv, TypeOK, vars
<1>2. SegmentInv'
  BY DEF IInv, SegmentInv, vars, InRing, Between, Distance, dx, dy,
         loader_cx, loader_cy, loader_radius, loader_x, loader_y, loader_size
<1> QED
  BY <1>1, <1>2 DEF IInv

LEMMA NextIInv == IInv /\ [Next]_vars => IInv'
BY DrawStep, SegmentStep, OtherSteps, StutterStep DEF Next

LEMMA Invariant == Spec => []IInv
<1>1. Init => IInv
  BY InitIInv
<1>2. IInv /\ [Next]_vars => IInv'
  BY NextIInv
<1> QED
  BY <1>1, <1>2, PTL DEF Spec

-----------------------------------------------------------------------------
(* The theorems.                                                           *)

\* Every variable of the animation keeps to its set: the error term and the
\* points included, the counters within their loops.
THEOREM TypeCorrect == Spec => []TypeOK
<1>1. IInv => TypeOK
  BY DEF IInv
<1> QED
  BY <1>1, Invariant, PTL

\* On every screen, nothing of the ring is drawn outside the square that the
\* next frame erases.
THEOREM NothingStays == Spec => []InsideErased
<1>1. IInv => InsideErased
  <2> SUFFICES ASSUME IInv, pc = "segment" PROVE InsideErased
    BY DEF InsideErased
  <2>1. Sizes
    BY SizesKnown DEF IInv
  <2>2. /\ at \in Point /\ InRing(from) /\ InRing(to)
        /\ Between(from.x, at.x, to.x) /\ Between(from.y, at.y, to.y)
    BY DEF IInv, TypeOK, SegmentInv
  <2> DEFINE cx == loader_cx
             cy == loader_cy
             r == loader_radius
             t == loader_thick
             left == Erased.left
             right == Erased.right
             top == Erased.top
             bottom == Erased.bottom
  <2>3. /\ cx \in Int /\ cy \in Int /\ r \in Nat /\ t \in Nat
        /\ left <= cx - r - t /\ cx + r + t <= right
        /\ top <= cy - r - t /\ cy + r + t <= bottom
    BY <2>1, RingMeasures
  <2>4. left \in Int /\ right \in Int /\ top \in Int /\ bottom \in Int
    <3>1. res.x \in Nat /\ res.y \in Nat
      BY <2>1 DEF Sizes
    <3>2. loader_size \in Nat
      BY <3>1 DEF loader_size
    <3>3. loader_x \in Int /\ loader_y \in Int
      BY <3>1, <3>2 DEF loader_x, loader_y, Quotient
    <3> QED
      BY <3>2, <3>3 DEF Erased
  <2>5. /\ from.x \in cx - r .. cx + r /\ to.x \in cx - r .. cx + r
        /\ from.y \in cy - r .. cy + r /\ to.y \in cy - r .. cy + r
    BY <2>2 DEF InRing
  <2> HIDE DEF cx, cy, r, t, left, right, top, bottom
  <2>6. at.x \in cx - r .. cx + r /\ at.y \in cy - r .. cy + r
    BY <2>2, <2>3, <2>5 DEF Between
  <2>7. at.x - t >= left /\ at.x + t <= right /\ at.y - t >= top /\ at.y + t <= bottom
    BY <2>3, <2>4, <2>6
  <2> QED
    BY <2>7 DEF InsideErased, t, left, right, top, bottom
<1> QED
  BY <1>1, Invariant, PTL

\* On every screen each segment is drawn along its line.
THEOREM DrawnOnLine == Spec => []OnSegment
<1>1. IInv => OnSegment
  <2> SUFFICES ASSUME IInv, pc = "segment" PROVE OnSegment
    BY DEF OnSegment
  <2> DEFINE idy == Distance(from.x, at.x) * dy
             jdx == Distance(from.y, at.y) * dx
  <2>1. /\ err = ((dx - dy) - idy) + jdx /\ err \in Int
        /\ dx - 3 * dy <= 2 * err /\ 2 * err <= 3 * dx - dy
    BY DEF IInv, TypeOK, SegmentInv
  <2>2. /\ from.x \in Int /\ from.y \in Int /\ to.x \in Int /\ to.y \in Int
        /\ at.x \in Int /\ at.y \in Int
    BY DEF IInv, TypeOK, Point
  <2>3. dx \in Int /\ dy \in Int /\ Distance(from.x, at.x) \in Int
        /\ Distance(from.y, at.y) \in Int
    BY <2>2 DEF dx, dy, Distance
  <2>4. idy \in Int /\ jdx \in Int
    BY <2>3, Products
  <2> HIDE DEF idy, jdx
  <2>5. 2 * Distance(0, idy - jdx) <= dx + dy
    BY <2>1, <2>3, <2>4 DEF Distance
  <2> QED
    BY <2>5 DEF OnSegment, idy, jdx
<1> QED
  BY <1>1, Invariant, PTL

\* On every screen and for every logo, the ring leaves the logo whole.
THEOREM LogoStays == Spec => []LogoKept
<1>1. IInv => LogoKept
  BY SizesKnown, LogoAbove DEF IInv
<1> QED
  BY <1>1, Invariant, PTL

\* On every screen and for every logo whose products with it are ints, whatever
\* INT_MAX is, scaling reads only bytes of the image.
THEOREM ImageSafe == Spec => []InImage
<1>1. IInv => InImage
  BY SizesKnown, ImageRead DEF IInv, TypeOK
<1> QED
  BY <1>1, Invariant, PTL

=============================================================================
