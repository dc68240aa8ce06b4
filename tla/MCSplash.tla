------------------------------ MODULE MCSplash ------------------------------
(* From less than the ring needs to where its size no longer grows, square,   *)
(* wide and upright; a square logo, a wide one, one that vanishes, and one too *)
(* high for the ints there are, which are small ones for TLC's sake.           *)
EXTENDS Splash

MCModes == {[x |-> 40, y |-> 30], [x |-> 320, y |-> 200], [x |-> 800, y |-> 600],
            [x |-> 1024, y |-> 768], [x |-> 480, y |-> 800], [x |-> 1920, y |-> 1080],
            [x |-> 3840, y |-> 2160]}
MCLogos == {[w |-> 360, h |-> 360], [w |-> 500, h |-> 3], [w |-> 7, h |-> 400],
            [w |-> 7, h |-> 4000]}
=============================================================================
