CONSTANTS
  Proc = {p1, p2}
  MaxNbr = 4
  Window = 3
  Big = {2, 4}
  Block = {1, 2, 3, 4, 5, 6}
  Ranges <- Moving
SPECIFICATION FallingSpec
VIEW BlocksView
INVARIANT TableSound
