------------------------------ MODULE MCScreen ------------------------------
EXTENDS Screen

\* Sprites at both edges of the screen and beside it, that overlap within it.
Left == [x |-> -1, behind |-> FALSE]
Middle == [x |-> 2, behind |-> TRUE]
Over == [x |-> 4, behind |-> FALSE]
Beside == [x |-> 8, behind |-> FALSE]

MCSpriteRow ==
  {<<>>, <<Middle>>, <<Left, Middle>>, <<Over, Middle>>, <<Middle, Over>>,
   <<Over, Beside, Left>>}
============================================================================
