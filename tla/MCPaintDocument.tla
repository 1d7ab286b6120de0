-------------------------- MODULE MCPaintDocument --------------------------
(* A canvas of two by two pixels and one point beside it.                  *)
EXTENDS PaintDocument
CONSTANTS black, clear
MCCells == {1, 2} \X {1, 2}
MCPoints == {<<1, 1>>, <<2, 2>>, <<3, 2>>}
MCPictures == {[c \in MCCells |-> black]}
=============================================================================
