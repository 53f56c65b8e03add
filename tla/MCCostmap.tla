------------------------------ MODULE MCCostmap ------------------------------
(* A row of three cells, inflation by one, and one map.                      *)
EXTENDS Costmap2DROS

MCMap == {[Blank(FREE_SPACE) EXCEPT ![NumCells] = LETHAL_OBSTACLE]}
MCMapUpdate == {[cell |-> NumCells, cost |-> FREE_SPACE]}
MCClearArea == {{c \in Cells : c > Robot}}

=============================================================================
