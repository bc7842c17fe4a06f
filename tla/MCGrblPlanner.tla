--------------------------- MODULE MCGrblPlanner ---------------------------
EXTENDS GrblPlanner

MCLines == {[rate |-> 1, rapid |-> FALSE, corner |-> 9, dist |-> 2],
            [rate |-> 2, rapid |-> TRUE,  corner |-> 3, dist |-> 1]}
MCOverrides == {<<1, 1>>, <<2, 1>>}
=============================================================================
