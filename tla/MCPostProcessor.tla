--------------------------- MODULE MCPostProcessor ---------------------------
(* Two layers and two boxes of a version 5 network, a version 8 network,     *)
(* networks whose size of an item does not fit in a byte (49, and 0), one    *)
(* whose grid does not, and two without labels.                              *)
EXTENDS PostProcessor

MCNetworks ==
  {[version |-> "5", labels |-> 1, anchors |-> 8, grids |-> <<1, 2>>, out |-> 60],
   [version |-> "8", labels |-> 2, anchors |-> 0, grids |-> <<>>, out |-> 30],
   [version |-> "3", labels |-> 300, anchors |-> 2, grids |-> <<1>>, out |-> 305],
   [version |-> "2", labels |-> 1, anchors |-> 10, grids |-> <<1>>, out |-> 30],
   [version |-> "8", labels |-> 252, anchors |-> 0, grids |-> <<>>, out |-> 256],
   [version |-> "3", labels |-> 1, anchors |-> 2, grids |-> <<257>>, out |-> 396294],
   [version |-> "5", labels |-> 0, anchors |-> 2, grids |-> <<1>>, out |-> 5],
   [version |-> "8", labels |-> 0, anchors |-> 0, grids |-> <<>>, out |-> 8]}
=============================================================================
