---------------------------- MODULE MCNuklearEve ----------------------------
(* A row of twelve pixels.  Rectangles and outlines that may fuse, and some
   that almost do; polygons that are convex, dented or partly off the screen;
   clips that are usual, off the screen or larger than it.  The rounding is at
   least half the thickness of the outline: less would wrap around. *)
EXTENDS NuklearEve

CONSTANTS black, blue, glass

MCOpaque == {black, blue}

Clips == { [kind |-> "scissor", x |-> xw[1], w |-> xw[2]] : xw \in {<<-20, 60>>, <<4, 3>>, <<14, 3>>} }

Outlines == [kind : {"rect"}, x : {2}, w : {7}, rounding : {1}, thickness : {1, 2, 3}, colour : {blue, glass}]
Fills == [kind : {"rect_filled"}, x : {2}, w : {7}, rounding : {1}, colour : {blue, glass, black}]
         \cup [kind : {"rect_filled"}, x : {4}, w : {7}, rounding : {0}, colour : {blue}]

Edge(a, b) == [from |-> a, to |-> b]
Polygons == { [kind |-> "polygon_filled", edges |-> e, colour |-> blue] :
                e \in { <<Edge(1, 6)>>, <<Edge(3, 10), Edge(5, 7)>>, <<Edge(-4, 3)>> } }

Lines == [kind : {"line"}, x : {0}, w : {9}, colour : {glass}]

MCCommands == Clips \cup Outlines \cup Fills \cup Polygons \cup Lines
=============================================================================
