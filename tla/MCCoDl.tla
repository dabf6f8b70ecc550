------------------------------- MODULE MCCoDl -------------------------------
(***************************************************************************)
(* Two values for each cached register.  Registers, matrix, primitive and  *)
(* colours do not influence one another: an application uses one of them,  *)
(* or two of different kinds.                                              *)
(***************************************************************************)
EXTENDS CoDl

MCRegs == {"ColorRGB", "ColorA", "Handle", "Cell", "PointSize", "LineWidth",
           "ScissorXY", "ScissorSize", "VertexFormat", "PaletteSource"}
MCDefault == [r \in MCRegs |->
                IF r \in {"Handle", "Cell", "ScissorXY", "PaletteSource"}
                THEN 0 ELSE 1]
MCUses ==
  {{r} : r \in MCRegs \cup {"matrix", "primitive", "colours"}}
    \cup {{"Handle", "Cell"}, {"matrix", "primitive"}}
MCUsesHandle == {{"Handle"}}
=============================================================================
