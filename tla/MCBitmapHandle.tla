--------------------------- MODULE MCBitmapHandle ---------------------------
(* One handle and the scratch handle, for which a bitmap with its          *)
(* additional one, which is also drawn alone, and the ROM font of that     *)
(* handle compete.                                                         *)
EXTENDS BitmapHandle, TLC

CONSTANTS photo, alpha, place1, place2

MCBitmaps    == {photo, alpha}
MCAdditional == photo :> alpha @@ alpha :> Nobody
MCRomFonts   == {0}
MCAddresses  == {place1, place2}

Symmetry == Permutations(MCAddresses)
=============================================================================
