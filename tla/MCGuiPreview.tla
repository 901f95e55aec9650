----------------------------- MODULE MCGuiPreview -----------------------------
(***************************************************************************)
(* Terrain that grows from a near page to an outer one, then terrain of a  *)
(* new generation with as many pages.                                      *)
(***************************************************************************)
EXTENDS GuiPreview

CONSTANTS Near, Outer

MCSnapshots == << << <<Near>>, <<Near, Outer>> >>, << <<Near, Outer>> >> >>

=============================================================================
