---------------------------- MODULE MCGpuResources ----------------------------
EXTENDS GpuResources

\* A near page, whose mesh is new in every generation, and an outer page, whose
\* mesh is shared; the outer one is there from the second revision on.
CONSTANTS Near, Outer

MCPages == {Near, Outer}
MCResident == {Outer}
MCLevels(page) == IF page = Near THEN {1, 2} ELSE {1}
MCSnapshots == <<<<<<Near>>, <<Near, Outer>>>>, <<<<Near, Outer>>>>>>

===============================================================================
