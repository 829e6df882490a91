------------------------------- MODULE MCServe -------------------------------
(* A report behind two paths, one without a parameter, and layout pages; the  *)
(* parameters offer the rows of a dataset.                                    *)
EXTENDS Serve, TLC

CONSTANTS report, plain, layout, first, second

ThreeRoutes == {report, plain, layout}
WithParameter == {report, layout}
WithOptions == {report, layout}
WithPages == {layout}
\* Viewers are interchangeable.
Symmetry == Permutations({first, second})

OneReport == [r \in ThreeRoutes |-> IF r = layout THEN layout ELSE report]
=============================================================================
