------------------------------ MODULE MCPackages ------------------------------
(* A theme, and a kit that needs it: the kit's second version drops one file, *)
(* changes another and brings a third.                                        *)
EXTENDS Packages

CONSTANTS kit, theme, latest, stable

KitFirst == <<kit, theme>>

BothTags == {latest, stable}

\* A new theme may be published under the tag stable or not.
ThemeMoves(n) == IF n = theme THEN {{latest}, BothTags} ELSE {BothTags}

\* The kit follows the theme at one tag, and from its second version at another.
NeedsTags(n, v) == IF n = kit THEN {[name |-> theme, ref |-> IF v = 1 THEN latest ELSE stable]} ELSE {}

\* Its first version needs a certain theme.
NeedsPin(n, v) == IF n = kit /\ v = 1 THEN {[name |-> theme, ref |-> 1]} ELSE {}

KitFiles(n, v) ==
    IF n = theme THEN [f \in {"page"} |-> v]
    ELSE IF v = 1 THEN [f \in {"page", "chart"} |-> 1]
    ELSE [f \in {"page", "table"} |-> v]
=============================================================================
