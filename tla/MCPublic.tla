------------------------------ MODULE MCPublic ------------------------------
(***************************************************************************)
(* A site with a monitor of each of two kinds.                             *)
(***************************************************************************)
EXTENDS PublicPages, TLC

CONSTANTS m1, m2, http, tcp, s1

TheSiteOf == [m \in Monitors |-> s1]
TheKindOf == [m \in Monitors |-> IF m = m1 THEN http ELSE tcp]

\* The monitors are interchangeable together with their kinds.
Swap == m1 :> m2 @@ m2 :> m1 @@ http :> tcp @@ tcp :> http

Symmetry == {f @@ g @@ h : f \in Permutations(Requests), g \in Permutations(Slugs), h \in {<<>>, Swap}}
=============================================================================
