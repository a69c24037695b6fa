--------------------------- MODULE MCSubmissions ---------------------------
(* Four components for TLC that are asked only for their safety: the       *)
(* admission of conversions, the parser of PLT files, the layout of the    *)
(* tiles of a sheet, and the bundles of a projected document.  They share  *)
(* nothing, so a behaviour is about one of them, the lane, while the       *)
(* others rest.                                                            *)
EXTENDS JobAdmission, ProjectionScenes, PltParser, MCSeamLayout

VARIABLE lane

lanesVars == <<admissionVars, scenesVars, pltVars, seamVars, lane>>

\* The input of each component; one that rests has any.
Given ==
    /\ want \in IF lane = "admission" THEN [Posts -> Wishes]
                ELSE {[p \in Posts |-> CHOOSE w \in Wishes : w.request = NoRequest]}
    /\ reading \in IF lane = "parser" THEN Reading ELSE {"convert"}
    /\ document \in IF lane = "layout" THEN Documents ELSE {CHOOSE d \in Documents : TRUE}

LanesInit ==
    /\ lane \in {"admission", "bundles", "parser", "layout"}
    /\ Given
    /\ AdmissionInit /\ ScenesInit /\ PltInit /\ SeamInit

LanesNext ==
    \/ lane = "admission" /\ AdmissionNext /\ UNCHANGED <<scenesVars, pltVars, seamVars, lane>>
    \/ lane = "bundles" /\ ScenesNext /\ UNCHANGED <<admissionVars, pltVars, seamVars, lane>>
    \/ lane = "parser" /\ PltNext /\ UNCHANGED <<admissionVars, scenesVars, seamVars, lane>>
    \/ lane = "layout" /\ SeamNext /\ UNCHANGED <<admissionVars, scenesVars, pltVars, lane>>

LanesSpec == LanesInit /\ [][LanesNext]_lanesVars

\* The types of the components that have state of their own.
LanesTypeOK == AdmissionTypeOK /\ ScenesTypeOK /\ SeamTypeOK

-----------------------------------------------------------------------------
(* Values                                                                  *)

\* Posts, requests and contents are interchangeable.
Symmetry == Permutations(Posts) \cup Permutations(Requests) \cup Permutations(Conversions)

\* To the right and down.
MCSteps == {<<1, 0>>, <<0, -1>>}

=============================================================================
