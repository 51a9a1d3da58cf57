-------------------------------- MODULE Pool --------------------------------
(***************************************************************************)
(* The state a suite of components is checked on. A suite puts components  *)
(* that never act on one another side by side: `part` says which of them a *)
(* behaviour is about, and never changes; that component's variables are   *)
(* the first of v1, v2, ..., in the order of its declaration, and the      *)
(* others are Off.                                                         *)
(***************************************************************************)

VARIABLES part,
  v1, v2, v3, v4, v5, v6, v7, v8, v9, v10, v11, v12, v13, v14, v15, v16, v17,
  v18, v19

Off == "off"

(* All variables from the n-th on: a component of n variables leaves RestN alone. *)
Rest19 == <<part>>
Rest18 == <<v19, Rest19>>
Rest17 == <<v18, Rest18>>
Rest16 == <<v17, Rest17>>
Rest15 == <<v16, Rest16>>
Rest14 == <<v15, Rest15>>
Rest13 == <<v14, Rest14>>
Rest12 == <<v13, Rest13>>
Rest11 == <<v12, Rest12>>
Rest10 == <<v11, Rest11>>
Rest9 == <<v10, Rest10>>
Rest8 == <<v9, Rest9>>
Rest7 == <<v8, Rest8>>
Rest6 == <<v7, Rest7>>
Rest5 == <<v6, Rest6>>
Rest4 == <<v5, Rest5>>
Rest3 == <<v4, Rest4>>
Rest2 == <<v3, Rest3>>
Rest1 == <<v2, Rest2>>
Rest0 == <<v1, Rest1>>

vars == Rest0

(* Those of them that a component of n variables has no use for are off. *)
Idle19 == TRUE
Idle18 == v19 = Off /\ Idle19
Idle17 == v18 = Off /\ Idle18
Idle16 == v17 = Off /\ Idle17
Idle15 == v16 = Off /\ Idle16
Idle14 == v15 = Off /\ Idle15
Idle13 == v14 = Off /\ Idle14
Idle12 == v13 = Off /\ Idle13
Idle11 == v12 = Off /\ Idle12
Idle10 == v11 = Off /\ Idle11
Idle9 == v10 = Off /\ Idle10
Idle8 == v9 = Off /\ Idle9
Idle7 == v8 = Off /\ Idle8
Idle6 == v7 = Off /\ Idle7
Idle5 == v6 = Off /\ Idle6
Idle4 == v5 = Off /\ Idle5
=============================================================================
