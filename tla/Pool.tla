-------------------------------- MODULE Pool --------------------------------
(***************************************************************************)
(* Variables that many programs share in one run.  prog says which program *)
(* a behaviour is about, and v1, v2, ... stand for the variables of that   *)
(* program; RestK are the ones that a program with K variables does not    *)
(* use, and FreeK gives them a value.                                      *)
(***************************************************************************)
VARIABLES prog, v1, v2, v3, v4, v5, v6, v7, v8, v9, v10, v11, v12

Rest12 == <<prog>>
Rest11 == <<v12, Rest12>>
Rest10 == <<v11, Rest11>>
Rest9 == <<v10, Rest10>>
Rest8 == <<v9, Rest9>>
Rest7 == <<v8, Rest8>>
Rest6 == <<v7, Rest7>>
Rest5 == <<v6, Rest6>>
Rest4 == <<v5, Rest5>>
Rest3 == <<v4, Rest4>>
Rest2 == <<v3, Rest3>>
Rest0 == <<v1, v2, Rest2>>

Free11 == v12 = 0
Free10 == v11 = 0 /\ Free11
Free9 == v10 = 0 /\ Free10
Free8 == v9 = 0 /\ Free9
Free7 == v8 = 0 /\ Free8
Free6 == v7 = 0 /\ Free7
Free5 == v6 = 0 /\ Free6
Free4 == v5 = 0 /\ Free5
Free3 == v4 = 0 /\ Free4
Free2 == v3 = 0 /\ Free3
Free0 == v1 = 0 /\ v2 = 0 /\ Free2
=============================================================================
