--------------------------- MODULE MCProvService ---------------------------
(***************************************************************************)
(* Instances of ProvService for TLC; the configurations give the sets as   *)
(* model values.  Codings and infos are only stored and compared, so the   *)
(* safety runs identify states that differ by a renaming of them.          *)
(***************************************************************************)
EXTENDS ProvServiceClaims, TLC

DataSymmetry == Permutations(Coding) \cup Permutations(Info)
=============================================================================
