--------------------------- MODULE MCSessionEdits ---------------------------
(* SessionEdits on two rows, the first of two dialogue turns.               *)
EXTENDS SessionEdits, TLC
Alike == Permutations(Actors)
MCSpoken == <<<<"well", "yes", "-no">>, <<"so">>>>
MCPassHears == <<<<"well no", "so">>>>
MCWords == {"well", "yes", "-no", "so", "well no", "edit"}
=============================================================================
