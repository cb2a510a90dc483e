-------------------------- MODULE MCTokenValidator --------------------------
(* An instance of TokenValidator for TLC.                                   *)
EXTENDS TokenValidator, TLC

CONSTANTS ours, other, kid1, kid2, a, b

ByKid == [iss |-> ours, kid |-> kid1, key |-> a, sound |-> TRUE]

MCTokens == {ByKid, [ByKid EXCEPT !.key = b], [ByKid EXCEPT !.kid = NoKid],
             [ByKid EXCEPT !.sound = FALSE], [ByKid EXCEPT !.iss = other]}

Interchangeable == Permutations(Procs)
=============================================================================
