------------------------- MODULE MCManifestInjection -------------------------
(***************************************************************************)
(* Instances of ManifestInjection for TLC.                                 *)
(***************************************************************************)
EXTENDS ManifestInjection, TLC

(* A manifest with a bot, and one with two releases.                        *)
TwoManifests == {<<"build", "bot">>, <<"build", "release", "release">>}

Symmetry == Permutations(Requests)

=============================================================================
