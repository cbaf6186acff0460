------------------------------- MODULE MCFetch -------------------------------
(* Fetch on small instances: a repository of one model, one of two that share a file, and one of *)
(* two that share none.                                                                         *)
EXTENDS Fetch, TLC

MCOneModel == "m1" :> <<"yaml", "weights">>
MCTwoModels == "m1" :> <<"yaml", "weights">> @@ "m2" :> <<"yaml2", "weights">>
MCTwoReleases == "m1" :> <<"yaml", "weights">> @@ "m2" :> <<"yaml2", "weights2">>

\* The weights take three reads, so that a stop or a kill can leave none, one, two or all of it.
MCSize == "yaml" :> 1 @@ "weights" :> 3
MCSizeTwo == "yaml" :> 1 @@ "yaml2" :> 1 @@ "weights" :> 2
MCSizeOfReleases == "yaml" :> 1 @@ "yaml2" :> 1 @@ "weights" :> 1 @@ "weights2" :> 1

MCSymmetry == Permutations(Attempts)
=============================================================================
