---------------------------- MODULE MCGraphCache ----------------------------
(* Instance of GraphCache: a repository two directories deep below a third,  *)
(* one profile with both places and one with none, two builders, graphs of   *)
(* two and three blocks.                                                     *)
EXTENDS GraphCache, TLC

MCProfiles   == {"full", "bare"}
MCCacheGraph == "full" :> "cache" @@ "bare" :> "nowhere"
MCRootGraph  == "full" :> "root" @@ "bare" :> "nowhere"

\* The config is in the repository root and another beyond it.
MCTrees      == {<<"missing", "full", "bare">>}
=============================================================================
