---------------------------- MODULE MCRepoIndex ----------------------------
(* Two files that are absent or hold one of two contents.  The contents    *)
(* share a symbol, each has one of its own, and one declares a contract.   *)
EXTENDS RepoIndex, TLC

CONSTANTS before, after, common, moved, added, route

MCContents == {before, after}
MCSymbolsOf == (before :> {common, moved}) @@ (after :> {common, added})
MCSpecsOf == (before :> {route}) @@ (after :> {})
=============================================================================
