--------------------------- MODULE MCReleaseInstall ---------------------------
(* A small instance of ReleaseInstall for TLC: one bundle (what another    *)
(* version left is Foreign to it), one shim, two installers that are alike.*)
EXTENDS ReleaseInstall, TLC

CONSTANTS v1, shim

MCShimNames == <<shim>>
InstallerSymmetry == Permutations(Installers)
===============================================================================
