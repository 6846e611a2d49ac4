------------------------------ MODULE MCOverlay ------------------------------
(* A small instance of Overlay for TLC. *)
EXTENDS Overlay

\* Two directories with one entry each.
MCPaths == {<<1>>, <<1, 1>>, <<2>>, <<2, 1>>}
MCRulePaths == {<<1, 1>>}
MCLinkTargets == {<<2>>}
MCMounted == {<<1>>, <<1, 1>>}
=============================================================================
