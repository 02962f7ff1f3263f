----------------------------- MODULE MCTokenCli -----------------------------
EXTENDS TokenCli, TLC

CONSTANTS s1, s2

\* Shells differ only in their name.
ShellSymmetry == Permutations(Shells)
=============================================================================
