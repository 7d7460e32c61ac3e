----------------------------- MODULE MCAssistant -----------------------------
EXTENDS Assistant, TLC

\* Two texts that differ in letter case only.
MCFold == "Maria" :> "maria" @@ "maria" :> "maria"
MCContents == DOMAIN MCFold

Symmetry == Permutations(Callers) \union Permutations(Rules)
=============================================================================
