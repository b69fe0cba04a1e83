--------------------------- MODULE MCRecipeUpdate ---------------------------
EXTENDS RecipeUpdate, TLC

Symmetry == Permutations(UpdateCalls) \cup Permutations(Edits)

=============================================================================
