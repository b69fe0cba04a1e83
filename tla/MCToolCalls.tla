----------------------------- MODULE MCToolCalls -----------------------------
(* ToolCalls with the constants of the runs tool_calls, create_recipe_guard *)
(* and merge_unused.                                                        *)
EXTENDS ToolCalls, TLC

Symmetry == Permutations(ToolCall)

=============================================================================
