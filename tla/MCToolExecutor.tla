--------------------------- MODULE MCToolExecutor ---------------------------
(* Model values for the model-checking run of ToolExecutor.                *)
EXTENDS ToolExecutor

CONSTANTS s1, s2, bash, read

\* The categories "*" and "system".
MCCategories == {{"*"}, {bash, Task}}
=============================================================================
