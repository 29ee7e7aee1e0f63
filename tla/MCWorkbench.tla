----------------------------- MODULE MCWorkbench -----------------------------
(* Two files; one field edited as text, the name check, and a node action.    *)
EXTENDS Workbench, TLC

Files == Permutations(Paths)
MCSource == [p \in Paths |-> [f \in Fields |-> 0]]
MCActions == {[f \in {"name"} |-> 0]}
MCRefused == {[f \in Fields |-> 1]}
================================================================================
