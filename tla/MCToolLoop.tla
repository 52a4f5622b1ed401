------------------------------ MODULE MCToolLoop ------------------------------
(* A small instance of ToolLoop for TLC. *)
EXTENDS ToolLoop
CONSTANTS e1, e2
MCLimit == [k \in Kinds |-> 1]
===============================================================================
