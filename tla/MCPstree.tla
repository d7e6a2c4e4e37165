------------------------------ MODULE MCPstree ------------------------------
(***************************************************************************)
(* Four pids, all forests of processes over them, one birth.               *)
(***************************************************************************)
EXTENDS Pstree

Names == 0 .. 2
FirstNames == << 1, 2, 1, 1 >>
=============================================================================
