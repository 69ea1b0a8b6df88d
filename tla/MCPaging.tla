------------------------------ MODULE MCPaging ------------------------------
(* Instance of Paging for TLC: pages of 2 bytes, tables of 8 entries, an    *)
(* address space of 512 bytes with its last quarter from 384.               *)
EXTENDS Paging
=============================================================================
