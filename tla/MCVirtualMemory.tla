-------------------------- MODULE MCVirtualMemory --------------------------
(***************************************************************************)
(* A small instance of VirtualMemory: pages of eight words, an image that  *)
(* ends anywhere in them, and memory that is too small for the longest.    *)
(***************************************************************************)
EXTENDS VirtualMemory

EveryEnd == 8..150
=============================================================================
