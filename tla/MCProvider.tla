------------------------------ MODULE MCProvider ------------------------------
(* Provider on a small instance.                                           *)
EXTENDS Provider
===============================================================================
