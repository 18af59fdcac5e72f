----------------------------- MODULE MCPublication -----------------------------
(* Publication on small instances: model values for the contents.          *)
EXTENDS Publication

===============================================================================
