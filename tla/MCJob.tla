--------------------------------- MODULE MCJob ---------------------------------
(* Job on small instances: model values for the contents.                  *)
EXTENDS Job

===============================================================================
