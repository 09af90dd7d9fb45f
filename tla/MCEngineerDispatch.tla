----------------------- MODULE MCEngineerDispatch -----------------------
(* Small instances of EngineerDispatch; every constant is given in the cfg. *)
EXTENDS EngineerDispatch
=========================================================================
