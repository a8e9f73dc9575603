----------------------------- MODULE MCAucontExec -----------------------------
(***************************************************************************)
(* The instance checked: two containers, so that a pid may pass from one   *)
(* to the other.  No symmetry: EndsWithContainer is a liveness property.   *)
(***************************************************************************)
EXTENDS AucontExec
===============================================================================
