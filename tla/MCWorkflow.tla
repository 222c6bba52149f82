------------------------------ MODULE MCWorkflow ------------------------------
(* Small instances of Workflow for TLC. *)
EXTENDS Workflow

CONSTANTS a1, a2, a3, r1, c1

\* One account, or three.
MCPortfolios == {{a1}, {a1, a2, a3}}

\* A hint that matches one account, or two.
MCHints == {{a2}, {a1, a3}}
=============================================================================
