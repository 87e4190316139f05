---------------------------- MODULE BrowserInputs ----------------------------
(***************************************************************************)
(* The inputs of the forms as one system, an instance of FormInputs: what  *)
(* MCForms explores beside the canvases, and BrowserProofs is about.       *)
(***************************************************************************)
CONSTANTS
  Words, Dotted, Tables, Catalog, Kinds, Terms, Visible, Hidden, Functions,
  MaxUserSteps

VARIABLES src, box, expr, steps

inputVars == <<src, box, expr, steps>>

Input == INSTANCE FormInputs

\* What the proofs assume of the names and the functions.
ASSUME InputAssumed == Input!InputAssumption

\* The inputs that ask the server, and the expression with its tab stops.
InputsInv == Input!InputsInv
=============================================================================
