---------------------------- MODULE OneShotCall ----------------------------
(***************************************************************************)
(* The abstract specification shared by the deterministic entry points of  *)
(* derivatrace (validate_contract and the stages built on it): a call      *)
(* leaves its input alone, answers at most once, and the answer is one its *)
(* contract promises for that input.  The stages implement it with         *)
(* Promised instantiated by a definition of what the answer must mean.     *)
(***************************************************************************)
CONSTANTS Inputs,         \* what a caller may pass
          Pending,        \* no answer yet
          Promised(_, _)  \* Promised(input, answer)

VARIABLES input, answer

Init == input \in Inputs /\ answer = Pending

Answer ==
  /\ answer = Pending
  /\ answer' # Pending
  /\ Promised(input, answer')
  /\ UNCHANGED input

Spec == Init /\ [][Answer]_<<input, answer>>
=============================================================================
