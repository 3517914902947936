----------------------------- MODULE MCFactModel -----------------------------
(***************************************************************************)
(* FactModel for the numbers from -12 to 400 and some with large factors,  *)
(* repeated large factors, or large and prime.                             *)
(***************************************************************************)
EXTENDS FactModel

MCInputs == (-12..400) \cup {961, 1024, 1369, 1801, 2021, 2187, 4199, 9409}

==============================================================================
