--------------------------- MODULE MCExactDecimal ---------------------------
(***************************************************************************)
(* Literals of two digits, from tenths to tens: a sum may need a third     *)
(* digit, a product a smaller or a greater exponent than a literal has.    *)
(***************************************************************************)
EXTENDS DecimalChain

MCExpMin == -1
=============================================================================
