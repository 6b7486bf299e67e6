-------------------------- MODULE ContractExamples --------------------------
(***************************************************************************)
(* Constructors for the object graphs the model-checking modules use.  The *)
(* objects are 1..n and a graph is the tuple of their records, so a graph  *)
(* reads like the Python expression that builds it.                        *)
(***************************************************************************)
EXTENDS ContractGraph

New(type, kids, unit, val) ==
  [type |-> type, kids |-> kids, slots |-> "tuple", unit |-> unit,
   val |-> val, op |-> IF type = "Comparison" THEN "<" ELSE "", sound |-> TRUE]

Scalar(type, kids) == New(type, kids, "scalar", 0)
Money(type, kids) == New(type, kids, "USD", 0)
Plain(type, kids) == New(type, kids, "none", 0)

Num(v) == New("Number", << >>, "scalar", v)
Usd(v) == New("Number", << >>, "USD", v)
Obs(name) == New("Observable", << >>, "scalar", name)
UsdObs(name) == New("Observable", << >>, "USD", name)
Const(v) == New("BooleanConstant", << >>, "none", v)
ZeroContract == Plain("Zero", << >>)
Pay(amount) == New("Payment", << amount >>, "USD", 1)
=============================================================================
