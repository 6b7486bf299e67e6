------------------------ MODULE ContractConstruction ------------------------
(***************************************************************************)
(* The constructors of the node classes: the __post_init__ methods of      *)
(* _expressions.py and _contracts.py, which check their arguments and      *)
(* derive the unit the new node stores.  ContractGraph holds the second    *)
(* copy of these rules, the one validate_contract runs on stored fields.   *)
(*                                                                         *)
(* A constructor asks isinstance where the validator insists on the exact  *)
(* class: it stores instances of subclasses, and value objects forged      *)
(* before the call.  What such an object answers is its own affair (a      *)
(* forged unit is of any kind and equal to any unit), so for them the      *)
(* definitions say what a constructor MAY accept.                          *)
(***************************************************************************)
EXTENDS ContractGraph

Input == "ContractInputError"

MayMatch(u, v) == u = v \/ "forged" \in {u, v}
MayBeMoney(u) == IsMoney(u) \/ u = "forged"
MayBeScalar(u) == u \in {"scalar", "forged"}

\* _validate_scalar_operands and _validate_boolean_operands; members are the
\* objects of the class the operands must have
OperandChecks(g, rec, members, sameUnit) ==
  << <<rec.slots = "tuple", Mismatch>>,
     <<Len(rec.kids) >= 2, Input>> >>
  \o [j \in 1..2 * Len(rec.kids) |->
        LET kid == rec.kids[(j + 1) \div 2]
        IN  IF j % 2 = 1 THEN <<kid \in members, Mismatch>>
            ELSE <<sameUnit => MayMatch(g[kid].unit, g[rec.kids[1]].unit), Input>>]

\* The checks on a call with the fields of rec; instance: is every value
\* object among them an instance of the class its parameter names?
ConstructorChecks(g, rec, instance) ==
  LET kid(i) == g[rec.kids[i]]
      scalars(s) == <<\A i \in s : IsScalar(kid(i)), Mismatch>>
      contracts(s) == <<\A i \in s : IsContract(kid(i)), Mismatch>>
      condition == <<IsBoolean(kid(1)), Mismatch>>
      sameUnit(i, j) == <<MayMatch(kid(i).unit, kid(j).unit), Input>>
      present == <<rec.slots = "tuple", Mismatch>>
  IN  CASE rec.type \in {"Number", "Observable", "BooleanConstant"} ->
             << <<instance, Mismatch>> >>
        [] rec.type \in {"Add", "Maximum", "Minimum"} ->
             OperandChecks(g, rec, {k \in Node : IsScalar(g[k])}, TRUE)
        [] rec.type \in {"AllOf", "AnyOf"} ->
             OperandChecks(g, rec, {k \in Node : IsBoolean(g[k])}, FALSE)
        [] rec.type = "Both" -> OperandChecks(g, rec, {k \in Node : IsContract(g[k])}, FALSE)
        [] rec.type = "Subtract" -> << present, scalars({1, 2}), sameUnit(1, 2) >>
        [] rec.type = "Multiply" ->
             << present, scalars({1, 2}),
                <<MultiplyUnit(kid(1).unit, kid(2).unit) # "none", Input>> >>
        [] rec.type = "Divide" ->
             << present, scalars({1, 2}), <<MayBeScalar(kid(2).unit), Input>>,
                <<kid(2).type = "Number" /\ kid(2).sound => kid(2).val # 0, Input>> >>
        [] rec.type = "Negate" -> << present, scalars({1}) >>
        [] rec.type = "ConditionalValue" ->
             << present, condition, scalars({2, 3}), sameUnit(2, 3) >>
        [] rec.type = "Comparison" ->
             << present, scalars({1, 2}), <<instance, Mismatch>>, sameUnit(1, 2) >>
        [] rec.type = "Not" -> << present, condition >>
        [] rec.type = "Zero" -> << >>
        [] rec.type = "Payment" ->
             << present, scalars({1}), <<instance, Mismatch>>,
                <<MayBeMoney(kid(1).unit), Input>>,
                <<MayMatch(kid(1).unit, rec.unit), Input>> >>
        [] rec.type = "Scale" ->
             << present, scalars({1}), contracts({2}),
                <<MayBeScalar(kid(1).unit), Input>> >>
        [] rec.type = "ConditionalContract" ->
             << present, condition, contracts({2, 3}) >>
        [] OTHER -> << >>      \* another class has a constructor of its own

\* The answers to instance.  A value object its exact class vouches for is an
\* instance; any other may be one, but bool and the enum have no subclasses.
InstanceAnswers(rec) ==
  IF rec.type \in {"BooleanConstant", "Comparison"} THEN {rec.sound}
  ELSE {rec.sound, TRUE}

\* The unit arguments the call may have had, or the units __post_init__ stores.
ConstructedUnits(g, rec) ==
  LET u(i) == g[rec.kids[i]].unit IN
  CASE rec.type = "Multiply" ->
         {MultiplyUnit(u(1), u(2))}
         \cup (IF "forged" \in {u(1), u(2)} THEN {u(1), u(2), "scalar"} ELSE {})
    [] rec.type = "ConditionalValue" -> {u(2)}
    [] rec.type \in {"Add", "Maximum", "Minimum", "Subtract", "Divide",
                     "Negate"} -> {u(1)}
    [] OTHER -> {rec.unit}

\* May a constructor call have stored the record of n?
Constructible(g, n) ==
  LET rec == g[n]
  IN  /\ \E instance \in InstanceAnswers(rec) :
           FirstFailure(ConstructorChecks(g, rec, instance)) = Pass
      /\ rec.unit \in ConstructedUnits(g, rec)

\* The exact-type policy (_ensure_supported_node_type, the _validate_..._invariants
\* of the value objects) finds nothing in n that a constructor would let pass.
ExactlyTyped(g, n) ==
  LET rec == g[n]
  IN  /\ IsSupported(rec)
      /\ rec.type \in {"Number", "Observable", "Payment"} => rec.sound
      /\ rec.type \in ScalarTypes => rec.unit \in ValidUnits
      /\ rec.type = "Payment" => rec.unit \in Currencies
=============================================================================
