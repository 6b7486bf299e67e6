---------------------------- MODULE DigestOracle ----------------------------
(***************************************************************************)
(* SHA-256 as the stages use it: a random oracle.  The answer to a payload *)
(* is drawn when it is first asked for and never changes; a function from  *)
(* what has been asked to what was answered is the state of an oracle.     *)
(***************************************************************************)
EXTENDS Integers, FiniteSetsExt

CONSTANTS Ids,       \* digests, in their (lexicographic) order
          Oracle     \* which digests may be drawn, see Answers

ASSUME OracleAssumption ==
  /\ Ids \subseteq Nat \ {0}
  /\ Oracle \in {"any", "one order"}

Below == Min(Ids) - 1
Above == Max(Ids) + 1

\* A digest in every gap between the digests drawn so far: identities are
\* only compared, so one representative of each relative order is enough.
FreshIds(used) ==
  LET ends == used \cup {Below, Above}
  IN  {(low + Min({e \in ends : e > low})) \div 2 : low \in ends \ {Above}}
        \ ends

\* The oracle's answer for x, given what it has answered so far: an old digest,
\* which makes a collision, or a fresh one, anywhere in the order; or, where
\* neither is in question, the next one.
Answers(answered, x) ==
  LET used == {answered[y] : y \in DOMAIN answered}
      later == {i \in Ids : \A u \in used : i > u}
  IN  CASE x \in DOMAIN answered -> {answered[x]}
        [] x \notin DOMAIN answered /\ Oracle = "any" ->
             used \cup (FreshIds(used) \cap Ids)
        [] x \notin DOMAIN answered /\ Oracle = "one order" ->
             {i \in later : \A j \in later : i <= j}

Extended(f, x, y) == [z \in DOMAIN f \cup {x} |-> IF z = x THEN y ELSE f[z]]

\* Every id of the table stands for what hashes to it.
ContentAddressed(table, answered) ==
  \A id \in DOMAIN table :
    table[id] \in DOMAIN answered /\ answered[table[id]] = id
=============================================================================
