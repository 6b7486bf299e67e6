--------------------------- MODULE PayoffEquality ---------------------------
(***************************************************************************)
(* Two contracts compiled one after the other and compared the way         *)
(* PayoffGraph.__eq__ does, by identity.  The two calls share nothing but  *)
(* SHA-256.  The two canonical documents may spell one contract with       *)
(* different canonical digests, hence with its commutative operands in     *)
(* another order: what the payoff identity must not depend on.             *)
(***************************************************************************)
EXTENDS PayoffGraph

CONSTANT Pairs   \* the pairs of outcomes of canonicalization to compare

ASSUME PairsAssumption == Pairs \subseteq Outcomes \X Outcomes

VARIABLES pair,       \* the outcomes for the left and the right contract
          leftResult, \* the first payoff graph
          answer      \* "none", "equal", "different", or the exception

eqVars == <<pair, leftResult, answer>>
allVars == <<vars, eqVars>>

EqInit ==
  /\ Init
  /\ pair \in Pairs
  /\ outcome = pair[1]
  /\ leftResult = NoResult
  /\ answer = "none"

CompileStep == Next /\ UNCHANGED eqVars

Returned ==
  /\ answer = "none"
  /\ pc = "done"

CompileRight ==
  /\ Returned
  /\ result.kind = "payoff graph"
  /\ leftResult = NoResult
  /\ leftResult' = result
  /\ Restart(pair[2])
  /\ UNCHANGED <<pair, answer>>

Propagate ==
  /\ Returned
  /\ result.kind # "payoff graph"
  /\ answer' = result.kind
  /\ UNCHANGED <<vars, pair, leftResult>>

Compare ==
  /\ Returned
  /\ result.kind = "payoff graph"
  /\ leftResult # NoResult
  /\ answer' = IF leftResult.identity = result.identity
               THEN "equal" ELSE "different"
  /\ UNCHANGED <<vars, pair, leftResult>>

EqNext == CompileStep \/ CompileRight \/ Propagate \/ Compare

EqSpec == EqInit /\ [][EqNext]_allVars

\* Sequential code runs until it answers.
Fairness == WF_allVars(EqNext)

-----------------------------------------------------------------------------
(* Properties.                                                             *)

\* The types whose references are in the order of their ids.
SortedTypes == MergedTypes \cup {"Multiply"}

\* The ids that a table gives for ks.
Renamed(ids, ks) == [i \in 1..Len(ks) |-> ids[ks[i]]]

\* The references of p under other ids, sorted again where they are sorted by id.
Images(p, ids) ==
  IF p.type \in SortedTypes THEN SortedIds(Renamed(ids, p.kids))
  ELSE Renamed(ids, p.kids)

\* Two documents of one contract: the same nodes under other canonical digests.
SameContract(a, b) ==
  \E ids \in Bijection(DOMAIN a.nodes, DOMAIN b.nodes) :
    /\ ids[a.root] = b.root
    /\ \A c \in DOMAIN a.nodes :
         b.nodes[ids[c]] = [a.nodes[c] EXCEPT !.kids = Images(a.nodes[c], ids)]

PairsOfOneContract ==
  {p \in Pairs : /\ p[1].kind = "canonical" /\ p[2].kind = "canonical"
                 /\ SameContract(p[1].document, p[2].document)}

\* Payoff graphs are equal exactly when the contracts are the same one,
\* whatever the order of the canonical and of the payoff digests and even
\* when payoff node digests collide across the two calls; only a collision of
\* graph digests can make different contracts equal.
EqualIffSameContract ==
  answer \in {"equal", "different"} =>
    IF pair \in PairsOfOneContract THEN answer = "equal"
    ELSE answer = "equal" =>
           /\ leftResult.graph # result.graph
           /\ graphDigests[leftResult.graph] = graphDigests[result.graph]

\* The comparison answers, with a verdict or with an exception: neither loop of
\* the compiler, which have no counter, goes on forever.
Answered == <>(answer # "none")
=============================================================================
