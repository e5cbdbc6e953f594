---------------------------- MODULE PlannerProofs ----------------------------
(***************************************************************************)
(* The planner's feasibility, for every premise and every environment: it  *)
(* is monotone, it is all a premise needs to run, and a greedy planner      *)
(* that is stuck has left no order untried.                                *)
(***************************************************************************)
EXTENDS Planner, WellFoundedInduction, FiniteSetTheorems, SequenceTheorems, TLAPS

\* The variables a premise binds, wherever it is feasible.
Provides(p) == IF p.negated THEN {} ELSE Variables(p)

\* The variables that the first n steps of an order bind.
Provided(body, order, n) == UNION {Provides(body[order[j]]) : j \in 1..n}

\* Every step of an order is feasible after the ones before it.
FeasibleOrder(body, order, env) ==
    \A k \in 1..Len(order) : Feasible(body[order[k]], env \cup Provided(body, order, k - 1))

\* The variables that every row binds after the premise, also when a rule of
\* the premise's concept leaves optional operands out.
Definite(p) ==
    IF p.negated THEN {}
    ELSE {p.terms[s] : s \in Slots(p) \ p.maybe} \ {Constant, Blank}

\* A premise selects something.  An attribute query that fixes nothing but the
\* cause is feasible, and cannot be evaluated.
Selects(p) ==
    CASE p.kind = "attribute" ->
            /\ \E s \in {"the", "of", "is"} : p.terms[s] # Blank
            /\ \/ p.terms.cause = Blank
               \/ \E s \in {"the", "of", "is"} : p.terms[s] = Constant
      [] p.kind = "optional"  -> p.terms.of # Blank
      [] p.kind = "equality"  -> p.terms.this # Blank \/ p.terms.is # Blank
      [] p.kind = "compare"   -> p.terms.of # Blank /\ p.terms.with # Blank
      [] p.kind = "coalesce"  -> p.terms.source # Blank /\ p.terms.fallback # Blank
      [] p.kind = "formula"   -> p.terms.of # Blank
      [] p.kind = "concept"   -> TRUE

-----------------------------------------------------------------------------
(***************************************************************************)
(* Feasibility.                                                            *)
(***************************************************************************)
\* A premise is feasible if no slot lacks a term.
LEMMA FeasibleLacks ==
    ASSUME NEW p, NEW env
    PROVE  Feasible(p, env) <=> Lacking(p, env) = {}
  BY DEF Feasible, Requires

\* What is feasible stays feasible when more is known (categorize).
LEMMA FeasibleMonotone ==
    ASSUME NEW p, NEW env, NEW more, env \subseteq more, Feasible(p, env)
    PROVE  Feasible(p, more)
<1>1. Lacking(p, env) = {}
  BY FeasibleLacks
<1>2. Open(p, more) \subseteq Open(p, env)
  BY DEF Open, IsBound
<1>3. Satisfied(p, env) => Satisfied(p, more)
  BY DEF Satisfied, IsBound
<1>4. Lacking(p, more) = {}
  BY <1>1, <1>2, <1>3 DEF Lacking
<1> QED
  BY <1>4, FeasibleLacks

\* Variables that a premise does not mention do not make it feasible.
LEMMA FeasibleApart ==
    ASSUME NEW p, NEW env, NEW scope, scope \cap (Variables(p) \cup {Constant, Blank}) = {},
           Feasible(p, scope \cup env)
    PROVE  Feasible(p, env)
<1>1. \A s \in Slots(p) : p.terms[s] \notin scope
  BY DEF Variables
<1>2. \A s \in Slots(p) : IsBound(p.terms[s], env) <=> IsBound(p.terms[s], scope \cup env)
  BY <1>1 DEF IsBound
<1>3. Open(p, env) = Open(p, scope \cup env)
  BY <1>2 DEF Open
<1>4. Satisfied(p, env) <=> Satisfied(p, scope \cup env)
  BY <1>2 DEF Satisfied
<1>5. Lacking(p, env) = Lacking(p, scope \cup env)
  BY <1>3, <1>4 DEF Lacking
<1> QED
  BY <1>5, FeasibleLacks

\* A feasible premise binds all of its variables that are not bound yet, or
\* none under `unless`.
LEMMA BindsProvides ==
    ASSUME NEW p, NEW env, Feasible(p, env)
    PROVE  env \cup Binds(p, env) = env \cup Provides(p)
<1>1. Lacking(p, env) = {}
  BY FeasibleLacks
<1>2. CASE p.negated
  BY <1>2 DEF Binds, Provides
<1>3. CASE ~p.negated
  <2>1. Binds(p, env) = {p.terms[s] : s \in Open(p, env)}
    BY <1>1, <1>3 DEF Binds
  <2>2. Binds(p, env) \subseteq Variables(p)
    BY <2>1 DEF Open, Variables, IsBound
  <2>3. Variables(p) \subseteq env \cup Binds(p, env)
    BY <2>1 DEF Open, Variables, IsBound
  <2> QED
    BY <1>3, <2>2, <2>3 DEF Provides
<1> QED
  BY <1>2, <1>3

\* Each slot of a feasible premise is blank, bound, derived or one of a choice
\* of which another member is bound.
LEMMA FeasibleSlots ==
    ASSUME NEW p, NEW env, Feasible(p, env), NEW s \in Slots(p), p.terms[s] # Blank
    PROVE  /\ Requirement(p, s) = "required" => IsBound(p.terms[s], env)
           /\ Requirement(p, s) = "choice" => Satisfied(p, env)
<1>1. Lacking(p, env) = {}
  BY FeasibleLacks
<1>2. Requirement(p, s) = "required" => IsBound(p.terms[s], env)
  BY <1>1 DEF Lacking, Open
<1>3. Requirement(p, s) = "choice" => Satisfied(p, env)
  BY <1>1 DEF Lacking, Open, Satisfied
<1> QED
  BY <1>2, <1>3

\* A feasible premise that selects something can be evaluated: what categorize
\* asks for is what each kind's evaluate needs.
LEMMA FeasibleReady ==
    ASSUME NEW p, IsPremise(p), Selects(p), NEW env, Blank \notin env, Feasible(p, env)
    PROVE  Ready(p, env)
<1> USE DEF IsPremise, Kinds
<1>1. ASSUME p.negated, NEW s \in Slots(p), p.terms[s] # Blank
      PROVE  IsBound(p.terms[s], env)
  BY <1>1, FeasibleSlots DEF Requirement
<1>2. p.negated => Variables(p) \subseteq env
  BY <1>1 DEF Variables, IsBound
<1>3. ASSUME NEW s \in Slots(p), p.terms[s] # Blank, ~p.negated,
             Schema(p.kind)[s] = "required"
      PROVE  IsBound(p.terms[s], env)
  BY <1>3, FeasibleSlots DEF Requirement
<1>4. ASSUME NEW s \in Slots(p), p.terms[s] # Blank, ~p.negated,
             Schema(p.kind)[s] = "choice"
      PROVE  Satisfied(p, env)
  BY <1>4, FeasibleSlots DEF Requirement
<1>5. CASE p.kind = "attribute"
  <2>1. Slots(p) = {"the", "of", "is", "cause"} /\ Schema(p.kind) = AttributeSchema
    BY <1>5 DEF Schema, AttributeSchema
  <2>2. PICK s \in {"the", "of", "is"} : p.terms[s] # Blank
    BY <1>5 DEF Selects
  <2>3. \E r \in {"the", "of", "is"} : IsBound(p.terms[r], env)
    <3>1. CASE \E r \in {"the", "of", "is"} : p.terms[r] = Constant
      BY <3>1 DEF IsBound
    <3>2. CASE p.negated
      BY <1>1, <2>1, <2>2, <3>2
    <3>3. CASE p.terms.cause = Blank /\ ~p.negated
      <4>1. Satisfied(p, env)
        BY <1>4, <2>1, <2>2, <3>3 DEF AttributeSchema
      <4>2. PICK r \in Slots(p) : IsBound(p.terms[r], env)
        BY <4>1 DEF Satisfied
      <4>3. r # "cause"
        BY <3>3, <4>2, TermAssumption DEF IsBound
      <4> QED
        BY <2>1, <4>2, <4>3
    <3> QED
      BY <1>5, <3>1, <3>2, <3>3 DEF Selects
  <2> QED
    BY <1>2, <1>5, <2>3 DEF Ready
<1>6. CASE p.kind = "optional"
  <2>1. "of" \in Slots(p) /\ Schema(p.kind).of = "required" /\ p.terms.of # Blank
    BY <1>6 DEF Schema, OptionalSchema, AttributeSchema, Selects
  <2>2. IsBound(p.terms.of, env)
    BY <1>1, <1>3, <2>1
  <2> QED
    BY <1>2, <1>6, <2>2 DEF Ready
<1>7. CASE p.kind = "equality"
  <2>1. Slots(p) = {"this", "is"} /\ Schema(p.kind) = EqualitySchema
    BY <1>7 DEF Schema, EqualitySchema
  <2>2. PICK s \in {"this", "is"} : p.terms[s] # Blank
    BY <1>7 DEF Selects
  <2>3. IsBound(p.terms.this, env) \/ IsBound(p.terms.is, env)
    <3>1. CASE p.negated
      BY <1>1, <2>1, <2>2, <3>1
    <3>2. CASE ~p.negated
      <4>1. Satisfied(p, env)
        BY <1>4, <2>1, <2>2, <3>2 DEF EqualitySchema
      <4> QED
        BY <2>1, <4>1 DEF Satisfied
    <3> QED
      BY <3>1, <3>2
  <2> QED
    BY <1>2, <1>7, <2>3 DEF Ready
<1>8. CASE p.kind = "compare"
  <2>1. /\ {"of", "with"} = Slots(p) /\ Schema(p.kind) = CompareSchema
        /\ p.terms.of # Blank /\ p.terms.with # Blank
    BY <1>8 DEF Schema, CompareSchema, Selects
  <2>2. IsBound(p.terms.of, env) /\ IsBound(p.terms.with, env)
    BY <1>1, <1>3, <2>1 DEF CompareSchema
  <2> QED
    BY <1>2, <1>8, <2>2 DEF Ready
<1>9. CASE p.kind = "coalesce"
  <2>1. /\ {"source", "fallback", "is"} = Slots(p) /\ Schema(p.kind) = CoalesceSchema
        /\ p.terms.source # Blank /\ p.terms.fallback # Blank
    BY <1>9 DEF Schema, CoalesceSchema, Selects
  <2>2. IsBound(p.terms.source, env) /\ IsBound(p.terms.fallback, env)
    BY <1>1, <1>3, <2>1 DEF CoalesceSchema
  <2> QED
    BY <1>2, <1>9, <2>2 DEF Ready
<1>10. CASE p.kind = "formula"
  <2>1. {"of", "is"} = Slots(p) /\ Schema(p.kind) = FormulaSchema /\ p.terms.of # Blank
    BY <1>10 DEF Schema, FormulaSchema, Selects
  <2>2. IsBound(p.terms.of, env)
    BY <1>1, <1>3, <2>1 DEF FormulaSchema
  <2> QED
    BY <1>2, <1>10, <2>2 DEF Ready
<1>11. CASE p.kind = "concept"
  BY <1>2, <1>11 DEF Ready
<1> QED
  BY <1>5, <1>6, <1>7, <1>8, <1>9, <1>10, <1>11

-----------------------------------------------------------------------------
(***************************************************************************)
(* Orders.                                                                 *)
(***************************************************************************)
\* A non-empty set of naturals has a least element.
LEMMA LeastNatural ==
    ASSUME NEW S, S \subseteq Nat, S # {}
    PROVE  \E n \in S : \A m \in S : n <= m
<1>1. PICK n \in S : \A m \in S : <<m, n>> \notin OpToRel(<, Nat)
  BY NatLessThanWellFounded, WFMin
<1>2. \A m \in S : ~(m < n)
  BY <1>1 DEF OpToRel
<1> QED
  BY <1>2

\* Estimates are natural numbers.
LEMMA EstimateType ==
    ASSUME NEW p, IsPremise(p), NEW env
    PROVE  Estimate(p, env) \in Nat
<1>1. \A the, of, is, cardinality : FactCost(the, of, is, cardinality) \in Nat
  BY TermAssumption DEF FactCost
<1>2. ConceptCost(p, env) \in Nat
  <2>1. ASSUME NEW c PROVE Cardinality(LookupsAt(p, env, c)) \in Nat
    <3>1. LookupsAt(p, env, c) \in SUBSET DOMAIN p.cards
      BY DEF LookupsAt
    <3> QED
      BY <3>1, FS_Subset, FS_CardinalityType DEF IsPremise
  <2> QED
    BY <2>1 DEF ConceptCost
<1>3. PositiveCost(p, env) \in Nat
  BY <1>1, <1>2, TermAssumption DEF PositiveCost, IsPremise, Kinds
<1> QED
  BY <1>3 DEF Estimate

\* The premise that a round of Planner::plan picks is one of the feasible ones.
LEMMA CheapestFeasible ==
    ASSUME NEW body, NEW remaining, remaining \subseteq DOMAIN body,
           DOMAIN body \subseteq Nat, \A i \in DOMAIN body : IsPremise(body[i]),
           NEW env, Candidates(body, remaining, env) # {}
    PROVE  Cheapest(body, remaining, env) \in Candidates(body, remaining, env)
<1> DEFINE feasible == Candidates(body, remaining, env)
           cost == [i \in feasible |-> Estimate(body[i], env)]
<1>1. feasible \subseteq Nat /\ feasible # {}
  BY DEF Candidates
<1>2. \A i \in feasible : cost[i] \in Nat
  BY EstimateType DEF Candidates
<1> DEFINE costs == {cost[i] : i \in feasible}
<1>3. costs \subseteq Nat /\ costs # {}
  BY <1>1, <1>2
<1> HIDE DEF feasible, cost
<1>4. PICK c \in costs : \A d \in costs : c <= d
  BY <1>3, LeastNatural
<1> DEFINE cheap == {i \in feasible : cost[i] = c}
<1>5. cheap \subseteq Nat /\ cheap # {}
  BY <1>1
<1>6. PICK i \in cheap : \A j \in cheap : i <= j
  BY <1>5, LeastNatural
<1>7. \A j \in feasible : cost[i] < cost[j] \/ (cost[i] = cost[j] /\ i <= j)
  <2> SUFFICES ASSUME NEW j \in feasible
               PROVE  cost[i] < cost[j] \/ (cost[i] = cost[j] /\ i <= j)
    OBVIOUS
  <2>1. cost[i] = c /\ c <= cost[j] /\ c \in Nat /\ cost[j] \in Nat
    BY <1>2, <1>3, <1>4
  <2>2. CASE cost[j] = c
    BY <1>6, <2>1, <2>2
  <2>3. CASE cost[j] # c
    BY <2>1, <2>3
  <2> QED
    BY <2>2, <2>3
<1>8. \E k \in feasible : \A j \in feasible : cost[k] < cost[j] \/ (cost[k] = cost[j] /\ k <= j)
  BY <1>7
<1>9. (CHOOSE k \in feasible : \A j \in feasible :
          cost[k] < cost[j] \/ (cost[k] = cost[j] /\ k <= j)) \in feasible
  BY <1>8, Zenon
<1> QED
  BY <1>9 DEF Cheapest, feasible, cost

\* A greedy planner that has taken part of the premises finds one more that is
\* feasible, if there is any order of all of them: the first one of that order
\* that it has not taken.
LEMMA OrderContinues ==
    ASSUME NEW body, NEW n \in Nat, NEW order \in [1..n -> DOMAIN body],
           \A k \in 1..n : Feasible(body[order[k]], Provided(body, order, k - 1)),
           NEW remaining, remaining # {}, \A i \in remaining : \E k \in 1..n : order[k] = i,
           NEW env, \A i \in DOMAIN body \ remaining : Provides(body[i]) \subseteq env
    PROVE  Candidates(body, remaining, env) # {}
<1> DEFINE S == {k \in 1..n : order[k] \in remaining}
<1>1. S \subseteq Nat /\ S # {}
  OBVIOUS
<1>2. PICK k \in S : \A m \in S : k <= m
  BY <1>1, LeastNatural
<1>3. \A j \in 1..(k - 1) : order[j] \in DOMAIN body \ remaining
  <2> SUFFICES ASSUME NEW j \in 1..(k - 1) PROVE order[j] \in DOMAIN body \ remaining
    OBVIOUS
  <2>1. j \in 1..n /\ j < k
    OBVIOUS
  <2>2. j \notin S
    BY <1>2, <2>1
  <2> QED
    BY <2>1, <2>2
<1>4. Provided(body, order, k - 1) \subseteq env
  BY <1>3 DEF Provided
<1>5. Feasible(body[order[k]], env)
  BY <1>2, <1>4, FeasibleMonotone
<1> QED
  BY <1>2, <1>5 DEF Candidates

\* A rule of the concept behind the premise derives all of the operands.
FullYields(p) == \A operands \in p.yields : Slots(p) \subseteq operands

\* What a row binds after a premise (the evaluate of each kind).
LEMMA ExtensionsBind ==
    ASSUME NEW p, IsPremise(p), NEW env, NEW next \in Extensions(p, env)
    PROVE  /\ env \subseteq next
           /\ Definite(p) \subseteq next
           /\ FullYields(p) => Provides(p) \subseteq next
           /\ Blank \notin env => Blank \notin next
<1>1. CASE p.negated
  BY <1>1 DEF Extensions, Definite, Provides
<1>2. CASE ~p.negated /\ p.kind = "concept"
  <2>1. PICK operands \in p.yields :
          next = env \cup ({p.terms[s] : s \in Slots(p) \cap operands} \ {Constant, Blank})
    BY <1>2 DEF Extensions
  <2>2. Slots(p) \ p.maybe \subseteq Slots(p) \cap operands
    BY DEF IsPremise
  <2>3. FullYields(p) => Slots(p) \subseteq operands
    BY DEF FullYields
  <2>4. Definite(p) \subseteq next
    BY <1>2, <2>1, <2>2 DEF Definite
  <2>5. FullYields(p) => Provides(p) \subseteq next
    BY <1>2, <2>1, <2>3 DEF Provides, Variables
  <2> QED
    BY <2>1, <2>4, <2>5
<1>3. CASE ~p.negated /\ p.kind # "concept"
  <2>1. next = env \cup Variables(p)
    BY <1>3 DEF Extensions
  <2> QED
    BY <1>3, <2>1 DEF Definite, Provides, Variables
<1> QED
  BY <1>1, <1>2, <1>3

-----------------------------------------------------------------------------
(***************************************************************************)
(* Orders that grow at their end, as the planner makes them, and shrink at *)
(* their beginning, as an evaluation uses them up.                         *)
(***************************************************************************)
\* What the steps before a new last step bind.
LEMMA ProvidedAppend ==
    ASSUME NEW body, NEW S, NEW steps \in Seq(S), NEW i \in S
    PROVE  /\ \A k \in 0..Len(steps) :
                 Provided(body, Append(steps, i), k) = Provided(body, steps, k)
           /\ Provided(body, Append(steps, i), Len(steps) + 1)
                 = Provided(body, steps, Len(steps)) \cup Provides(body[i])
<1>1. /\ Len(steps) \in Nat
      /\ \A j \in 1..Len(steps) : Append(steps, i)[j] = steps[j]
      /\ Append(steps, i)[Len(steps) + 1] = i
  BY AppendProperties
<1>2. ASSUME NEW k \in 0..Len(steps)
      PROVE  Provided(body, Append(steps, i), k) = Provided(body, steps, k)
  <2>1. \A j \in 1..k : Append(steps, i)[j] = steps[j]
    BY <1>1
  <2> QED
    BY <2>1 DEF Provided
<1>3. Provided(body, Append(steps, i), Len(steps) + 1)
        = Provided(body, Append(steps, i), Len(steps)) \cup Provides(body[i])
  <2>1. 1..(Len(steps) + 1) = 1..Len(steps) \cup {Len(steps) + 1}
    BY <1>1
  <2> QED
    BY <1>1, <2>1 DEF Provided
<1>4. Len(steps) \in 0..Len(steps)
  BY <1>1
<1>5. Provided(body, Append(steps, i), Len(steps)) = Provided(body, steps, Len(steps))
  BY <1>2, <1>4
<1> QED
  BY <1>2, <1>3, <1>5

\* An order followed by a premise that is feasible after it is an order.
LEMMA OrderAppend ==
    ASSUME NEW body, NEW S, NEW steps \in Seq(S), NEW i \in S, NEW env,
           FeasibleOrder(body, steps, env),
           Feasible(body[i], env \cup Provided(body, steps, Len(steps)))
    PROVE  FeasibleOrder(body, Append(steps, i), env)
<1> DEFINE longer == Append(steps, i)
<1>1. /\ Len(steps) \in Nat /\ Len(longer) = Len(steps) + 1
      /\ \A j \in 1..Len(steps) : longer[j] = steps[j]
      /\ longer[Len(steps) + 1] = i
  BY AppendProperties
<1>2. \A k \in 0..Len(steps) : Provided(body, longer, k) = Provided(body, steps, k)
  BY ProvidedAppend
<1> HIDE DEF longer
<1>3. ASSUME NEW k \in 1..Len(longer)
      PROVE  Feasible(body[longer[k]], env \cup Provided(body, longer, k - 1))
  <2>1. k - 1 \in 0..Len(steps) /\ Provided(body, longer, k - 1) = Provided(body, steps, k - 1)
    BY <1>1, <1>2
  <2>2. CASE k \in 1..Len(steps)
    BY <1>1, <2>1, <2>2 DEF FeasibleOrder
  <2>3. CASE k = Len(steps) + 1
    <3>1. k - 1 = Len(steps)
      BY <1>1, <2>3
    <3> QED
      BY <1>1, <2>1, <2>3, <3>1
  <2> QED
    BY <1>1, <2>2, <2>3
<1> QED
  BY <1>3 DEF FeasibleOrder, longer

\* An order is one in every larger environment.
LEMMA OrderMonotone ==
    ASSUME NEW body, NEW steps, NEW env, NEW more, env \subseteq more,
           FeasibleOrder(body, steps, env)
    PROVE  FeasibleOrder(body, steps, more)
<1>1. ASSUME NEW k \in 1..Len(steps)
      PROVE  Feasible(body[steps[k]], more \cup Provided(body, steps, k - 1))
  <2>1. Feasible(body[steps[k]], env \cup Provided(body, steps, k - 1))
    BY DEF FeasibleOrder
  <2>2. env \cup Provided(body, steps, k - 1) \subseteq more \cup Provided(body, steps, k - 1)
    OBVIOUS
  <2> QED
    BY <2>1, <2>2, FeasibleMonotone
<1> QED
  BY <1>1 DEF FeasibleOrder

\* The rest of an order after its first step has run.
LEMMA OrderTail ==
    ASSUME NEW body, NEW S, NEW steps \in Seq(S), steps # << >>, NEW env,
           FeasibleOrder(body, steps, env), NEW next,
           env \cup Provides(body[Head(steps)]) \subseteq next
    PROVE  FeasibleOrder(body, Tail(steps), next)
<1> DEFINE rest == Tail(steps)
<1>1. /\ Len(steps) \in Nat \ {0} /\ rest \in Seq(S) /\ Len(rest) = Len(steps) - 1
      /\ \A j \in 1..Len(rest) : rest[j] = steps[j + 1]
  BY HeadTailProperties, EmptySeq
<1>2. Head(steps) = steps[1]
  BY <1>1
<1> HIDE DEF rest
<1>3. ASSUME NEW k \in 1..Len(rest)
      PROVE  Feasible(body[rest[k]], next \cup Provided(body, rest, k - 1))
  <2>1. k + 1 \in 1..Len(steps) /\ rest[k] = steps[k + 1] /\ (k + 1) - 1 = k
    BY <1>1
  <2>2. Feasible(body[steps[k + 1]], env \cup Provided(body, steps, k))
    BY <2>1 DEF FeasibleOrder
  <2>3. ASSUME NEW j \in 1..k
        PROVE  Provides(body[steps[j]]) \subseteq next \cup Provided(body, rest, k - 1)
    <3>1. CASE j = 1
      BY <1>2, <3>1
    <3>2. CASE j # 1
      <4>1. j - 1 \in 1..(k - 1) /\ j - 1 \in 1..Len(rest) /\ (j - 1) + 1 = j
        BY <1>1, <3>2
      <4>2. steps[j] = rest[j - 1]
        BY <1>1, <4>1
      <4> QED
        BY <4>1, <4>2 DEF Provided
    <3> QED
      BY <3>1, <3>2
  <2>4. env \cup Provided(body, steps, k) \subseteq next \cup Provided(body, rest, k - 1)
    BY <2>3 DEF Provided
  <2> QED
    BY <2>1, <2>2, <2>4, FeasibleMonotone
<1> QED
  BY <1>3 DEF FeasibleOrder, rest
=============================================================================
