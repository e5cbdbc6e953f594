------------------------------ MODULE Planner ------------------------------
(***************************************************************************)
(* How dialog-query orders the premises of a rule (planner.rs and          *)
(* planner/feasibility.rs) and what each kind of premise needs to run.      *)
(*                                                                         *)
(* A premise is a record: its kind, the term in each of its slots, whether *)
(* it stands under `unless`, the slots whose content type admits Nothing   *)
(* (maybe), the cardinality of each attribute it reads (cards) and, for a  *)
(* formula or a constraint, its cost; for a concept, what its rules derive *)
(* (yields).  A term is a variable's name, Constant or Blank.              *)
(* An environment is a set of variables.                                   *)
(*                                                                         *)
(* A formula has one input here.  All predicates are of kind compare: a    *)
(* comparison, starts-with (its prefix is the slot `with`) and type (the   *)
(* value type is a constant).                                              *)
(***************************************************************************)
EXTENDS Naturals, FiniteSets, Functions, Sequences

CONSTANTS
    Constant,       \* a term that is a value
    Blank,          \* the unnamed variable
    Operand,        \* the slots of a concept
    MaxCost         \* usize::MAX, the cost of a premise without an estimate

ASSUME TermAssumption == Constant # Blank /\ MaxCost \in Nat

-----------------------------------------------------------------------------
(***************************************************************************)
(* Schemas: a slot is required, derived by the premise, or a member of the *)
(* premise's choice group, of which one member must be known.              *)
(***************************************************************************)
AttributeSchema == [the |-> "choice", of |-> "choice", is |-> "choice", cause |-> "choice"]
\* Mutant of OptionalSchema: a left join may start from any of its slots.
OptionalSchemaAny == AttributeSchema

OptionalSchema == [AttributeSchema EXCEPT !.of = "required"]
EqualitySchema == [this |-> "choice", is |-> "choice"]
CompareSchema == [of |-> "required", with |-> "required"]
CoalesceSchema == [source |-> "required", fallback |-> "required", is |-> "derived"]
FormulaSchema == [of |-> "required", is |-> "derived"]
ConceptSchema == [slot \in Operand |-> "derived"]

Kinds == {"attribute", "optional", "equality", "compare", "coalesce", "formula", "concept"}

Schema(kind) ==
    CASE kind = "attribute" -> AttributeSchema
      [] kind = "optional"  -> OptionalSchema
      [] kind = "equality"  -> EqualitySchema
      [] kind = "compare"   -> CompareSchema
      [] kind = "coalesce"  -> CoalesceSchema
      [] kind = "formula"   -> FormulaSchema
      [] kind = "concept"   -> ConceptSchema

\* Under `unless` every slot is required.
Requirement(p, slot) == IF p.negated THEN "required" ELSE Schema(p.kind)[slot]

Slots(p) == DOMAIN p.terms
Variables(p) == {p.terms[s] : s \in Slots(p)} \ {Constant, Blank}

\* A premise has a term for every slot of its schema; a concept may leave out
\* operands.  The rules of a concept derive every operand that is not optional.
IsPremise(p) ==
    /\ p.kind \in Kinds /\ p.negated \in BOOLEAN /\ p.cost \in Nat
    /\ Slots(p) \subseteq DOMAIN Schema(p.kind)
    /\ p.kind # "concept" => Slots(p) = DOMAIN Schema(p.kind)
    /\ IsFiniteSet(DOMAIN p.cards)
    /\ \A operands \in p.yields : Slots(p) \ operands \subseteq p.maybe

-----------------------------------------------------------------------------
(***************************************************************************)
(* Feasibility: categorize.                                                *)
(***************************************************************************)
IsBound(term, env) == term = Constant \/ term \in env

Satisfied(p, env) ==
    \E s \in Slots(p) : Requirement(p, s) = "choice" /\ IsBound(p.terms[s], env)

Open(p, env) == {s \in Slots(p) : p.terms[s] # Blank /\ ~IsBound(p.terms[s], env)}

Lacking(p, env) ==
    {s \in Open(p, env) : \/ Requirement(p, s) = "required"
                          \/ Requirement(p, s) = "choice" /\ ~Satisfied(p, env)}

Requires(p, env) == {p.terms[s] : s \in Lacking(p, env)}

\* Mutant of Binds: a premise binds what it derives, not its choices.
BindsDerived(p, env) ==
    {p.terms[s] : s \in {s \in Open(p, env) : Requirement(p, s) = "derived"}}

Binds(p, env) ==
    IF p.negated THEN {} ELSE {p.terms[s] : s \in Open(p, env) \ Lacking(p, env)}

Feasible(p, env) == Requires(p, env) = {}

-----------------------------------------------------------------------------
(***************************************************************************)
(* Estimates.                                                              *)
(***************************************************************************)
\* Cardinality::estimate, by what of the triple is known.
FactCost(the, of, is, cardinality) ==
    LET one == cardinality = "one" IN
    CASE the /\ of /\ is    -> 100
      [] the /\ of /\ ~is   -> IF one THEN 100 ELSE 200
      [] the /\ ~of /\ is   -> IF one THEN 300 ELSE 200
      [] ~the /\ of         -> IF one THEN 200 ELSE 1000
      [] the /\ ~of /\ ~is  -> IF one THEN 1100 ELSE 5000
      [] ~the /\ ~of /\ is  -> IF one THEN 5100 ELSE 5000
      [] OTHER              -> MaxCost

\* ConceptQuery::estimate: a join of one lookup per attribute.  When the entity
\* is free, one attribute leads: a bound one rather than a free one, a single
\* value rather than many.
LookupCost(p, env, slot) ==
    LET Known(s) == s \in Slots(p) /\ IsBound(p.terms[s], env)
        Rank(s) == (IF Known(s) THEN 0 ELSE 2) + (IF p.cards[s] = "one" THEN 0 ELSE 1)
        Lead == CHOOSE s \in DOMAIN p.cards :
                    \A r \in DOMAIN p.cards : Rank(s) <= Rank(r)
    IN  FactCost(TRUE, Known("this") \/ slot # Lead, Known(slot), p.cards[slot])

LookupsAt(p, env, cost) == {s \in DOMAIN p.cards : LookupCost(p, env, s) = cost}

ConceptCost(p, env) ==
    LET Total(cost) == cost * Cardinality(LookupsAt(p, env, cost))
    IN  1000 + Total(100) + Total(200) + Total(300) + Total(1100) + Total(5000)

PositiveCost(p, env) ==
    CASE p.kind \in {"attribute", "optional"} ->
            FactCost(IsBound(p.terms.the, env), IsBound(p.terms.of, env),
                     IsBound(p.terms.is, env), p.cards.is)
      [] p.kind = "concept" -> ConceptCost(p, env)
      [] p.kind = "equality" -> IF Satisfied([p EXCEPT !.negated = FALSE], env)
                                THEN p.cost ELSE MaxCost
      [] OTHER -> p.cost

Estimate(p, env) == PositiveCost(p, env) + (IF p.negated THEN 100 ELSE 0)

-----------------------------------------------------------------------------
(***************************************************************************)
(* One round of Planner::plan: the cheapest feasible premise, the first of  *)
(* those that cost the same.                                               *)
(***************************************************************************)
Candidates(body, remaining, env) == {i \in remaining : Feasible(body[i], env)}

Cheapest(body, remaining, env) ==
    LET feasible == Candidates(body, remaining, env)
        cost == [i \in feasible |-> Estimate(body[i], env)]
    IN  CHOOSE i \in feasible :
            \A j \in feasible : cost[i] < cost[j] \/ (cost[i] = cost[j] /\ i <= j)

-----------------------------------------------------------------------------
(***************************************************************************)
(* Inference and analysis.                                                 *)
(***************************************************************************)
\* Every positive premise that mentions v lets it be absent.
AdmitsNothing(v, body) ==
    LET Uses(i) == {s \in Slots(body[i]) : ~body[i].negated /\ body[i].terms[s] = v}
    IN  /\ \E i \in DOMAIN body : Uses(i) # {}
        /\ \A i \in DOMAIN body : Uses(i) \subseteq body[i].maybe

\* analyzer::analyze: the required operands of the conclusion are present, and
\* no left join, which always yields a row, stands under `unless`.
Analyzes(required, body) ==
    /\ \A v \in required : ~AdmitsNothing(v, body)
    /\ \A i \in DOMAIN body : ~(body[i].negated /\ body[i].kind = "optional")

\* plan::apply_types: a left join whose value another premise needs present is
\* the scan that it wraps.
Demotable(p, body) ==
    /\ p.kind = "optional" /\ ~p.negated
    /\ p.terms.is \notin {Constant, Blank}
    /\ ~AdmitsNothing(p.terms.is, body)

Narrow(body) ==
    [i \in DOMAIN body |->
        IF Demotable(body[i], body)
        THEN [kind |-> "attribute", terms |-> body[i].terms, negated |-> FALSE,
              maybe |-> {}, cards |-> body[i].cards, cost |-> body[i].cost, yields |-> {}]
        ELSE body[i]]

-----------------------------------------------------------------------------
(***************************************************************************)
(* Evaluation of a premise on a row that binds the variables of env.        *)
(***************************************************************************)
\* The premise can be evaluated: each kind's evaluate fails otherwise (coalesce
\* drops the row if only its fallback is unbound), and a negation would ask a
\* question about variables it does not know.
Ready(p, env) ==
    LET Known(slot) == IsBound(p.terms[slot], env) IN
    /\ p.negated => Variables(p) \subseteq env
    /\ CASE p.kind = "attribute" -> Known("the") \/ Known("of") \/ Known("is")
         [] p.kind = "optional"  -> Known("of")
         [] p.kind = "equality"  -> Known("this") \/ Known("is")
         [] p.kind = "compare"   -> Known("of") /\ Known("with")
         [] p.kind = "coalesce"  -> Known("source") /\ Known("fallback")
         [] p.kind = "formula"   -> Known("of")
         [] p.kind = "concept"   -> TRUE

\* The variables a row may bind after the premise.  A rule of a concept binds
\* the operands it derives: p.yields has the operands of each of its rules.
Extensions(p, env) ==
    CASE p.negated -> {env}
      [] ~p.negated /\ p.kind = "concept" ->
            {env \cup ({p.terms[s] : s \in Slots(p) \cap operands} \ {Constant, Blank}) :
                operands \in p.yields}
      [] OTHER -> {env \cup Variables(p)}
=============================================================================
