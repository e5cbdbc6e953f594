------------------------ MODULE RuleResolutionProofs ------------------------
(***************************************************************************)
(* The rules of a concept, for every set of rules and premises, of calls,  *)
(* tasks, commits and resets: a rule that compiled can be planned for      *)
(* every call, a rule is refused only if it has no order, every answer     *)
(* binds the operands of the concept, a plan runs only on rows that bind   *)
(* what its steps need if they bind what the plan counts on, and a query   *)
(* uses the rules of its branch as long as there is no reset to its head.  *)
(***************************************************************************)
EXTENDS RuleResolution, PlannerProofs

TaskFields ==
    {"pc", "caller", "row", "overlay", "head", "found", "rules", "todo", "forks",
     "rule", "remaining", "bound", "steps", "env", "always", "ever"}

Rules(S) == S \cup {Implicit}

\* A plan has every premise of its rule.
IsPlan(r, steps) ==
    /\ steps \in Seq(DOMAIN Premises(r))
    /\ \A i \in DOMAIN Premises(r) : \E k \in 1..Len(steps) : steps[k] = i

\* What compiling establishes: an order from the empty scope, and premises that
\* bind the operands of the conclusion.
Compiles(r) ==
    /\ Analyzes(RequiredOperands, Analyzed(r))
    /\ \A v \in RequiredOperands : \E i \in DOMAIN Premises(r) : v \in Provides(Premises(r)[i])
    /\ \E order : IsPlan(r, order) /\ FeasibleOrder(Premises(r), order, {})

\* The variables that a plan starts from.
ScopeOf(x) ==
    IF x.caller = None THEN {}
    ELSE IntoEnvironment(Derive(x.caller.terms, x.row), x.caller.terms)

\* A task that is planning has taken an order of some of the premises.
PlanState(x, S) ==
    LET body == Premises(x.rule) IN
    /\ x.rule \in IF x.caller = None THEN Rule ELSE Rules(S)
    /\ x.caller = None => Analyzes(RequiredOperands, Analyzed(x.rule))
    /\ x.steps \in Seq(DOMAIN body)
    /\ x.remaining = {i \in DOMAIN body : \A k \in 1..Len(x.steps) : x.steps[k] # i}
    /\ x.bound = ScopeOf(x) \cup Provided(body, x.steps, Len(x.steps))
    /\ FeasibleOrder(body, x.steps, ScopeOf(x))

\* A row binds what is definite after the steps that have run.
RowState(x, S) ==
    LET body == Premises(x.rule) IN
    /\ x.rule \in Rules(S)
    /\ x.steps \in Seq(DOMAIN body)
    /\ \A i \in DOMAIN body : \/ \E k \in 1..Len(x.steps) : x.steps[k] = i
                              \/ Definite(body[i]) \subseteq x.bound
    /\ Blank \notin x.bound

TaskState(x, S, n) ==
    /\ DOMAIN x = TaskFields
    /\ x.pc \in {"idle", "plan", "scan", "record", "hydrate", "lookup", "evaluate"}
    /\ x.caller \in Caller \cup {None}
    /\ x.pc \in {"scan", "record", "hydrate", "lookup"} => x.caller # None
    /\ x.pc \in {"idle", "evaluate"} => x.caller = None
    /\ x.overlay \cup x.found \cup x.rules \subseteq S
    /\ x.todo \subseteq Rules(S)
    /\ x.head \in 0..n
    /\ \A r \in DOMAIN x.forks : r \in Rules(S) /\ IsPlan(r, x.forks[r].steps)
    /\ x.pc = "plan" => PlanState(x, S)
    /\ x.pc = "evaluate" => RowState(x, S)

\* The inductive invariant of plans.
Sound ==
    /\ TypeOK
    /\ DOMAIN task = Task
    /\ \A r \in compiled : Compiles(r)
    /\ \A key \in DOMAIN plans : IsPlan(key[1], plans[key].steps)
    /\ \A t \in Task : TaskState(task[t], compiled, Len(revisions))

\* The inductive invariant of the rules in use.  What is kept for a head is what
\* is committed there, unless the branch has been reset to it; a query's rules
\* are between those committed all along and those committed at some moment.
UsesCurrent(x, now, committed, seen) ==
    /\ x.caller # None => x.always \subseteq committed /\ committed \subseteq x.ever
    /\ x.pc \in {"scan", "record"} => x.rules = {}
    /\ x.pc = "record" =>
          /\ x.always \subseteq x.found /\ x.found \subseteq x.ever
          /\ x.head = now /\ now \notin seen => x.found = committed
    /\ x.pc = "hydrate" /\ x.head \notin seen =>
          /\ x.always \subseteq x.found \cup x.rules
          /\ x.found \cup x.rules \subseteq x.ever
    /\ x.caller # None /\ x.pc \in {"lookup", "plan"} /\ x.head \notin seen =>
          /\ x.always \cup x.overlay \subseteq x.rules
          /\ x.rules \subseteq x.ever \cup x.overlay

DiscoveryCurrent ==
    discovery # None /\ discovery.head = head /\ head \notin revisited
        => discovery.rules = Committed

InUse ==
    /\ DiscoveryCurrent
    /\ \A t \in Task : UsesCurrent(task[t], head, Committed, revisited)

\* The inductive invariant of the steps: a plan is an order that is feasible
\* where its env is bound, and so is the rest of it on the row it runs on.
PlanReady(r, plan) ==
    /\ FeasibleOrder(Premises(r), plan.steps, plan.env)
    /\ plan.env \cap {Constant, Blank} = {}

TaskReady(x) ==
    /\ \A r \in DOMAIN x.forks : PlanReady(r, x.forks[r])
    /\ x.pc = "evaluate" => /\ FeasibleOrder(Premises(x.rule), x.steps, x.env \cup x.bound)
                            /\ x.env \cap {Constant, Blank} = {}

PlansReady ==
    /\ \A key \in DOMAIN plans : PlanReady(key[1], plans[key])
    /\ \A t \in Task : TaskReady(task[t])

\* The rules of every concept in a body derive all of its operands, and its
\* premises select.
BodiesReady ==
    \A r \in Rules(Rule) : \A i \in DOMAIN Premises(r) :
        FullYields(Premises(r)[i]) /\ Selects(Premises(r)[i])
-----------------------------------------------------------------------------
(***************************************************************************)
(* The rules' bodies.                                                      *)
(***************************************************************************)
\* Narrowing turns left joins into scans with the same terms.
LEMMA Narrowed ==
    ASSUME NEW r
    PROVE  /\ DOMAIN Premises(r) = DOMAIN Analyzed(r)
           /\ \A i \in DOMAIN Analyzed(r) :
                LET p == Premises(r)[i]
                    q == Analyzed(r)[i]
                IN  \/ p = q
                    \/ /\ q.kind = "optional" /\ q.negated = FALSE
                       /\ p = [kind |-> "attribute", terms |-> q.terms, negated |-> FALSE,
                               maybe |-> {}, cards |-> q.cards, cost |-> q.cost, yields |-> {}]
<1>1. PICK body : body = Analyzed(r)
  OBVIOUS
<1>2. Premises(r) = Narrow(body)
  BY <1>1 DEF Premises
<1>3. DOMAIN Narrow(body) = DOMAIN body
  BY DEF Narrow
<1>4. ASSUME NEW i \in DOMAIN body
      PROVE  LET p == Narrow(body)[i]
                 q == body[i]
             IN  \/ p = q
                 \/ /\ q.kind = "optional" /\ ~q.negated
                    /\ p = [kind |-> "attribute", terms |-> q.terms, negated |-> FALSE,
                            maybe |-> {}, cards |-> q.cards, cost |-> q.cost, yields |-> {}]
  BY DEF Narrow, Demotable
<1> QED
  BY <1>1, <1>2, <1>3, <1>4

\* What narrowing leaves of a premise.
LEMMA NarrowedTerms ==
    ASSUME NEW r
    PROVE  /\ DOMAIN Premises(r) = DOMAIN Analyzed(r)
           /\ \A i \in DOMAIN Analyzed(r) :
                \/ Premises(r)[i] = Analyzed(r)[i]
                \/ /\ Analyzed(r)[i].negated = FALSE /\ Premises(r)[i].negated = FALSE
                   /\ Premises(r)[i].terms = Analyzed(r)[i].terms
                   /\ Premises(r)[i].maybe = {}
<1>1. DOMAIN Premises(r) = DOMAIN Analyzed(r)
  BY Narrowed
<1>2. ASSUME NEW i \in DOMAIN Analyzed(r)
      PROVE  \/ Premises(r)[i] = Analyzed(r)[i]
             \/ /\ Analyzed(r)[i].negated = FALSE /\ Premises(r)[i].negated = FALSE
                /\ Premises(r)[i].terms = Analyzed(r)[i].terms
                /\ Premises(r)[i].maybe = {}
  <2>1. PICK p, q : p = Premises(r)[i] /\ q = Analyzed(r)[i]
    OBVIOUS
  <2>2. \/ p = q
        \/ /\ q.negated = FALSE
           /\ p = [kind |-> "attribute", terms |-> q.terms, negated |-> FALSE,
                   maybe |-> {}, cards |-> q.cards, cost |-> q.cost, yields |-> {}]
    BY <2>1, Narrowed
  <2>3. p = q \/ (q.negated = FALSE /\ p.negated = FALSE /\ p.terms = q.terms /\ p.maybe = {})
    BY <2>2
  <2> QED
    BY <2>1, <2>3
<1> QED
  BY <1>1, <1>2

\* A body is a sequence of premises, the implicit rule's too.
LEMMA AnalyzedTypes ==
    ASSUME NEW r \in Rules(Rule)
    PROVE  /\ DOMAIN Analyzed(r) \subseteq Nat
           /\ \A i \in DOMAIN Analyzed(r) : IsPremise(Analyzed(r)[i])
<1>1. CASE r = Implicit
  <2>1. Analyzed(r) = ImplicitBody /\ DOMAIN ImplicitBody = DOMAIN Fields
    BY <1>1 DEF Analyzed, ImplicitBody
  <2>2. DOMAIN Fields \subseteq Nat
    BY FieldsAssumption
  <2>3. ASSUME NEW i \in DOMAIN Fields PROVE IsPremise(ImplicitBody[i])
    <3> DEFINE p == ImplicitBody[i]
    <3>1. /\ p.kind = IF Fields[i].optional THEN "optional" ELSE "attribute"
          /\ p.negated = FALSE /\ p.cost = 0 /\ p.yields = {}
          /\ p.cards = [is |-> Fields[i].card]
          /\ p.terms = [the |-> Constant, of |-> "this", is |-> Fields[i].name, cause |-> Blank]
      BY DEF ImplicitBody
    <3> HIDE DEF p
    <3>2. Slots(p) = {"the", "of", "is", "cause"} /\ DOMAIN p.cards = {"is"}
      BY <3>1 DEF Slots
    <3>3. IsFiniteSet({"is"})
      BY FS_Singleton
    <3>4. p.kind \in {"optional", "attribute"}
      BY <3>1
    <3>5. DOMAIN Schema(p.kind) = {"the", "of", "is", "cause"}
      BY <3>4 DEF Schema, AttributeSchema, OptionalSchema
    <3>6. p.kind \in Kinds /\ p.cost \in Nat
      BY <3>1, <3>4 DEF Kinds
    <3>7. p.negated \in BOOLEAN
      BY <3>1, Zenon
    <3>8. IsPremise(p)
      BY <3>1, <3>2, <3>3, <3>5, <3>6, <3>7 DEF IsPremise
    <3> QED
      BY <3>8 DEF p
  <2> QED
    BY <2>1, <2>2, <2>3
<1>2. CASE r # Implicit
  BY <1>2, RuleAssumption DEF Analyzed, Rules
<1> QED
  BY <1>1, <1>2

\* Narrowing leaves premises.
LEMMA BodyTypes ==
    ASSUME NEW r \in Rules(Rule)
    PROVE  /\ DOMAIN Premises(r) = DOMAIN Analyzed(r)
           /\ DOMAIN Premises(r) \subseteq Nat
           /\ \A i \in DOMAIN Premises(r) : IsPremise(Premises(r)[i])
<1>1. DOMAIN Premises(r) = DOMAIN Analyzed(r)
  BY Narrowed
<1>2. ASSUME NEW i \in DOMAIN Premises(r) PROVE IsPremise(Premises(r)[i])
  <2>1. PICK p, q : p = Premises(r)[i] /\ q = Analyzed(r)[i]
    OBVIOUS
  <2>2. IsPremise(q)
    BY <1>1, <2>1, AnalyzedTypes
  <2>3. CASE p = q
    BY <2>1, <2>2, <2>3
  <2>4. CASE /\ q.kind = "optional" /\ q.negated = FALSE
             /\ p = [kind |-> "attribute", terms |-> q.terms, negated |-> FALSE,
                     maybe |-> {}, cards |-> q.cards, cost |-> q.cost, yields |-> {}]
    <3>1. /\ p.kind = "attribute" /\ p.terms = q.terms /\ p.negated = FALSE
          /\ p.cards = q.cards /\ p.cost = q.cost /\ p.yields = {}
      BY <2>4
    <3>2. DOMAIN Schema(p.kind) = DOMAIN Schema(q.kind)
      BY <2>4, <3>1 DEF Schema, AttributeSchema, OptionalSchema
    <3>3. /\ Slots(q) = DOMAIN Schema(q.kind) /\ IsFiniteSet(DOMAIN q.cards) /\ q.cost \in Nat
      BY <2>2, <2>4 DEF IsPremise
    <3>4. p.negated \in BOOLEAN
      BY <3>1, Zenon
    <3>5. Slots(p) = DOMAIN Schema(p.kind) /\ p.kind \in Kinds
      BY <3>1, <3>2, <3>3 DEF Slots, Kinds
    <3>6. IsPremise(p)
      BY <3>1, <3>3, <3>4, <3>5 DEF IsPremise
    <3> QED
      BY <2>1, <3>6
  <2> QED
    BY <1>1, <2>1, <2>3, <2>4, Narrowed
<1> QED
  BY <1>1, <1>2, AnalyzedTypes

\* The premises of the implicit rule: the attribute is a constant and the
\* entity is `this`.
LEMMA ImplicitPremise ==
    ASSUME NEW i \in DOMAIN Fields
    PROVE  LET p == Premises(Implicit)[i] IN
           /\ DOMAIN Premises(Implicit) = DOMAIN Fields
           /\ Provides(p) = {"this", Fields[i].name}
           /\ \A env : Fields[i].optional => ("this" \in env => Feasible(p, env))
           /\ \A env : ~Fields[i].optional => Feasible(p, env)
           /\ "this" \in Definite(p)
           /\ ~Fields[i].optional => Fields[i].name \in Definite(p)
<1> DEFINE p == Premises(Implicit)[i]
<1>1. /\ p.kind \in {"optional", "attribute"} /\ p.maybe \subseteq {"is", "cause"}
      /\ ~Fields[i].optional => p.kind = "attribute" /\ p.maybe = {}
      /\ p.negated = FALSE
      /\ p.terms = [the |-> Constant, of |-> "this", is |-> Fields[i].name, cause |-> Blank]
      /\ DOMAIN Premises(Implicit) = DOMAIN Fields
  <2>1. Analyzed(Implicit) = ImplicitBody
    BY DEF Analyzed
  <2>2. PICK q : q = ImplicitBody[i]
    OBVIOUS
  <2>3. /\ q.kind = IF Fields[i].optional THEN "optional" ELSE "attribute"
        /\ q.negated = FALSE
        /\ q.maybe = IF Fields[i].optional THEN {"is", "cause"} ELSE {}
        /\ q.terms = [the |-> Constant, of |-> "this", is |-> Fields[i].name, cause |-> Blank]
        /\ DOMAIN ImplicitBody = DOMAIN Fields
    BY <2>2 DEF ImplicitBody
  <2>4. DOMAIN Premises(Implicit) = DOMAIN Fields
    BY <2>1, <2>3, Narrowed
  <2>5. \/ p = q
        \/ /\ q.kind = "optional"
           /\ p = [kind |-> "attribute", terms |-> q.terms, negated |-> FALSE,
                   maybe |-> {}, cards |-> q.cards, cost |-> q.cost, yields |-> {}]
    BY <2>1, <2>2, <2>3, Narrowed
  <2> HIDE DEF p
  <2>6. CASE p = q
    BY <2>3, <2>4, <2>6
  <2>7. CASE /\ q.kind = "optional"
             /\ p = [kind |-> "attribute", terms |-> q.terms, negated |-> FALSE,
                     maybe |-> {}, cards |-> q.cards, cost |-> q.cost, yields |-> {}]
    BY <2>3, <2>4, <2>7
  <2> QED
    BY <2>5, <2>6, <2>7
<1>2. /\ Slots(p) = {"the", "of", "is", "cause"}
      /\ p.terms["the"] = Constant /\ p.terms["of"] = "this"
      /\ p.terms["is"] = Fields[i].name /\ p.terms["cause"] = Blank
  BY <1>1 DEF Slots
<1>3. "this" \notin {Constant, Blank} /\ Fields[i].name \notin {Constant, Blank}
  BY FieldsAssumption
<1> HIDE DEF p
<1>4. Provides(p) = {"this", Fields[i].name}
  BY <1>1, <1>2, <1>3 DEF Provides, Variables
<1>5. "this" \in Definite(p) /\ (~Fields[i].optional => Fields[i].name \in Definite(p))
  BY <1>1, <1>2, <1>3 DEF Definite
<1>6. ASSUME NEW env, ~Fields[i].optional PROVE Feasible(p, env)
  <2>1. \A s \in Slots(p) : Requirement(p, s) = "choice"
    BY <1>1, <1>2, <1>6 DEF Requirement, Schema, AttributeSchema
  <2>2. Satisfied(p, env)
    BY <1>2, <2>1 DEF Satisfied, IsBound
  <2>3. Lacking(p, env) = {}
    BY <2>1, <2>2 DEF Lacking, Open
  <2> QED
    BY <2>3, FeasibleLacks
<1>7. ASSUME NEW env, Fields[i].optional, "this" \in env PROVE Feasible(p, env)
  <2>1. \A s \in Slots(p) \ {"of"} : Requirement(p, s) = "choice"
    BY <1>1, <1>2 DEF Requirement, Schema, OptionalSchema, AttributeSchema
  <2>2. Satisfied(p, env)
    BY <1>2, <2>1 DEF Satisfied, IsBound
  <2>3. "of" \notin Open(p, env)
    BY <1>2, <1>7 DEF Open, IsBound
  <2>4. Lacking(p, env) = {}
    BY <2>1, <2>2, <2>3 DEF Lacking, Open
  <2> QED
    BY <2>4, FeasibleLacks
<1> QED
  BY <1>1, <1>4, <1>5, <1>6, <1>7 DEF p

\* The implicit rule can be planned wherever a part of its plan has led: once
\* every required attribute is scanned, `this` is bound.
LEMMA ImplicitContinues ==
    ASSUME NEW remaining, remaining # {}, remaining \subseteq DOMAIN Premises(Implicit),
           NEW env,
           \A i \in DOMAIN Premises(Implicit) \ remaining : Provides(Premises(Implicit)[i]) \subseteq env
    PROVE  Candidates(Premises(Implicit), remaining, env) # {}
<1>1. PICK i \in DOMAIN Fields : ~Fields[i].optional
  BY FieldsAssumption
<1>2. DOMAIN Premises(Implicit) = DOMAIN Fields
  BY ImplicitPremise
<1>3. CASE i \in remaining
  <2>1. Feasible(Premises(Implicit)[i], env)
    BY <1>1, ImplicitPremise
  <2> QED
    BY <1>3, <2>1 DEF Candidates
<1>4. CASE i \notin remaining
  <2>1. "this" \in env
    BY <1>2, <1>4, ImplicitPremise
  <2>2. PICK j : j \in remaining
    OBVIOUS
  <2>3. j \in DOMAIN Fields /\ Fields[j].optional \in BOOLEAN
    BY <1>2, <2>2, FieldsAssumption
  <2>4. Feasible(Premises(Implicit)[j], env)
    BY <2>1, <2>3, ImplicitPremise
  <2> QED
    BY <2>2, <2>4 DEF Candidates
<1> QED
  BY <1>3, <1>4

\* Every required operand is definite after some premise of the implicit rule.
LEMMA ImplicitDefinite ==
    \A v \in RequiredOperands : \E i \in DOMAIN Premises(Implicit) : v \in Definite(Premises(Implicit)[i])
<1> SUFFICES ASSUME NEW v \in RequiredOperands
             PROVE  \E i \in DOMAIN Premises(Implicit) : v \in Definite(Premises(Implicit)[i])
  OBVIOUS
<1>1. PICK i \in DOMAIN Fields : ~Fields[i].optional
  BY FieldsAssumption
<1>2. CASE v = "this"
  BY <1>1, <1>2, ImplicitPremise
<1>3. CASE \E f \in Range(Fields) : ~f.optional /\ v = f.name
  <2>1. PICK j \in DOMAIN Fields : ~Fields[j].optional /\ v = Fields[j].name
    BY <1>3 DEF Range
  <2> QED
    BY <2>1, ImplicitPremise
<1> QED
  BY <1>2, <1>3 DEF RequiredOperands

\* A required operand that the premises of a compiled rule bind is definite
\* after one of them: analyze lets none be absent.
LEMMA RequiredDefinite ==
    ASSUME NEW r, Compiles(r), NEW v \in RequiredOperands
    PROVE  \E i \in DOMAIN Premises(r) : v \in Definite(Premises(r)[i])
<1> DEFINE body == Analyzed(r)
           Uses(i) == {s \in Slots(body[i]) : ~body[i].negated /\ body[i].terms[s] = v}
<1>1. ~AdmitsNothing(v, body)
  BY DEF Compiles, Analyzes
<1>2. PICK i \in DOMAIN Premises(r) : v \in Provides(Premises(r)[i])
  BY DEF Compiles
<1>3. i \in DOMAIN body /\ ~body[i].negated /\ v \in Variables(body[i])
  <2>1. PICK p, q : p = Premises(r)[i] /\ q = body[i]
    OBVIOUS
  <2>2. ~p.negated /\ v \in Variables(p)
    BY <1>2, <2>1 DEF Provides
  <2>3. i \in DOMAIN body /\ (p = q \/ (q.negated = FALSE /\ p.terms = q.terms))
    BY <1>2, <2>1, NarrowedTerms
  <2>4. ~q.negated /\ v \in Variables(q)
    BY <2>2, <2>3 DEF Variables, Slots
  <2> QED
    BY <2>1, <2>3, <2>4
<1>4. Uses(i) # {} /\ v \notin {Constant, Blank}
  BY <1>3 DEF Variables
<1>5. PICK j \in DOMAIN body : ~(Uses(j) \subseteq body[j].maybe)
  BY <1>1, <1>3, <1>4 DEF AdmitsNothing
<1>6. PICK s \in Uses(j) : s \notin body[j].maybe
  BY <1>5
<1>7. j \in DOMAIN Premises(r) /\ v \in Definite(Premises(r)[j])
  <2>1. PICK p, q : p = Premises(r)[j] /\ q = body[j]
    OBVIOUS
  <2>2. s \in Slots(q) /\ ~q.negated /\ q.terms[s] = v /\ s \notin q.maybe
    BY <1>6, <2>1
  <2>3. /\ j \in DOMAIN Premises(r)
        /\ p = q \/ (p.negated = FALSE /\ p.terms = q.terms /\ p.maybe = {})
    BY <2>1, NarrowedTerms
  <2>4. v \in Definite(p)
    BY <1>4, <2>2, <2>3 DEF Definite, Slots
  <2> QED
    BY <2>1, <2>3, <2>4
<1> QED
  BY <1>7

\* A planner that is at work on a rule that compiled, or on the implicit one,
\* finds a feasible premise.
LEMMA PlanContinues ==
    ASSUME NEW S, \A r \in S : r # Implicit /\ Compiles(r), NEW r \in Rules(S),
           NEW remaining, remaining # {}, remaining \subseteq DOMAIN Premises(r), NEW env,
           \A i \in DOMAIN Premises(r) \ remaining : Provides(Premises(r)[i]) \subseteq env
    PROVE  Candidates(Premises(r), remaining, env) # {}
<1>1. CASE r = Implicit
  BY <1>1, ImplicitContinues
<1>2. CASE r \in S
  <2>1. PICK order : IsPlan(r, order) /\ FeasibleOrder(Premises(r), order, {})
    BY <1>2 DEF Compiles
  <2>2. order \in Seq(DOMAIN Premises(r)) /\ Len(order) \in Nat
    BY <2>1 DEF IsPlan
  <2>3. order \in [1..Len(order) -> DOMAIN Premises(r)]
    BY <2>2
  <2>4. \A k \in 1..Len(order) :
           Feasible(Premises(r)[order[k]], Provided(Premises(r), order, k - 1))
    <3>1. \A k : {} \cup Provided(Premises(r), order, k - 1) = Provided(Premises(r), order, k - 1)
      OBVIOUS
    <3> QED
      BY <2>1, <3>1 DEF FeasibleOrder
  <2>5. \A i \in remaining : \E k \in 1..Len(order) : order[k] = i
    BY <2>1 DEF IsPlan
  <2> QED
    BY <2>2, <2>3, <2>4, <2>5, OrderContinues
<1> QED
  BY <1>1, <1>2 DEF Rules

-----------------------------------------------------------------------------
(***************************************************************************)
(* The parts of a step that the actions share.                             *)
(***************************************************************************)
\* What a task is in stays so when rules are compiled and revisions made.
LEMMA TaskGrows ==
    ASSUME NEW x, NEW S, NEW T, S \subseteq T, NEW n \in Nat, NEW m \in Nat, n <= m,
           TaskState(x, S, n)
    PROVE  TaskState(x, T, m)
<1>1. Rules(S) \subseteq Rules(T)
  BY DEF Rules
<1>2. PlanState(x, S) => PlanState(x, T)
  BY <1>1 DEF PlanState
<1>3. RowState(x, S) => RowState(x, T)
  BY <1>1 DEF RowState
<1>4. x.head \in 0..n => x.head \in 0..m
  OBVIOUS
<1> QED
  BY <1>1, <1>2, <1>3, <1>4 DEF TaskState

\* What a query may see is no part of its plans.
LEMMA TaskObserves ==
    ASSUME NEW x, NEW S, NEW n, TaskState(x, S, n), NEW a, NEW e
    PROVE  TaskState([x EXCEPT !.always = a, !.ever = e], S, n)
<1> DEFINE y == [x EXCEPT !.always = a, !.ever = e]
<1>1. DOMAIN y = TaskFields
  BY DEF TaskState
<1>2. \A f \in TaskFields \ {"always", "ever"} : y[f] = x[f]
  BY DEF TaskState
<1> HIDE DEF y
<1>3. /\ y.pc = x.pc /\ y.caller = x.caller /\ y.row = x.row /\ y.overlay = x.overlay
      /\ y.head = x.head /\ y.found = x.found /\ y.rules = x.rules /\ y.todo = x.todo
      /\ y.forks = x.forks /\ y.rule = x.rule /\ y.remaining = x.remaining
      /\ y.bound = x.bound /\ y.steps = x.steps
  BY <1>2 DEF TaskFields
<1>4. ScopeOf(y) = ScopeOf(x)
  BY <1>3 DEF ScopeOf
<1>5. PlanState(x, S) => PlanState(y, S)
  BY <1>3, <1>4 DEF PlanState
<1>6. RowState(x, S) => RowState(y, S)
  BY <1>3 DEF RowState
<1>7. TaskState(y, S, n)
  BY <1>1, <1>3, <1>5, <1>6 DEF TaskState
<1> QED
  BY <1>7 DEF y

\* A task that does nothing.
LEMMA IdleTask ==
    ASSUME NEW S, NEW n \in Nat
    PROVE  TaskState(Idle, S, n)
<1>1. DOMAIN Idle = TaskFields
  BY DEF Idle, TaskFields
<1>2. /\ Idle.pc = "idle" /\ Idle.caller = None /\ Idle.overlay = {} /\ Idle.found = {}
      /\ Idle.rules = {} /\ Idle.todo = {} /\ Idle.head = 0 /\ Idle.forks = << >>
  BY DEF Idle
<1>3. DOMAIN Idle.forks = {}
  BY <1>2
<1> QED
  BY <1>1, <1>2, <1>3 DEF TaskState

\* A plan is a sequence of positions.
LEMMA PlanType ==
    ASSUME NEW r \in Rules(Rule), NEW steps, IsPlan(r, steps)
    PROVE  steps \in Seq(Nat)
<1>1. steps \in Seq(DOMAIN Premises(r)) /\ DOMAIN Premises(r) \subseteq Nat
  BY BodyTypes DEF IsPlan
<1> QED
  BY <1>1

\* A step of one task that leaves the branch and the rules alone is sound if
\* the task and the caches are.
LEMMA OneTask ==
    ASSUME Sound, NEW t \in Task, NEW x, task' = [task EXCEPT ![t] = x],
           TaskState(x, compiled, Len(revisions)),
           compiled' = compiled, revisions' = revisions, head' = head,
           revisited' = revisited,
           discovery' # None => /\ discovery'.head \in DOMAIN revisions
                                /\ discovery'.rules \subseteq compiled,
           bodies' \subseteq compiled,
           \A key \in DOMAIN plans' : key[1] \in compiled /\ IsPlan(key[1], plans'[key].steps)
    PROVE  Sound'
<1>1. \A u \in Task : task'[u] = IF u = t THEN x ELSE task[u]
  BY DEF Sound
<1>2. \A u \in Task : TaskState(task[u], compiled, Len(revisions))
  BY DEF Sound
<1>3. \A u \in Task : TaskState(task'[u], compiled', Len(revisions'))
  BY <1>1, <1>2
<1>4. \A u \in Task : task'[u].found \cup task'[u].rules \subseteq compiled'
  BY <1>3 DEF TaskState
<1>5. compiled \subseteq Rules(Rule)
  BY DEF Sound, TypeOK, Rules
<1>6. \A key \in DOMAIN plans' : plans'[key].steps \in Seq(Nat)
  BY <1>5, PlanType
<1>7. TypeOK'
  BY <1>4, <1>6 DEF Sound, TypeOK
<1>8. \A r \in compiled' : Compiles(r)
  BY DEF Sound
<1>9. DOMAIN task' = Task
  BY DEF Sound
<1> QED
  BY <1>3, <1>7, <1>8, <1>9 DEF Sound

\* The caches of a step that leaves them alone.
LEMMA CachesSound ==
    ASSUME Sound
    PROVE  /\ discovery # None => /\ discovery.head \in DOMAIN revisions
                                  /\ discovery.rules \subseteq compiled
           /\ bodies \subseteq compiled
           /\ \A key \in DOMAIN plans : key[1] \in compiled /\ IsPlan(key[1], plans[key].steps)
           /\ compiled \subseteq Rule /\ Implicit \notin compiled
           /\ Len(revisions) \in Nat /\ revisions \in Seq(SUBSET compiled)
           /\ head \in 0..Len(revisions) /\ Committed \subseteq compiled
<1>1. /\ discovery # None => /\ discovery.head \in DOMAIN revisions
                             /\ discovery.rules \subseteq compiled
      /\ bodies \subseteq compiled
      /\ compiled \subseteq Rule /\ revisions \in Seq(SUBSET compiled)
      /\ head \in 0..Len(revisions)
  BY DEF Sound, TypeOK
<1>2. \A key \in DOMAIN plans : key[1] \in compiled /\ IsPlan(key[1], plans[key].steps)
  BY DEF Sound, TypeOK
<1>3. Len(revisions) \in Nat
  BY <1>1
<1>4. Implicit \notin compiled
  BY <1>1, RuleAssumption
<1>5. Committed \subseteq compiled
  BY <1>1, <1>3 DEF Committed
<1> QED
  BY <1>1, <1>2, <1>3, <1>4, <1>5

-----------------------------------------------------------------------------
(***************************************************************************)
(* The planner and the evaluation at work.                                 *)
(***************************************************************************)
\* A planner that has not ordered anything yet.
LEMMA PlanStart ==
    ASSUME NEW x, NEW S, x.rule \in IF x.caller = None THEN Rule ELSE Rules(S),
           x.caller = None => Analyzes(RequiredOperands, Analyzed(x.rule)),
           x.steps = << >>, x.remaining = DOMAIN Premises(x.rule), x.bound = ScopeOf(x)
    PROVE  PlanState(x, S)
<1>1. << >> \in Seq(DOMAIN Premises(x.rule)) /\ Len(<< >>) = 0
  OBVIOUS
<1>2. 1..Len(x.steps) = {}
  BY <1>1
<1>3. Provided(Premises(x.rule), x.steps, Len(x.steps)) = {}
  BY <1>2 DEF Provided
<1>4. FeasibleOrder(Premises(x.rule), x.steps, ScopeOf(x))
  BY <1>2 DEF FeasibleOrder
<1>5. x.remaining = {i \in DOMAIN Premises(x.rule) : \A k \in 1..Len(x.steps) : x.steps[k] # i}
  BY <1>2
<1> QED
  BY <1>1, <1>3, <1>4, <1>5 DEF PlanState

\* A round of the planner: the order grows by a premise that is feasible.
LEMMA PlanRound ==
    ASSUME NEW x, NEW S, PlanState(x, S), NEW y,
           NEW i \in Candidates(Premises(x.rule), x.remaining, x.bound),
           y.rule = x.rule, y.caller = x.caller, y.row = x.row,
           y.remaining = x.remaining \ {i}, y.steps = Append(x.steps, i),
           y.bound = x.bound \cup Binds(Premises(x.rule)[i], x.bound)
    PROVE  PlanState(y, S)
<1> DEFINE body == Premises(x.rule)
           n == Len(x.steps)
           scope == ScopeOf(x)
<1>1. /\ x.steps \in Seq(DOMAIN body) /\ i \in DOMAIN body /\ Feasible(body[i], x.bound)
      /\ x.bound = scope \cup Provided(body, x.steps, n)
      /\ FeasibleOrder(body, x.steps, scope)
      /\ x.remaining = {j \in DOMAIN body : \A k \in 1..n : x.steps[k] # j}
  BY DEF PlanState, Candidates
<1>2. ScopeOf(y) = scope
  BY DEF ScopeOf
<1> HIDE DEF body, scope
<1>3. /\ Append(x.steps, i) \in Seq(DOMAIN body) /\ n \in Nat
      /\ Len(Append(x.steps, i)) = n + 1
      /\ \A j \in 1..n : Append(x.steps, i)[j] = x.steps[j]
      /\ Append(x.steps, i)[n + 1] = i
  BY <1>1, AppendProperties
<1>4. x.bound \cup Binds(body[i], x.bound) = x.bound \cup Provides(body[i])
  BY <1>1, BindsProvides
<1>5. Provided(body, Append(x.steps, i), n + 1) = Provided(body, x.steps, n) \cup Provides(body[i])
  <2>1. x.steps \in Seq(DOMAIN body) /\ i \in DOMAIN body
    BY <1>1
  <2>2. ASSUME NEW D, NEW steps \in Seq(D), NEW j \in D
        PROVE  Provided(body, Append(steps, j), Len(steps) + 1)
                  = Provided(body, steps, Len(steps)) \cup Provides(body[j])
    BY ProvidedAppend
  <2> QED
    BY <2>1, <2>2
<1>6. FeasibleOrder(body, Append(x.steps, i), scope)
  <2>1. Feasible(body[i], scope \cup Provided(body, x.steps, n))
    BY <1>1
  <2> QED
    BY <1>1, <2>1, OrderAppend
<1> DEFINE longer == Append(x.steps, i)
<1> HIDE DEF n, longer
<1>7. y.remaining = {j \in DOMAIN body : \A k \in 1..Len(longer) : longer[k] # j}
  <2>1. 1..(n + 1) = 1..n \cup {n + 1}
    BY <1>3
  <2> QED
    BY <1>1, <1>3, <2>1 DEF longer
<1>8. y.bound = scope \cup Provided(body, longer, Len(longer))
  BY <1>1, <1>3, <1>4, <1>5 DEF longer, body
<1>9. /\ y.rule \in IF y.caller = None THEN Rule ELSE Rules(S)
      /\ y.caller = None => Analyzes(RequiredOperands, Analyzed(y.rule))
  BY DEF PlanState
<1>10. y.steps = longer /\ longer \in Seq(DOMAIN body) /\ FeasibleOrder(body, longer, scope)
  BY <1>3, <1>6 DEF longer
<1>11. Premises(y.rule) = body
  BY DEF body
<1> QED
  BY <1>2, <1>7, <1>8, <1>9, <1>10, <1>11 DEF PlanState

\* An order of all of the premises is a plan.
LEMMA PlanComplete ==
    ASSUME NEW x, NEW S, PlanState(x, S), x.remaining = {}
    PROVE  IsPlan(x.rule, x.steps)
  BY DEF PlanState, IsPlan

\* A rule whose compilation ends in a grounded conclusion compiles.
LEMMA GroundedCompiles ==
    ASSUME NEW x, NEW S, PlanState(x, S), x.remaining = {}, x.caller = None,
           Grounded(x.bound)
    PROVE  Compiles(x.rule)
<1> DEFINE body == Premises(x.rule)
<1>1. /\ x.steps \in Seq(DOMAIN body)
      /\ x.bound = {} \cup Provided(body, x.steps, Len(x.steps))
      /\ FeasibleOrder(body, x.steps, {})
      /\ Analyzes(RequiredOperands, Analyzed(x.rule))
  BY DEF PlanState, ScopeOf
<1>2. ASSUME NEW v \in RequiredOperands PROVE \E i \in DOMAIN body : v \in Provides(body[i])
  <2>1. v \in Provided(body, x.steps, Len(x.steps))
    BY <1>1 DEF Grounded
  <2>2. PICK j \in 1..Len(x.steps) : v \in Provides(body[x.steps[j]])
    BY <2>1 DEF Provided
  <2>3. x.steps[j] \in DOMAIN body
    BY <1>1
  <2> QED
    BY <2>2, <2>3
<1>3. IsPlan(x.rule, x.steps)
  BY PlanComplete
<1> QED
  BY <1>1, <1>2, <1>3 DEF Compiles

\* A row at the beginning of a plan.
LEMMA RowStart ==
    ASSUME NEW x, NEW S, x.rule \in Rules(S), IsPlan(x.rule, x.steps), Blank \notin x.bound
    PROVE  RowState(x, S)
  BY DEF RowState, IsPlan

\* A step of a plan: what it binds for sure is bound afterwards.
LEMMA RowStep ==
    ASSUME NEW x, NEW S, S \subseteq Rule, RowState(x, S), x.steps # << >>, NEW y,
           y.rule = x.rule, y.steps = Tail(x.steps),
           y.bound \in Extensions(Premises(x.rule)[Head(x.steps)], x.bound)
    PROVE  RowState(y, S)
<1> DEFINE body == Premises(x.rule)
<1>1. /\ x.steps \in Seq(DOMAIN body) /\ x.rule \in Rules(S) /\ x.rule \in Rules(Rule)
      /\ \A i \in DOMAIN body : \/ \E k \in 1..Len(x.steps) : x.steps[k] = i
                                \/ Definite(body[i]) \subseteq x.bound
      /\ Blank \notin x.bound
  BY DEF RowState, Rules
<1>2. /\ Len(x.steps) \in Nat \ {0} /\ Tail(x.steps) \in Seq(DOMAIN body)
      /\ Len(Tail(x.steps)) = Len(x.steps) - 1
      /\ \A j \in 1..Len(Tail(x.steps)) : Tail(x.steps)[j] = x.steps[j + 1]
  BY <1>1, HeadTailProperties, EmptySeq
<1>3. Head(x.steps) = x.steps[1] /\ x.steps[1] \in DOMAIN body
  BY <1>1, <1>2
<1>4. IsPremise(body[x.steps[1]])
  BY <1>1, <1>3, BodyTypes
<1>5. y.bound \in Extensions(body[x.steps[1]], x.bound)
  BY <1>3
<1>6. /\ x.bound \subseteq y.bound /\ Definite(body[x.steps[1]]) \subseteq y.bound
      /\ Blank \notin y.bound
  BY <1>1, <1>4, <1>5, ExtensionsBind
<1> DEFINE rest == Tail(x.steps)
<1> HIDE DEF rest, body
<1>7. ASSUME NEW i \in DOMAIN body
      PROVE  \/ \E k \in 1..Len(rest) : rest[k] = i
             \/ Definite(body[i]) \subseteq y.bound
  <2>1. CASE Definite(body[i]) \subseteq x.bound
    BY <1>6, <2>1
  <2>2. CASE \E k \in 1..Len(x.steps) : x.steps[k] = i
    <3>1. PICK k \in 1..Len(x.steps) : x.steps[k] = i
      BY <2>2
    <3>2. CASE k = 1
      BY <1>6, <3>1, <3>2
    <3>3. CASE k # 1
      <4>1. k - 1 \in 1..Len(rest) /\ (k - 1) + 1 = k
        BY <1>2, <3>3 DEF rest
      <4>2. rest[k - 1] = i
        BY <1>2, <3>1, <4>1 DEF rest
      <4> QED
        BY <4>1, <4>2
    <3> QED
      BY <3>2, <3>3
  <2> QED
    BY <1>1, <2>1, <2>2
<1>8. Premises(y.rule) = body /\ y.steps = rest /\ rest \in Seq(DOMAIN body) /\ y.rule \in Rules(S)
  BY <1>1, <1>2 DEF body, rest
<1> QED
  BY <1>6, <1>7, <1>8 DEF RowState

-----------------------------------------------------------------------------
(***************************************************************************)
(* Each action preserves the invariant of plans.                           *)
(***************************************************************************)
\* A step that changes nothing but a task.
LEMMA QuietTask ==
    ASSUME Sound, NEW t \in Task, NEW x, task' = [task EXCEPT ![t] = x],
           TaskState(x, compiled, Len(revisions)),
           UNCHANGED <<compiled, branchVars, cacheVars>>
    PROVE  Sound'
<1>1. /\ compiled' = compiled /\ revisions' = revisions /\ head' = head
      /\ revisited' = revisited /\ discovery' = discovery /\ bodies' = bodies
      /\ plans' = plans
  BY DEF branchVars, cacheVars
<1> QED
  BY <1>1, OneTask, CachesSound

\* A task that stops: refused, failed or finished.
LEMMA StopSound ==
    ASSUME Sound, NEW t \in Task, task' = [task EXCEPT ![t] = Idle],
           UNCHANGED <<compiled, branchVars, cacheVars>>
    PROVE  Sound'
<1>1. TaskState(Idle, compiled, Len(revisions))
  BY IdleTask, CachesSound
<1>2. PICK x : x = Idle
  OBVIOUS
<1> QED
  BY <1>1, <1>2, QuietTask

\* A compilation begins with the rule's body and the empty scope.
LEMMA CompileSound ==
    ASSUME Sound, NEW t \in Task, NEW r \in Rule, Compile(t, r)
    PROVE  Sound'
<1> DEFINE x == [Idle EXCEPT !.pc = "plan", !.rule = r,
                    !.remaining = DOMAIN Premises(r), !.bound = CompileScope]
<1>1. /\ task' = [task EXCEPT ![t] = x]
      /\ Analyzes(RequiredOperands, Analyzed(r))
      /\ UNCHANGED <<compiled, branchVars, cacheVars>>
  BY DEF Compile
<1>2. /\ DOMAIN x = TaskFields
      /\ x.pc = "plan" /\ x.caller = None /\ x.overlay = {} /\ x.found = {} /\ x.rules = {}
      /\ x.todo = {} /\ x.head = 0 /\ x.forks = << >> /\ x.rule = r
      /\ x.remaining = DOMAIN Premises(r) /\ x.bound = {} /\ x.steps = << >>
  BY DEF Idle, TaskFields, CompileScope
<1> HIDE DEF x
<1>3. PlanState(x, compiled)
  <2>1. ScopeOf(x) = {}
    BY <1>2 DEF ScopeOf
  <2> QED
    BY <1>1, <1>2, <2>1, PlanStart
<1>4. DOMAIN x.forks = {} /\ Len(revisions) \in Nat
  BY <1>2, CachesSound
<1>5. TaskState(x, compiled, Len(revisions))
  BY <1>2, <1>3, <1>4 DEF TaskState
<1> QED
  BY <1>1, <1>5, QuietTask

\* What compile accepts has an order and binds the conclusion's operands.
LEMMA AcceptSound ==
    ASSUME Sound, NEW t \in Task, Accept(t)
    PROVE  Sound'
<1> DEFINE x == task[t]
<1>1. /\ x.pc = "plan" /\ x.caller = None /\ x.remaining = {}
      /\ compiled' = (IF Grounded(x.bound) THEN compiled \cup {x.rule} ELSE compiled)
      /\ task' = [task EXCEPT ![t] = Idle]
      /\ UNCHANGED <<revisions, head, revisited, queries, discovery, bodies, plans>>
  BY DEF Accept, Compiling, branchVars, cacheVars
<1>2. PlanState(x, compiled) /\ x.rule \in Rule
  BY <1>1 DEF Sound, TaskState, PlanState
<1>3. Grounded(x.bound) => Compiles(x.rule)
  BY <1>1, <1>2, GroundedCompiles
<1> HIDE DEF x
<1>4. compiled \subseteq compiled' /\ compiled' \subseteq Rule
  BY <1>1, <1>2, CachesSound
<1>5. \A r \in compiled' : Compiles(r)
  BY <1>1, <1>3 DEF Sound
<1>6. /\ discovery # None => /\ discovery.head \in DOMAIN revisions
                             /\ discovery.rules \subseteq compiled'
      /\ bodies \subseteq compiled'
      /\ \A key \in DOMAIN plans : key[1] \in compiled'
      /\ Len(revisions) \in Nat
  BY <1>4, CachesSound
<1>7. revisions \in Seq(SUBSET compiled')
  <2>1. SUBSET compiled \subseteq SUBSET compiled'
    BY <1>4
  <2> QED
    BY <2>1, CachesSound
<1>8. \A u \in Task : TaskState(task'[u], compiled', Len(revisions))
  <2> SUFFICES ASSUME NEW u \in Task PROVE TaskState(task'[u], compiled', Len(revisions))
    OBVIOUS
  <2>1. CASE u = t
    BY <1>1, <1>6, <2>1, IdleTask DEF Sound
  <2>2. CASE u # t
    <3>1. task'[u] = task[u] /\ TaskState(task[u], compiled, Len(revisions))
      BY <1>1, <2>2 DEF Sound
    <3> QED
      BY <1>4, <1>6, <3>1, TaskGrows
  <2> QED
    BY <2>1, <2>2
<1>9. \A u \in Task : task'[u].found \cup task'[u].rules \subseteq compiled'
  BY <1>8 DEF TaskState
<1>10. TypeOK'
  BY <1>1, <1>4, <1>6, <1>7, <1>9 DEF Sound, TypeOK
<1>11. DOMAIN task' = Task /\ \A key \in DOMAIN plans' : IsPlan(key[1], plans'[key].steps)
  BY <1>1 DEF Sound
<1> QED
  BY <1>1, <1>5, <1>8, <1>10, <1>11 DEF Sound

\* A round of the planner appends a feasible premise to the order.
LEMMA OrderSound ==
    ASSUME Sound, NEW t \in Task, Order(t)
    PROVE  Sound'
<1> DEFINE x == task[t]
           body == Premises(x.rule)
           i == Cheapest(body, x.remaining, x.bound)
           y == [x EXCEPT !.remaining = @ \ {i}, !.steps = Append(@, i),
                          !.bound = @ \cup Binds(body[i], @)]
<1>1. /\ x.pc = "plan" /\ Candidates(body, x.remaining, x.bound) # {}
      /\ UNCHANGED <<compiled, branchVars, cacheVars>>
      /\ TaskState(x, compiled, Len(revisions))
  BY DEF Order, Sound
<1>2. task' = [task EXCEPT ![t] = y]
  <2>1. DOMAIN task = Task /\ DOMAIN x = TaskFields
    BY <1>1 DEF Sound, TaskState
  <2>2. task' = [task EXCEPT ![t].remaining = @ \ {i}, ![t].steps = Append(@, i),
                             ![t].bound = @ \cup Binds(body[i], @)]
    BY DEF Order
  <2> HIDE DEF i, body
  <2> QED
    BY <2>1, <2>2 DEF TaskFields
<1>3. PlanState(x, compiled) /\ DOMAIN x = TaskFields /\ compiled \subseteq Rule
  BY <1>1, CachesSound DEF TaskState
<1>4. i \in Candidates(body, x.remaining, x.bound)
  <2>1. x.rule \in Rules(Rule) /\ x.remaining \subseteq DOMAIN body
    BY <1>3 DEF PlanState, Rules
  <2>2. DOMAIN body \subseteq Nat /\ \A j \in DOMAIN body : IsPremise(body[j])
    BY <2>1, BodyTypes
  <2> HIDE DEF body
  <2> QED
    BY <1>1, <2>1, <2>2, CheapestFeasible
<1> HIDE DEF i
<1>5. /\ DOMAIN y = TaskFields
      /\ y.remaining = x.remaining \ {i} /\ y.steps = Append(x.steps, i)
      /\ y.bound = x.bound \cup Binds(body[i], x.bound)
      /\ y.pc = x.pc /\ y.caller = x.caller /\ y.row = x.row /\ y.overlay = x.overlay
      /\ y.head = x.head /\ y.found = x.found /\ y.rules = x.rules /\ y.todo = x.todo
      /\ y.forks = x.forks /\ y.rule = x.rule
  BY <1>3 DEF TaskFields
<1> HIDE DEF y, x
<1>6. PlanState(y, compiled)
  BY <1>3, <1>4, <1>5, PlanRound
<1>7. TaskState(y, compiled, Len(revisions))
  BY <1>1, <1>5, <1>6 DEF TaskState
<1> QED
  BY <1>1, <1>2, <1>7, QuietTask

\* The tasks of a step that moves the branch.
LEMMA ObservedTasks ==
    ASSUME Sound, NEW rules, task' = Observed(rules)
    PROVE  /\ DOMAIN task' = Task
           /\ \A t \in Task : TaskState(task'[t], compiled, Len(revisions))
<1>1. DOMAIN task' = Task
  BY DEF Observed
<1>2. ASSUME NEW t \in Task PROVE TaskState(task'[t], compiled, Len(revisions))
  <2>1. TaskState(task[t], compiled, Len(revisions))
    BY DEF Sound
  <2>2. CASE task[t].caller = None
    BY <2>1, <2>2 DEF Observed
  <2>3. CASE task[t].caller # None
    <3>1. task'[t] = [task[t] EXCEPT !.always = @ \cap rules, !.ever = @ \cup rules]
      BY <2>3 DEF Observed
    <3>2. PICK a, e : a = task[t].always \cap rules /\ e = task[t].ever \cup rules
      OBVIOUS
    <3>3. task'[t] = [task[t] EXCEPT !.always = a, !.ever = e]
      BY <2>1, <3>1, <3>2 DEF TaskState, TaskFields
    <3>4. PICK x : x = task[t]
      OBVIOUS
    <3>5. TaskState([x EXCEPT !.always = a, !.ever = e], compiled, Len(revisions))
      BY <2>1, <3>4, TaskObserves
    <3> QED
      BY <3>3, <3>4, <3>5
  <2> QED
    BY <2>2, <2>3
<1> QED
  BY <1>1, <1>2

\* A commit or a retraction leaves compiled rules in the new revision.
LEMMA CommitSound ==
    ASSUME Sound, NEW rules \in SUBSET compiled, Commit(rules)
    PROVE  Sound'
<1> DEFINE n == Len(revisions)
<1>1. /\ revisions' = Append(revisions, rules) /\ head' = Len(revisions')
      /\ task' = Observed(rules) /\ compiled' = compiled /\ revisited' = revisited
      /\ discovery' = discovery /\ bodies' = bodies /\ plans' = plans
  BY DEF Commit, cacheVars
<1>2. revisions \in Seq(SUBSET compiled) /\ n \in Nat
  BY CachesSound
<1>3. revisions' \in Seq(SUBSET compiled) /\ Len(revisions') = n + 1
  BY <1>1, <1>2, AppendProperties
<1>4. DOMAIN revisions \subseteq DOMAIN revisions'
  BY <1>2, <1>3
<1>5. head' \in 0..Len(revisions')
  BY <1>1, <1>2, <1>3
<1>6. DOMAIN task' = Task /\ \A t \in Task : TaskState(task'[t], compiled, n)
  BY <1>1, ObservedTasks
<1> HIDE DEF n
<1>7. \A t \in Task : TaskState(task'[t], compiled', Len(revisions'))
  <2> SUFFICES ASSUME NEW t \in Task PROVE TaskState(task'[t], compiled', Len(revisions'))
    OBVIOUS
  <2>1. n <= Len(revisions') /\ Len(revisions') \in Nat /\ n \in Nat
    BY <1>2, <1>3
  <2>2. TaskState(task'[t], compiled, n) /\ compiled' = compiled
    BY <1>1, <1>6
  <2>3. PICK x : x = task'[t]
    OBVIOUS
  <2> QED
    BY <2>1, <2>2, <2>3, TaskGrows
<1>8. \A t \in Task : task'[t].found \cup task'[t].rules \subseteq compiled'
  BY <1>7 DEF TaskState
<1>9. TypeOK'
  BY <1>1, <1>3, <1>4, <1>5, <1>8 DEF Sound, TypeOK
<1> QED
  BY <1>1, <1>6, <1>7, <1>9 DEF Sound

\* A reset moves the head among the revisions.
LEMMA ResetSound ==
    ASSUME Sound, NEW revision \in DOMAIN revisions, Reset(revision)
    PROVE  Sound'
<1>1. /\ head' = revision /\ revisited' = revisited \cup {revision}
      /\ task' = Observed(revisions[revision]) /\ compiled' = compiled
      /\ revisions' = revisions /\ discovery' = discovery /\ bodies' = bodies
      /\ plans' = plans
  BY DEF Reset, cacheVars
<1>2. revision \in 0..Len(revisions)
  BY CachesSound
<1>3. PICK rules : rules = revisions[revision]
  OBVIOUS
<1>4. DOMAIN task' = Task /\ \A t \in Task : TaskState(task'[t], compiled, Len(revisions))
  BY <1>1, <1>3, ObservedTasks
<1>5. \A t \in Task : task'[t].found \cup task'[t].rules \subseteq compiled
  BY <1>4 DEF TaskState
<1>6. TypeOK'
  BY <1>1, <1>2, <1>5 DEF Sound, TypeOK
<1> QED
  BY <1>1, <1>4, <1>6 DEF Sound

\* A query begins with the rules cached for the head, or with none.
LEMMA BeginSound ==
    ASSUME Sound, NEW t \in Task, NEW caller \in Caller, NEW row, NEW overlay \in SUBSET compiled,
           Begin(t, caller, row, overlay)
    PROVE  Sound'
<1> DEFINE x == [Idle EXCEPT !.pc = IF Discovered THEN "hydrate" ELSE "scan",
                         !.caller = caller, !.row = row, !.overlay = overlay,
                         !.head = head,
                         !.found = IF Discovered THEN discovery.rules ELSE {},
                         !.always = Committed, !.ever = Committed]
<1>1. /\ task' = [task EXCEPT ![t] = x]
      /\ UNCHANGED <<compiled, revisions, head, revisited, discovery, bodies, plans>>
  BY DEF Begin, cacheVars
<1>2. /\ DOMAIN x = TaskFields /\ x.pc \in {"hydrate", "scan"} /\ x.caller = caller
      /\ x.overlay = overlay /\ x.head = head
      /\ x.found = (IF Discovered THEN discovery.rules ELSE {})
      /\ x.rules = {} /\ x.todo = {} /\ x.forks = << >>
  BY DEF Idle, TaskFields
<1>3. PICK y : y = x
  OBVIOUS
<1> HIDE DEF x
<1>4. caller # None /\ x.found \subseteq compiled /\ head \in 0..Len(revisions)
  BY <1>2, RuleAssumption, CachesSound DEF Discovered
<1>5. DOMAIN x.forks = {}
  BY <1>2
<1>6. TaskState(y, compiled, Len(revisions))
  BY <1>2, <1>3, <1>4, <1>5 DEF TaskState
<1> QED
  BY <1>1, <1>3, <1>6, OneTask, CachesSound

\* A scan finds rules that were committed.
LEMMA ScanSound ==
    ASSUME Sound, NEW t \in Task, Scan(t)
    PROVE  Sound'
<1> DEFINE x == task[t]
<1>1. PICK y : y = [x EXCEPT !.pc = "record", !.found = Committed]
  OBVIOUS
<1>2. /\ x.pc = "scan" /\ TaskState(x, compiled, Len(revisions)) /\ DOMAIN task = Task
      /\ UNCHANGED <<compiled, branchVars, cacheVars>>
  BY DEF Scan, Sound
<1>3. task' = [task EXCEPT ![t] = y]
  BY <1>1, <1>2 DEF Scan, TaskState, TaskFields
<1>4. /\ DOMAIN y = TaskFields /\ y.pc = "record" /\ y.found = Committed
      /\ y.caller = x.caller /\ y.overlay = x.overlay /\ y.head = x.head
      /\ y.rules = x.rules /\ y.todo = x.todo /\ y.forks = x.forks
  BY <1>1, <1>2 DEF TaskState, TaskFields
<1> HIDE DEF x
<1>5. TaskState(y, compiled, Len(revisions))
  BY <1>2, <1>4, CachesSound DEF TaskState
<1> QED
  BY <1>2, <1>3, <1>5, QuietTask

\* The cache of discoveries records what a scan found.
LEMMA RecordSound ==
    ASSUME Sound, NEW t \in Task, RecordDiscovery(t)
    PROVE  Sound'
<1> DEFINE x == task[t]
<1>1. PICK y : y = [x EXCEPT !.pc = "hydrate"]
  OBVIOUS
<1>2. /\ x.pc = "record" /\ TaskState(x, compiled, Len(revisions)) /\ DOMAIN task = Task
      /\ discovery' = (IF x.head = 0 THEN discovery ELSE [head |-> x.head, rules |-> x.found])
      /\ UNCHANGED <<compiled, revisions, head, revisited, bodies, plans>>
  BY DEF RecordDiscovery, Sound, branchVars
<1>3. task' = [task EXCEPT ![t] = y]
  BY <1>1, <1>2 DEF RecordDiscovery, TaskState, TaskFields
<1>4. /\ DOMAIN y = TaskFields /\ y.pc = "hydrate" /\ y.found = x.found
      /\ y.caller = x.caller /\ y.overlay = x.overlay /\ y.head = x.head
      /\ y.rules = x.rules /\ y.todo = x.todo /\ y.forks = x.forks
  BY <1>1, <1>2 DEF TaskState, TaskFields
<1> HIDE DEF x
<1>5. TaskState(y, compiled, Len(revisions))
  BY <1>2, <1>4 DEF TaskState
<1>6. discovery' # None => /\ discovery'.head \in DOMAIN revisions
                           /\ discovery'.rules \subseteq compiled
  <2>1. x.head \in 0..Len(revisions) /\ x.found \subseteq compiled
    BY <1>2 DEF TaskState
  <2>2. x.head # 0 => x.head \in DOMAIN revisions
    BY <2>1, CachesSound
  <2>3. CASE x.head = 0
    BY <1>2, <2>3, CachesSound
  <2>4. CASE x.head # 0
    <3>1. discovery'.head = x.head /\ discovery'.rules = x.found
      BY <1>2, <2>4
    <3> QED
      BY <2>1, <2>2, <2>4, <3>1
  <2> QED
    BY <2>3, <2>4
<1> QED
  BY <1>2, <1>3, <1>5, <1>6, OneTask, CachesSound

\* A hydrated body is a committed rule's.
LEMMA HydrateSound ==
    ASSUME Sound, NEW t \in Task, NEW r, Hydrate(t, r)
    PROVE  Sound'
<1> DEFINE x == task[t]
           hydrated == bodies \cup ({r} \cap Committed)
<1>1. PICK y : y = [x EXCEPT !.found = @ \ {r}, !.rules = @ \cup ({r} \cap hydrated)]
  OBVIOUS
<1>2. /\ x.pc = "hydrate" /\ TaskState(x, compiled, Len(revisions)) /\ DOMAIN task = Task
      /\ bodies' = hydrated
      /\ UNCHANGED <<compiled, revisions, head, revisited, discovery, plans>>
  BY DEF Hydrate, Sound, branchVars
<1>3. task' = [task EXCEPT ![t] = y]
  BY <1>1, <1>2 DEF Hydrate, TaskState, TaskFields
<1>4. /\ DOMAIN y = TaskFields /\ y.pc = "hydrate" /\ y.found = x.found \ {r}
      /\ y.caller = x.caller /\ y.overlay = x.overlay /\ y.head = x.head
      /\ y.rules = x.rules \cup ({r} \cap hydrated) /\ y.todo = x.todo /\ y.forks = x.forks
  BY <1>1, <1>2 DEF TaskState, TaskFields
<1>5. hydrated \subseteq compiled
  BY CachesSound
<1> HIDE DEF x, hydrated
<1>6. TaskState(y, compiled, Len(revisions))
  BY <1>2, <1>4, <1>5 DEF TaskState
<1> QED
  BY <1>2, <1>3, <1>5, <1>6, OneTask, CachesSound

\* The rules of a query are its discovered ones and its overlay's.
LEMMA AssembleSound ==
    ASSUME Sound, NEW t \in Task, Assemble(t)
    PROVE  Sound'
<1> DEFINE x == task[t]
           rules == x.rules \cup x.overlay
<1>1. PICK y : y = [x EXCEPT !.pc = "lookup", !.rules = rules, !.todo = rules \cup {Implicit}]
  OBVIOUS
<1>2. /\ x.pc = "hydrate" /\ TaskState(x, compiled, Len(revisions)) /\ DOMAIN task = Task
      /\ UNCHANGED <<compiled, branchVars, cacheVars>>
  BY DEF Assemble, Sound
<1>3. task' = [task EXCEPT ![t] = y]
  BY <1>1, <1>2 DEF Assemble, Assembled, TaskState, TaskFields
<1>4. /\ DOMAIN y = TaskFields /\ y.pc = "lookup" /\ y.found = x.found
      /\ y.caller = x.caller /\ y.overlay = x.overlay /\ y.head = x.head
      /\ y.rules = rules /\ y.todo = rules \cup {Implicit} /\ y.forks = x.forks
  BY <1>1, <1>2 DEF TaskState, TaskFields
<1> HIDE DEF x
<1>5. TaskState(y, compiled, Len(revisions))
  BY <1>2, <1>4 DEF TaskState, Rules
<1> QED
  BY <1>2, <1>3, <1>5, QuietTask

\* Forks and cached plans that gain an entry.
LEMMA PutForks ==
    ASSUME NEW S, NEW f, \A r \in DOMAIN f : r \in S /\ IsPlan(r, f[r].steps),
           NEW key \in S, NEW value, IsPlan(key, value.steps)
    PROVE  \A r \in DOMAIN Put(f, key, value) : r \in S /\ IsPlan(r, Put(f, key, value)[r].steps)
<1> SUFFICES ASSUME NEW r \in DOMAIN Put(f, key, value)
             PROVE  r \in S /\ IsPlan(r, Put(f, key, value)[r].steps)
  OBVIOUS
<1>1. CASE r = key
  <2>1. Put(f, key, value)[r] = value
    BY <1>1 DEF Put
  <2> QED
    BY <1>1, <2>1
<1>2. CASE r # key
  <2>1. r \in DOMAIN f /\ Put(f, key, value)[r] = f[r]
    BY <1>2 DEF Put
  <2> QED
    BY <2>1
<1> QED
  BY <1>1, <1>2

\* A plan added to the cache leaves the others.
LEMMA PutPlans ==
    ASSUME NEW S, NEW f, \A k \in DOMAIN f : k[1] \in S /\ IsPlan(k[1], f[k].steps),
           NEW key, key[1] \in S, NEW value, IsPlan(key[1], value.steps)
    PROVE  \A k \in DOMAIN Put(f, key, value) : k[1] \in S /\ IsPlan(k[1], Put(f, key, value)[k].steps)
<1> SUFFICES ASSUME NEW k \in DOMAIN Put(f, key, value)
             PROVE  k[1] \in S /\ IsPlan(k[1], Put(f, key, value)[k].steps)
  OBVIOUS
<1>1. CASE k = key
  <2>1. Put(f, key, value)[k] = value
    BY <1>1 DEF Put
  <2> QED
    BY <1>1, <2>1
<1>2. CASE k # key
  <2>1. k \in DOMAIN f /\ Put(f, key, value)[k] = f[k]
    BY <1>2 DEF Put
  <2> QED
    BY <2>1
<1> QED
  BY <1>1, <1>2

\* A rule is looked up in the plan cache: a hit is a plan of that rule, a miss
\* starts the planner on it.
LEMMA LookupSound ==
    ASSUME Sound, NEW t \in Task, NEW r, Lookup(t, r)
    PROVE  Sound'
<1> DEFINE x == task[t]
           key == <<r, Adornment(t)>>
<1>1. /\ x.pc = "lookup" /\ r \in x.todo /\ DOMAIN task = Task
      /\ TaskState(x, compiled, Len(revisions))
      /\ UNCHANGED <<compiled, branchVars, cacheVars>>
  BY DEF Lookup, Sound
<1>2. /\ DOMAIN x = TaskFields /\ x.caller # None /\ x.caller \in Caller
      /\ r \in Rules(compiled) /\ key[1] = r
  BY <1>1 DEF TaskState
<1>3. CASE key \in DOMAIN plans
  <2>1. PICK p : p = plans[key]
    OBVIOUS
  <2>2. IsPlan(r, p.steps)
    BY <1>2, <1>3, <2>1, CachesSound
  <2>3. PICK y : y = [x EXCEPT !.todo = @ \ {r}, !.forks = Put(@, r, p)]
    OBVIOUS
  <2>4. task' = [task EXCEPT ![t] = y]
    <3>1. task' = [task EXCEPT ![t].todo = @ \ {r}, ![t].forks = Put(@, r, plans[key])]
      BY <1>3 DEF Lookup
    <3> HIDE DEF key
    <3> QED
      BY <1>1, <1>2, <2>1, <2>3, <3>1 DEF TaskFields
  <2>5. /\ DOMAIN y = TaskFields /\ y.pc = x.pc /\ y.found = x.found
        /\ y.caller = x.caller /\ y.overlay = x.overlay /\ y.head = x.head
        /\ y.rules = x.rules /\ y.todo = x.todo \ {r} /\ y.forks = Put(x.forks, r, p)
    BY <1>2, <2>3 DEF TaskFields
  <2> HIDE DEF x
  <2>6. \A s \in DOMAIN y.forks : s \in Rules(compiled) /\ IsPlan(s, y.forks[s].steps)
    <3>1. PICK f, S : f = x.forks /\ S = Rules(compiled)
      OBVIOUS
    <3>2. \A s \in DOMAIN f : s \in S /\ IsPlan(s, f[s].steps)
      BY <1>1, <3>1 DEF TaskState
    <3>3. \A s \in DOMAIN Put(f, r, p) : s \in S /\ IsPlan(s, Put(f, r, p)[s].steps)
      BY <1>2, <2>2, <3>1, <3>2, PutForks
    <3> QED
      BY <2>5, <3>1, <3>3
  <2>7. TaskState(y, compiled, Len(revisions))
    BY <1>1, <2>5, <2>6 DEF TaskState
  <2> QED
    BY <1>1, <2>4, <2>7, QuietTask
<1>4. CASE key \notin DOMAIN plans
  <2>1. PICK scope, body : /\ scope = Scope(t)
                           /\ body = DOMAIN Premises(r)
    OBVIOUS
  <2>2. PICK y : y = [x EXCEPT !.todo = @ \ {r}, !.pc = "plan", !.rule = r,
                        !.remaining = body, !.steps = << >>, !.bound = scope]
    OBVIOUS
  <2>3. task' = [task EXCEPT ![t] = y]
    <3>1. task' = [task EXCEPT ![t].todo = @ \ {r}, ![t].pc = "plan", ![t].rule = r,
                    ![t].remaining = DOMAIN Premises(r), ![t].steps = << >>,
                    ![t].bound = Scope(t)]
      BY <1>4 DEF Lookup
    <3>2. task' = [task EXCEPT ![t].todo = @ \ {r}, ![t].pc = "plan", ![t].rule = r,
                    ![t].remaining = body, ![t].steps = << >>, ![t].bound = scope]
      BY <2>1, <3>1
    <3> QED
      BY <1>1, <1>2, <2>2, <3>2 DEF TaskFields
  <2>4. /\ DOMAIN y = TaskFields /\ y.pc = "plan" /\ y.found = x.found
        /\ y.caller = x.caller /\ y.row = x.row /\ y.overlay = x.overlay /\ y.head = x.head
        /\ y.rules = x.rules /\ y.todo = x.todo \ {r} /\ y.forks = x.forks
        /\ y.rule = r /\ y.remaining = body /\ y.steps = << >> /\ y.bound = scope
    BY <1>2, <2>2 DEF TaskFields
  <2>5. scope = ScopeOf(y)
    BY <1>2, <2>1, <2>4 DEF ScopeOf, Scope, Adornment
  <2> HIDE DEF x
  <2>6. y.rule \in IF y.caller = None THEN Rule ELSE Rules(compiled)
    BY <1>2, <2>4
  <2>7. PlanState(y, compiled)
    BY <1>2, <2>1, <2>4, <2>5, <2>6, PlanStart
  <2>8. TaskState(y, compiled, Len(revisions))
    BY <1>1, <2>4, <2>7 DEF TaskState
  <2> QED
    BY <1>1, <2>3, <2>8, QuietTask
<1> QED
  BY <1>3, <1>4

\* A finished plan orders every premise of its rule.
LEMMA PlannedSound ==
    ASSUME Sound, NEW t \in Task, Planned(t)
    PROVE  Sound'
<1> DEFINE x == task[t]
<1>1. PICK r, plan, key : r = x.rule /\ plan = Conjunction(t) /\ key = <<r, Adornment(t)>>
  OBVIOUS
<1>2. /\ x.pc = "plan" /\ x.caller # None /\ x.remaining = {} /\ DOMAIN task = Task
      /\ TaskState(x, compiled, Len(revisions))
      /\ plans' = (IF r = Implicit THEN plans ELSE Put(plans, key, plan))
      /\ UNCHANGED <<compiled, revisions, head, revisited, discovery, bodies>>
  BY <1>1 DEF Planned, Planning, Sound, branchVars
<1>3. DOMAIN x = TaskFields /\ PlanState(x, compiled) /\ r \in Rules(compiled)
  BY <1>1, <1>2 DEF TaskState, PlanState
<1>4. IsPlan(r, plan.steps)
  BY <1>1, <1>2, <1>3, PlanComplete DEF Conjunction
<1>5. PICK y : y = [x EXCEPT !.pc = "lookup", !.rule = None, !.bound = {}, !.steps = << >>,
                             !.forks = Put(@, r, plan)]
  OBVIOUS
<1>6. task' = [task EXCEPT ![t] = y]
  BY <1>1, <1>2, <1>3, <1>5 DEF Planned, TaskFields
<1>7. /\ DOMAIN y = TaskFields /\ y.pc = "lookup" /\ y.found = x.found
      /\ y.caller = x.caller /\ y.overlay = x.overlay /\ y.head = x.head
      /\ y.rules = x.rules /\ y.todo = x.todo /\ y.forks = Put(x.forks, r, plan)
  BY <1>3, <1>5 DEF TaskFields
<1>8. key[1] = r
  BY <1>1
<1> HIDE DEF x
<1>9. \A s \in DOMAIN y.forks : s \in Rules(compiled) /\ IsPlan(s, y.forks[s].steps)
  <2>1. PICK f, S : f = x.forks /\ S = Rules(compiled)
    OBVIOUS
  <2>2. \A s \in DOMAIN f : s \in S /\ IsPlan(s, f[s].steps)
    BY <1>2, <2>1 DEF TaskState
  <2>3. \A s \in DOMAIN Put(f, r, plan) : s \in S /\ IsPlan(s, Put(f, r, plan)[s].steps)
    BY <1>3, <1>4, <2>1, <2>2, PutForks
  <2> QED
    BY <1>7, <2>1, <2>3
<1>10. TaskState(y, compiled, Len(revisions))
  BY <1>2, <1>7, <1>9 DEF TaskState
<1>11. \A k \in DOMAIN plans' : k[1] \in compiled /\ IsPlan(k[1], plans'[k].steps)
  <2>1. CASE r = Implicit
    BY <1>2, <2>1, CachesSound
  <2>2. CASE r # Implicit
    <3>1. r \in compiled
      BY <1>3, <2>2 DEF Rules
    <3>2. \A k \in DOMAIN plans : k[1] \in compiled /\ IsPlan(k[1], plans[k].steps)
      BY CachesSound
    <3>3. PICK f : f = plans
      OBVIOUS
    <3>4. plans' = Put(f, key, plan)
      BY <1>2, <2>2, <3>3
    <3> QED
      BY <1>4, <1>8, <3>1, <3>2, <3>3, <3>4, PutPlans
  <2> QED
    BY <2>1, <2>2
<1> QED
  BY <1>2, <1>6, <1>10, <1>11, OneTask, CachesSound

\* An eviction removes a plan.
LEMMA EvictSound ==
    ASSUME Sound, NEW key, Evict(key)
    PROVE  Sound'
<1>1. /\ plans' = [k \in DOMAIN plans \ {key} |-> plans[k]]
      /\ UNCHANGED <<compiled, revisions, head, revisited, discovery, bodies, task>>
  BY DEF Evict, branchVars
<1>2. TypeOK'
  BY <1>1 DEF Sound, TypeOK
<1> QED
  BY <1>1, <1>2 DEF Sound

\* A row enters the plan of a rule with the operands that the call binds.
LEMMA EvaluateSound ==
    ASSUME Sound, NEW t \in Task, NEW row, NEW r \in DOMAIN task[t].forks, Evaluate(t, row, r)
    PROVE  Sound'
<1> DEFINE x == task[t]
<1>1. PICK steps, scope, bound : /\ steps = x.forks[r].steps /\ scope = x.forks[r].env
                                 /\ bound = ExtractParameters(row, x.caller.terms)
  OBVIOUS
<1>2. PICK y : y = [Idle EXCEPT !.pc = "evaluate", !.rule = r, !.steps = steps, !.env = scope,
                                !.bound = bound]
  OBVIOUS
<1>3. /\ x.pc = "lookup" /\ TaskState(x, compiled, Len(revisions))
      /\ task' = [task EXCEPT ![t] = y] /\ UNCHANGED <<compiled, branchVars, cacheVars>>
  BY <1>1, <1>2 DEF Evaluate, Sound
<1>4. /\ DOMAIN y = TaskFields /\ y.pc = "evaluate" /\ y.caller = None /\ y.overlay = {}
      /\ y.found = {} /\ y.rules = {} /\ y.todo = {} /\ y.head = 0 /\ y.forks = << >>
      /\ y.rule = r /\ y.steps = steps /\ y.bound = bound
  BY <1>2 DEF Idle, TaskFields
<1>5. r \in Rules(compiled) /\ IsPlan(r, steps) /\ x.caller \in Caller
  BY <1>1, <1>3 DEF TaskState
<1>6. Blank \notin bound
  BY <1>1, <1>5, RuleAssumption DEF ExtractParameters
<1>7. RowState(y, compiled)
  BY <1>4, <1>5, <1>6, RowStart
<1>8. DOMAIN y.forks = {} /\ Len(revisions) \in Nat
  BY <1>4, CachesSound
<1>9. TaskState(y, compiled, Len(revisions))
  BY <1>4, <1>7, <1>8 DEF TaskState
<1> QED
  BY <1>3, <1>9, QuietTask

\* A step of a plan extends the row by what its premise binds on every row.
LEMMA StepSound ==
    ASSUME Sound, NEW t \in Task, Step(t)
    PROVE  Sound'
<1> DEFINE x == task[t]
<1>1. PICK env \in Extensions(Current(t), x.bound) :
          task' = [task EXCEPT ![t].steps = Tail(@), ![t].bound = env]
  BY DEF Step
<1>2. /\ x.pc = "evaluate" /\ x.steps # << >> /\ TaskState(x, compiled, Len(revisions))
      /\ DOMAIN task = Task /\ UNCHANGED <<compiled, branchVars, cacheVars>>
  BY DEF Step, Sound
<1>3. PICK y : y = [x EXCEPT !.steps = Tail(@), !.bound = env]
  OBVIOUS
<1>4. task' = [task EXCEPT ![t] = y]
  BY <1>1, <1>2, <1>3 DEF TaskState, TaskFields
<1>5. /\ DOMAIN y = TaskFields /\ y.steps = Tail(x.steps) /\ y.bound = env
      /\ y.pc = x.pc /\ y.caller = x.caller /\ y.overlay = x.overlay
      /\ y.head = x.head /\ y.found = x.found /\ y.rules = x.rules /\ y.todo = x.todo
      /\ y.forks = x.forks /\ y.rule = x.rule
  BY <1>2, <1>3 DEF TaskState, TaskFields
<1>6. /\ RowState(x, compiled) /\ compiled \subseteq Rule
      /\ env \in Extensions(Premises(x.rule)[Head(x.steps)], x.bound)
  BY <1>1, <1>2, CachesSound DEF TaskState, Current
<1> HIDE DEF x
<1>7. RowState(y, compiled)
  BY <1>2, <1>5, <1>6, RowStep
<1>8. TaskState(y, compiled, Len(revisions))
  BY <1>2, <1>5, <1>7 DEF TaskState
<1> QED
  BY <1>2, <1>4, <1>8, QuietTask

-----------------------------------------------------------------------------
(***************************************************************************)
(* The invariant of plans, and what it says.                               *)
(***************************************************************************)
LEMMA SoundInit == Init => Sound
<1> SUFFICES ASSUME Init PROVE Sound
  OBVIOUS
<1>1. << >> \in Seq(SUBSET {}) /\ Len(<< >>) = 0
  OBVIOUS
<1>2. \A t \in Task : TaskState(task[t], compiled, Len(revisions))
  BY <1>1, IdleTask DEF Init
<1>3. \A t \in Task : task[t].found \cup task[t].rules \subseteq compiled
  BY <1>2 DEF TaskState
<1>4. head \in 0..Len(revisions)
  BY <1>1 DEF Init
<1>5. DOMAIN plans = {}
  BY DEF Init
<1>6. TypeOK
  BY <1>1, <1>3, <1>4, <1>5 DEF Init, TypeOK
<1> QED
  BY <1>2, <1>5, <1>6 DEF Init, Sound

\* Sound is inductive.
LEMMA SoundNext == Sound /\ [Next]_vars => Sound'
<1> SUFFICES ASSUME Sound, [Next]_vars PROVE Sound'
  OBVIOUS
<1>1. ASSUME NEW t \in Task, NEW r \in Rule, Compile(t, r) PROVE Sound'
  BY <1>1, CompileSound
<1>2. ASSUME NEW t \in Task, Accept(t) PROVE Sound'
  BY <1>2, AcceptSound
<1>3. ASSUME NEW t \in Task, Refuse(t) \/ Fail(t) \/ Finish(t) PROVE Sound'
  BY <1>3, StopSound DEF Refuse, Fail, Finish
<1>4. ASSUME NEW t \in Task, Order(t) PROVE Sound'
  BY <1>4, OrderSound
<1>5. ASSUME NEW t \in Task, NEW c \in Caller, NEW row \in c.rows,
             NEW overlay \in SUBSET compiled, Begin(t, c, row, overlay)
      PROVE  Sound'
  <2>1. PICK o : o = overlay
    OBVIOUS
  <2> QED
    BY <1>5, <2>1, BeginSound
<1>6. ASSUME NEW t \in Task, Scan(t) PROVE Sound'
  BY <1>6, ScanSound
<1>7. ASSUME NEW t \in Task, RecordDiscovery(t) PROVE Sound'
  BY <1>7, RecordSound
<1>8. ASSUME NEW t \in Task, NEW r \in Rule, Hydrate(t, r) PROVE Sound'
  BY <1>8, HydrateSound
<1>9. ASSUME NEW t \in Task, Assemble(t) PROVE Sound'
  BY <1>9, AssembleSound
<1>10. ASSUME NEW t \in Task, NEW r \in Rule \cup {Implicit}, Lookup(t, r) PROVE Sound'
  BY <1>10, LookupSound
<1>11. ASSUME NEW t \in Task, Planned(t) PROVE Sound'
  BY <1>11, PlannedSound
<1>12. ASSUME NEW t \in Task, NEW r \in DOMAIN task[t].forks,
              NEW row \in task[t].caller.rows, Evaluate(t, row, r)
       PROVE  Sound'
  BY <1>12, EvaluateSound
<1>13. ASSUME NEW t \in Task, Step(t) PROVE Sound'
  BY <1>13, StepSound
<1>14. ASSUME NEW r \in Rule, Install(r) \/ Retract(r) PROVE Sound'
  <2>1. Committed \subseteq compiled
    BY CachesSound
  <2>2. PICK rules \in SUBSET compiled : Commit(rules)
    <3>1. CASE Install(r)
      <4>1. Committed \cup {r} \in SUBSET compiled /\ Commit(Committed \cup {r})
        BY <2>1, <3>1 DEF Install
      <4> QED
        BY <4>1
    <3>2. CASE Retract(r)
      <4>1. Committed \ {r} \in SUBSET compiled /\ Commit(Committed \ {r})
        BY <2>1, <3>2 DEF Retract
      <4> QED
        BY <4>1
    <3> QED
      BY <1>14, <3>1, <3>2
  <2> QED
    BY <2>2, CommitSound
<1>15. ASSUME NEW revision \in DOMAIN revisions, Reset(revision) PROVE Sound'
  BY <1>15, ResetSound
<1>16. ASSUME NEW key \in DOMAIN plans, Evict(key) PROVE Sound'
  BY <1>16, EvictSound
<1>17. CASE UNCHANGED vars
  BY <1>17 DEF Sound, TypeOK, vars, branchVars, cacheVars
<1>18. ASSUME NEW t \in Task, Query(t) PROVE Sound'
  BY <1>3, <1>5, <1>6, <1>7, <1>8, <1>9, <1>10, <1>11, <1>12, <1>13, <1>18 DEF Query
<1> QED
  BY <1>1, <1>2, <1>3, <1>4, <1>14, <1>15, <1>16, <1>17, <1>18 DEF Next

\* Everything that is committed, cached, found or used was compiled
\* (rules.rs, concept/query.rs).
THEOREM TypesHold == Spec => []TypeOK
<1>1. Sound => TypeOK
  BY DEF Sound
<1> QED
  BY <1>1, SoundInit, SoundNext, PTL DEF Spec

\* A rule that compiled, and the implicit one, can be planned for every call
\* of every caller, so the expect in DeductiveRule::plan never fires.
THEOREM PlansExist == Spec => []PlannableByConstruction
<1>1. Sound => PlannableByConstruction
  <2> SUFFICES ASSUME Sound, NEW t \in Task, Planning(t), task[t].remaining # {}
               PROVE  Candidates(Premises(task[t].rule), task[t].remaining, task[t].bound) # {}
    BY DEF PlannableByConstruction
  <2>1. PICK x, S : x = task[t] /\ S = compiled
    OBVIOUS
  <2>2. PlanState(x, S) /\ x.caller # None /\ x.remaining # {}
    BY <2>1 DEF Sound, TaskState, Planning
  <2>3. \A r \in S : r # Implicit /\ Compiles(r)
    BY <2>1, CachesSound DEF Sound
  <2>4. PICK body : body = Premises(x.rule)
    OBVIOUS
  <2>5. /\ x.rule \in Rules(S) /\ x.remaining \subseteq DOMAIN body
        /\ x.steps \in Seq(DOMAIN body)
        /\ x.bound = ScopeOf(x) \cup Provided(body, x.steps, Len(x.steps))
        /\ \A i \in DOMAIN body \ x.remaining : \E k \in 1..Len(x.steps) : x.steps[k] = i
    BY <2>2, <2>4 DEF PlanState
  <2>6. \A i \in DOMAIN body \ x.remaining : Provides(body[i]) \subseteq x.bound
    BY <2>5 DEF Provided
  <2>7. Candidates(Premises(x.rule), x.remaining, x.bound) # {}
    BY <2>2, <2>3, <2>4, <2>5, <2>6, PlanContinues
  <2> QED
    BY <2>1, <2>7
<1> QED
  BY <1>1, SoundInit, SoundNext, PTL DEF Spec

\* A body that has an order of its premises does not get the planner stuck.
LEMMA OrderableContinues ==
    ASSUME NEW body, NEW n \in Nat, DOMAIN body = 1..n, Orderable(body),
           NEW remaining, remaining # {}, remaining \subseteq DOMAIN body, NEW env,
           \A i \in DOMAIN body \ remaining : Provides(body[i]) \subseteq env
    PROVE  Candidates(body, remaining, env) # {}
<1>1. PICK order \in [DOMAIN body -> DOMAIN body] :
        /\ Range(order) = DOMAIN body
        /\ \A i \in DOMAIN body :
              Feasible(body[order[i]],
                   UNION {IF body[order[j]].negated THEN {}
                          ELSE Variables(body[order[j]]) : j \in 1..(i - 1)})
  BY DEF Orderable
<1>2. \A k \in 1..n : Feasible(body[order[k]], Provided(body, order, k - 1))
  BY <1>1 DEF Provided, Provides
<1>3. \A i \in remaining : \E k \in 1..n : order[k] = i
  BY <1>1 DEF Range
<1>4. order \in [1..n -> DOMAIN body]
  OBVIOUS
<1> QED
  BY <1>2, <1>3, <1>4, OrderContinues

\* A rule is refused as unplannable only if no order of its premises is
\* feasible (Planner::plan under Compile::compile).
THEOREM RefusalsHold == Spec => []RefusalJustified
<1>1. Sound => RefusalJustified
  <2> SUFFICES ASSUME Sound, NEW t \in Task, Compiling(t), task[t].remaining # {},
                      Orderable(Premises(task[t].rule))
               PROVE  Candidates(Premises(task[t].rule), task[t].remaining, task[t].bound) # {}
    BY DEF RefusalJustified
  <2>1. PICK x, body : x = task[t] /\ body = Premises(x.rule)
    OBVIOUS
  <2>2. PlanState(x, compiled) /\ x.caller = None /\ x.remaining # {} /\ Orderable(body)
    BY <2>1 DEF Sound, TaskState, Compiling
  <2>3. /\ x.rule \in Rule /\ x.remaining \subseteq DOMAIN body
        /\ x.steps \in Seq(DOMAIN body)
        /\ x.bound = ScopeOf(x) \cup Provided(body, x.steps, Len(x.steps))
        /\ \A i \in DOMAIN body \ x.remaining : \E k \in 1..Len(x.steps) : x.steps[k] = i
    BY <2>1, <2>2 DEF PlanState
  <2>4. \A i \in DOMAIN body \ x.remaining : Provides(body[i]) \subseteq x.bound
    BY <2>3 DEF Provided
  <2>5. PICK n \in Nat : DOMAIN body = 1..n
    <3>1. x.rule # Implicit /\ DOMAIN body = DOMAIN Body[x.rule]
      BY <2>1, <2>3, RuleAssumption, Narrowed DEF Analyzed
    <3> QED
      BY <2>3, <3>1, RuleAssumption
  <2>6. Candidates(body, x.remaining, x.bound) # {}
    BY <2>2, <2>3, <2>4, <2>5, OrderableContinues
  <2> QED
    BY <2>1, <2>6
<1> QED
  BY <1>1, SoundInit, SoundNext, PTL DEF Spec

\* Every row that a rule answers with binds the required operands of the
\* concept, whatever plan was cached for it and whatever the optional operands
\* of the concepts in its body (concept/query.rs, evaluate).
THEOREM HeadsHold == Spec => []HeadsBound
<1>1. Sound => HeadsBound
  <2> SUFFICES ASSUME Sound, NEW t \in Task, task[t].pc = "evaluate", task[t].steps = << >>,
                      NEW v \in RequiredOperands
               PROVE  v \in task[t].bound
    BY DEF HeadsBound
  <2>1. PICK x : x = task[t]
    OBVIOUS
  <2>2. RowState(x, compiled) /\ x.steps = << >>
    BY <2>1 DEF Sound, TaskState
  <2>3. 1..Len(x.steps) = {}
    BY <2>2
  <2>4. /\ x.rule \in Rules(compiled)
        /\ \A i \in DOMAIN Premises(x.rule) : Definite(Premises(x.rule)[i]) \subseteq x.bound
    BY <2>2, <2>3 DEF RowState
  <2>5. \E i \in DOMAIN Premises(x.rule) : v \in Definite(Premises(x.rule)[i])
    <3>1. CASE x.rule = Implicit
      BY <3>1, ImplicitDefinite
    <3>2. CASE x.rule \in compiled
      BY <3>2, RequiredDefinite DEF Sound
    <3> QED
      BY <2>4, <3>1, <3>2 DEF Rules
  <2> QED
    BY <2>1, <2>4, <2>5
<1> QED
  BY <1>1, SoundInit, SoundNext, PTL DEF Spec

-----------------------------------------------------------------------------
(***************************************************************************)
(* The rules in use.                                                       *)
(***************************************************************************)
\* A step of one task that leaves the branch alone.
LEMMA OneTaskCurrent ==
    ASSUME Sound, InUse, NEW t \in Task, NEW y, task' = [task EXCEPT ![t] = y],
           UsesCurrent(y, head, Committed, revisited), DiscoveryCurrent',
           revisions' = revisions, head' = head, revisited' = revisited
    PROVE  InUse'
<1>1. Committed' = Committed
  BY DEF Committed
<1>2. \A u \in Task : task'[u] = IF u = t THEN y ELSE task[u]
  BY DEF Sound
<1>3. \A u \in Task : UsesCurrent(task'[u], head, Committed, revisited)
  BY <1>2 DEF InUse
<1> QED
  BY <1>1, <1>3 DEF InUse

\* Discovery is current in a step that leaves it and the branch alone.
LEMMA DiscoveryKept ==
    ASSUME InUse, revisions' = revisions, head' = head, revisited' = revisited,
           discovery' = discovery
    PROVE  DiscoveryCurrent'
<1>1. Committed' = Committed
  BY DEF Committed
<1> QED
  BY <1>1 DEF InUse, DiscoveryCurrent

\* A task that runs no query.
LEMMA NoQueryCurrent ==
    ASSUME NEW y, y.caller = None, y.pc \notin {"scan", "record", "hydrate"},
           NEW now, NEW committed, NEW seen
    PROVE  UsesCurrent(y, now, committed, seen)
  BY DEF UsesCurrent

\* A task that has its rules and goes on planning.
LEMMA PlanningCurrent ==
    ASSUME NEW x, NEW y, NEW now, NEW committed, NEW seen,
           UsesCurrent(x, now, committed, seen),
           x.pc \in {"lookup", "plan"}, y.pc \in {"lookup", "plan"},
           y.caller = x.caller, y.head = x.head, y.rules = x.rules, y.overlay = x.overlay,
           y.always = x.always, y.ever = x.ever
    PROVE  UsesCurrent(y, now, committed, seen)
  BY DEF UsesCurrent

\* The branch moves to a head that no query has read, or to one that counts as
\* revisited from now on.
LEMMA MoveCurrent ==
    ASSUME Sound, InUse, NEW committed, NEW now, NEW seen,
           task' = Observed(committed), head' = now, revisited' = seen,
           Committed' = committed, discovery' = discovery,
           revisited \subseteq seen, now \notin seen => now \notin 0..Len(revisions)
    PROVE  InUse'
<1>1. DiscoveryCurrent'
  <2> SUFFICES ASSUME discovery # None, discovery.head = now, now \notin seen PROVE FALSE
    BY DEF DiscoveryCurrent
  <2>1. discovery.head \in DOMAIN revisions /\ revisions \in Seq(SUBSET compiled)
    BY CachesSound
  <2>2. discovery.head \in 0..Len(revisions)
    BY <2>1
  <2> QED
    BY <2>2
<1>2. ASSUME NEW t \in Task PROVE UsesCurrent(task'[t], now, committed, seen)
  <2>1. PICK x, y : x = task[t] /\ y = task'[t]
    OBVIOUS
  <2>2. /\ UsesCurrent(x, head, Committed, revisited)
        /\ TaskState(x, compiled, Len(revisions))
    BY <2>1 DEF InUse, Sound
  <2>3. CASE x.caller = None
    <3>1. y = x
      BY <2>1, <2>3 DEF Observed
    <3>2. x.pc \notin {"scan", "record", "hydrate"}
      BY <2>2, <2>3 DEF TaskState
    <3> QED
      BY <2>1, <2>3, <3>1, <3>2, NoQueryCurrent
  <2>4. CASE x.caller # None
    <3>1. y = [x EXCEPT !.always = @ \cap committed, !.ever = @ \cup committed]
      BY <2>1, <2>4 DEF Observed
    <3>2. /\ y.pc = x.pc /\ y.caller = x.caller /\ y.overlay = x.overlay
          /\ y.head = x.head /\ y.found = x.found /\ y.rules = x.rules
          /\ y.always = x.always \cap committed /\ y.ever = x.ever \cup committed
      BY <2>2, <3>1 DEF TaskState, TaskFields
    <3>3. x.head \in 0..Len(revisions)
      BY <2>2 DEF TaskState
    <3>4. UsesCurrent(y, now, committed, seen)
      BY <2>2, <3>2, <3>3 DEF UsesCurrent
    <3> QED
      BY <2>1, <3>4
  <2> QED
    BY <2>3, <2>4
<1> QED
  BY <1>1, <1>2 DEF InUse

\* A commit or a retraction makes a revision that no cache is tagged with.
LEMMA CommitCurrent ==
    ASSUME Sound, InUse, NEW rules \in SUBSET compiled, Commit(rules)
    PROVE  InUse'
<1>1. /\ revisions' = Append(revisions, rules) /\ head' = Len(revisions')
      /\ task' = Observed(rules) /\ revisited' = revisited /\ discovery' = discovery
  BY DEF Commit, cacheVars
<1>2. /\ revisions \in Seq(SUBSET compiled) /\ Len(revisions) \in Nat
  BY CachesSound
<1>3. /\ Len(revisions') = Len(revisions) + 1
      /\ revisions'[Len(revisions) + 1] = rules
  BY <1>1, <1>2, AppendProperties
<1>4. PICK now, seen : now = Len(revisions) + 1 /\ seen = revisited
  OBVIOUS
<1>5. now # 0 /\ now \notin 0..Len(revisions) /\ head' = now
  BY <1>1, <1>2, <1>3, <1>4
<1>6. Committed' = rules
  BY <1>3, <1>4, <1>5 DEF Committed
<1> QED
  BY <1>1, <1>4, <1>5, <1>6, MoveCurrent

\* A reset excuses the caches tagged with the revision it goes back to.
LEMMA ResetCurrent ==
    ASSUME Sound, InUse, NEW revision \in DOMAIN revisions, Reset(revision)
    PROVE  InUse'
<1>1. /\ head' = revision /\ revisited' = revisited \cup {revision}
      /\ task' = Observed(revisions[revision]) /\ revisions' = revisions
      /\ discovery' = discovery
  BY DEF Reset, cacheVars
<1>2. revision # 0
  BY CachesSound
<1>3. Committed' = revisions[revision]
  BY <1>1, <1>2 DEF Committed
<1>4. PICK committed, seen : committed = revisions[revision] /\ seen = revisited \cup {revision}
  OBVIOUS
<1> QED
  BY <1>1, <1>3, <1>4, MoveCurrent

\* A query that hits the cache of discoveries begins with what is committed.
LEMMA BeginCurrent ==
    ASSUME Sound, InUse, NEW t \in Task, NEW caller \in Caller, NEW row, NEW overlay,
           Begin(t, caller, row, overlay)
    PROVE  InUse'
<1>1. PICK y : y = [Idle EXCEPT !.pc = IF Discovered THEN "hydrate" ELSE "scan",
                         !.caller = caller, !.row = row, !.overlay = overlay,
                         !.head = head,
                         !.found = IF Discovered THEN discovery.rules ELSE {},
                         !.always = Committed, !.ever = Committed]
  OBVIOUS
<1>2. /\ task' = [task EXCEPT ![t] = y]
      /\ UNCHANGED <<revisions, head, revisited, discovery>>
  BY <1>1 DEF Begin, cacheVars
<1>3. /\ y.pc = (IF Discovered THEN "hydrate" ELSE "scan") /\ y.head = head
      /\ y.found = (IF Discovered THEN discovery.rules ELSE {})
      /\ y.rules = {} /\ y.always = Committed /\ y.ever = Committed
  BY <1>1 DEF Idle
<1>4. Discovered /\ head \notin revisited => discovery.rules = Committed
  BY DEF InUse, DiscoveryCurrent, Discovered
<1>5. UsesCurrent(y, head, Committed, revisited)
  BY <1>3, <1>4 DEF UsesCurrent
<1> QED
  BY <1>2, <1>5, OneTaskCurrent, DiscoveryKept

\* A scan reads what is committed at that moment.
LEMMA ScanCurrent ==
    ASSUME Sound, InUse, NEW t \in Task, Scan(t)
    PROVE  InUse'
<1>1. PICK x : x = task[t]
  OBVIOUS
<1>2. PICK y : y = [x EXCEPT !.pc = "record", !.found = Committed]
  OBVIOUS
<1>3. /\ x.pc = "scan" /\ DOMAIN x = TaskFields /\ DOMAIN task = Task /\ x.caller # None
      /\ UsesCurrent(x, head, Committed, revisited)
      /\ UNCHANGED <<revisions, head, revisited, discovery>>
  BY <1>1 DEF Scan, Sound, TaskState, InUse, branchVars, cacheVars
<1>4. task' = [task EXCEPT ![t] = y]
  BY <1>1, <1>2, <1>3 DEF Scan, TaskFields
<1>5. /\ y.pc = "record" /\ y.found = Committed /\ y.caller = x.caller /\ y.head = x.head
      /\ y.rules = x.rules /\ y.always = x.always /\ y.ever = x.ever
  BY <1>2, <1>3 DEF TaskFields
<1>6. UsesCurrent(y, head, Committed, revisited)
  BY <1>3, <1>5 DEF UsesCurrent
<1> QED
  BY <1>3, <1>4, <1>6, OneTaskCurrent, DiscoveryKept

\* What a scan found is cached for the head that was read before it: if the
\* head has not moved since, that is the head of the scan.
LEMMA RecordCurrent ==
    ASSUME Sound, InUse, NEW t \in Task, RecordDiscovery(t)
    PROVE  InUse'
<1>1. PICK x : x = task[t]
  OBVIOUS
<1>2. PICK y : y = [x EXCEPT !.pc = "hydrate"]
  OBVIOUS
<1>3. /\ x.pc = "record" /\ DOMAIN x = TaskFields /\ DOMAIN task = Task
      /\ UsesCurrent(x, head, Committed, revisited)
      /\ discovery' = (IF x.head = 0 THEN discovery ELSE [head |-> x.head, rules |-> x.found])
      /\ UNCHANGED <<revisions, head, revisited>>
  BY <1>1 DEF RecordDiscovery, Sound, TaskState, InUse, branchVars
<1>4. task' = [task EXCEPT ![t] = y]
  BY <1>1, <1>2, <1>3 DEF RecordDiscovery, TaskFields
<1>5. /\ y.pc = "hydrate" /\ y.found = x.found /\ y.caller = x.caller /\ y.head = x.head
      /\ y.rules = x.rules /\ y.always = x.always /\ y.ever = x.ever
  BY <1>2, <1>3 DEF TaskFields
<1>6. UsesCurrent(y, head, Committed, revisited)
  BY <1>3, <1>5 DEF UsesCurrent
<1>7. DiscoveryCurrent'
  <2>1. CASE x.head = 0
    BY <1>3, <2>1, DiscoveryKept
  <2>2. CASE x.head # 0
    <3>1. discovery'.head = x.head /\ discovery'.rules = x.found
      BY <1>3, <2>2
    <3>2. Committed' = Committed
      BY <1>3 DEF Committed
    <3>3. x.head = head /\ head \notin revisited => x.found = Committed
      BY <1>3 DEF UsesCurrent
    <3> QED
      BY <1>3, <3>1, <3>2, <3>3 DEF DiscoveryCurrent
  <2> QED
    BY <2>1, <2>2
<1> QED
  BY <1>3, <1>4, <1>6, <1>7, OneTaskCurrent

\* A rule is hydrated from the cache of bodies or from the committed tree.
LEMMA HydrateCurrent ==
    ASSUME Sound, InUse, NEW t \in Task, NEW r, Hydrate(t, r)
    PROVE  InUse'
<1>1. PICK x, hydrated : x = task[t] /\ hydrated = bodies \cup ({r} \cap Committed)
  OBVIOUS
<1>2. PICK y : y = [x EXCEPT !.found = @ \ {r}, !.rules = @ \cup ({r} \cap hydrated)]
  OBVIOUS
<1>3. /\ x.pc = "hydrate" /\ DOMAIN x = TaskFields /\ DOMAIN task = Task /\ x.caller # None
      /\ UsesCurrent(x, head, Committed, revisited) /\ r \in x.found
      /\ UNCHANGED <<revisions, head, revisited, discovery>>
  BY <1>1 DEF Hydrate, Sound, TaskState, InUse, branchVars
<1>4. task' = [task EXCEPT ![t] = y]
  BY <1>1, <1>2, <1>3 DEF Hydrate, TaskFields
<1>5. /\ y.pc = "hydrate" /\ y.found = x.found \ {r} /\ y.caller = x.caller /\ y.head = x.head
      /\ y.rules = x.rules \cup ({r} \cap hydrated) /\ y.always = x.always /\ y.ever = x.ever
  BY <1>2, <1>3 DEF TaskFields
<1>6. x.always \subseteq Committed /\ (r \in Committed => r \in hydrated)
  BY <1>1, <1>3 DEF UsesCurrent
<1>7. UsesCurrent(y, head, Committed, revisited)
  BY <1>3, <1>5, <1>6 DEF UsesCurrent
<1> QED
  BY <1>3, <1>4, <1>7, OneTaskCurrent, DiscoveryKept

\* The assembled rules add the overlay's to those discovered.
LEMMA AssembleCurrent ==
    ASSUME Sound, InUse, NEW t \in Task, Assemble(t)
    PROVE  InUse'
<1>1. PICK x, rules : x = task[t] /\ rules = x.rules \cup x.overlay
  OBVIOUS
<1>2. PICK y : y = [x EXCEPT !.pc = "lookup", !.rules = rules, !.todo = rules \cup {Implicit}]
  OBVIOUS
<1>3. /\ x.pc = "hydrate" /\ x.found = {} /\ DOMAIN x = TaskFields /\ DOMAIN task = Task
      /\ UsesCurrent(x, head, Committed, revisited)
      /\ UNCHANGED <<revisions, head, revisited, discovery>>
  BY <1>1 DEF Assemble, Sound, TaskState, InUse, branchVars, cacheVars
<1>4. task' = [task EXCEPT ![t] = y]
  BY <1>1, <1>2, <1>3 DEF Assemble, Assembled, TaskFields
<1>5. /\ y.pc = "lookup" /\ y.caller = x.caller /\ y.head = x.head /\ y.overlay = x.overlay
      /\ y.rules = rules /\ y.always = x.always /\ y.ever = x.ever
  BY <1>2, <1>3 DEF TaskFields
<1>6. UsesCurrent(y, head, Committed, revisited)
  BY <1>1, <1>3, <1>5 DEF UsesCurrent
<1> QED
  BY <1>3, <1>4, <1>6, OneTaskCurrent, DiscoveryKept

\* The planner's steps for a query: its rules stay as they are.
LEMMA PlannerCurrent ==
    ASSUME Sound, InUse, NEW t \in Task,
           Order(t) \/ Planned(t) \/ \E r \in Rule \cup {Implicit} : Lookup(t, r)
    PROVE  InUse'
<1>1. PICK x, y : x = task[t] /\ y = task'[t]
  OBVIOUS
<1>2. /\ DOMAIN x = TaskFields /\ DOMAIN task = Task
      /\ UsesCurrent(x, head, Committed, revisited)
      /\ UNCHANGED <<revisions, head, revisited, discovery>>
  BY <1>1 DEF Order, Planned, Lookup, Sound, TaskState, InUse, branchVars, cacheVars
<1>3. task' = [task EXCEPT ![t] = y]
  <2>1. CASE Order(t)
    BY <1>1, <1>2, <2>1 DEF Order
  <2>2. CASE Planned(t)
    BY <1>1, <1>2, <2>2 DEF Planned
  <2>3. CASE \E r \in Rule \cup {Implicit} : Lookup(t, r)
    BY <1>1, <1>2, <2>3 DEF Lookup
  <2> QED
    BY <2>1, <2>2, <2>3
<1>4. /\ x.pc \in {"lookup", "plan"} /\ y.pc \in {"lookup", "plan"}
      /\ y.caller = x.caller /\ y.head = x.head /\ y.rules = x.rules /\ y.overlay = x.overlay
      /\ y.always = x.always /\ y.ever = x.ever
  <2>1. CASE Order(t)
    BY <1>1, <1>2, <2>1 DEF Order, TaskFields
  <2>2. CASE Planned(t)
    BY <1>1, <1>2, <2>2 DEF Planned, Planning, TaskFields
  <2>3. CASE \E r \in Rule \cup {Implicit} : Lookup(t, r)
    <3>1. PICK r : Lookup(t, r)
      BY <2>3
    <3>2. x.pc = "lookup"
      BY <1>1, <3>1 DEF Lookup
    <3>3. PICK f, body, scope :
              \/ task' = [task EXCEPT ![t].todo = @ \ {r}, ![t].forks = f]
              \/ task' = [task EXCEPT ![t].todo = @ \ {r}, ![t].pc = "plan", ![t].rule = r,
                            ![t].remaining = body, ![t].steps = << >>, ![t].bound = scope]
      BY <3>1, Zenon DEF Lookup
    <3> QED
      BY <1>1, <1>2, <3>2, <3>3 DEF TaskFields
  <2> QED
    BY <2>1, <2>2, <2>3
<1>5. PICK committed, now, seen : committed = Committed /\ now = head /\ seen = revisited
  OBVIOUS
<1>6. UsesCurrent(y, now, committed, seen)
  BY <1>2, <1>4, <1>5, PlanningCurrent
<1> QED
  BY <1>2, <1>3, <1>5, <1>6, OneTaskCurrent, DiscoveryKept

\* The steps of a task that has no query, or ends it.
LEMMA OtherCurrent ==
    ASSUME Sound, InUse, NEW t \in Task,
           \/ \E r \in Rule : Compile(t, r)
           \/ Accept(t) \/ Refuse(t) \/ Fail(t) \/ Step(t) \/ Finish(t)
           \/ \E r \in DOMAIN task[t].forks : \E row \in task[t].caller.rows : Evaluate(t, row, r)
    PROVE  InUse'
<1>1. PICK x, y : x = task[t] /\ y = task'[t]
  OBVIOUS
<1>2. /\ TaskState(x, compiled, Len(revisions)) /\ DOMAIN task = Task
      /\ UNCHANGED <<revisions, head, revisited, discovery>>
  BY <1>1 DEF Compile, Accept, Refuse, Fail, Step, Finish, Evaluate, Sound, branchVars, cacheVars
<1>3. task' = [task EXCEPT ![t] = y] /\ y.caller = None
      /\ y.pc \notin {"scan", "record", "hydrate"}
  <2>1. CASE \E r \in Rule : Compile(t, r)
    BY <1>1, <1>2, <2>1 DEF Compile, Idle
  <2>2. CASE Accept(t) \/ Refuse(t) \/ Fail(t) \/ Finish(t)
    BY <1>1, <1>2, <2>2 DEF Accept, Refuse, Fail, Finish, Idle
  <2>3. CASE Step(t)
    <3>1. PICK env \in Extensions(Current(t), x.bound) :
              task' = [task EXCEPT ![t].steps = Tail(@), ![t].bound = env]
      BY <1>1, <2>3 DEF Step
    <3>2. x.pc = "evaluate" /\ x.caller = None /\ DOMAIN x = TaskFields
      BY <1>1, <1>2, <2>3 DEF Step, TaskState
    <3> QED
      BY <1>1, <1>2, <3>1, <3>2 DEF TaskFields
  <2>4. CASE \E r \in DOMAIN x.forks : \E row \in x.caller.rows : Evaluate(t, row, r)
    <3>1. PICK r, row : Evaluate(t, row, r)
      BY <2>4
    <3>2. PICK steps, scope, bound : /\ steps = x.forks[r].steps /\ scope = x.forks[r].env
                                     /\ bound = ExtractParameters(row, x.caller.terms)
      OBVIOUS
    <3>3. task' = [task EXCEPT ![t] = [Idle EXCEPT !.pc = "evaluate", !.rule = r,
                                          !.steps = steps, !.env = scope, !.bound = bound]]
      BY <1>1, <3>1, <3>2 DEF Evaluate
    <3> QED
      BY <1>1, <1>2, <3>3 DEF Idle
  <2> QED
    BY <1>1, <2>1, <2>2, <2>3, <2>4
<1>4. PICK committed, now, seen : committed = Committed /\ now = head /\ seen = revisited
  OBVIOUS
<1>5. UsesCurrent(y, now, committed, seen)
  BY <1>3, NoQueryCurrent
<1> QED
  BY <1>2, <1>3, <1>4, <1>5, OneTaskCurrent, DiscoveryKept

\* InUse is inductive relative to Sound.
LEMMA InUseNext == Sound /\ InUse /\ [Next]_vars => InUse'
<1> SUFFICES ASSUME Sound, InUse, [Next]_vars PROVE InUse'
  OBVIOUS
<1>1. ASSUME NEW r \in Rule, Install(r) \/ Retract(r) PROVE InUse'
  <2>1. Committed \subseteq compiled
    BY CachesSound
  <2>2. PICK rules \in SUBSET compiled : Commit(rules)
    <3>1. CASE Install(r)
      <4>1. Committed \cup {r} \in SUBSET compiled /\ Commit(Committed \cup {r})
        BY <2>1, <3>1 DEF Install
      <4> QED
        BY <4>1
    <3>2. CASE Retract(r)
      <4>1. Committed \ {r} \in SUBSET compiled /\ Commit(Committed \ {r})
        BY <2>1, <3>2 DEF Retract
      <4> QED
        BY <4>1
    <3> QED
      BY <1>1, <3>1, <3>2
  <2> QED
    BY <2>2, CommitCurrent
<1>2. ASSUME NEW revision \in DOMAIN revisions, Reset(revision) PROVE InUse'
  BY <1>2, ResetCurrent
<1>3. ASSUME (\E key \in DOMAIN plans : Evict(key)) \/ UNCHANGED vars PROVE InUse'
  <2>1. UNCHANGED <<revisions, head, revisited, discovery, task>>
    BY <1>3 DEF Evict, vars, branchVars, cacheVars
  <2>2. Committed' = Committed
    BY <2>1 DEF Committed
  <2> QED
    BY <2>1, <2>2 DEF InUse, DiscoveryCurrent
<1>4. ASSUME NEW t \in Task, NEW c \in Caller, NEW row \in c.rows,
             NEW overlay \in SUBSET compiled, Begin(t, c, row, overlay)
      PROVE  InUse'
  <2>1. PICK o : o = overlay
    OBVIOUS
  <2> QED
    BY <1>4, <2>1, BeginCurrent
<1>5. ASSUME NEW t \in Task, \/ \E r \in Rule : Compile(t, r)
                             \/ Accept(t) \/ Refuse(t) \/ Order(t) \/ Query(t)
      PROVE  InUse'
  BY <1>4, <1>5, ScanCurrent, RecordCurrent, HydrateCurrent, AssembleCurrent, PlannerCurrent,
     OtherCurrent DEF Query
<1> QED
  BY <1>1, <1>2, <1>3, <1>5 DEF Next

\* A query that started at a head to which the branch was never reset answers
\* with the rules of its branch: all those that were committed from its start,
\* and none that was not committed at some moment of it, except its overlay's
\* (rules.rs, durable_rules and its cache).  Nothing is claimed after a reset to
\* that head: the cache may then answer with the rules of a newer one, recorded
\* under it when a commit fell between the two reads (session.rs:389).
THEOREM RulesHold == Spec => []RulesCurrent
<1>1. Init => InUse
  BY DEF Init, InUse, DiscoveryCurrent, UsesCurrent, Idle
<1>2. Sound /\ InUse => RulesCurrent
  <2> SUFFICES ASSUME Sound, InUse, NEW t \in Task, task[t].caller # None,
                      task[t].pc \notin {"scan", "record", "hydrate"},
                      task[t].head \notin revisited
               PROVE  /\ task[t].always \cup task[t].overlay \subseteq task[t].rules
                      /\ task[t].rules \subseteq task[t].ever \cup task[t].overlay
    BY DEF RulesCurrent
  <2>1. task[t].pc \in {"lookup", "plan"}
    BY DEF Sound, TaskState
  <2> QED
    BY <2>1 DEF InUse, UsesCurrent
<1> QED
  BY <1>1, <1>2, SoundInit, SoundNext, InUseNext, PTL DEF Spec

-----------------------------------------------------------------------------
(***************************************************************************)
(* The steps of plans.                                                     *)
(***************************************************************************)
\* A step of one task that leaves the cached plans alone.
LEMMA OneTaskReady ==
    ASSUME Sound, PlansReady, NEW t \in Task, NEW y, task' = [task EXCEPT ![t] = y],
           TaskReady(y), plans' = plans
    PROVE  PlansReady'
<1>1. \A u \in Task : task'[u] = IF u = t THEN y ELSE task[u]
  BY DEF Sound
<1> QED
  BY <1>1 DEF PlansReady

\* A step of one task that neither gains a plan nor begins to evaluate one.
LEMMA QuietReady ==
    ASSUME Sound, PlansReady, NEW t \in Task, NEW y, task' = [task EXCEPT ![t] = y],
           y.pc # "evaluate", y.forks = task[t].forks \/ y.forks = << >>, plans' = plans
    PROVE  PlansReady'
<1>1. y.forks = << >> => DOMAIN y.forks = {}
  OBVIOUS
<1>2. TaskReady(y)
  BY <1>1 DEF PlansReady, TaskReady
<1> QED
  BY <1>2, OneTaskReady

\* A plan that was made is feasible where its env is bound.
LEMMA PlanMade ==
    ASSUME Sound, NEW t \in Task, Planning(t), task[t].remaining = {}
    PROVE  PlanReady(task[t].rule, Conjunction(t))
<1>1. PICK x, body : x = task[t] /\ body = Premises(x.rule)
  OBVIOUS
<1>2. x.caller # None /\ PlanState(x, compiled)
  BY <1>1 DEF Sound, TaskState, Planning
<1>3. ScopeOf(x) = Scope(t)
  BY <1>1, <1>2 DEF ScopeOf, Scope, Adornment
<1>4. FeasibleOrder(body, x.steps, Scope(t))
  BY <1>1, <1>2, <1>3 DEF PlanState
<1>5. Scope(t) \cap {Constant, Blank} = {}
  BY DEF Scope, IntoEnvironment
<1>6. Conjunction(t).steps = x.steps /\ Conjunction(t).env = Scope(t)
  BY <1>1 DEF Conjunction
<1> QED
  BY <1>1, <1>4, <1>5, <1>6 DEF PlanReady

\* A plan of a rule, cached or just made, that runs on the rows of a query.
LEMMA LookupReady ==
    ASSUME Sound, PlansReady, NEW t \in Task, NEW r, Lookup(t, r)
    PROVE  PlansReady'
<1>1. PICK x, key : x = task[t] /\ key = <<r, Adornment(t)>>
  OBVIOUS
<1>2. /\ DOMAIN task = Task /\ DOMAIN x = TaskFields /\ x.pc = "lookup" /\ plans' = plans
      /\ \A s \in DOMAIN x.forks : PlanReady(s, x.forks[s])
      /\ key[1] = r
  BY <1>1 DEF Lookup, Sound, TaskState, cacheVars, PlansReady, TaskReady
<1>3. CASE key \in DOMAIN plans
  <2>1. PICK p : p = plans[key]
    OBVIOUS
  <2>2. PlanReady(r, p)
    BY <1>2, <1>3, <2>1 DEF PlansReady
  <2>3. PICK y : y = [x EXCEPT !.todo = @ \ {r}, !.forks = Put(@, r, p)]
    OBVIOUS
  <2>4. task' = [task EXCEPT ![t] = y]
    <3>1. task' = [task EXCEPT ![t].todo = @ \ {r}, ![t].forks = Put(@, r, plans[key])]
      BY <1>1, <1>3 DEF Lookup
    <3> QED
      BY <1>1, <1>2, <2>1, <2>3, <3>1 DEF TaskFields
  <2>5. y.pc = "lookup" /\ y.forks = Put(x.forks, r, p)
    BY <1>2, <2>3 DEF TaskFields
  <2>6. \A s \in DOMAIN y.forks : PlanReady(s, y.forks[s])
    BY <1>2, <2>2, <2>5 DEF Put
  <2>7. TaskReady(y)
    BY <2>5, <2>6 DEF TaskReady
  <2> QED
    BY <1>2, <2>4, <2>7, OneTaskReady
<1>4. CASE key \notin DOMAIN plans
  <2>1. PICK y : y = task'[t]
    OBVIOUS
  <2>2. PICK body, scope :
          task' = [task EXCEPT ![t].todo = @ \ {r}, ![t].pc = "plan", ![t].rule = r,
                        ![t].remaining = body, ![t].steps = << >>, ![t].bound = scope]
    BY <1>1, <1>4, Zenon DEF Lookup
  <2>3. task' = [task EXCEPT ![t] = y] /\ y.pc = "plan" /\ y.forks = x.forks
    BY <1>1, <1>2, <2>1, <2>2 DEF TaskFields
  <2> QED
    BY <1>1, <1>2, <2>3, QuietReady
<1> QED
  BY <1>3, <1>4

\* A finished plan is kept with the env it was made for.
LEMMA PlannedReady ==
    ASSUME Sound, PlansReady, NEW t \in Task, Planned(t)
    PROVE  PlansReady'
<1>1. PICK x, r, plan, key : /\ x = task[t] /\ r = x.rule /\ plan = Conjunction(t)
                             /\ key = <<r, Adornment(t)>>
  OBVIOUS
<1>2. /\ DOMAIN task = Task /\ DOMAIN x = TaskFields
      /\ plans' = (IF r = Implicit THEN plans ELSE Put(plans, key, plan))
      /\ \A s \in DOMAIN x.forks : PlanReady(s, x.forks[s])
      /\ key[1] = r
  BY <1>1 DEF Planned, Sound, TaskState, PlansReady, TaskReady
<1>3. PlanReady(r, plan)
  BY <1>1, PlanMade DEF Planned
<1>4. PICK y : y = [x EXCEPT !.pc = "lookup", !.rule = None, !.bound = {}, !.steps = << >>,
                             !.forks = Put(@, r, plan)]
  OBVIOUS
<1>5. task' = [task EXCEPT ![t] = y]
  BY <1>1, <1>2, <1>4 DEF Planned, TaskFields
<1>6. y.pc = "lookup" /\ y.forks = Put(x.forks, r, plan)
  BY <1>2, <1>4 DEF TaskFields
<1>7. \A s \in DOMAIN y.forks : PlanReady(s, y.forks[s])
  BY <1>2, <1>3, <1>6 DEF Put
<1>8. TaskReady(y)
  BY <1>6, <1>7 DEF TaskReady
<1>9. \A u \in Task : task'[u] = IF u = t THEN y ELSE task[u]
  BY <1>2, <1>5
<1>10. \A u \in Task : TaskReady(task'[u])
  BY <1>8, <1>9 DEF PlansReady
<1>11. \A k \in DOMAIN plans' : PlanReady(k[1], plans'[k])
  <2>1. \A k \in DOMAIN plans : PlanReady(k[1], plans[k])
    BY DEF PlansReady
  <2>2. CASE r = Implicit
    BY <1>2, <2>1, <2>2
  <2>3. CASE r # Implicit
    <3> SUFFICES ASSUME NEW k \in DOMAIN plans' PROVE PlanReady(k[1], plans'[k])
      OBVIOUS
    <3>1. plans' = Put(plans, key, plan)
      BY <1>2, <2>3
    <3>2. CASE k = key
      <4>1. plans'[k] = plan
        BY <3>1, <3>2 DEF Put
      <4> QED
        BY <1>2, <1>3, <3>2, <4>1
    <3>3. CASE k # key
      <4>1. k \in DOMAIN plans /\ plans'[k] = plans[k]
        BY <3>1, <3>3 DEF Put
      <4> QED
        BY <2>1, <4>1
    <3> QED
      BY <3>2, <3>3
  <2> QED
    BY <2>2, <2>3
<1> QED
  BY <1>10, <1>11 DEF PlansReady

\* A plan that a row is given is feasible where its env and the row are bound.
LEMMA EvaluateReady ==
    ASSUME Sound, PlansReady, NEW t \in Task, NEW row, NEW r \in DOMAIN task[t].forks,
           Evaluate(t, row, r)
    PROVE  PlansReady'
<1>1. PICK x, steps, scope, bound : /\ x = task[t]
                                    /\ steps = x.forks[r].steps /\ scope = x.forks[r].env
                                    /\ bound = ExtractParameters(row, x.caller.terms)
  OBVIOUS
<1>2. PICK y : y = [Idle EXCEPT !.pc = "evaluate", !.rule = r, !.steps = steps, !.env = scope,
                                !.bound = bound]
  OBVIOUS
<1>3. task' = [task EXCEPT ![t] = y] /\ plans' = plans
  BY <1>1, <1>2 DEF Evaluate, cacheVars
<1>4. /\ y.pc = "evaluate" /\ y.forks = << >> /\ y.rule = r /\ y.steps = steps
      /\ y.env = scope /\ y.bound = bound /\ DOMAIN << >> = {}
  BY <1>2 DEF Idle
<1>5. FeasibleOrder(Premises(r), steps, scope) /\ scope \cap {Constant, Blank} = {}
  BY <1>1 DEF PlansReady, TaskReady, PlanReady
<1>6. FeasibleOrder(Premises(r), steps, scope \cup bound)
  BY <1>5, OrderMonotone
<1>7. TaskReady(y)
  BY <1>4, <1>5, <1>6 DEF TaskReady
<1> QED
  BY <1>3, <1>7, OneTaskReady

\* A step of a feasible order leaves a feasible order.
LEMMA StepReady ==
    ASSUME BodiesReady, Sound, PlansReady, NEW t \in Task, Step(t)
    PROVE  PlansReady'
<1>1. PICK x, body : x = task[t] /\ body = Premises(x.rule)
  OBVIOUS
<1>2. PICK env \in Extensions(body[Head(x.steps)], x.bound) :
          task' = [task EXCEPT ![t].steps = Tail(@), ![t].bound = env]
  BY <1>1 DEF Step, Current
<1>3. PICK y : y = [x EXCEPT !.steps = Tail(@), !.bound = env]
  OBVIOUS
<1>4. /\ DOMAIN task = Task /\ DOMAIN x = TaskFields /\ x.pc = "evaluate" /\ x.steps # << >>
      /\ plans' = plans /\ RowState(x, compiled) /\ compiled \subseteq Rule /\ TaskReady(x)
  BY <1>1, CachesSound DEF Step, Sound, TaskState, cacheVars, PlansReady
<1>5. task' = [task EXCEPT ![t] = y]
  BY <1>1, <1>2, <1>3, <1>4 DEF TaskFields
<1>6. /\ y.steps = Tail(x.steps) /\ y.bound = env /\ y.pc = "evaluate" /\ y.forks = x.forks
      /\ y.rule = x.rule /\ y.env = x.env
  BY <1>3, <1>4 DEF TaskFields
<1>7. /\ x.steps \in Seq(DOMAIN body) /\ x.rule \in Rules(Rule)
      /\ FeasibleOrder(body, x.steps, x.env \cup x.bound) /\ x.env \cap {Constant, Blank} = {}
  BY <1>1, <1>4 DEF RowState, Rules, TaskReady
<1>8. Head(x.steps) \in DOMAIN body
  BY <1>4, <1>7, EmptySeq, HeadTailProperties
<1>9. IsPremise(body[Head(x.steps)]) /\ FullYields(body[Head(x.steps)])
  BY <1>1, <1>7, <1>8, BodyTypes DEF BodiesReady
<1>10. x.bound \cup Provides(body[Head(x.steps)]) \subseteq env
  BY <1>9, ExtensionsBind
<1>11. FeasibleOrder(body, Tail(x.steps), x.env \cup env)
  <2>1. (x.env \cup x.bound) \cup Provides(body[Head(x.steps)]) \subseteq x.env \cup env
    BY <1>10
  <2> QED
    BY <1>4, <1>7, <2>1, OrderTail
<1>12. TaskReady(y)
  BY <1>1, <1>4, <1>6, <1>7, <1>11 DEF TaskReady
<1> QED
  BY <1>4, <1>5, <1>12, OneTaskReady

\* The steps that neither gain a plan nor begin to evaluate one.
LEMMA OtherReady ==
    ASSUME Sound, PlansReady, NEW t \in Task,
           \/ \E r \in Rule : Compile(t, r)
           \/ Accept(t) \/ Refuse(t) \/ Order(t) \/ Fail(t) \/ Finish(t)
           \/ \E c \in Caller : \E row \in c.rows, overlay \in SUBSET compiled :
                 Begin(t, c, row, overlay)
           \/ Scan(t) \/ RecordDiscovery(t) \/ Assemble(t)
           \/ \E r \in Rule : Hydrate(t, r)
    PROVE  PlansReady'
<1>1. PICK x, y : x = task[t] /\ y = task'[t]
  OBVIOUS
<1>2. DOMAIN x = TaskFields /\ DOMAIN task = Task
  BY <1>1 DEF Sound, TaskState
<1>3. CASE \/ \E r \in Rule : Compile(t, r)
           \/ Accept(t) \/ Refuse(t) \/ Fail(t) \/ Finish(t)
  <2>1. /\ task' = [task EXCEPT ![t] = y] /\ plans' = plans
        /\ y.pc # "evaluate" /\ y.forks = << >>
    <3>1. CASE \E r \in Rule : Compile(t, r)
      BY <1>1, <1>2, <3>1 DEF Compile, Idle, cacheVars
    <3>2. CASE Accept(t) \/ Refuse(t) \/ Fail(t) \/ Finish(t)
      BY <1>1, <1>2, <3>2 DEF Accept, Refuse, Fail, Finish, Idle, cacheVars
    <3> QED
      BY <1>3, <3>1, <3>2
  <2> QED
    BY <2>1, QuietReady
<1>4. CASE \E c \in Caller : \E row \in c.rows, overlay \in SUBSET compiled :
              Begin(t, c, row, overlay)
  <2>1. PICK c, row, overlay : Begin(t, c, row, overlay)
    BY <1>4
  <2>2. PICK pc, found, committed :
          /\ pc = IF Discovered THEN "hydrate" ELSE "scan"
          /\ found = IF Discovered THEN discovery.rules ELSE {}
          /\ committed = Committed
    OBVIOUS
  <2>3. task' = [task EXCEPT ![t] = y] /\ y.pc # "evaluate" /\ y.forks = << >>
    <3>1. pc # "evaluate"
      BY <2>2
    <3>2. task' = [task EXCEPT ![t] =
                [Idle EXCEPT !.pc = pc, !.caller = c, !.row = row, !.overlay = overlay,
                             !.head = head, !.found = found,
                             !.always = committed, !.ever = committed]]
      BY <2>1, <2>2 DEF Begin
    <3> QED
      BY <1>1, <1>2, <3>1, <3>2 DEF Idle
  <2>4. plans' = plans
    BY <2>1 DEF Begin, cacheVars
  <2> QED
    BY <2>3, <2>4, QuietReady
<1>5. CASE Order(t)
  <2>1. /\ task' = [task EXCEPT ![t] = y] /\ plans' = plans
        /\ y.pc # "evaluate" /\ y.forks = x.forks
    BY <1>1, <1>2, <1>5 DEF Order, TaskFields, cacheVars
  <2> QED
    BY <1>1, <2>1, QuietReady
<1>6. CASE Scan(t) \/ RecordDiscovery(t)
  <2>1. /\ task' = [task EXCEPT ![t] = y] /\ plans' = plans
        /\ y.pc # "evaluate" /\ y.forks = x.forks
    BY <1>1, <1>2, <1>6 DEF Scan, RecordDiscovery, TaskFields, cacheVars
  <2> QED
    BY <1>1, <2>1, QuietReady
<1>7. CASE Assemble(t) \/ \E r \in Rule : Hydrate(t, r)
  <2>1. /\ task' = [task EXCEPT ![t] = y] /\ plans' = plans
        /\ y.pc # "evaluate" /\ y.forks = x.forks
    BY <1>1, <1>2, <1>7 DEF Assemble, Hydrate, TaskFields, cacheVars
  <2> QED
    BY <1>1, <2>1, QuietReady
<1> QED
  BY <1>3, <1>4, <1>5, <1>6, <1>7

\* The steps that move the branch.
LEMMA BranchReady ==
    ASSUME Sound, PlansReady, NEW rules, task' = Observed(rules), plans' = plans
    PROVE  PlansReady'
<1>1. ASSUME NEW t \in Task PROVE TaskReady(task'[t])
  <2>1. PICK x, y : x = task[t] /\ y = task'[t]
    OBVIOUS
  <2>2. DOMAIN x = TaskFields /\ TaskReady(x)
    BY <2>1 DEF Sound, TaskState, PlansReady
  <2>3. /\ y.pc = x.pc /\ y.forks = x.forks /\ y.rule = x.rule /\ y.steps = x.steps
        /\ y.bound = x.bound /\ y.env = x.env
    BY <2>1, <2>2 DEF Observed, TaskFields
  <2>4. TaskReady(y)
    BY <2>2, <2>3 DEF TaskReady
  <2> QED
    BY <2>1, <2>4
<1> QED
  BY <1>1 DEF PlansReady

\* PlansReady is inductive relative to Sound.
LEMMA ReadyNext ==
    ASSUME BodiesReady
    PROVE  Sound /\ PlansReady /\ [Next]_vars => PlansReady'
<1> SUFFICES ASSUME Sound, PlansReady, [Next]_vars PROVE PlansReady'
  OBVIOUS
<1>1. ASSUME NEW r \in Rule, Install(r) \/ Retract(r) PROVE PlansReady'
  <2>1. PICK rules : Commit(rules)
    BY <1>1 DEF Install, Retract
  <2>2. task' = Observed(rules) /\ plans' = plans
    BY <2>1 DEF Commit, cacheVars
  <2> QED
    BY <2>2, BranchReady
<1>2. ASSUME NEW revision \in DOMAIN revisions, Reset(revision) PROVE PlansReady'
  <2>1. PICK rules : rules = revisions[revision]
    OBVIOUS
  <2>2. task' = Observed(rules) /\ plans' = plans
    BY <1>2, <2>1 DEF Reset, cacheVars
  <2> QED
    BY <2>2, BranchReady
<1>3. ASSUME NEW key \in DOMAIN plans, Evict(key) PROVE PlansReady'
  BY <1>3 DEF Evict, PlansReady
<1>4. CASE UNCHANGED vars
  BY <1>4 DEF vars, cacheVars, PlansReady
<1>5. ASSUME NEW t \in Task, \/ \E r \in Rule : Compile(t, r)
                             \/ Accept(t) \/ Refuse(t) \/ Order(t) \/ Query(t)
      PROVE  PlansReady'
  BY <1>5, OtherReady, LookupReady, PlannedReady, EvaluateReady, StepReady DEF Query
<1> QED
  BY <1>1, <1>2, <1>3, <1>4, <1>5 DEF Next

\* A step of a plan runs only on rows that bind what it needs
\* (planner/conjunction.rs:11-14), whichever call the plan was made and cached
\* for and whatever the names of its variables, except where the row lacks a
\* variable of the step that the plan counts on its caller to bind
\* (Conjunction.env), if the rules behind the concepts of a body derive all of
\* their operands and its premises select something.
THEOREM StepsHold ==
    ASSUME BodiesReady
    PROVE  Spec => []StepsReady
<1>1. Init => PlansReady
  BY DEF Init, PlansReady, TaskReady, Idle
<1>2. Sound /\ PlansReady => StepsReady
  <2> SUFFICES ASSUME Sound, PlansReady, NEW t \in Task, task[t].pc = "evaluate",
                      task[t].steps # << >>,
                      task[t].env \cap Variables(Current(t)) \subseteq task[t].bound
               PROVE  Ready(Current(t), task[t].bound)
    BY DEF StepsReady
  <2>1. PICK x, body : x = task[t] /\ body = Premises(x.rule)
    OBVIOUS
  <2>2. /\ RowState(x, compiled) /\ compiled \subseteq Rule /\ TaskReady(x)
        /\ x.pc = "evaluate" /\ x.steps # << >>
    BY <2>1, CachesSound DEF Sound, TaskState, PlansReady
  <2>3. /\ x.steps \in Seq(DOMAIN body) /\ x.rule \in Rules(Rule) /\ Blank \notin x.bound
        /\ FeasibleOrder(body, x.steps, x.env \cup x.bound)
        /\ x.env \cap {Constant, Blank} = {}
    BY <2>1, <2>2 DEF RowState, Rules, TaskReady
  <2>4. /\ Len(x.steps) \in Nat \ {0} /\ Head(x.steps) = x.steps[1]
        /\ Head(x.steps) \in DOMAIN body
    BY <2>2, <2>3, EmptySeq, HeadTailProperties
  <2>5. IsPremise(body[Head(x.steps)]) /\ Selects(body[Head(x.steps)])
    BY <2>1, <2>3, <2>4, BodyTypes DEF BodiesReady
  <2>6. Feasible(body[Head(x.steps)], x.env \cup x.bound)
    <3>1. Provided(body, x.steps, 1 - 1) = {}
      BY DEF Provided
    <3>2. (x.env \cup x.bound) \cup {} = x.env \cup x.bound
      OBVIOUS
    <3>3. 1 \in 1..Len(x.steps)
      BY <2>4
    <3>4. Feasible(body[x.steps[1]], (x.env \cup x.bound) \cup Provided(body, x.steps, 1 - 1))
      BY <2>3, <3>3 DEF FeasibleOrder
    <3> QED
      BY <2>4, <3>1, <3>2, <3>4
  <2>7. Feasible(body[Head(x.steps)], x.bound)
    <3>1. PICK p, other : p = body[Head(x.steps)] /\ other = x.env \ x.bound
      OBVIOUS
    <3>2. other \cap (Variables(p) \cup {Constant, Blank}) = {}
      BY <2>1, <2>3, <3>1 DEF Current
    <3>3. other \cup x.bound = x.env \cup x.bound
      BY <3>1
    <3>4. Feasible(p, other \cup x.bound)
      BY <2>6, <3>1, <3>3
    <3> QED
      BY <3>1, <3>2, <3>4, FeasibleApart
  <2>8. Ready(body[Head(x.steps)], x.bound)
    BY <2>3, <2>5, <2>7, FeasibleReady
  <2> QED
    BY <2>1, <2>8 DEF Current
<1>3. Sound /\ PlansReady /\ [Next]_vars => PlansReady'
  BY ReadyNext
<1> QED
  BY <1>1, <1>2, <1>3, SoundInit, SoundNext, PTL DEF Spec
=============================================================================
