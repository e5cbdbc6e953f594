--------------------------- MODULE RuleResolution ---------------------------
(***************************************************************************)
(* Deductive rules of one concept, from their compilation to the rows they *)
(* answer a query with (dialog-query: rule.rs, concept/query.rs and        *)
(* concept/query/*; dialog-repository: rules.rs, branch/session.rs).       *)
(*                                                                         *)
(* Rules are compiled, committed to a branch and retracted from it.  A     *)
(* query that meets the concept looks up the rules committed at the head   *)
(* of the branch, through a cache tagged with a head, adds those of its    *)
(* own overlay, plans each through a cache keyed by rule and adornment,    *)
(* and runs the plan it made for its first row on all of its rows.  The    *)
(* names of its variables may be those of the bodies': the default query   *)
(* of a derived concept has the concept's operands.                        *)
(*                                                                         *)
(* The search tree, cells and archives under the branch are other modules; *)
(* here a revision is the set of rules in its tree.                        *)
(***************************************************************************)
EXTENDS Planner

CONSTANTS
    None,
    Task,           \* threads: each compiles a rule or runs a query
    Rule,           \* rules an application writes for the concept
    Implicit,       \* the rule of the concept's own attributes
    Body,           \* [Rule -> premises]
    Fields,         \* the concept's attributes: sequence of [name, card, optional]
    Sorted,         \* the concept's operands in alphabetical order
    Caller,         \* queries: the terms of the operands, the patterns of the rows
    MaxRevisions,   \* bound on the revisions of the branch
    MaxQueries      \* bound on the queries begun

ASSUME RuleAssumption ==
    /\ Implicit \notin Rule /\ None \notin Caller
    /\ \A c \in Caller : Blank \notin DOMAIN c.terms
    /\ MaxRevisions \in Nat /\ MaxQueries \in Nat
    /\ \A r \in Rule : /\ DOMAIN Body[r] = 1..Len(Body[r]) /\ Len(Body[r]) \in Nat
                      /\ \A i \in DOMAIN Body[r] : IsPremise(Body[r][i])
\* A concept requires an attribute (TypeError::EmptyConcept).
ASSUME FieldsAssumption ==
    /\ DOMAIN Fields = 1..Len(Fields) /\ Len(Fields) \in Nat
    /\ \A i \in DOMAIN Fields : Fields[i].optional \in BOOLEAN
    /\ \E i \in DOMAIN Fields : ~Fields[i].optional
    /\ ({"this"} \cup {Fields[i].name : i \in DOMAIN Fields}) \cap {Constant, Blank} = {}

Put(f, key, value) ==
    [k \in DOMAIN f \cup {key} |-> IF k = key THEN value ELSE f[k]]

-----------------------------------------------------------------------------
\* DeductiveRule::from(&ConceptDescriptor): a scan per attribute, a left join
\* for an optional one.
ImplicitBody ==
    [i \in DOMAIN Fields |->
        [kind |-> IF Fields[i].optional THEN "optional" ELSE "attribute",
         terms |-> [the |-> Constant, of |-> "this", is |-> Fields[i].name, cause |-> Blank],
         negated |-> FALSE,
         maybe |-> IF Fields[i].optional THEN {"is", "cause"} ELSE {},
         cards |-> [is |-> Fields[i].card],
         cost |-> 0, yields |-> {}]]

\* The premises as they are analyzed, and as they are planned and evaluated.
Analyzed(r) == IF r = Implicit THEN ImplicitBody ELSE Body[r]
Premises(r) == Narrow(Analyzed(r))

RequiredOperands == {"this"} \cup {f.name : f \in {f \in Range(Fields) : ~f.optional}}

-----------------------------------------------------------------------------
(***************************************************************************)
(* The binding pattern of a call.                                          *)
(***************************************************************************)
\* The bit of a key: its place among the call's keys in alphabetical order.
Place == [k \in Range(Sorted) |-> CHOOSE i \in DOMAIN Sorted : Sorted[i] = k]
Bit(terms, k) == Cardinality({r \in DOMAIN terms : Place[r] < Place[k]})

\* Adornment::derive
Derive(terms, row) ==
    {Bit(terms, k) : k \in {k \in DOMAIN terms : IsBound(terms[k], row)}}

AdornedKeys(adornment, terms) == {k \in DOMAIN terms : Bit(terms, k) \in adornment}

\* Adornment::into_environment: the scope has the caller's names.
IntoEnvironment(adornment, terms) ==
    {terms[k] : k \in AdornedKeys(adornment, terms)} \ {Constant, Blank}

ExtractParameters(row, terms) == {k \in DOMAIN terms : IsBound(terms[k], row)}

-----------------------------------------------------------------------------
VARIABLES
    compiled,       \* rules that compile accepted
    revisions,      \* the rules in the tree of each revision, by number
    head,           \* the branch's revision, 0 before the first
    revisited,      \* revisions the branch was reset to
    discovery,      \* RuleCache.discovery: the head of a scan and what it found
    bodies,         \* RuleCache.bodies: rules with a hydrated body
    plans,          \* PlanCache: rule and adornment to the steps and the env of the plan
    queries,        \* queries begun
    task            \* what each thread is doing

branchVars == <<revisions, head, revisited, queries>>
cacheVars == <<discovery, bodies, plans>>
vars == <<compiled, branchVars, cacheVars, task>>

Committed == IF head = 0 THEN {} ELSE revisions[head]

Idle == [pc |-> "idle", caller |-> None, row |-> {}, overlay |-> {},
         head |-> 0, found |-> {}, rules |-> {}, todo |-> {}, forks |-> << >>,
         rule |-> None, remaining |-> {}, bound |-> {}, steps |-> << >>, env |-> {},
         always |-> {}, ever |-> {}]

Compiling(t) == task[t].pc = "plan" /\ task[t].caller = None
Planning(t) == task[t].pc = "plan" /\ task[t].caller # None
Adornment(t) == Derive(task[t].caller.terms, task[t].row)
Scope(t) == IntoEnvironment(Adornment(t), task[t].caller.terms)

Init ==
    /\ compiled = {}
    /\ revisions = << >> /\ head = 0 /\ revisited = {} /\ queries = 0
    /\ discovery = None /\ bodies = {} /\ plans = << >>
    /\ task = [t \in Task |-> Idle]

-----------------------------------------------------------------------------
(***************************************************************************)
(* Compile::compile: analysis, a plan for the empty scope, every required  *)
(* operand bound.                                                          *)
(***************************************************************************)
\* Mutant of CompileScope: the rule is planned as if its operands were bound.
CompileScopeOperands == RequiredOperands

CompileScope == {}

Compile(t, r) ==
    /\ task[t] = Idle
    /\ r \notin compiled
    /\ Analyzes(RequiredOperands, Analyzed(r))
    /\ task' = [task EXCEPT ![t] = [Idle EXCEPT !.pc = "plan", !.rule = r,
                                    !.remaining = DOMAIN Premises(r),
                                    !.bound = CompileScope]]
    /\ UNCHANGED <<compiled, branchVars, cacheVars>>

\* Mutant of Grounded: the operands of the conclusion are not looked at.
GroundedIgnored(bound) == TRUE

Grounded(bound) == RequiredOperands \subseteq bound

\* Every premise is ordered: the rule is a rule if its conclusion is grounded.
Accept(t) ==
    /\ Compiling(t)
    /\ task[t].remaining = {}
    /\ compiled' = IF Grounded(task[t].bound) THEN compiled \cup {task[t].rule}
                   ELSE compiled
    /\ task' = [task EXCEPT ![t] = Idle]
    /\ UNCHANGED <<branchVars, cacheVars>>

\* No premise is feasible: the rule is refused.
Refuse(t) ==
    /\ Compiling(t)
    /\ task[t].remaining # {}
    /\ Candidates(Premises(task[t].rule), task[t].remaining, task[t].bound) = {}
    /\ task' = [task EXCEPT ![t] = Idle]
    /\ UNCHANGED <<compiled, branchVars, cacheVars>>

\* A round of Planner::plan, for a compilation or for a query.
Order(t) ==
    /\ task[t].pc = "plan"
    /\ LET body == Premises(task[t].rule)
           i == Cheapest(body, task[t].remaining, task[t].bound)
       IN  /\ Candidates(body, task[t].remaining, task[t].bound) # {}
           /\ task' = [task EXCEPT ![t].remaining = @ \ {i},
                                   ![t].steps = Append(@, i),
                                   ![t].bound = @ \cup Binds(body[i], @)]
    /\ UNCHANGED <<compiled, branchVars, cacheVars>>

-----------------------------------------------------------------------------
(***************************************************************************)
(* The branch: committing a rule or its retraction, and Branch::reset.     *)
(***************************************************************************)
\* What a running query may see: rules committed all along, rules committed
\* at some moment.
Observed(rules) ==
    [t \in Task |->
        IF task[t].caller = None THEN task[t]
        ELSE [task[t] EXCEPT !.always = @ \cap rules, !.ever = @ \cup rules]]

Commit(rules) ==
    /\ Len(revisions) < MaxRevisions
    /\ revisions' = Append(revisions, rules)
    /\ head' = Len(revisions')
    /\ task' = Observed(rules)
    /\ UNCHANGED <<compiled, revisited, queries, cacheVars>>

Install(r) == r \in compiled \ Committed /\ Commit(Committed \cup {r})

Retract(r) == r \in Committed /\ Commit(Committed \ {r})

Reset(revision) ==
    /\ revision # head
    /\ head' = revision
    /\ revisited' = revisited \cup {revision}
    /\ task' = Observed(revisions[revision])
    /\ UNCHANGED <<compiled, revisions, queries, cacheVars>>

-----------------------------------------------------------------------------
(***************************************************************************)
(* SelectRules: the rules of the branch, at its head, and of the overlay.  *)
(***************************************************************************)
\* Mutant of Discovered: what any scan found.
DiscoveredAnywhere == discovery # None

Discovered == discovery # None /\ head # 0 /\ discovery.head = head

\* A query meets the concept: durable_rules reads the head and its cache.
Begin(t, caller, row, overlay) ==
    /\ task[t] = Idle
    /\ queries < MaxQueries
    /\ queries' = queries + 1
    /\ task' = [task EXCEPT ![t] =
            [Idle EXCEPT !.pc = IF Discovered THEN "hydrate" ELSE "scan",
                         !.caller = caller, !.row = row, !.overlay = overlay,
                         !.head = head,
                         !.found = IF Discovered THEN discovery.rules ELSE {},
                         !.always = Committed, !.ever = Committed]]
    /\ UNCHANGED <<compiled, revisions, head, revisited, cacheVars>>

\* The scan of db.rule/conclusion reads the head again.
Scan(t) ==
    /\ task[t].pc = "scan"
    /\ task' = [task EXCEPT ![t].pc = "record", ![t].found = Committed]
    /\ UNCHANGED <<compiled, branchVars, cacheVars>>

\* Mutant of RecordDiscovery: a scan of a branch without a head is kept too.
RecordDiscoveryHeadless(t) ==
    /\ task[t].pc = "record"
    /\ discovery' = [head |-> task[t].head, rules |-> task[t].found]
    /\ task' = [task EXCEPT ![t].pc = "hydrate"]
    /\ UNCHANGED <<compiled, branchVars, bodies, plans>>

\* The scan has ended; what it found is kept for the head read at the start.
RecordDiscovery(t) ==
    /\ task[t].pc = "record"
    /\ discovery' = IF task[t].head = 0 THEN discovery
                    ELSE [head |-> task[t].head, rules |-> task[t].found]
    /\ task' = [task EXCEPT ![t].pc = "hydrate"]
    /\ UNCHANGED <<compiled, branchVars, bodies, plans>>

\* A body: cached, or read from db.rule/source at the head, or gone by now.
Hydrate(t, r) ==
    /\ task[t].pc = "hydrate"
    /\ r \in task[t].found
    /\ LET hydrated == bodies \cup ({r} \cap Committed)
       IN  /\ bodies' = hydrated
           /\ task' = [task EXCEPT ![t].found = @ \ {r},
                                   ![t].rules = @ \cup ({r} \cap hydrated)]
    /\ UNCHANGED <<compiled, branchVars, discovery, plans>>

\* A read of the tree fails, and the query with it.
Fail(t) ==
    /\ task[t].pc \in {"scan", "hydrate"}
    /\ task' = [task EXCEPT ![t] = Idle]
    /\ UNCHANGED <<compiled, branchVars, cacheVars>>

Assembled(durable, overlay) == durable \cup overlay

Assemble(t) ==
    /\ task[t].pc = "hydrate"
    /\ task[t].found = {}
    /\ LET rules == Assembled(task[t].rules, task[t].overlay)
       IN  task' = [task EXCEPT ![t].pc = "lookup", ![t].rules = rules,
                                ![t].todo = rules \cup {Implicit}]
    /\ UNCHANGED <<compiled, branchVars, cacheVars>>

-----------------------------------------------------------------------------
(***************************************************************************)
(* ConceptRules::plan: a plan for each rule, the implicit one first.       *)
(***************************************************************************)
\* PlanCache::get_or_plan: a hit, or the planner's start.
Lookup(t, r) ==
    /\ task[t].pc = "lookup"
    /\ r \in task[t].todo
    /\ Implicit \in task[t].todo => r = Implicit
    /\ LET key == <<r, Adornment(t)>>
       IN  \/ /\ key \in DOMAIN plans
              /\ task' = [task EXCEPT ![t].todo = @ \ {r},
                                      ![t].forks = Put(@, r, plans[key])]
           \/ /\ key \notin DOMAIN plans
              /\ task' = [task EXCEPT ![t].todo = @ \ {r}, ![t].pc = "plan", ![t].rule = r,
                        ![t].remaining = DOMAIN Premises(r), ![t].steps = << >>,
                        ![t].bound = Scope(t)]
    /\ UNCHANGED <<compiled, branchVars, cacheVars>>

\* The plan is complete, and says what it counts on the row to bind; the
\* implicit rule's has no key to be cached under.
Conjunction(t) == [steps |-> task[t].steps, env |-> Scope(t)]

Planned(t) ==
    /\ Planning(t)
    /\ task[t].remaining = {}
    /\ plans' = IF task[t].rule = Implicit THEN plans
                ELSE Put(plans, <<task[t].rule, Adornment(t)>>, Conjunction(t))
    /\ task' = [task EXCEPT ![t].pc = "lookup", ![t].rule = None, ![t].bound = {},
                            ![t].steps = << >>,
                            ![t].forks = Put(@, task[t].rule, Conjunction(t))]
    /\ UNCHANGED <<compiled, branchVars, discovery, bodies>>

\* The plan cache is full.
Evict(key) ==
    /\ plans' = [k \in DOMAIN plans \ {key} |-> plans[k]]
    /\ UNCHANGED <<compiled, branchVars, discovery, bodies, task>>

-----------------------------------------------------------------------------
(***************************************************************************)
(* ConceptQuery::evaluate: a row, the first one or a later one, through    *)
(* the plan of one of the rules.  Nothing compares the row with its env.   *)
(***************************************************************************)
Evaluate(t, row, r) ==
    /\ task[t].pc = "lookup"
    /\ task[t].todo = {}
    /\ task' = [task EXCEPT ![t] =
            [Idle EXCEPT !.pc = "evaluate", !.rule = r,
                         !.steps = task[t].forks[r].steps, !.env = task[t].forks[r].env,
                         !.bound = ExtractParameters(row, task[t].caller.terms)]]
    /\ UNCHANGED <<compiled, branchVars, cacheVars>>

Current(t) == Premises(task[t].rule)[Head(task[t].steps)]

Step(t) ==
    /\ task[t].pc = "evaluate"
    /\ task[t].steps # << >>
    /\ \E env \in Extensions(Current(t), task[t].bound) :
          task' = [task EXCEPT ![t].steps = Tail(@), ![t].bound = env]
    /\ UNCHANGED <<compiled, branchVars, cacheVars>>

Finish(t) ==
    /\ task[t].pc = "evaluate"
    /\ task[t].steps = << >>
    /\ task' = [task EXCEPT ![t] = Idle]
    /\ UNCHANGED <<compiled, branchVars, cacheVars>>

Query(t) ==
    \/ \E c \in Caller : \E row \in c.rows, overlay \in SUBSET compiled :
          Begin(t, c, row, overlay)
    \/ Scan(t) \/ RecordDiscovery(t) \/ Fail(t) \/ Assemble(t)
    \/ \E r \in Rule : Hydrate(t, r)
    \/ \E r \in Rule \cup {Implicit} : Lookup(t, r)
    \/ Planned(t) \/ Step(t) \/ Finish(t)
    \/ \E r \in DOMAIN task[t].forks : \E row \in task[t].caller.rows : Evaluate(t, row, r)

Next ==
    \/ \E t \in Task :
          \/ \E r \in Rule : Compile(t, r)
          \/ Accept(t) \/ Refuse(t) \/ Order(t)
          \/ Query(t)
    \/ \E r \in Rule : Install(r) \/ Retract(r)
    \/ \E revision \in DOMAIN revisions : Reset(revision)
    \/ \E key \in DOMAIN plans : Evict(key)

Spec == Init /\ [][Next]_vars

-----------------------------------------------------------------------------
(***************************************************************************)
(* Properties.                                                             *)
(***************************************************************************)
\* Types of the variables, and that what is committed, cached, found or used was
\* compiled (rule.rs, rules.rs, session.rs).
TypeOK ==
    /\ compiled \subseteq Rule
    /\ revisions \in Seq(SUBSET compiled)
    /\ head \in 0..Len(revisions)
    /\ revisited \subseteq DOMAIN revisions
    /\ discovery # None => /\ discovery.head \in DOMAIN revisions
                           /\ discovery.rules \subseteq compiled
    /\ bodies \subseteq compiled
    /\ \A key \in DOMAIN plans : key[1] \in compiled /\ plans[key].steps \in Seq(Nat)
    /\ \A t \in Task : task[t].found \cup task[t].rules \subseteq compiled

\* A step of a plan runs only on rows that bind what it needs
\* (planner/conjunction.rs:11-14), whichever call the plan was made for, except
\* where the row lacks a variable of the step that the plan counts on its caller
\* to bind (Conjunction.env, conjunction.rs:32).
StepsReady ==
    \A t \in Task :
        /\ task[t].pc = "evaluate" /\ task[t].steps # << >>
        /\ task[t].env \cap Variables(Current(t)) \subseteq task[t].bound
        => Ready(Current(t), task[t].bound)

\* A rule that compiled can be planned for every call: the expect in
\* DeductiveRule::plan never fires.
PlannableByConstruction ==
    \A t \in Task :
        Planning(t) /\ task[t].remaining # {}
            => Candidates(Premises(task[t].rule), task[t].remaining, task[t].bound) # {}

\* Greedy planning misses no order: a refused body has a premise that no order
\* of the others makes feasible.
Orderable(body) ==
    \E order \in {o \in [DOMAIN body -> DOMAIN body] : Range(o) = DOMAIN body} :
        \A i \in DOMAIN body :
            Feasible(body[order[i]],
                     UNION {IF body[order[j]].negated THEN {}
                            ELSE Variables(body[order[j]]) : j \in 1..(i - 1)})

RefusalJustified ==
    \A t \in Task :
        Compiling(t) /\ task[t].remaining # {}
                     /\ Candidates(Premises(task[t].rule), task[t].remaining, task[t].bound) = {}
            => ~Orderable(Premises(task[t].rule))

\* Every row a rule answers with binds the required operands of the concept,
\* so that the caller's variables are bound.
HeadsBound ==
    \A t \in Task :
        task[t].pc = "evaluate" /\ task[t].steps = << >>
            => RequiredOperands \subseteq task[t].bound

\* A query uses every rule that was committed all along and no rule that was
\* not committed at some moment of it, besides its own overlay, as long as the
\* branch was not reset to the head it started at.
RulesCurrent ==
    \A t \in Task :
        /\ task[t].caller # None
        /\ task[t].pc \notin {"scan", "record", "hydrate"}
        /\ task[t].head \notin revisited
        => /\ task[t].always \cup task[t].overlay \subseteq task[t].rules
           /\ task[t].rules \subseteq task[t].ever \cup task[t].overlay
=============================================================================
