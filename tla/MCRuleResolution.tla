-------------------------- MODULE MCRuleResolution --------------------------
\* A concept with a name and an optional nick, and rules that conclude it.
EXTENDS RuleResolution, TLC

CONSTANTS upper, known, loose, nameless, silent,    \* rules
          t1,
          EmployeeYields                    \* what the rules of Employee derive

Premise(kind, terms, maybe, cards, cost, yields) ==
    [kind |-> kind, terms |-> terms, negated |-> FALSE, maybe |-> maybe,
     cards |-> cards, cost |-> cost, yields |-> yields]
Unless(p) == [p EXCEPT !.negated = TRUE]

\* Employee { this, name, nick? }, a concept that bodies are made of.
Employee(this, name, nick) ==
    Premise("concept", [this |-> this, name |-> name, nick |-> nick], {"nick"},
            [name |-> "one", nick |-> "one"], 0, EmployeeYields)
\* A left join on an attribute.
GivenName(of, is) ==
    Premise("optional", [the |-> Constant, of |-> of, is |-> is, cause |-> Blank],
            {"is", "cause"}, [is |-> "one"], 0, {})
UpperCase(of, is) == Premise("formula", [of |-> of, is |-> is], {}, << >>, 1, {})
Equality(this, is) == Premise("equality", [this |-> this, is |-> is], {}, << >>, 1, {})
LessThan(of, with) == Premise("compare", [of |-> of, with |-> with], {}, << >>, 1, {})
Coalesce(source, is) ==
    Premise("coalesce", [source |-> source, fallback |-> Constant, is |-> is],
            {"source"}, << >>, 1, {})

AllOperands == {{"this", "name", "nick"}}
NickLeftOut == {{"this", "name", "nick"}, {"this", "name"}}

MCFields == <<[name |-> "name", card |-> "many", optional |-> FALSE],
              [name |-> "nick", card |-> "one", optional |-> TRUE]>>
MCSorted == <<"name", "nick", "this">>
MCOperand == {"name", "nick", "this"}

MCBody ==
    \* the upper case of a given name, which the equality needs present
    (upper :> <<UpperCase("first", "name"), LessThan("first", Constant),
                Equality("first", "given"), GivenName("this", "given")>>) @@
    \* an employee known by a nick that is nobody's name
    (known :> <<Unless(Employee(Blank, "alias", Blank)), Coalesce("alias", "nick"),
                Employee("this", "name", "alias")>>) @@
    \* reads an operand that only a caller could bind
    (loose :> <<UpperCase("name", "other"), Employee("this", Blank, Blank)>>) @@
    \* a required operand from an optional field, or from nowhere
    (nameless :> <<Employee("this", Blank, "name")>>) @@
    (silent :> <<Employee("this", Blank, Blank)>>)

\* Calls with constants and blanks, and with variables that have the names of
\* variables in the bodies.
MCCaller ==
    \* the default query of the derived concept
    {[terms |-> [this |-> "this", name |-> "name", nick |-> "nick"],
      rows |-> {{}, {"this", "nick"}}],
     [terms |-> [this |-> "p", name |-> Constant], rows |-> {{}}],
     [terms |-> [this |-> Blank, nick |-> "first"], rows |-> {{"first"}}]}
=============================================================================
