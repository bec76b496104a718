---------------------------- MODULE MCRuleOrder -----------------------------
(* A domain with two rules for one predicate, one for another that needs it and *)
(* itself, and a rule that nothing is inferred from; and the ways in which     *)
(* three rules may depend on one another.                                      *)
EXTENDS RuleOrder

Heads == {"open", "seen", "free"}

\* Pairs of a predicate and one that its rule needs: the rules are independent, in a
\* row, in a row with a short cut, one before a circle of two, one behind it, one circle,
\* a rule that needs itself before, between and behind the others.
Dependencies ==
    {{},
     {<<"seen", "open">>, <<"free", "seen">>},
     {<<"seen", "open">>, <<"free", "seen">>, <<"free", "open">>},
     {<<"seen", "open">>, <<"seen", "free">>, <<"free", "seen">>},
     {<<"open", "seen">>, <<"seen", "open">>, <<"free", "seen">>},
     {<<"open", "free">>, <<"seen", "open">>, <<"free", "seen">>},
     {<<"open", "open">>, <<"seen", "open">>, <<"free", "seen">>},
     {<<"seen", "open">>, <<"seen", "seen">>, <<"free", "seen">>},
     {<<"seen", "open">>, <<"free", "seen">>, <<"free", "free">>}}

\* The first rule needs a stored predicate as well, the others may need rules only.
RulesOf(depends) ==
    {Derived(head, {d[2] : d \in {e \in depends : e[1] = head}}
                       \cup IF head = "open" THEN {"road"} ELSE {}) : head \in Heads}

MCDomains ==
    {{Derived("open", {"road"}), Derived("open", {"rail"}),
      Derived("seen", {"open", "seen"}), Derived("free", {"seen"})}}
    \cup {RulesOf(depends) : depends \in Dependencies}

MCActions == {Action("move", {"open", "road"}), Action("park", {"free"})}

MCHeadOf == [p \in {"open door"} |-> "open"]
=============================================================================
