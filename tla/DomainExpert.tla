---------------------------- MODULE DomainExpert ----------------------------
(***************************************************************************)
(* The node of the domain expert, with a client in C++ or Python.          *)
(*                                                                         *)
(* The node reads the files of its parameter when it is configured, checks *)
(* what it has after every file, publishes the joint text when it becomes  *)
(* active, and answers from its constructor on: its services refuse only   *)
(* while there is no DomainExpert at all.  Its transitions and services    *)
(* are in one callback group, so nothing is served during a transition.    *)
(***************************************************************************)
EXTENDS DomainText, ServiceCalls

CONSTANTS
    ModelFiles,     \* the values of the parameter model_file, lists of files
    Asked,          \* the names and types that requests ask for
    MaxInbox        \* texts on their way to the client

ASSUME DomainAssumption == \A files \in ModelFiles : files \in Seq(DOMAIN Content)

VARIABLES
    node,           \* the state of the node, "dead" when its process has ended
    expert,         \* the files in domain_expert_, None for a null pointer
    inbox,          \* texts on "domain" that the client has not taken yet
    cached,         \* cached_domain_, None if empty
    last,           \* history: the files of the last on_configure
    validated       \* history: is everything in domain_expert_ validated

nodeVars == <<node, expert, last, validated>>

vars == <<node, expert, inbox, cached, last, validated, callVars>>

Load(files, n) == FoldLeft(AddDomain, <<>>, SubSeq(files, 1, n))

Loads == UNION {{Load(files, n) : n \in 0 .. Len(files)} : files \in ModelFiles}

\* The files stand for their joint text.
Text == expert

\* domain_, and whether the process survives its making.
Parsed == [load \in Loads |-> Parse(JointDomain(load))]

Fatal == {load \in Loads : Exits(JointDomain(load))}

Domain == Parsed[expert]

-----------------------------------------------------------------------------
(* The lifecycle *)

\* A message is dropped unless the publisher is active.
Publish(active, text) ==
    IF active
    THEN Len(inbox) < MaxInbox /\ inbox' = Append(inbox, text)
    ELSE UNCHANGED inbox

\* No file is read: whatever there is remains, and the node is configured.
ConfigureNothing ==
    /\ node = "unconfigured" /\ <<>> \in ModelFiles
    /\ node' = "inactive"
    /\ last' = <<>>
    /\ UNCHANGED <<expert, inbox, cached, validated>>

\* Mutant of Read: a DomainExpert is only made if there is none.
ReadOnce(files, n) ==
    /\ node = "unconfigured"
    /\ expert' = IF expert = None THEN Load(files, n) ELSE expert
    /\ last' = files
    /\ UNCHANGED <<inbox, cached>>

\* The first n files are read into a new DomainExpert.
Read(files, n) ==
    /\ node = "unconfigured"
    /\ expert' = Load(files, n)
    /\ last' = files
    /\ UNCHANGED <<inbox, cached>>

Survives(files, n) == \A k \in 1 .. n : Load(files, k) \notin Fatal

\* After the n-th file the planner says that the domain is not valid, or the
\* planner node does not answer: FAILURE, with these files loaded.
ConfigureFails(files) ==
    \E n \in DOMAIN files :
        /\ Survives(files, n) /\ Read(files, n)
        /\ validated' = FALSE
        /\ UNCHANGED node

Configure(files) ==
    /\ files # <<>> /\ Survives(files, Len(files))
    /\ Read(files, Len(files))
    /\ validated' = TRUE
    /\ node' = "inactive"

\* The parser calls exit().
ConfigureExits(files) ==
    \E n \in DOMAIN files :
        /\ Survives(files, n - 1) /\ ~Survives(files, n) /\ Read(files, n)
        /\ validated' = FALSE
        /\ node' = "dead"

\* The parameter model_file is read at each configuration.
OnConfigure ==
    \/ ConfigureNothing
    \/ \E files \in ModelFiles :
           ConfigureFails(files) \/ Configure(files) \/ ConfigureExits(files)

\* Mutant of OnActivate: the text is published before the publisher is active.
OnActivateEarly ==
    /\ node = "inactive" /\ expert # None
    /\ node' = "active"
    /\ Publish(FALSE, Text)
    /\ UNCHANGED <<expert, cached, last, validated>>

OnActivate ==
    /\ node = "inactive" /\ expert # None
    /\ node' = "active"
    /\ Publish(TRUE, Text)
    /\ UNCHANGED <<expert, cached, last, validated>>

\* Without any file the null pointer is dereferenced.
ActivateCrashes ==
    /\ node = "inactive" /\ expert = None
    /\ node' = "dead"
    /\ UNCHANGED <<expert, inbox, cached, last, validated>>

Leave(from, to) ==
    /\ node \in from /\ node' = to
    /\ UNCHANGED <<expert, inbox, cached, last, validated>>

OnDeactivate == Leave({"active"}, "inactive")

OnCleanup == Leave({"inactive"}, "unconfigured")

OnShutdown == Leave({"unconfigured", "inactive", "active"}, "finalized")

-----------------------------------------------------------------------------
(* The services, each answering for the domain of the moment *)

Refused == [reply |-> "refused"]

Reply(value) == IF value = None THEN Refused ELSE [reply |-> "done", value |-> value]

Respond(service, value) ==
    Answered(service, IF expert = None THEN Refused ELSE Reply(value))

GetDomainNameCallback == Respond("get_domain_name", Domain.name)

GetDomainTypesCallback == Respond("get_domain_types", GetTypes(Domain))

GetDomainActionsCallback == Respond("get_domain_actions", GetActions(Domain))

GetDomainActionDetailsCallback ==
    \E a \in Asked : Respond("get_domain_action_details", GetAction(Domain, a))

GetDomainDurativeActionsCallback ==
    Respond("get_domain_durative_actions", GetDurativeActions(Domain))

GetDomainDurativeActionDetailsCallback ==
    \E a \in Asked :
        Respond("get_domain_durative_action_details", GetDurativeAction(Domain, a))

GetDomainPredicatesCallback ==
    Respond("get_domain_predicates", GetPredicates(Domain))

GetDomainPredicateDetailsCallback ==
    \E p \in Asked : Respond("get_domain_predicate_details", GetPredicate(Domain, p))

GetDomainFunctionsCallback == Respond("get_domain_functions", GetFunctions(Domain))

GetDomainFunctionDetailsCallback ==
    \E f \in Asked : Respond("get_domain_function_details", GetFunction(Domain, f))

GetDomainDerivedPredicatesCallback ==
    Respond("get_domain_derived_predicates", GetDerivedPredicates(Domain))

GetDomainDerivedPredicateDetailsCallback ==
    \E p \in Asked :
        LET details == GetDerivedPredicate(Domain, p)
        IN  Respond("get_domain_derived_predicate_details",
                    IF details = <<>> THEN None ELSE details)

GetDomainCallback == Respond("get_domain", Text)

Serve ==
    /\ node # "dead"
    /\ \/ GetDomainNameCallback \/ GetDomainTypesCallback
       \/ GetDomainActionsCallback \/ GetDomainActionDetailsCallback
       \/ GetDomainDurativeActionsCallback
       \/ GetDomainDurativeActionDetailsCallback
       \/ GetDomainPredicatesCallback \/ GetDomainPredicateDetailsCallback
       \/ GetDomainFunctionsCallback \/ GetDomainFunctionDetailsCallback
       \/ GetDomainDerivedPredicatesCallback
       \/ GetDomainDerivedPredicateDetailsCallback \/ GetDomainCallback
    /\ UNCHANGED <<nodeVars, inbox, cached>>

-----------------------------------------------------------------------------
(* The client *)

CppGetName == Ask("get_domain_name")
CppGetTypes == Ask("get_domain_types")
CppGetConstants == Ask("get_domain_constants")
CppGetPredicates == Ask("get_domain_predicates")
CppGetPredicate == Ask("get_domain_predicate_details")
CppGetFunctions == Ask("get_domain_functions")
CppGetFunction == Ask("get_domain_function_details")
CppGetDerivedPredicates == Ask("get_domain_derived_predicates")
CppGetDerivedResolutionGraph == Ask("get_domain_derived_predicates")
CppGetDerivedPredicate == Ask("get_domain_derived_predicate_details")
CppGetActions == Ask("get_domain_actions")
CppGetAction == Ask("get_domain_action_details")
CppGetDurativeActions == Ask("get_domain_durative_actions")
CppGetDurativeAction == Ask("get_domain_durative_action_details")
CppGetDomain == Ask("get_domain")

CppMethods ==
    {CppGetName, CppGetTypes, CppGetConstants, CppGetPredicates, CppGetPredicate,
     CppGetFunctions, CppGetFunction, CppGetDerivedPredicates,
     CppGetDerivedResolutionGraph, CppGetDerivedPredicate, CppGetActions,
     CppGetAction, CppGetDurativeActions, CppGetDurativeAction, CppGetDomain}

py_get_domain == PyCall("get_domain")
py_get_domain_name == PyCall("get_domain_name")
py_get_domain_types == PyCall("get_domain_types")
py_get_domain_constants == PyCall("get_domain_constants")
py_get_domain_predicates == PyCall("get_domain_predicates")
py_get_domain_functions == PyCall("get_domain_functions")
py_get_domain_derived_predicates == PyCall("get_domain_derived_predicates")
py_get_domain_derived_predicate_details ==
    PyCall("get_domain_derived_predicate_details")
py_get_domain_actions == PyCall("get_domain_actions")
py_get_domain_durative_actions == PyCall("get_domain_durative_actions")
py_get_domain_predicate_details == PyCall("get_domain_predicate_details")
py_get_domain_function_details == PyCall("get_domain_function_details")
py_get_domain_action_details == PyCall("get_domain_action_details")
py_get_domain_durative_action_details ==
    PyCall("get_domain_durative_action_details")

PyMethods ==
    {py_get_domain, py_get_domain_name, py_get_domain_types,
     py_get_domain_constants, py_get_domain_predicates, py_get_domain_functions,
     py_get_domain_derived_predicates, py_get_domain_derived_predicate_details,
     py_get_domain_actions, py_get_domain_durative_actions,
     py_get_domain_predicate_details, py_get_domain_function_details,
     py_get_domain_action_details, py_get_domain_durative_action_details}

\* The services that the node makes: that of the constants is not among them.
NodeServices ==
    {m.service : m \in CppMethods \cup PyMethods} \ {"get_domain_constants"}

Aside == UNCHANGED <<nodeVars, inbox, cached>>

Call == Aside /\ \E m \in Methods : Begin(m)

\* The texts are taken while a call spins the node of the client; the answer
\* of get_domain is not kept.
ReceiveDomain ==
    /\ Calling("sent") \/ Calling("answered")
    /\ inbox # <<>>
    /\ inbox' = Tail(inbox)
    /\ cached' = Head(inbox)
    /\ UNCHANGED <<nodeVars, callVars>>

-----------------------------------------------------------------------------
Init ==
    /\ node = "unconfigured"
    /\ expert = None
    /\ inbox = <<>>
    /\ cached = None
    /\ last = <<>>
    /\ validated = FALSE
    /\ CallInit

Transition ==
    /\ found
    /\ \/ OnConfigure \/ OnActivate \/ ActivateCrashes \/ OnDeactivate
       \/ OnCleanup \/ OnShutdown
    /\ found' = (node' # "dead") /\ UNCHANGED call

Next ==
    \/ Transition
    \/ Serve \/ Call \/ ReceiveDomain
    \/ Aside /\ node # "dead" /\ Appear
    \/ Aside /\ (Send \/ NotAvailable \/ TimedOut \/ Return)

\* The process of the node starts, and the client's waits have timeouts.
Spec ==
    /\ Init /\ [][Next]_vars
    /\ WF_vars(Aside /\ node # "dead" /\ Appear)
    /\ WF_vars(Aside /\ (Send \/ NotAvailable))
    /\ WF_vars(Aside /\ (TimedOut \/ Return))

-----------------------------------------------------------------------------
\* A configured node has all the files of its configuration and no others, and
\* they were found valid.  The exception the code leaves open: with an empty
\* parameter (last = <<>>) on_configure succeeds with whatever an earlier one
\* has left behind, a failed one included.
ConfiguredIsWhole ==
    node \in {"inactive", "active"} /\ last # <<>> =>
        validated /\ expert = Load(last, Len(last))

\* Joining files takes nothing from any of them.
Distorted == {load \in Loads \ Fatal : ~KeepsMeaning(load)}

JoiningKeepsMeaning == expert \notin Distorted

\* A client that has taken all texts has the domain of the active node, which
\* getDomain(true) then returns.
CacheIsCurrent == node = "active" /\ inbox = <<>> => cached = Text

-----------------------------------------------------------------------------
(* The invariant behind ConfiguredIsWhole and CacheIsCurrent.              *)

TypeOK ==
    /\ node \in {"unconfigured", "inactive", "active", "finalized", "dead"}
    /\ expert \in Loads \cup {None}
    /\ inbox \in Seq(Loads)
    /\ cached \in Loads \cup {None}
    /\ last \in ModelFiles \cup {<<>>}
    /\ validated \in BOOLEAN

\* The newest text a client has, or has on its way to it, is that of the active node.
NewestIsCurrent ==
    node = "active" => Text = IF inbox = <<>> THEN cached ELSE inbox[Len(inbox)]

DomainInv == TypeOK /\ ConfiguredIsWhole /\ NewestIsCurrent
=============================================================================
