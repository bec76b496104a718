----------------------------- MODULE DomainText -----------------------------
(***************************************************************************)
(* How several domain files become one domain: DomainReader joins their    *)
(* sections into one text, the parser reads that text, and DomainExpert    *)
(* looks things up in what was read.                                       *)
(*                                                                         *)
(* A file is a record of its sections.  In "types" and "constants" an      *)
(* entry is a name and the type whose dash follows it, None if there is no *)
(* dash: "robot room - place" is <<[name |-> robot, dash |-> None],        *)
(* [name |-> room, dash |-> place]>>.  "predicates" is a set of lines: a   *)
(* line has its place in the order of texts, a name and the types of its   *)
(* parameters.  "functions" have a name and parameters, "derived" a name,  *)
(* parameters and the names it uses, "actions" those and whether they are  *)
(* durative.                                                               *)
(***************************************************************************)
EXTENDS Integers, FiniteSets, Sequences, FiniteSetsExt, SequencesExt

CONSTANTS
    None,           \* no type, no text
    Content,        \* the text of each file, None if it is empty or missing
    Known           \* the requirements the parser knows

-----------------------------------------------------------------------------
(* DomainReader *)

\* An empty file is not added.
AddDomain(files, file) ==
    IF Content[file] = None THEN files ELSE Append(files, file)

Lines(files, section) ==
    FlattenSeq([i \in DOMAIN files |-> Content[files[i]][section]])

Gathered(files, section) == UNION {Content[files[i]][section] : i \in DOMAIN files}

\* Requirements and the lines of the predicates are gathered in a std::set,
\* everything else is copied in the order of the files.
JointDomain(files) ==
    [name |-> [i \in DOMAIN files |-> Content[files[i]].name],
     requirements |-> Gathered(files, "requirements"),
     types |-> Lines(files, "types"),
     constants |-> Lines(files, "constants"),
     predicates |-> Gathered(files, "predicates"),
     functions |-> Lines(files, "functions"),
     derived |-> Lines(files, "derived"),
     actions |-> Lines(files, "actions")]

-----------------------------------------------------------------------------
(* The parser *)

\* Mutant of TypedAs: a dash does not end the names that wait for a type.
TypedAsLast(list, i) ==
    LET dashes == {j \in i .. Len(list) : list[j].dash # None}
    IN  IF dashes = {} THEN None ELSE list[Max(dashes)].dash

\* The type of an entry is that of the next dash, whoever wrote it.
TypedAs(list, i) ==
    LET dashes == {j \in i .. Len(list) : list[j].dash # None}
    IN  IF dashes = {} THEN None ELSE list[Min(dashes)].dash

Typed(text) == "typing" \in text.requirements

\* Type 0 is "object", unless a file declares that name: then the root is
\* called "supertype".
Root(text) ==
    IF \E e \in ToSet(text.types) : e.name = "object" THEN "supertype" ELSE "object"

\* Every name on the left of a dash is a type, and every one on its right.
TypeNames(text) ==
    {Root(text)} \cup {e.name : e \in ToSet(text.types)}
    \cup ({e.dash : e \in ToSet(text.types)} \ {None})

SubTypes(text, type) ==
    LET own == {text.types[i].name :
                   i \in {j \in DOMAIN text.types : TypedAs(text.types, j) = type}}
        owned == {text.types[i].name :
                   i \in {j \in DOMAIN text.types : TypedAs(text.types, j) # None}}
    IN  IF type = Root(text)
        THEN own \cup (TypeNames(text) \ (owned \cup {type})) ELSE own

\* The types below a type, however far.
Below(text, type) ==
    LET Extend(types, i) == types \cup UNION {SubTypes(text, t) : t \in types}
    IN  FoldLeft(Extend, SubTypes(text, type), [i \in 1 .. Len(text.types) |-> i])

\* An argument is looked for in the type of its parameter and everything below,
\* without end if a type is below itself.
Overflows(text) ==
    \E a \in ToSet(text.derived \o text.actions) :
        \E p \in text.predicates : p.name \in a.uses /\
            \E type \in ToSet(p.params) \cap TypeNames(text) :
                \E t \in Below(text, type) \cup {type} : t \in Below(text, t)

\* The parser ends the process: types without :typing, actions or derived
\* predicates without predicates, or the stack exhausted.
Exits(text) ==
    /\ text.requirements \subseteq Known
    /\ \/ text.types # <<>> /\ ~Typed(text)
       \/ text.predicates = {} /\ text.actions \o text.derived # <<>>
       \/ Overflows(text)

\* The entries of a section up to the first that cannot be read.
ReadUpTo(list, good) ==
    SubSeq(list, 1, Max({n \in 0 .. Len(list) : \A i \in 1 .. n : list[i] \in good}))

Sorted(lines) == SetToSortSeq(lines, LAMBDA l1, l2 : l1.line < l2.line)

\* A section is read if everything before it was: an exception ends the
\* parsing, DomainExpert swallows it, and what was read remains.
Parse(text) ==
    LET known == text.requirements \subseteq Known
        types == IF known THEN TypeNames(text) ELSE {"object"}
        WellTyped(list) == {e \in ToSet(list) : ToSet(e.params) \subseteq types}
        typing == \A e \in ToSet(text.constants) : e.dash \in types \cup {None}
        constants == IF known /\ typing THEN text.constants ELSE <<>>
        lines == Sorted(text.predicates)
        preds == IF known /\ typing THEN ReadUpTo(lines, WellTyped(lines)) ELSE <<>>
        predsRead == known /\ typing /\ Len(preds) = Cardinality(text.predicates)
        funcs == IF predsRead THEN ReadUpTo(text.functions, WellTyped(text.functions)) ELSE <<>>
        funcsRead == predsRead /\ Len(funcs) = Len(text.functions)
        Readable(list) ==
            {e \in WellTyped(list) : e.uses \subseteq {d.name : d \in ToSet(preds \o funcs)}}
        derived == IF funcsRead THEN ReadUpTo(text.derived, Readable(text.derived)) ELSE <<>>
        derivedRead == funcsRead /\ Len(derived) = Len(text.derived)
        actions == IF derivedRead THEN ReadUpTo(text.actions, Readable(text.actions)) ELSE <<>>
    IN  [name |-> text.name,
         typed |-> known /\ Typed(text),
         types |-> types,
         subTypes |-> [t \in types |-> IF known THEN SubTypes(text, t) ELSE {}],
         constants |-> constants,
         preds |-> preds,
         funcs |-> funcs,
         derived |-> derived,
         actions |-> actions,
         complete |-> derivedRead /\ Len(actions) = Len(text.actions)]

-----------------------------------------------------------------------------
(* DomainExpert: what is looked up in the parsed domain *)

Names(list) == [i \in DOMAIN list |-> list[i].name]

\* The details of the first declaration of a name.
Found(domain, list, name) ==
    IF \E i \in DOMAIN list : list[i].name = name
    THEN LET first == SelectInSeq(list, LAMBDA d : d.name = name)
         IN  [i \in DOMAIN list[first].params |->
                 [type |-> list[first].params[i],
                  subTypes |-> domain.subTypes[list[first].params[i]]]]
    ELSE None

IsDurative(action) == action.durative

IsInstantaneous(action) == ~action.durative

GetTypes(domain) == IF domain.typed THEN domain.types ELSE {}

GetPredicates(domain) == Names(domain.preds)
GetPredicate(domain, name) == Found(domain, domain.preds, name)
GetFunctions(domain) == Names(domain.funcs)
GetFunction(domain, name) == Found(domain, domain.funcs, name)
GetDerivedPredicates(domain) == domain.derived
GetDerivedPredicate(domain, name) ==
    SelectSeq(domain.derived, LAMBDA d : d.name = name)
GetActions(domain) == Names(SelectSeq(domain.actions, IsInstantaneous))
GetAction(domain, name) ==
    Found(domain, SelectSeq(domain.actions, IsInstantaneous), name)
GetDurativeActions(domain) == Names(SelectSeq(domain.actions, IsDurative))
GetDurativeAction(domain, name) ==
    Found(domain, SelectSeq(domain.actions, IsDurative), name)
-----------------------------------------------------------------------------
\* What joining must not change.  The last types of a file may lack a dash:
\* alone they are objects, and in a joint text the first dash of the next file
\* makes them its own.
UntypedTail(file) ==
    {file.types[i].name :
        i \in {j \in DOMAIN file.types : TypedAs(file.types, j) = None}}

Redeclared(files, i, type) ==
    \E j \in DOMAIN files \ {i} : \E e \in ToSet(Content[files[j]].types) :
        type \in {e.name, e.dash}

TypesAreKept(files, i, alone, joint) ==
    \A t \in alone.types : \A s \in alone.subTypes[t] :
        \/ s \in joint.subTypes[t]
        \/ s \in UntypedTail(Content[files[i]])
        \/ /\ t = Root(Content[files[i]])
           /\ Redeclared(files, i, s) \/ Root(JointDomain(files)) # t

\* An action keeps its parameters unless a file before declares its name.
ActionsAreKept(files, i, alone, joint) ==
    \A a \in ToSet(alone.actions) :
        \/ \E j \in 1 .. i - 1 : \E b \in ToSet(Content[files[j]].actions) : a.name = b.name
        \/ SelectSeq(joint.actions, LAMBDA b : b.name = a.name)[1] = a

KeepsMeaning(files) ==
    LET joint == Parse(JointDomain(files))
        Alone(i) == Parse(JointDomain(<<files[i]>>))
    IN  /\ (\A i \in DOMAIN files : Alone(i).complete) => joint.complete
        /\ joint.complete =>
             \A i \in DOMAIN files :
                 /\ TypesAreKept(files, i, Alone(i), joint)
                 /\ ActionsAreKept(files, i, Alone(i), joint)
=============================================================================
