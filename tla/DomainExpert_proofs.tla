------------------------ MODULE DomainExpert_proofs -------------------------
(***************************************************************************)
(* For any files, lists of files and clients, and for a topic that holds   *)
(* any number of texts: a configured node has what its last configuration  *)
(* names, found valid, and a client that has taken all texts has it too.   *)
(***************************************************************************)
EXTENDS DomainExpert, TLAPS

-----------------------------------------------------------------------------
(* Types                                                                   *)

\* What on_configure has loaded after some of the files is one of the loads.
LEMMA LoadTyped ==
    ASSUME NEW files \in ModelFiles, NEW n \in DOMAIN files
    PROVE  /\ Load(files, n) \in Loads /\ Load(files, Len(files)) \in Loads
           /\ Len(files) \in Nat /\ DOMAIN files = 1 .. Len(files)
  <1>1. files \in Seq(DOMAIN Content)
    BY DomainAssumption
  <1>2. Len(files) \in Nat /\ DOMAIN files = 1 .. Len(files)
    BY <1>1
  <1>3. n \in 0 .. Len(files) /\ Len(files) \in 0 .. Len(files)
    BY <1>2
  <1>4. \A k \in 0 .. Len(files) : Load(files, k) \in Loads
    BY DEF Loads
  <1> QED BY <1>2, <1>3, <1>4

\* A list of files that is not empty has a last one.
LEMMA LastFile ==
    ASSUME NEW files \in ModelFiles, files # <<>>
    PROVE  Len(files) \in DOMAIN files
  <1>1. files \in Seq(DOMAIN Content)
    BY DomainAssumption
  <1> QED BY <1>1

\* What on_configure may leave: the files and the verdict on them.
LEMMA ConfigureLeaves ==
    ASSUME TypeOK, OnConfigure
    PROVE  /\ node = "unconfigured" /\ node' \in {"unconfigured", "inactive", "dead"}
           /\ expert' \in Loads \cup {None} /\ last' \in ModelFiles \cup {<<>>}
           /\ validated' \in BOOLEAN /\ UNCHANGED <<inbox, cached>>
           /\ node' = "inactive" /\ last' # <<>> =>
                  validated' /\ expert' = Load(last', Len(last'))
  <1> USE DEF TypeOK
  <1>1. CASE ConfigureNothing
    BY <1>1 DEF ConfigureNothing
  <1>2. ASSUME NEW files \in ModelFiles, ConfigureFails(files)
        PROVE  /\ node = "unconfigured" /\ node' = "unconfigured"
               /\ expert' \in Loads /\ last' = files
               /\ validated' = FALSE /\ UNCHANGED <<inbox, cached>>
    BY <1>2, LoadTyped DEF ConfigureFails, Read
  <1>3. ASSUME NEW files \in ModelFiles, Configure(files)
        PROVE  /\ node = "unconfigured" /\ node' = "inactive"
               /\ expert' \in Loads /\ expert' = Load(files, Len(files)) /\ last' = files
               /\ validated' = TRUE /\ UNCHANGED <<inbox, cached>>
    BY <1>3, LoadTyped, LastFile DEF Configure, Read
  <1>4. ASSUME NEW files \in ModelFiles, ConfigureExits(files)
        PROVE  /\ node = "unconfigured" /\ node' = "dead"
               /\ expert' \in Loads /\ last' = files
               /\ validated' = FALSE /\ UNCHANGED <<inbox, cached>>
    BY <1>4, LoadTyped DEF ConfigureExits, Read
  <1> QED BY <1>1, <1>2, <1>3, <1>4 DEF OnConfigure

\* The transitions that leave the files alone.
OtherTransition == OnActivate \/ ActivateCrashes \/ OnDeactivate \/ OnCleanup \/ OnShutdown

\* Calls and answers change nothing but the call; only a transition changes the node.
LEMMA StepKinds ==
    ASSUME [Next]_vars
    PROVE  \/ OnConfigure \/ OtherTransition
           \/ UNCHANGED nodeVars /\ ReceiveDomain
           \/ UNCHANGED <<nodeVars, inbox, cached>>
  <1>1. CASE Transition
    BY <1>1 DEF Transition, OtherTransition
  <1>2. CASE Serve \/ Call
    BY <1>2 DEF Serve, Call, Aside
  <1>3. CASE ReceiveDomain
    BY <1>3 DEF ReceiveDomain
  <1>4. CASE UNCHANGED vars
    BY <1>4 DEF vars, nodeVars
  <1> QED BY <1>1, <1>2, <1>3, <1>4 DEF Next, Aside

\* Another transition goes to another state, and only on_activate tells a text.
LEMMA OtherLeaves ==
    ASSUME TypeOK, OtherTransition
    PROVE  /\ UNCHANGED <<expert, cached, last, validated>>
           /\ node' \in {"unconfigured", "inactive", "active", "finalized", "dead"}
           /\ node' = "inactive" => node \in {"inactive", "active"}
           /\ \/ node' # "active" /\ UNCHANGED inbox
              \/ /\ node = "inactive" /\ node' = "active" /\ expert \in Loads
                 /\ inbox' = Append(inbox, Text)
  <1> USE DEF TypeOK
  <1>1. CASE OnActivate
    BY <1>1 DEF OnActivate, Publish
  <1>2. CASE ActivateCrashes
    BY <1>2 DEF ActivateCrashes
  <1>3. CASE OnDeactivate \/ OnCleanup \/ OnShutdown
    BY <1>3 DEF OnDeactivate, OnCleanup, OnShutdown, Leave
  <1> QED BY <1>1, <1>2, <1>3 DEF OtherTransition

\* Init: every variable starts in its type.
LEMMA TypeInit == Init => TypeOK
  <1>1. <<>> \in Seq(Loads)
    OBVIOUS
  <1> QED BY <1>1 DEF Init, TypeOK

\* Every step keeps the types.
LEMMA TypeNext ==
    ASSUME TypeOK, [Next]_vars
    PROVE  TypeOK'
  <1>1. CASE OnConfigure
    BY <1>1, ConfigureLeaves DEF TypeOK
  <1>2. CASE OtherTransition
    <2>1. inbox' \in Seq(Loads)
      BY <1>2, OtherLeaves DEF TypeOK, Text
    <2> QED BY <1>2, <2>1, OtherLeaves DEF TypeOK
  <1>3. CASE UNCHANGED nodeVars /\ ReceiveDomain
    <2>1. inbox' \in Seq(Loads) /\ cached' \in Loads
      BY <1>3 DEF ReceiveDomain, TypeOK
    <2> QED BY <1>3, <2>1 DEF nodeVars, TypeOK
  <1>4. CASE UNCHANGED <<nodeVars, inbox, cached>>
    BY <1>4 DEF nodeVars, TypeOK
  <1> QED BY <1>1, <1>2, <1>3, <1>4, StepKinds

-----------------------------------------------------------------------------
(* The configuration and the copy of it                                    *)

\* A node leaves the state "unconfigured" for "inactive" by a configuration alone.
LEMMA WholeNext ==
    ASSUME TypeOK, ConfiguredIsWhole, [Next]_vars
    PROVE  ConfiguredIsWhole'
  <1>1. CASE OnConfigure
    BY <1>1, ConfigureLeaves DEF ConfiguredIsWhole
  <1>2. CASE OtherTransition
    BY <1>2, OtherLeaves DEF ConfiguredIsWhole
  <1>3. CASE UNCHANGED nodeVars
    BY <1>3 DEF nodeVars, ConfiguredIsWhole
  <1> QED BY <1>1, <1>2, <1>3, StepKinds

\* The newest of several texts remains when the oldest is taken.
LEMMA LastOfTail ==
    ASSUME NEW S, NEW q \in Seq(S), q # <<>>, Len(q) # 1
    PROVE  Tail(q) # <<>> /\ Tail(q)[Len(Tail(q))] = q[Len(q)]
  <1>0. Len(q) \in Nat \ {0}
    OBVIOUS
  <1>1. Len(q) \in Nat /\ Len(q) > 1
    <2>1. \A n \in Nat : n # 0 /\ n # 1 => n > 1
      OBVIOUS
    <2> QED BY <1>0, <2>1
  <1>2. /\ Len(Tail(q)) = Len(q) - 1
        /\ \A i \in 1 .. (Len(q) - 1) : Tail(q)[i] = q[i + 1]
    OBVIOUS
  <1>3. Len(q) - 1 \in 1 .. (Len(q) - 1) /\ (Len(q) - 1) + 1 = Len(q)
    BY <1>1
  <1>4. Tail(q)[Len(q) - 1] = q[Len(q)]
    BY <1>2, <1>3
  <1>5. Tail(q) # <<>>
    <2>1. Len(q) - 1 # 0
      BY <1>1
    <2>2. Len(<<>>) = 0
      OBVIOUS
    <2> QED BY <1>2, <2>1, <2>2
  <1> QED BY <1>2, <1>4, <1>5

\* The node tells its text when it becomes active, and the client takes texts in order.
LEMMA NewestNext ==
    ASSUME TypeOK, NewestIsCurrent, [Next]_vars
    PROVE  NewestIsCurrent'
  <1>1. inbox \in Seq(Loads)
    BY DEF TypeOK
  <1>2. CASE OnConfigure
    BY <1>2, ConfigureLeaves DEF NewestIsCurrent
  <1>3. CASE OtherTransition
    <2>1. Append(inbox, Text) # <<>>
          /\ Append(inbox, Text)[Len(Append(inbox, Text))] = Text
      BY <1>1
    <2> QED BY <1>3, <2>1, OtherLeaves DEF NewestIsCurrent, Text
  <1>4. CASE UNCHANGED nodeVars /\ ReceiveDomain
    <2>1. /\ node' = node /\ Text' = Text /\ inbox # <<>>
          /\ inbox' = Tail(inbox) /\ cached' = Head(inbox)
      BY <1>4 DEF nodeVars, ReceiveDomain, Text
    <2>2. CASE Len(inbox) = 1
      <3>1. Tail(inbox) = <<>> /\ Head(inbox) = inbox[Len(inbox)]
        BY <1>1, <2>2
      <3> QED BY <2>1, <3>1 DEF NewestIsCurrent
    <2>3. CASE Len(inbox) # 1
      <3>1. Tail(inbox) # <<>> /\ Tail(inbox)[Len(Tail(inbox))] = inbox[Len(inbox)]
        BY <1>1, <2>1, <2>3, LastOfTail
      <3> QED BY <2>1, <3>1 DEF NewestIsCurrent
    <2> QED BY <2>2, <2>3
  <1>5. CASE UNCHANGED <<nodeVars, inbox, cached>>
    BY <1>5 DEF nodeVars, NewestIsCurrent, Text
  <1> QED BY <1>2, <1>3, <1>4, <1>5, StepKinds

-----------------------------------------------------------------------------
(* Theorems                                                                *)

\* The types, the configuration and the newest text hold together in every state.
THEOREM DomainInvCorrect == Spec => []DomainInv
  <1>1. Init => DomainInv
    BY TypeInit DEF Init, DomainInv, ConfiguredIsWhole, NewestIsCurrent
  <1>2. DomainInv /\ [Next]_vars => DomainInv'
    BY TypeNext, WholeNext, NewestNext DEF DomainInv
  <1> QED BY <1>1, <1>2, PTL DEF Spec

\* A configured node has all the files of its last configuration, found valid, unless
\* that one named no file: a configuration that failed or was cut short leaves nothing.
THEOREM ConfigurationIsWhole == Spec => []ConfiguredIsWhole
  <1>1. DomainInv => ConfiguredIsWhole
    BY DEF DomainInv
  <1> QED BY <1>1, DomainInvCorrect, PTL

\* A client that has taken all that was published has the domain of the active node,
\* however often the node was configured and activated before.
THEOREM CopyOfDomainIsCurrent == Spec => []CacheIsCurrent
  <1>1. DomainInv => CacheIsCurrent
    BY DEF DomainInv, NewestIsCurrent, CacheIsCurrent
  <1> QED BY <1>1, DomainInvCorrect, PTL
=============================================================================
