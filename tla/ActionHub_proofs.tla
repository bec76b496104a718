-------------------------- MODULE ActionHub_proofs --------------------------
(* What holds of ActionHub for any number of executors and performers.     *)
EXTENDS ActionHub, TLAPS

-----------------------------------------------------------------------------
(* Queues.                                                                 *)

\* What is in a FIFO after a message was published.
LEMMA HoldsAppend ==
    ASSUME NEW S, NEW q \in Seq(S), NEW m \in S, NEW k
    PROVE  Holds(Append(q, m), k) <=> Holds(q, k) \/ k = m
  <1>1. Len(q) \in Nat /\ DOMAIN q = 1..Len(q)
    OBVIOUS
  <1>2. /\ DOMAIN Append(q, m) = 1..(Len(q) + 1)
        /\ \A i \in 1..Len(q) : Append(q, m)[i] = q[i]
        /\ Append(q, m)[Len(q) + 1] = m
    OBVIOUS
  <1> QED BY <1>1, <1>2 DEF Holds

\* What is in a FIFO after a message was taken was there before.
LEMMA HoldsTail ==
    ASSUME NEW S, NEW q \in Seq(S), q # <<>>, NEW k, Holds(Tail(q), k)
    PROVE  Holds(q, k)
  <1>1. Len(q) \in Nat \ {0} /\ DOMAIN q = 1..Len(q)
    OBVIOUS
  <1>2. /\ DOMAIN Tail(q) = 1..(Len(q) - 1)
        /\ \A i \in 1..(Len(q) - 1) : Tail(q)[i] = q[i + 1]
    OBVIOUS
  <1> QED BY <1>1, <1>2 DEF Holds

\* The message at the head of a FIFO is in it.
LEMMA HoldsHead ==
    ASSUME NEW S, NEW q \in Seq(S), q # <<>>
    PROVE  Holds(q, Head(q))
  <1>1. 1 \in DOMAIN q /\ Head(q) = q[1]
    OBVIOUS
  <1> QED BY <1>1 DEF Holds

\* Nothing is in an empty FIFO.
LEMMA HoldsNothing == \A k : ~Holds(<<>>, k)
  BY DEF Holds

-----------------------------------------------------------------------------
(* Types.                                                                  *)

\* What a subaction may do to the FIFOs keeps their type.
LEMMA HubTypes ==
    ASSUME TypeOK, NEW e \in Executors, NEW p \in Performers
    PROVE  /\ \A m \in ExecutorMessage : Tell(e, p, m) =>
                  toPerformer' \in [Executors -> [Performers -> Seq(ExecutorMessage)]]
           /\ toPerformer[e][p] # <<>> /\ TakenByPerformer(e, p) =>
                  toPerformer' \in [Executors -> [Performers -> Seq(ExecutorMessage)]]
           /\ \A a : \A m \in PerformerMessage : Announce(p, a, m) =>
                  toExecutor' \in [Performers -> [Executors -> Seq(PerformerMessage)]]
           /\ toExecutor[p][e] # <<>> /\ TakenByExecutor(p, e) =>
                  toExecutor' \in [Performers -> [Executors -> Seq(PerformerMessage)]]
  <1>1. ASSUME NEW m \in ExecutorMessage, Tell(e, p, m)
        PROVE  toPerformer' \in [Executors -> [Performers -> Seq(ExecutorMessage)]]
    BY <1>1 DEF TypeOK, Tell
  <1>2. ASSUME toPerformer[e][p] # <<>>, TakenByPerformer(e, p)
        PROVE  toPerformer' \in [Executors -> [Performers -> Seq(ExecutorMessage)]]
    BY <1>2 DEF TypeOK, TakenByPerformer
  <1>3. ASSUME NEW m \in PerformerMessage, NEW a, Announce(p, a, m)
        PROVE  toExecutor' \in [Performers -> [Executors -> Seq(PerformerMessage)]]
    BY <1>3 DEF TypeOK, Announce
  <1>4. ASSUME toExecutor[p][e] # <<>>, TakenByExecutor(p, e)
        PROVE  toExecutor' \in [Performers -> [Executors -> Seq(PerformerMessage)]]
    BY <1>4 DEF TypeOK, TakenByExecutor
  <1> QED BY <1>1, <1>2, <1>3, <1>4

\* So does a REQUEST to every performer.
LEMMA RequestTypes ==
    ASSUME TypeOK, NEW e \in Executors, Request(e)
    PROVE  toPerformer' \in [Executors -> [Performers -> Seq(ExecutorMessage)]]
  BY DEF TypeOK, Request, ExecutorMessage

\* Init: every variable starts in its type.
LEMMA TypeInit == Init => TypeOK
  BY ExecutorsAssumption, PerformersAssumption
  DEF Init, TypeOK, Status, CycleIdle, SpinIdle, Arguments

\* The execution cycle keeps the types.
LEMMA TypeCycle ==
    ASSUME TypeOK, NEW e \in Executors, CycleStep(e)
    PROVE  TypeOK'
  <1> USE ExecutorsAssumption, PerformersAssumption
        DEF executorVars, threadVars, performerVars, hubVars
  <1>1. CASE Tick(e)
    BY <1>1 DEF Tick, TypeOK, Status, CycleGoes
  <1>2. CASE RequestForPerformers(e)
    BY <1>2, RequestTypes DEF RequestForPerformers, TypeOK, CycleGoes, CycleAt
  <1>3. CASE ArmTimer(e)
    BY <1>3 DEF ArmTimer, TypeOK, CycleIdle
  <1>4. CASE DealingTimeout(e)
    BY <1>4 DEF DealingTimeout, TypeOK, CycleGoes
  <1>5. CASE Expire(e)
    BY <1>5 DEF Expire, TypeOK, Status, CycleGoes
  <1>6. CASE ExpiryFailsPlan(e)
    BY <1>6 DEF ExpiryFailsPlan, EndPlan, TypeOK, CycleGoes
  <1>7. CASE ExpiryOverwritten(e)
    BY <1>7 DEF ExpiryOverwritten, TypeOK, CycleIdle
  <1>8. CASE Visit(e)
    BY <1>8 DEF Visit, TypeOK, CycleAt
  <1>9. CASE Cancel(e)
    BY <1>9 DEF Cancel, TypeOK, Status, CycleGoes
  <1>10. CASE SendCancel(e)
    <2>1. toPerformer' \in [Executors -> [Performers -> Seq(ExecutorMessage)]]
      <3>1. CASE performer[e] \in Performers
        BY <1>10, <3>1, HubTypes DEF SendCancel, ExecutorMessage
      <3>2. CASE performer[e] \notin Performers
        BY <1>10, <3>2 DEF SendCancel, Tell, TypeOK
      <3> QED BY <3>1, <3>2
    <2> QED BY <1>10, <2>1 DEF SendCancel, TypeOK, CycleGoes
  <1> QED BY <1>1, <1>2, <1>3, <1>4, <1>5, <1>6, <1>7, <1>8, <1>9, <1>10 DEF CycleStep

\* The spin thread, which handles what the performers say, keeps the types.
LEMMA TypeSpin ==
    ASSUME TypeOK, NEW e \in Executors, NEW p \in Performers, SpinStep(e, p)
    PROVE  TypeOK'
  <1> USE ExecutorsAssumption, PerformersAssumption
        DEF executorVars, threadVars, performerVars, hubVars
  <1>1. CASE ReceiveResponse(e, p)
    BY <1>1, HubTypes DEF ReceiveResponse, NextForExecutor, TypeOK
  <1>2. CASE ConfirmPerformer(e, p)
    BY <1>2, HubTypes DEF ConfirmPerformer, TypeOK, Status, SpinIdle, ExecutorMessage
  <1>3. CASE RejectPerformer(e, p)
    BY <1>3, HubTypes DEF RejectPerformer, TypeOK, SpinIdle, ExecutorMessage
  <1>4. CASE ReceiveFeedback(e, p)
    BY <1>4, HubTypes DEF ReceiveFeedback, NextForExecutor, TypeOK
  <1>5. ASSUME NEW m, ReceiveFinish(e, p, m)
        PROVE  TypeOK'
    BY <1>5, HubTypes DEF ReceiveFinish, NextForExecutor, TypeOK, Status
  <1> QED BY <1>1, <1>2, <1>3, <1>4, <1>5 DEF SpinStep

\* A performer that takes a message keeps the types.
LEMMA TypePerformer ==
    ASSUME TypeOK, NEW e \in Executors, NEW p \in Performers, PerformerReceives(p, e)
    PROVE  TypeOK'
  <1> USE DEF executorVars, threadVars, performerVars, hubVars
  <1>1. CASE ReceiveRequest(p, e)
    BY <1>1, HubTypes DEF ReceiveRequest, NextForPerformer, TypeOK, PerformerMessage
  <1>2. CASE ReceiveConfirm(p, e)
    <2>1. ActionOf[e].args \in Arguments
      BY DEF Arguments
    <2> QED BY <1>2, <2>1, HubTypes DEF ReceiveConfirm, NextForPerformer, TypeOK
  <1>3. CASE ReceiveReject(p, e)
    BY <1>3, HubTypes DEF ReceiveReject, NextForPerformer, TypeOK
  <1>4. CASE ReceiveCancel(p, e)
    BY <1>4, HubTypes DEF ReceiveCancel, NextForPerformer, TypeOK
  <1> QED BY <1>1, <1>2, <1>3, <1>4 DEF PerformerReceives

\* A performer that is configured, reports or finishes keeps the types.
LEMMA TypeWork ==
    ASSUME TypeOK, NEW p \in Performers,
           Configure(p) \/ SendFeedback(p) \/ PerformerFinishes(p)
    PROVE  TypeOK'
  <1> USE DEF executorVars, threadVars, performerVars, hubVars
  <1>1. \A a : \A m \in PerformerMessage : Announce(p, a, m) =>
          toExecutor' \in [Performers -> [Executors -> Seq(PerformerMessage)]]
    BY DEF TypeOK, Announce
  <1>2. CASE Configure(p)
    BY <1>2 DEF Configure, TypeOK
  <1>3. CASE SendFeedback(p)
    BY <1>1, <1>3 DEF SendFeedback, TypeOK, PerformerMessage
  <1>4. CASE PerformerFinishes(p)
    BY <1>1, <1>4 DEF PerformerFinishes, Finish, TypeOK, PerformerMessage
  <1> QED BY <1>2, <1>3, <1>4

\* Every action keeps every variable in its type.
LEMMA TypeNext == TypeOK /\ [Next]_vars => TypeOK'
  <1> SUFFICES ASSUME TypeOK, [Next]_vars PROVE TypeOK'
    OBVIOUS
  <1>1. CASE PlanFails \/ PlanCancelled
    BY <1>1 DEF PlanFails, PlanCancelled, EndPlan, CycleGoes, TypeOK,
                executorVars, performerVars, hubVars
  <1>2. ASSUME NEW e \in Executors, CycleStep(e)
        PROVE  TypeOK'
    BY <1>2, TypeCycle
  <1>3. ASSUME NEW e \in Executors, WaitTimeout(e)
        PROVE  TypeOK'
    BY <1>3, RequestTypes
    DEF WaitTimeout, TypeOK, executorVars, threadVars, performerVars
  <1>4. ASSUME NEW e \in Executors, NEW p \in Performers, SpinStep(e, p)
        PROVE  TypeOK'
    BY <1>4, TypeSpin
  <1>5. ASSUME NEW e \in Executors, NEW p \in Performers, PerformerReceives(p, e)
        PROVE  TypeOK'
    BY <1>5, TypePerformer
  <1>6. ASSUME NEW p \in Performers, Configure(p) \/ SendFeedback(p) \/ PerformerFinishes(p)
        PROVE  TypeOK'
    BY <1>6, TypeWork
  <1>7. CASE UNCHANGED vars
    BY <1>7 DEF vars, executorVars, threadVars, performerVars, hubVars, TypeOK
  <1> QED BY <1>1, <1>2, <1>3, <1>4, <1>5, <1>6, <1>7 DEF Next

\* The variables of the executors, the threads, the performers and the hub keep
\* their types, whatever the two threads and the performers do.
THEOREM TypeCorrect == Spec => []TypeOK
  <1> QED BY TypeInit, TypeNext, PTL DEF Spec

-----------------------------------------------------------------------------
(* What the FIFOs hold after a step.                                       *)

\* What a FIFO holds after Tell was there before or is the message that was told.
LEMMA HoldsTold ==
    ASSUME TypeOK, NEW e \in Executors, NEW p \in Performers,
           NEW m \in ExecutorMessage, Tell(e, p, m),
           NEW d \in Executors, NEW q \in Performers, NEW k,
           Holds(toPerformer'[d][q], k)
    PROVE  Holds(toPerformer[d][q], k) \/ (d = e /\ q = p /\ k = m)
  <1>1. CASE d = e /\ q = p /\ toPerformer'[d][q] = Append(toPerformer[d][q], m)
    <2>1. toPerformer[d][q] \in Seq(ExecutorMessage)
      BY DEF TypeOK
    <2> QED BY <1>1, <2>1, HoldsAppend
  <1>2. CASE toPerformer'[d][q] = toPerformer[d][q]
    BY <1>2
  <1> QED BY <1>1, <1>2 DEF Tell, TypeOK

\* What a FIFO holds after request_for_performers was there before or is a REQUEST.
LEMMA HoldsRequested ==
    ASSUME TypeOK, NEW e \in Executors, Request(e),
           NEW d \in Executors, NEW q \in Performers, NEW k,
           Holds(toPerformer'[d][q], k)
    PROVE  Holds(toPerformer[d][q], k) \/ k = "REQUEST"
  <1>1. CASE toPerformer'[d][q] = Append(toPerformer[d][q], "REQUEST")
    <2>1. toPerformer[d][q] \in Seq(ExecutorMessage)
      BY DEF TypeOK
    <2> QED BY <1>1, <2>1, HoldsAppend DEF ExecutorMessage
  <1>2. CASE toPerformer'[d][q] = toPerformer[d][q]
    BY <1>2
  <1> QED BY <1>1, <1>2 DEF Request, TypeOK

\* Taking a message brings none to the performers.
LEMMA HoldsTakenByPerformer ==
    ASSUME TypeOK, NEW e \in Executors, NEW p \in Performers,
           toPerformer[e][p] # <<>>, TakenByPerformer(e, p),
           NEW d \in Executors, NEW q \in Performers, NEW k,
           Holds(toPerformer'[d][q], k)
    PROVE  Holds(toPerformer[d][q], k)
  <1>1. CASE d = e /\ q = p /\ toPerformer'[d][q] = Tail(toPerformer[d][q])
    <2>1. toPerformer[d][q] \in Seq(ExecutorMessage)
      BY DEF TypeOK
    <2> QED BY <1>1, <2>1, HoldsTail
  <1>2. CASE toPerformer'[d][q] = toPerformer[d][q]
    BY <1>2
  <1> QED BY <1>1, <1>2 DEF TakenByPerformer, TypeOK

\* What an executor has to hear was there before or was announced for its action.
LEMMA HoldsAnnounced ==
    ASSUME TypeOK, NEW p \in Performers, NEW a, NEW m \in PerformerMessage,
           Announce(p, a, m),
           NEW d \in Executors, NEW q \in Performers, NEW k,
           Holds(toExecutor'[q][d], k)
    PROVE  Holds(toExecutor[q][d], k) \/ (q = p /\ ActionOf[d] = a /\ k = m)
  <1>1. CASE /\ q = p /\ ActionOf[d] = a
             /\ toExecutor'[q][d] = Append(toExecutor[q][d], m)
    <2>1. toExecutor[q][d] \in Seq(PerformerMessage)
      BY DEF TypeOK
    <2> QED BY <1>1, <2>1, HoldsAppend
  <1>2. CASE toExecutor'[q][d] = toExecutor[q][d]
    BY <1>2
  <1> QED BY <1>1, <1>2 DEF Announce, TypeOK

\* Taking a message brings none to the executors.
LEMMA HoldsTakenByExecutor ==
    ASSUME TypeOK, NEW e \in Executors, NEW p \in Performers,
           toExecutor[p][e] # <<>>, TakenByExecutor(p, e),
           NEW d \in Executors, NEW q \in Performers, NEW k,
           Holds(toExecutor'[q][d], k)
    PROVE  Holds(toExecutor[q][d], k)
  <1>1. CASE d = e /\ q = p /\ toExecutor'[q][d] = Tail(toExecutor[q][d])
    <2>1. toExecutor[q][d] \in Seq(PerformerMessage)
      BY DEF TypeOK
    <2> QED BY <1>1, <2>1, HoldsTail
  <1>2. CASE toExecutor'[q][d] = toExecutor[q][d]
    BY <1>2
  <1> QED BY <1>1, <1>2 DEF TakenByExecutor, TypeOK

\* The head that an executor takes was in its FIFO.
LEMMA HoldsNext ==
    ASSUME TypeOK, NEW e \in Executors, NEW p \in Performers, NEW m
    PROVE  /\ NextForExecutor(p, e, m) => Holds(toExecutor[p][e], m)
           /\ NextForPerformer(e, p, m) => Holds(toPerformer[e][p], m)
  <1>1. /\ toExecutor[p][e] \in Seq(PerformerMessage)
        /\ toPerformer[e][p] \in Seq(ExecutorMessage)
    BY DEF TypeOK
  <1> QED BY <1>1, HoldsHead DEF NextForExecutor, NextForPerformer

-----------------------------------------------------------------------------
(* The choice of a performer.                                              *)

\* No step but ConfirmPerformer gives an executor a performer, and that one ends its
\* DEALING.
LEMMA UnchosenNext ==
    ASSUME TypeOK, Unchosen, Next
    PROVE  Unchosen'
  <1> USE DEF executorVars, threadVars, performerVars, hubVars, Unchosen, TypeOK
  <1>1. CASE PlanFails \/ PlanCancelled
    BY <1>1 DEF PlanFails, PlanCancelled, EndPlan
  <1>2. ASSUME NEW e \in Executors, CycleStep(e)
        PROVE  Unchosen'
    <2>1. CASE Tick(e)
      BY <2>1 DEF Tick
    <2>2. CASE RequestForPerformers(e) \/ ArmTimer(e) \/ DealingTimeout(e)
      BY <2>2 DEF RequestForPerformers, ArmTimer, DealingTimeout
    <2>3. CASE Expire(e)
      BY <2>3 DEF Expire
    <2>4. CASE ExpiryFailsPlan(e) \/ ExpiryOverwritten(e)
      BY <2>4 DEF ExpiryFailsPlan, ExpiryOverwritten, EndPlan
    <2>5. CASE Visit(e) \/ SendCancel(e)
      BY <2>5 DEF Visit, SendCancel
    <2>6. CASE Cancel(e)
      BY <2>6 DEF Cancel
    <2> QED BY <1>2, <2>1, <2>2, <2>3, <2>4, <2>5, <2>6 DEF CycleStep
  <1>3. ASSUME NEW e \in Executors, WaitTimeout(e)
        PROVE  Unchosen'
    BY <1>3 DEF WaitTimeout
  <1>4. ASSUME NEW e \in Executors, NEW p \in Performers, SpinStep(e, p)
        PROVE  Unchosen'
    <2>1. CASE ReceiveResponse(e, p)
      BY <2>1 DEF ReceiveResponse
    <2>2. CASE ConfirmPerformer(e, p)
      BY <2>2 DEF ConfirmPerformer, SpinIdle
    <2>3. CASE RejectPerformer(e, p)
      BY <2>3 DEF RejectPerformer, SpinIdle
    <2>4. CASE ReceiveFeedback(e, p)
      BY <2>4 DEF ReceiveFeedback
    <2>5. ASSUME NEW m, ReceiveFinish(e, p, m)
          PROVE  Unchosen'
      BY <2>5 DEF ReceiveFinish
    <2> QED BY <1>4, <2>1, <2>2, <2>3, <2>4, <2>5 DEF SpinStep
  <1>5. ASSUME NEW e \in Executors, NEW p \in Performers, PerformerReceives(p, e)
        PROVE  Unchosen'
    BY <1>5 DEF PerformerReceives, ReceiveRequest, ReceiveConfirm, ReceiveReject, ReceiveCancel
  <1>6. ASSUME NEW p \in Performers, Configure(p) \/ SendFeedback(p) \/ PerformerFinishes(p)
        PROVE  Unchosen'
    BY <1>6 DEF Configure, SendFeedback, PerformerFinishes, Finish
  <1> QED BY <1>1, <1>2, <1>3, <1>4, <1>5, <1>6 DEF Next

\* Only ConfirmPerformer gives an executor a performer, and only one that has none.
LEMMA ChoiceKept ==
    ASSUME TypeOK, Unchosen, Next, NEW d \in Executors, performer[d] # NoPerformer
    PROVE  performer'[d] = performer[d]
  <1> USE DEF executorVars, threadVars, performerVars, hubVars
  <1>1. CASE PlanFails \/ PlanCancelled
    BY <1>1 DEF PlanFails, PlanCancelled, EndPlan
  <1>2. ASSUME NEW e \in Executors, CycleStep(e) \/ WaitTimeout(e)
        PROVE  performer'[d] = performer[d]
    BY <1>2 DEF CycleStep, Tick, RequestForPerformers, ArmTimer, DealingTimeout, Expire,
                ExpiryFailsPlan, ExpiryOverwritten, EndPlan, Visit, Cancel, SendCancel,
                WaitTimeout
  <1>3. ASSUME NEW e \in Executors, NEW p \in Performers, SpinStep(e, p)
        PROVE  performer'[d] = performer[d]
    <2>1. CASE ConfirmPerformer(e, p)
      BY <2>1 DEF ConfirmPerformer, SpinAt, Unchosen, TypeOK
    <2>2. CASE ReceiveResponse(e, p) \/ RejectPerformer(e, p) \/ ReceiveFeedback(e, p)
      BY <2>2 DEF ReceiveResponse, RejectPerformer, ReceiveFeedback
    <2>3. ASSUME NEW m, ReceiveFinish(e, p, m)
          PROVE  performer'[d] = performer[d]
      BY <2>3 DEF ReceiveFinish
    <2> QED BY <1>3, <2>1, <2>2, <2>3 DEF SpinStep
  <1>4. ASSUME NEW e \in Executors, NEW p \in Performers, PerformerReceives(p, e)
        PROVE  performer'[d] = performer[d]
    BY <1>4 DEF PerformerReceives, ReceiveRequest, ReceiveConfirm, ReceiveReject, ReceiveCancel
  <1>5. ASSUME NEW p \in Performers, Configure(p) \/ SendFeedback(p) \/ PerformerFinishes(p)
        PROVE  performer'[d] = performer[d]
    BY <1>5 DEF Configure, SendFeedback, PerformerFinishes, Finish
  <1> QED BY <1>1, <1>2, <1>3, <1>4, <1>5 DEF Next

\* A performer answers only for the action it manages, so only such a one is chosen.
LEMMA OffersMatchNext ==
    ASSUME TypeOK, OffersMatch, Next
    PROVE  OffersMatch'
  <1>1. ASSUME NEW p \in Performers, NEW a, NEW m \in PerformerMessage,
               Announce(p, a, m), m = "RESPONSE" => a.name = Managed[p],
               UNCHANGED <<performer, spin>>
        PROVE  OffersMatch'
    <2>1. \A d \in Executors, q \in Performers :
            Holds(toExecutor'[q][d], "RESPONSE") => ActionOf[d].name = Managed[q]
      <3> SUFFICES ASSUME NEW d \in Executors, NEW q \in Performers,
                          Holds(toExecutor'[q][d], "RESPONSE")
                   PROVE  ActionOf[d].name = Managed[q]
        OBVIOUS
      <3>1. \/ Holds(toExecutor[q][d], "RESPONSE")
            \/ q = p /\ ActionOf[d] = a /\ "RESPONSE" = m
        BY <1>1, HoldsAnnounced
      <3> QED BY <1>1, <3>1 DEF OffersMatch
    <2> QED BY <1>1, <2>1 DEF OffersMatch
  <1> USE PerformersAssumption
        DEF executorVars, threadVars, performerVars, hubVars, OffersMatch, TypeOK
  <1>2. CASE PlanFails \/ PlanCancelled
    BY <1>2 DEF PlanFails, PlanCancelled, EndPlan
  <1>3. ASSUME NEW e \in Executors, CycleStep(e) \/ WaitTimeout(e)
        PROVE  OffersMatch'
    <2>1. UNCHANGED <<performer, spin, toExecutor>>
      BY <1>3 DEF CycleStep, Tick, RequestForPerformers, ArmTimer, DealingTimeout, Expire,
                  ExpiryFailsPlan, ExpiryOverwritten, EndPlan, Visit, Cancel, SendCancel,
                  WaitTimeout
    <2> QED BY <2>1
  <1>4. ASSUME NEW e \in Executors, NEW p \in Performers, SpinStep(e, p)
        PROVE  OffersMatch'
    <2>1. CASE ReceiveResponse(e, p)
      <3>1. Holds(toExecutor[p][e], "RESPONSE") /\ toExecutor[p][e] # <<>>
        BY <2>1, HoldsNext DEF ReceiveResponse, NextForExecutor
      <3>2. \A d \in Executors, q \in Performers :
              Holds(toExecutor'[q][d], "RESPONSE") => Holds(toExecutor[q][d], "RESPONSE")
        BY <2>1, <3>1, HoldsTakenByExecutor DEF ReceiveResponse
      <3> QED BY <2>1, <3>1, <3>2 DEF ReceiveResponse
    <2>2. CASE ConfirmPerformer(e, p)
      BY <2>2 DEF ConfirmPerformer, SpinIdle, SpinAt
    <2>3. CASE RejectPerformer(e, p)
      BY <2>3 DEF RejectPerformer, SpinIdle
    <2>4. ASSUME NEW m, NextForExecutor(p, e, m), TakenByExecutor(p, e),
                 UNCHANGED <<performer, spin>>
          PROVE  OffersMatch'
      <3>1. \A d \in Executors, q \in Performers :
              Holds(toExecutor'[q][d], "RESPONSE") => Holds(toExecutor[q][d], "RESPONSE")
        BY <2>4, HoldsTakenByExecutor DEF NextForExecutor
      <3> QED BY <2>4, <3>1
    <2>5. CASE ReceiveFeedback(e, p)
      BY <2>4, <2>5 DEF ReceiveFeedback
    <2>6. ASSUME NEW m, ReceiveFinish(e, p, m)
          PROVE  OffersMatch'
      BY <2>4, <2>6 DEF ReceiveFinish
    <2> QED BY <1>4, <2>1, <2>2, <2>3, <2>5, <2>6 DEF SpinStep
  <1>5. ASSUME NEW e \in Executors, NEW p \in Performers, PerformerReceives(p, e)
        PROVE  OffersMatch'
    <2>1. CASE ReceiveRequest(p, e)
      <3>1. CASE UNCHANGED toExecutor
        BY <2>1, <3>1 DEF ReceiveRequest
      <3>2. CASE ShouldExecute(p, ActionOf[e]) /\ Announce(p, ActionOf[e], "RESPONSE")
        BY <1>1, <2>1, <3>2 DEF ReceiveRequest, ShouldExecute, PerformerMessage
      <3> QED BY <2>1, <3>1, <3>2 DEF ReceiveRequest
    <2>2. CASE ReceiveConfirm(p, e) \/ ReceiveReject(p, e) \/ ReceiveCancel(p, e)
      BY <2>2 DEF ReceiveConfirm, ReceiveReject, ReceiveCancel
    <2> QED BY <1>5, <2>1, <2>2 DEF PerformerReceives
  <1>6. ASSUME NEW p \in Performers, Configure(p) \/ SendFeedback(p) \/ PerformerFinishes(p)
        PROVE  OffersMatch'
    <2>1. CASE Configure(p)
      BY <2>1 DEF Configure
    <2>2. CASE SendFeedback(p)
      BY <1>1, <2>2 DEF SendFeedback, PerformerMessage
    <2>3. CASE PerformerFinishes(p)
      BY <1>1, <2>3 DEF PerformerFinishes, Finish, PerformerMessage
    <2> QED BY <1>6, <2>1, <2>2, <2>3
  <1> QED BY <1>2, <1>3, <1>4, <1>5, <1>6 DEF Next

\* A CONFIRM is published only with the choice of its performer.
LEMMA ConfirmsMatchNext ==
    ASSUME TypeOK, Unchosen, ConfirmsMatch, Next
    PROVE  ConfirmsMatch'
  <1> SUFFICES ASSUME NEW d \in Executors, NEW q \in Performers,
                      Holds(toPerformer'[d][q], "CONFIRM")
               PROVE  performer'[d] = q
    BY DEF ConfirmsMatch
  <1>1. ASSUME Holds(toPerformer[d][q], "CONFIRM")
        PROVE  performer'[d] = q
    <2>1. performer[d] = q /\ performer[d] # NoPerformer
      BY <1>1, PerformersAssumption DEF ConfirmsMatch
    <2> QED BY <2>1, ChoiceKept
  <1> USE DEF executorVars, threadVars, performerVars, hubVars
  <1>2. CASE UNCHANGED toPerformer
    BY <1>1, <1>2
  <1>3. ASSUME NEW e \in Executors, NEW p \in Performers,
               NEW m \in ExecutorMessage \ {"CONFIRM"}, Tell(e, p, m)
        PROVE  performer'[d] = q
    BY <1>1, <1>3, HoldsTold
  <1>4. ASSUME NEW e \in Executors, Request(e)
        PROVE  performer'[d] = q
    BY <1>1, <1>4, HoldsRequested
  <1>5. ASSUME NEW e \in Executors, NEW p \in Performers, NEW m,
               NextForPerformer(e, p, m), TakenByPerformer(e, p)
        PROVE  performer'[d] = q
    BY <1>1, <1>5, HoldsTakenByPerformer DEF NextForPerformer
  <1>6. CASE PlanFails \/ PlanCancelled
    BY <1>2, <1>6 DEF PlanFails, PlanCancelled, EndPlan
  <1>7. ASSUME NEW e \in Executors, CycleStep(e)
        PROVE  performer'[d] = q
    <2>1. CASE RequestForPerformers(e)
      BY <1>4, <2>1 DEF RequestForPerformers
    <2>2. CASE SendCancel(e)
      <3>1. CASE performer[e] \in Performers
        BY <1>3, <2>2, <3>1 DEF SendCancel, ExecutorMessage
      <3>2. CASE performer[e] \notin Performers
        <4>1. UNCHANGED toPerformer
          BY <2>2, <3>2 DEF SendCancel, Tell, TypeOK
        <4> QED BY <1>2, <4>1
      <3> QED BY <3>1, <3>2
    <2>3. CASE UNCHANGED toPerformer
      BY <1>2, <2>3
    <2> QED BY <1>7, <2>1, <2>2, <2>3
      DEF CycleStep, Tick, ArmTimer, DealingTimeout, Expire, ExpiryFailsPlan,
          ExpiryOverwritten, EndPlan, Visit, Cancel
  <1>8. ASSUME NEW e \in Executors, WaitTimeout(e)
        PROVE  performer'[d] = q
    BY <1>4, <1>8 DEF WaitTimeout
  <1>9. ASSUME NEW e \in Executors, NEW p \in Performers, SpinStep(e, p)
        PROVE  performer'[d] = q
    <2>1. CASE ConfirmPerformer(e, p)
      <3>1. Holds(toPerformer[d][q], "CONFIRM") \/ (d = e /\ q = p)
        BY <2>1, HoldsTold DEF ConfirmPerformer, ExecutorMessage
      <3> QED BY <1>1, <2>1, <3>1 DEF ConfirmPerformer, TypeOK
    <2>2. CASE RejectPerformer(e, p)
      BY <1>3, <2>2 DEF RejectPerformer, ExecutorMessage
    <2>3. CASE UNCHANGED toPerformer
      BY <1>2, <2>3
    <2> QED BY <1>9, <2>1, <2>2, <2>3
      DEF SpinStep, ReceiveResponse, ReceiveFeedback, ReceiveFinish
  <1>10. ASSUME NEW e \in Executors, NEW p \in Performers, PerformerReceives(p, e)
         PROVE  performer'[d] = q
    BY <1>5, <1>10
    DEF PerformerReceives, ReceiveRequest, ReceiveConfirm, ReceiveReject, ReceiveCancel
  <1>11. ASSUME NEW p \in Performers, Configure(p) \/ SendFeedback(p) \/ PerformerFinishes(p)
         PROVE  performer'[d] = q
    BY <1>2, <1>11 DEF Configure, SendFeedback, PerformerFinishes, Finish
  <1> QED BY <1>6, <1>7, <1>8, <1>9, <1>10, <1>11 DEF Next

\* A performer becomes active by a CONFIRM alone, for the action of who sent it.
LEMMA ActiveIsChosenNext ==
    ASSUME TypeOK, Unchosen, OffersMatch, ConfirmsMatch, ActiveIsChosen, Next
    PROVE  ActiveIsChosen'
  <1> SUFFICES ASSUME NEW q \in Performers, lifecycle'[q] = "ACTIVE"
               PROVE  \E d \in Executors : performer'[d] = q /\ ActionOf[d] = Doing(q)'
    BY DEF ActiveIsChosen
  <1> USE DEF executorVars, threadVars, performerVars, hubVars
  <1>1. ASSUME lifecycle[q] = "ACTIVE", arguments'[q] = arguments[q]
        PROVE  \E d \in Executors : performer'[d] = q /\ ActionOf[d] = Doing(q)'
    <2>1. PICK d \in Executors : performer[d] = q /\ ActionOf[d] = Doing(q)
      BY <1>1 DEF ActiveIsChosen
    <2>2. performer'[d] = q
      BY <2>1, ChoiceKept, PerformersAssumption
    <2>3. Doing(q)' = Doing(q)
      BY <1>1 DEF Doing
    <2> QED BY <2>1, <2>2, <2>3
  <1>2. CASE UNCHANGED <<lifecycle, arguments>>
    BY <1>1, <1>2
  <1>3. ASSUME NEW e \in Executors, NEW p \in Performers, ReceiveConfirm(p, e)
        PROVE  \E d \in Executors : performer'[d] = q /\ ActionOf[d] = Doing(q)'
    <2>1. CASE q = p /\ lifecycle[p] = "INACTIVE" /\ committed[p]
      <3>1. performer[e] = p /\ performer' = performer
        BY <1>3, HoldsNext DEF ReceiveConfirm, ConfirmsMatch
      <3>2. ActionOf[e].name = Managed[p]
        BY <3>1, PerformersAssumption DEF OffersMatch
      <3>3. arguments'[p] = ActionOf[e].args
        BY <1>3, <2>1 DEF ReceiveConfirm, TypeOK
      <3>4. ActionOf[e] = Doing(q)'
        BY <2>1, <3>2, <3>3, ActionsAssumption DEF Doing
      <3> QED BY <2>1, <3>1, <3>4
    <2>2. CASE q # p \/ lifecycle[p] # "INACTIVE" \/ ~committed[p]
      <3>1. lifecycle'[q] = lifecycle[q] /\ arguments'[q] = arguments[q]
        BY <1>3, <2>2 DEF ReceiveConfirm, TypeOK
      <3> QED BY <1>1, <3>1
    <2> QED BY <2>1, <2>2
  <1>4. ASSUME NEW e \in Executors, NEW p \in Performers, ReceiveCancel(p, e)
        PROVE  \E d \in Executors : performer'[d] = q /\ ActionOf[d] = Doing(q)'
    <2>1. lifecycle[q] = "ACTIVE" /\ arguments' = arguments
      BY <1>4 DEF ReceiveCancel, TypeOK
    <2> QED BY <1>1, <2>1
  <1>5. ASSUME NEW p \in Performers, Configure(p) \/ SendFeedback(p) \/ PerformerFinishes(p)
        PROVE  \E d \in Executors : performer'[d] = q /\ ActionOf[d] = Doing(q)'
    <2>1. lifecycle[q] = "ACTIVE" /\ arguments' = arguments
      BY <1>5 DEF Configure, SendFeedback, PerformerFinishes, Finish, TypeOK
    <2> QED BY <1>1, <2>1
  <1>6. ASSUME NEW e \in Executors, CycleStep(e) \/ WaitTimeout(e)
        PROVE  UNCHANGED <<lifecycle, arguments>>
    BY <1>6 DEF CycleStep, Tick, RequestForPerformers, ArmTimer, DealingTimeout, Expire,
                ExpiryFailsPlan, ExpiryOverwritten, EndPlan, Visit, Cancel, SendCancel,
                WaitTimeout
  <1>7. ASSUME NEW e \in Executors, NEW p \in Performers,
               SpinStep(e, p) \/ ReceiveRequest(p, e) \/ ReceiveReject(p, e)
        PROVE  UNCHANGED <<lifecycle, arguments>>
    BY <1>7 DEF SpinStep, ReceiveResponse, ConfirmPerformer, RejectPerformer, ReceiveFeedback,
                ReceiveFinish, ReceiveRequest, ReceiveReject
  <1>8. CASE PlanFails \/ PlanCancelled
    BY <1>2, <1>8 DEF PlanFails, PlanCancelled, EndPlan
  <1> QED BY <1>2, <1>3, <1>4, <1>5, <1>6, <1>7, <1>8 DEF Next, PerformerReceives

-----------------------------------------------------------------------------
(* Theorems.                                                               *)

\* ChoiceInv holds initially, and every action keeps it.
THEOREM ChoiceCorrect == Spec => []ChoiceInv
  <1>1. Init => ChoiceInv
    <2> SUFFICES ASSUME Init PROVE ChoiceInv
      OBVIOUS
    <2>1. TypeOK
      BY TypeInit
    <2>2. Unchosen /\ OffersMatch /\ ConfirmsMatch /\ ActiveIsChosen
      BY HoldsNothing
      DEF Init, SpinIdle, Unchosen, OffersMatch, ConfirmsMatch, ActiveIsChosen
    <2> QED BY <2>1, <2>2 DEF ChoiceInv
  <1>2. ChoiceInv /\ [Next]_vars => ChoiceInv'
    <2> SUFFICES ASSUME ChoiceInv, [Next]_vars PROVE ChoiceInv'
      OBVIOUS
    <2>1. TypeOK'
      BY TypeNext DEF ChoiceInv
    <2>2. CASE Next
      BY <2>1, <2>2, UnchosenNext, OffersMatchNext, ConfirmsMatchNext, ActiveIsChosenNext
      DEF ChoiceInv
    <2>3. CASE UNCHANGED vars
      BY <2>1, <2>3
      DEF ChoiceInv, Unchosen, OffersMatch, ConfirmsMatch, ActiveIsChosen, Doing,
          vars, executorVars, threadVars, performerVars, hubVars
    <2> QED BY <2>2, <2>3
  <1> QED BY <1>1, <1>2, PTL DEF Spec

\* If no ground action occurs twice in the plan, no two performers ever execute the
\* same ground action at the same time, however many of them answer its requests.
THEOREM DispatchIsExclusive ==
    ASSUME DistinctActions
    PROVE  Spec => []NoDuplicateExecution
  <1>1. ChoiceInv => NoDuplicateExecution
    <2> SUFFICES ASSUME ChoiceInv, NEW p \in Performers, NEW q \in Performers,
                        lifecycle[p] = "ACTIVE", lifecycle[q] = "ACTIVE", Doing(p) = Doing(q)
                 PROVE  p = q
      BY DEF NoDuplicateExecution
    <2>1. PICK d \in Executors : performer[d] = p /\ ActionOf[d] = Doing(p)
      BY DEF ChoiceInv, ActiveIsChosen
    <2>2. PICK e \in Executors : performer[e] = q /\ ActionOf[e] = Doing(q)
      BY DEF ChoiceInv, ActiveIsChosen
    <2>3. d = e
      BY <2>1, <2>2 DEF DistinctActions
    <2> QED BY <2>1, <2>2, <2>3
  <1> QED BY <1>1, ChoiceCorrect, PTL

\* An executor that chose a performer never chooses another one, whatever RESPONSE
\* comes late and however the two threads of the executor node interleave.
THEOREM ChoiceIsForLife == Spec => ChosenForLife
  <1>1. ChoiceInv /\ [Next]_vars =>
          [\A e \in Executors :
              performer[e] # NoPerformer => performer'[e] = performer[e]]_vars
    BY ChoiceKept DEF ChoiceInv
  <1> QED BY <1>1, ChoiceCorrect, PTL DEF Spec, ChosenForLife

-----------------------------------------------------------------------------
(* The hand-over of an action.  First, what each use of the hub does to the *)
(* messages that wait, no more and no less.                                 *)

\* A FIFO that is taken from keeps the messages that are not at its head.
LEMMA HoldsTailOther ==
    ASSUME NEW S, NEW q \in Seq(S), q # <<>>, NEW k, Holds(q, k), Head(q) # k
    PROVE  Holds(Tail(q), k)
  <1>1. Len(q) \in Nat \ {0} /\ DOMAIN q = 1..Len(q) /\ Head(q) = q[1]
    OBVIOUS
  <1>2. /\ DOMAIN Tail(q) = 1..(Len(q) - 1)
        /\ \A i \in 1..(Len(q) - 1) : Tail(q)[i] = q[i + 1]
    OBVIOUS
  <1>3. PICK i \in 1..Len(q) : q[i] = k /\ i # 1
    BY <1>1 DEF Holds
  <1>4. i - 1 \in 1..(Len(q) - 1) /\ Tail(q)[i - 1] = k
    BY <1>1, <1>2, <1>3
  <1> QED BY <1>2, <1>4 DEF Holds

\* One message of a kind is appended where there is none.
LEMMA OnceAppend ==
    ASSUME NEW S, NEW q \in Seq(S), NEW m \in S, NEW M, Once(q, M),
           m \in M => \A k \in M : ~Holds(q, k)
    PROVE  Once(Append(q, m), M)
  <1>1. Len(q) \in Nat /\ DOMAIN q = 1..Len(q)
    OBVIOUS
  <1>2. /\ DOMAIN Append(q, m) = 1..(Len(q) + 1)
        /\ \A i \in 1..Len(q) : Append(q, m)[i] = q[i]
        /\ Append(q, m)[Len(q) + 1] = m
    OBVIOUS
  <1>3. \A i \in 1..(Len(q) + 1) : i \in 1..Len(q) \/ i = Len(q) + 1
    BY <1>1
  <1> QED BY <1>1, <1>2, <1>3 DEF Holds, Once

\* The only message of a kind is at the head, or it stays.
LEMMA OnceTail ==
    ASSUME NEW S, NEW q \in Seq(S), q # <<>>, NEW M, Once(q, M)
    PROVE  /\ Once(Tail(q), M)
           /\ Head(q) \in M => \A k \in M : ~Holds(Tail(q), k)
  <1>1. Len(q) \in Nat \ {0} /\ DOMAIN q = 1..Len(q) /\ Head(q) = q[1]
    OBVIOUS
  <1>2. /\ DOMAIN Tail(q) = 1..(Len(q) - 1)
        /\ \A i \in 1..(Len(q) - 1) : Tail(q)[i] = q[i + 1]
    OBVIOUS
  <1>3. \A i \in 1..(Len(q) - 1) : i + 1 \in 1..Len(q) /\ i + 1 # 1
    BY <1>1
  <1>4. Once(Tail(q), M)
    <2> SUFFICES ASSUME NEW i \in 1..(Len(q) - 1), NEW j \in 1..(Len(q) - 1),
                        q[i + 1] \in M, q[j + 1] \in M
                 PROVE  i = j
      BY <1>2 DEF Once
    <2>1. i + 1 = j + 1
      BY <1>1, <1>3 DEF Once
    <2> QED BY <2>1
  <1>5. ASSUME Head(q) \in M, NEW k \in M, Holds(Tail(q), k)
        PROVE  FALSE
    <2>1. PICK i \in 1..(Len(q) - 1) : q[i + 1] = k
      BY <1>2, <1>5 DEF Holds
    <2>2. 1 \in DOMAIN q /\ i + 1 \in DOMAIN q
      BY <1>1, <1>3
    <2>3. i + 1 = 1
      BY <1>1, <1>5, <2>1, <2>2 DEF Once
    <2> QED BY <1>3, <2>3
  <1> QED BY <1>4, <1>5

\* Tell.
LEMMA AfterTell ==
    ASSUME TypeOK, NEW e \in Executors, NEW p \in Performers, NEW m \in ExecutorMessage,
           Tell(e, p, m), NEW d \in Executors, NEW q \in Performers
    PROVE  /\ \A k : Holds(toPerformer'[d][q], k) <=>
                        \/ Holds(toPerformer[d][q], k)
                        \/ d = e /\ q = p /\ k = m /\ publishing[e] /\ Subscribed(p)
           /\ \A M : Once(toPerformer[d][q], M) /\ (m \in M => \A k \in M : ~Holds(toPerformer[e][p], k))
                        => Once(toPerformer'[d][q], M)
  <1>1. toPerformer[d][q] \in Seq(ExecutorMessage)
    BY DEF TypeOK
  <1>2. CASE d = e /\ q = p /\ publishing[e] /\ Subscribed(p)
    <2>1. toPerformer'[d][q] = Append(toPerformer[d][q], m)
      BY <1>2 DEF Tell, TypeOK
    <2> QED BY <1>1, <1>2, <2>1, HoldsAppend, OnceAppend
  <1>3. CASE ~(d = e /\ q = p /\ publishing[e] /\ Subscribed(p))
    <2>1. toPerformer'[d][q] = toPerformer[d][q]
      BY <1>3 DEF Tell, TypeOK
    <2> QED BY <1>3, <2>1
  <1> QED BY <1>2, <1>3

\* Request.
LEMMA AfterRequest ==
    ASSUME TypeOK, NEW e \in Executors, Request(e), NEW d \in Executors, NEW q \in Performers
    PROVE  /\ \A k : k # "REQUEST" => (Holds(toPerformer'[d][q], k) <=> Holds(toPerformer[d][q], k))
           /\ \A M : Once(toPerformer[d][q], M) /\ "REQUEST" \notin M => Once(toPerformer'[d][q], M)
           /\ d # e => toPerformer'[d][q] = toPerformer[d][q]
  <1>1. toPerformer[d][q] \in Seq(ExecutorMessage)
    BY DEF TypeOK
  <1>2. CASE d = e /\ toPerformer'[d][q] = Append(toPerformer[d][q], "REQUEST")
    BY <1>1, <1>2, HoldsAppend, OnceAppend DEF ExecutorMessage
  <1>3. CASE toPerformer'[d][q] = toPerformer[d][q]
    BY <1>3
  <1> QED BY <1>2, <1>3 DEF Request, TypeOK

\* TakenByPerformer.
LEMMA AfterTaken ==
    ASSUME TypeOK, NEW e \in Executors, NEW p \in Performers, NEW m,
           NextForPerformer(e, p, m), TakenByPerformer(e, p),
           NEW d \in Executors, NEW q \in Performers
    PROVE  /\ \A k : Holds(toPerformer'[d][q], k) => Holds(toPerformer[d][q], k)
           /\ \A k : Holds(toPerformer[d][q], k) /\ (k # m \/ d # e \/ q # p)
                        => Holds(toPerformer'[d][q], k)
           /\ \A M : Once(toPerformer[d][q], M) => Once(toPerformer'[d][q], M)
           /\ \A M : Once(toPerformer[d][q], M) /\ m \in M /\ d = e /\ q = p =>
                        \A k \in M : ~Holds(toPerformer'[d][q], k)
           /\ d # e => toPerformer'[d][q] = toPerformer[d][q]
  <1>1. toPerformer[d][q] \in Seq(ExecutorMessage)
    BY DEF TypeOK
  <1>2. CASE d = e /\ q = p
    <2>1. /\ toPerformer'[d][q] = Tail(toPerformer[d][q])
          /\ toPerformer[d][q] # <<>> /\ Head(toPerformer[d][q]) = m
      BY <1>2 DEF TakenByPerformer, NextForPerformer, TypeOK
    <2> QED BY <1>1, <1>2, <2>1, HoldsTail, HoldsTailOther, OnceTail
  <1>3. CASE ~(d = e /\ q = p)
    <2>1. toPerformer'[d][q] = toPerformer[d][q]
      BY <1>3 DEF TakenByPerformer, TypeOK
    <2> QED BY <1>3, <2>1
  <1> QED BY <1>2, <1>3

\* Announce.
LEMMA AfterAnnounce ==
    ASSUME TypeOK, NEW p \in Performers, NEW a, NEW m \in PerformerMessage,
           Announce(p, a, m), NEW d \in Executors, NEW q \in Performers
    PROVE  /\ \A k : Holds(toExecutor'[q][d], k) <=>
                        \/ Holds(toExecutor[q][d], k)
                        \/ q = p /\ ActionOf[d] = a /\ k = m
           /\ \A M : Once(toExecutor[q][d], M) /\ (m \in M => \A k \in M : ~Holds(toExecutor[p][d], k))
                        => Once(toExecutor'[q][d], M)
  <1>1. toExecutor[q][d] \in Seq(PerformerMessage)
    BY DEF TypeOK
  <1>2. CASE q = p /\ ActionOf[d] = a
    <2>1. toExecutor'[q][d] = Append(toExecutor[q][d], m)
      BY <1>2 DEF Announce, TypeOK
    <2> QED BY <1>1, <1>2, <2>1, HoldsAppend, OnceAppend
  <1>3. CASE ~(q = p /\ ActionOf[d] = a)
    <2>1. toExecutor'[q][d] = toExecutor[q][d]
      BY <1>3 DEF Announce, TypeOK
    <2> QED BY <1>3, <2>1
  <1> QED BY <1>2, <1>3

\* TakenByExecutor.
LEMMA AfterHeard ==
    ASSUME TypeOK, NEW e \in Executors, NEW p \in Performers, NEW m,
           NextForExecutor(p, e, m), TakenByExecutor(p, e),
           NEW d \in Executors, NEW q \in Performers
    PROVE  /\ \A k : Holds(toExecutor'[q][d], k) => Holds(toExecutor[q][d], k)
           /\ \A k : Holds(toExecutor[q][d], k) /\ (k # m \/ d # e \/ q # p)
                        => Holds(toExecutor'[q][d], k)
           /\ \A M : Once(toExecutor[q][d], M) => Once(toExecutor'[q][d], M)
           /\ \A M : Once(toExecutor[q][d], M) /\ m \in M /\ d = e /\ q = p =>
                        \A k \in M : ~Holds(toExecutor'[q][d], k)
  <1>1. toExecutor[q][d] \in Seq(PerformerMessage)
    BY DEF TypeOK
  <1>2. CASE d = e /\ q = p
    <2>1. /\ toExecutor'[q][d] = Tail(toExecutor[q][d])
          /\ toExecutor[q][d] # <<>> /\ Head(toExecutor[q][d]) = m
      BY <1>2 DEF TakenByExecutor, NextForExecutor, TypeOK
    <2> QED BY <1>1, <1>2, <2>1, HoldsTail, HoldsTailOther, OnceTail
  <1>3. CASE ~(d = e /\ q = p)
    <2>1. toExecutor'[q][d] = toExecutor[q][d]
      BY <1>3 DEF TakenByExecutor, TypeOK
    <2> QED BY <1>3, <2>1
  <1> QED BY <1>2, <1>3

-----------------------------------------------------------------------------
(* The invariants of the hand-over.                                        *)

\* No executor returns to IDLE, and one stops being silent with its first REQUEST.
LEMMA SilentStep ==
    ASSUME TypeOK, SilentIsUnheard, Next, NEW d \in Executors
    PROVE  /\ status'[d] = "IDLE" => status[d] = "IDLE"
           /\ Silent(d)' => Silent(d)
           /\ Silent(d) => Silent(d)' \/ RequestForPerformers(d)
           /\ cycle'.at \notin {"tick", "halt"} => status'[cycle'.exec] # "IDLE"
  <1> USE ExecutorsAssumption
      DEF executorVars, threadVars, performerVars, hubVars, TypeOK, SilentIsUnheard, Silent, CycleAt
  <1>1. CASE PlanFails \/ PlanCancelled
    BY <1>1 DEF PlanFails, PlanCancelled, EndPlan, CycleGoes, CycleIdle
  <1>2. ASSUME NEW e \in Executors, CycleStep(e)
        PROVE  /\ status'[d] = "IDLE" => status[d] = "IDLE"
               /\ Silent(d)' => Silent(d)
               /\ Silent(d) => Silent(d)' \/ RequestForPerformers(d)
               /\ cycle'.at \notin {"tick", "halt"} => status'[cycle'.exec] # "IDLE"
    <2>1. CASE Tick(e)
      BY <2>1 DEF Tick, CycleGoes, CycleIdle
    <2>2. CASE RequestForPerformers(e)
      BY <2>2 DEF RequestForPerformers, CycleGoes
    <2>3. CASE ArmTimer(e) \/ DealingTimeout(e)
      BY <2>3 DEF ArmTimer, DealingTimeout, CycleGoes, CycleIdle
    <2>4. CASE Expire(e) \/ Cancel(e)
      BY <2>4 DEF Expire, Cancel, CycleGoes
    <2>5. CASE ExpiryFailsPlan(e) \/ ExpiryOverwritten(e)
      BY <2>5 DEF ExpiryFailsPlan, ExpiryOverwritten, EndPlan, CycleGoes, CycleIdle
    <2>6. CASE Visit(e) \/ SendCancel(e)
      BY <2>6 DEF Visit, SendCancel, CycleGoes
    <2> QED BY <1>2, <2>1, <2>2, <2>3, <2>4, <2>5, <2>6 DEF CycleStep
  <1>3. ASSUME NEW e \in Executors, NEW p \in Performers, SpinStep(e, p)
        PROVE  /\ cycle' = cycle
               /\ \A f \in Executors : status'[f] = status[f]
                                     \/ (~Silent(f) /\ status[f] # "IDLE" /\ status'[f] # "IDLE")
    <2>1. CASE ConfirmPerformer(e, p)
      BY <2>1 DEF ConfirmPerformer, SpinAt
    <2>2. ASSUME NEW m, ReceiveFinish(e, p, m)
          PROVE  /\ cycle' = cycle
                 /\ \A f \in Executors : status'[f] = status[f]
                                       \/ (~Silent(f) /\ status[f] # "IDLE" /\ status'[f] # "IDLE")
      BY <2>2, PerformersAssumption DEF ReceiveFinish
    <2>3. CASE ReceiveResponse(e, p) \/ RejectPerformer(e, p) \/ ReceiveFeedback(e, p)
      BY <2>3 DEF ReceiveResponse, RejectPerformer, ReceiveFeedback
    <2> QED BY <1>3, <2>1, <2>2, <2>3 DEF SpinStep
  <1>4. ASSUME NEW e \in Executors, NEW p \in Performers,
               \/ WaitTimeout(e) \/ PerformerReceives(p, e)
               \/ Configure(p) \/ SendFeedback(p) \/ PerformerFinishes(p)
        PROVE  UNCHANGED <<status, cycle>>
    BY <1>4 DEF WaitTimeout, PerformerReceives, ReceiveRequest, ReceiveConfirm, ReceiveReject,
                ReceiveCancel, Configure, SendFeedback, PerformerFinishes, Finish
  <1>5. ASSUME cycle' = cycle,
               \A f \in Executors : status'[f] = status[f]
                                  \/ (~Silent(f) /\ status[f] # "IDLE" /\ status'[f] # "IDLE")
        PROVE  /\ status'[d] = "IDLE" => status[d] = "IDLE"
               /\ Silent(d)' => Silent(d)
               /\ Silent(d) => Silent(d)'
               /\ cycle'.at \notin {"tick", "halt"} => status'[cycle'.exec] # "IDLE"
    BY <1>5
  <1>6. ASSUME NEW e \in Executors, WaitTimeout(e)
        PROVE  UNCHANGED <<status, cycle>>
    BY <1>6 DEF WaitTimeout
  <1>7. ASSUME NEW p \in Performers, Configure(p) \/ SendFeedback(p) \/ PerformerFinishes(p)
        PROVE  UNCHANGED <<status, cycle>>
    BY <1>7 DEF Configure, SendFeedback, PerformerFinishes, Finish
  <1> QED BY <1>1, <1>2, <1>3, <1>4, <1>5, <1>6, <1>7 DEF Next


\* The steps of the two threads that use the hub, and those of the performers; every
\* other step changes nothing but the state of the executors and the threads.
LEMMA StepKinds ==
    ASSUME Next
    PROVE  \/ UNCHANGED <<performer, publishing, spin, performerVars, hubVars>>
           \/ \E e \in Executors :
                 RequestForPerformers(e) \/ WaitTimeout(e) \/ SendCancel(e)
           \/ \E e \in Executors, p \in Performers : SpinStep(e, p) \/ PerformerReceives(p, e)
           \/ \E p \in Performers : Configure(p) \/ SendFeedback(p) \/ PerformerFinishes(p)
  <1> USE DEF executorVars, threadVars, performerVars, hubVars
  <1>1. CASE PlanFails \/ PlanCancelled
    BY <1>1 DEF PlanFails, PlanCancelled, EndPlan
  <1>2. ASSUME NEW e \in Executors, CycleStep(e)
        PROVE  \/ UNCHANGED <<performer, publishing, spin, performerVars, hubVars>>
               \/ RequestForPerformers(e) \/ SendCancel(e)
    BY <1>2 DEF CycleStep, Tick, ArmTimer, DealingTimeout, Expire, ExpiryFailsPlan,
                ExpiryOverwritten, EndPlan, Visit, Cancel
  <1> QED BY <1>1, <1>2 DEF Next

\* A performer is confirmed while its executor publishes; what was published before an
\* executor was chosen for goes on being published until it finishes.
LEMMA PublishingStep ==
    ASSUME TypeOK, Unchosen, SilentIsUnheard, Next, NEW d \in Executors
    PROVE  /\ Silent(d)' => performer'[d] = NoPerformer /\ ~publishing'[d]
           /\ ~Silent(d)' => publishing'[d] \/ performer'[d] # NoPerformer
  <1> USE PerformersAssumption DEF executorVars, threadVars, performerVars, hubVars
  <1>1. /\ Silent(d)' => Silent(d)
        /\ Silent(d) => Silent(d)' \/ RequestForPerformers(d)
    BY SilentStep
  <1>2. /\ Silent(d) => performer[d] = NoPerformer /\ ~publishing[d]
        /\ ~Silent(d) => publishing[d] \/ performer[d] # NoPerformer
    BY DEF SilentIsUnheard
  <1>3. CASE performer'[d] = performer[d] /\ publishing'[d] = publishing[d]
    <2>1. ~RequestForPerformers(d) \/ publishing[d]
      BY <1>3 DEF RequestForPerformers, TypeOK
    <2> QED BY <1>1, <1>2, <1>3, <2>1
  <1>4. ASSUME NEW e \in Executors, RequestForPerformers(e)
        PROVE  /\ Silent(d)' => performer'[d] = NoPerformer /\ ~publishing'[d]
               /\ ~Silent(d)' => publishing'[d] \/ performer'[d] # NoPerformer
    <2>1. CASE d = e
      <3>1. publishing'[d] /\ ~Silent(d)'
        BY <1>4, <2>1, ExecutorsAssumption
        DEF RequestForPerformers, TypeOK, Silent, CycleAt, CycleGoes, SilentIsUnheard
      <3> QED BY <3>1
    <2>2. CASE d # e
      <3>1. performer'[d] = performer[d] /\ publishing'[d] = publishing[d]
        BY <1>4, <2>2 DEF RequestForPerformers, TypeOK
      <3> QED BY <1>3, <3>1
    <2> QED BY <2>1, <2>2
  <1>5. ASSUME NEW e \in Executors, WaitTimeout(e) \/ SendCancel(e)
        PROVE  performer'[d] = performer[d] /\ publishing'[d] = publishing[d]
    BY <1>5 DEF WaitTimeout, SendCancel
  <1>6. ASSUME NEW e \in Executors, NEW p \in Performers, SpinStep(e, p)
        PROVE  /\ Silent(d)' => performer'[d] = NoPerformer /\ ~publishing'[d]
               /\ ~Silent(d)' => publishing'[d] \/ performer'[d] # NoPerformer
    <2>1. CASE ConfirmPerformer(e, p)
      <3>1. ~Silent(e)
        BY <2>1 DEF ConfirmPerformer, SpinAt, SilentIsUnheard
      <3>2. publishing' = publishing /\ performer' = [performer EXCEPT ![e] = p]
        BY <2>1 DEF ConfirmPerformer
      <3>3. ~RequestForPerformers(d)
        BY <2>1 DEF ConfirmPerformer, RequestForPerformers, SpinAt, SpinIdle
      <3> QED BY <1>1, <1>2, <3>1, <3>2, <3>3 DEF TypeOK
    <2>2. CASE ReceiveResponse(e, p) \/ RejectPerformer(e, p) \/ ReceiveFeedback(e, p)
      <3>1. performer'[d] = performer[d] /\ publishing'[d] = publishing[d]
        BY <2>2 DEF ReceiveResponse, RejectPerformer, ReceiveFeedback
      <3> QED BY <1>3, <3>1
    <2>3. ASSUME NEW m, ReceiveFinish(e, p, m)
          PROVE  /\ Silent(d)' => performer'[d] = NoPerformer /\ ~publishing'[d]
                 /\ ~Silent(d)' => publishing'[d] \/ performer'[d] # NoPerformer
      <3>1. /\ performer' = performer
            /\ publishing'[d] = publishing[d] \/ performer[d] # NoPerformer
        BY <2>3 DEF ReceiveFinish, TypeOK
      <3>2. CASE performer[d] # NoPerformer
        BY <1>1, <1>2, <3>1, <3>2
      <3> QED BY <1>3, <3>1, <3>2
    <2> QED BY <1>6, <1>3, <2>1, <2>2, <2>3 DEF SpinStep
  <1>7. ASSUME NEW e \in Executors, NEW p \in Performers, PerformerReceives(p, e)
        PROVE  performer'[d] = performer[d] /\ publishing'[d] = publishing[d]
    BY <1>7 DEF PerformerReceives, ReceiveRequest, ReceiveConfirm, ReceiveReject, ReceiveCancel
  <1>8. ASSUME NEW p \in Performers, Configure(p) \/ SendFeedback(p) \/ PerformerFinishes(p)
        PROVE  performer'[d] = performer[d] /\ publishing'[d] = publishing[d]
    BY <1>8 DEF Configure, SendFeedback, PerformerFinishes, Finish
  <1> QED BY StepKinds, <1>3, <1>4, <1>5, <1>6, <1>7, <1>8

\* An executor is offered nothing before its first REQUEST, for only a REQUEST for its
\* own action is answered to it.
LEMMA SilentIsUnheardNext ==
    ASSUME TypeOK, Unchosen, SilentIsUnheard, DistinctActions, Next
    PROVE  SilentIsUnheard'
  <1> USE DEF executorVars, threadVars, performerVars, hubVars
  <1>1. ASSUME NEW d \in Executors, Silent(d), NEW p \in Performers
        PROVE  /\ performer[d] = NoPerformer /\ ~publishing[d] /\ spin.exec # d
               /\ toPerformer[d][p] = <<>> /\ ~Holds(toExecutor[p][d], "RESPONSE")
    BY <1>1 DEF SilentIsUnheard
  <1>2. ASSUME NEW d \in Executors, Silent(d)'
        PROVE  Silent(d) /\ ~RequestForPerformers(d)
    <2>1. ~RequestForPerformers(d)
      BY <1>2, ExecutorsAssumption
      DEF RequestForPerformers, TypeOK, Silent, CycleAt, CycleGoes, SilentIsUnheard
    <2> QED BY <1>2, <2>1, SilentStep
  <1>3. ASSUME NEW d \in Executors, Silent(d)'
        PROVE  spin'.exec # d
    <2>1. spin.exec # d
      BY <1>2, <1>3 DEF SilentIsUnheard
    <2>2. CASE UNCHANGED spin
      BY <2>1, <2>2
    <2>3. CASE spin' = SpinIdle
      BY <2>3, ExecutorsAssumption DEF SpinIdle
    <2>4. ASSUME NEW e \in Executors, NEW p \in Performers, ReceiveResponse(e, p)
          PROVE  spin'.exec # d
      <3>1. Holds(toExecutor[p][e], "RESPONSE")
        BY <2>4, HoldsNext DEF ReceiveResponse
      <3>2. e # d
        BY <1>1, <1>2, <1>3, <3>1
      <3> QED BY <2>4, <3>2 DEF ReceiveResponse
    <2>5. \/ UNCHANGED spin \/ spin' = SpinIdle
          \/ \E e \in Executors, p \in Performers : ReceiveResponse(e, p)
      BY StepKinds
      DEF RequestForPerformers, WaitTimeout, SendCancel, SpinStep, ConfirmPerformer,
          RejectPerformer, ReceiveFeedback, ReceiveFinish, PerformerReceives, ReceiveRequest,
          ReceiveConfirm, ReceiveReject, ReceiveCancel, Configure, SendFeedback,
          PerformerFinishes, Finish
    <2> QED BY <2>2, <2>3, <2>4, <2>5
  <1>4. ASSUME NEW d \in Executors, Silent(d)', NEW q \in Performers
        PROVE  toPerformer'[d][q] = <<>>
    <2>1. toPerformer[d][q] = <<>> /\ ~publishing[d]
      BY <1>1, <1>2, <1>4
    <2>2. CASE UNCHANGED toPerformer
      BY <2>1, <2>2
    <2>3. ASSUME NEW e \in Executors, RequestForPerformers(e) \/ WaitTimeout(e)
          PROVE  toPerformer'[d][q] = <<>>
      <3>1. e # d /\ Request(e)
        BY <1>2, <1>4, <2>1, <2>3 DEF RequestForPerformers, WaitTimeout
      <3> QED BY <2>1, <3>1, AfterRequest
    <2>4. ASSUME NEW e \in Executors, NEW p, NEW m, Tell(e, p, m)
          PROVE  toPerformer'[d][q] = <<>>
      BY <2>1, <2>4 DEF Tell, TypeOK
    <2>5. ASSUME NEW e \in Executors, NEW p \in Performers, PerformerReceives(p, e)
          PROVE  toPerformer'[d][q] = <<>>
      <3>1. toPerformer[e][p] # <<>> /\ TakenByPerformer(e, p)
        BY <2>5
        DEF PerformerReceives, ReceiveRequest, ReceiveConfirm, ReceiveReject, ReceiveCancel,
            NextForPerformer
      <3> QED BY <2>1, <3>1 DEF TakenByPerformer, TypeOK
    <2>6. \/ UNCHANGED toPerformer
          \/ \E e \in Executors : RequestForPerformers(e) \/ WaitTimeout(e)
          \/ \E e \in Executors : \E p, m : Tell(e, p, m)
          \/ \E e \in Executors, p \in Performers : PerformerReceives(p, e)
      BY StepKinds
      DEF SendCancel, SpinStep, ReceiveResponse, ConfirmPerformer, RejectPerformer,
          ReceiveFeedback, ReceiveFinish, Configure, SendFeedback, PerformerFinishes, Finish
    <2> QED BY <2>2, <2>3, <2>4, <2>5, <2>6
  <1>5. ASSUME NEW d \in Executors, Silent(d)', NEW q \in Performers,
               Holds(toExecutor'[q][d], "RESPONSE")
        PROVE  FALSE
    <2>1. ~Holds(toExecutor[q][d], "RESPONSE")
      BY <1>1, <1>2, <1>5
    <2>2. CASE UNCHANGED toExecutor
      BY <1>5, <2>1, <2>2
    <2>3. ASSUME NEW e \in Executors, NEW p \in Performers, SpinStep(e, p)
          PROVE  FALSE
      <3>1. \/ UNCHANGED toExecutor
            \/ toExecutor[p][e] # <<>> /\ TakenByExecutor(p, e)
        BY <2>3
        DEF SpinStep, ReceiveResponse, ConfirmPerformer, RejectPerformer, ReceiveFeedback,
            ReceiveFinish, NextForExecutor
      <3> QED BY <1>5, <2>1, <2>2, <3>1, HoldsTakenByExecutor
    <2>4. ASSUME NEW e \in Executors, NEW p \in Performers, PerformerReceives(p, e)
          PROVE  FALSE
      <3>1. CASE UNCHANGED toExecutor
        BY <2>2, <3>1
      <3>2. CASE ReceiveRequest(p, e) /\ Announce(p, ActionOf[e], "RESPONSE")
        <4>1. d = e
          BY <1>5, <2>1, <3>2, HoldsAnnounced DEF PerformerMessage, DistinctActions
        <4>2. toPerformer[d][p] # <<>>
          BY <3>2, <4>1 DEF ReceiveRequest, NextForPerformer
        <4> QED BY <1>1, <1>2, <1>5, <4>2
      <3> QED BY <2>4, <3>1, <3>2
        DEF PerformerReceives, ReceiveRequest, ReceiveConfirm, ReceiveReject, ReceiveCancel
    <2>5. ASSUME NEW p \in Performers, Configure(p) \/ SendFeedback(p) \/ PerformerFinishes(p)
          PROVE  FALSE
      <3>1. ASSUME NEW a, NEW m \in PerformerMessage \ {"RESPONSE"}, Announce(p, a, m)
            PROVE  FALSE
        BY <1>5, <2>1, <3>1, HoldsAnnounced
      <3>2. CASE Configure(p)
        BY <2>2, <3>2 DEF Configure
      <3>3. CASE SendFeedback(p)
        BY <3>1, <3>3 DEF SendFeedback, PerformerMessage
      <3>4. CASE PerformerFinishes(p)
        BY <3>1, <3>4 DEF PerformerFinishes, Finish, PerformerMessage
      <3> QED BY <2>5, <3>2, <3>3, <3>4
    <2>6. ASSUME NEW e \in Executors,
                 RequestForPerformers(e) \/ WaitTimeout(e) \/ SendCancel(e)
          PROVE  UNCHANGED toExecutor
      BY <2>6 DEF RequestForPerformers, WaitTimeout, SendCancel
    <2> QED BY StepKinds, <2>2, <2>3, <2>4, <2>5, <2>6
  <1>6. \A d \in Executors :
          /\ Silent(d)' => performer'[d] = NoPerformer /\ ~publishing'[d]
          /\ ~Silent(d)' => publishing'[d] \/ performer'[d] # NoPerformer
    BY PublishingStep
  <1>7. cycle'.at \notin {"tick", "halt"} => status'[cycle'.exec] # "IDLE"
    <2>1. CASE Executors # {}
      BY <2>1, SilentStep
    <2>2. CASE Executors = {}
      BY <2>2, TypeNext DEF TypeOK
    <2> QED BY <2>1, <2>2
  <1> QED BY <1>3, <1>4, <1>5, <1>6, <1>7 DEF SilentIsUnheard

\* The exchange of a performer that no message joins goes on or ends.
LEMMA ExchangeShrinks ==
    ASSUME NEW q \in Performers, OneExchange(q),
           \A d \in Executors :
              /\ Offered(q, d)' => Offered(q, d)
              /\ LookedAt(q, d)' => LookedAt(q, d)
              /\ Answered(q, d)' => Answered(q, d)
              /\ Once(toExecutor'[q][d], {"RESPONSE"}) /\ Once(toPerformer'[d][q], Answers),
           committed'[q] = committed[q],
           committed'[q] => lifecycle'[q] = "INACTIVE"
    PROVE  OneExchange(q)'
  <1>1. \A d \in Executors :
          /\ Exchanging(q, d) <=> Offered(q, d) \/ LookedAt(q, d) \/ Answered(q, d)
          /\ Exchanging(q, d)' <=> Offered(q, d)' \/ LookedAt(q, d)' \/ Answered(q, d)'
    BY DEF Exchanging, Offered, LookedAt, Answered
  <1> QED BY <1>1 DEF OneExchange

\* What the executors say of other matters does not touch the exchanges.
LEMMA ExchangeTold ==
    ASSUME TypeOK, NEW q \in Performers, OneExchange(q),
           NEW e \in Executors, NEW p \in Performers, NEW m \in ExecutorMessage,
           p = q => m \notin Answers, Tell(e, p, m),
           UNCHANGED <<toExecutor, spin, committed, lifecycle>>
    PROVE  OneExchange(q)'
  <1>1. ASSUME NEW d \in Executors
        PROVE  /\ Offered(q, d)' => Offered(q, d)
               /\ LookedAt(q, d)' => LookedAt(q, d)
               /\ Answered(q, d)' => Answered(q, d)
               /\ Once(toExecutor'[q][d], {"RESPONSE"}) /\ Once(toPerformer'[d][q], Answers)
    <2>1. /\ \A k : Holds(toPerformer'[d][q], k) <=>
                        \/ Holds(toPerformer[d][q], k)
                        \/ d = e /\ q = p /\ k = m /\ publishing[e] /\ Subscribed(p)
      BY AfterTell
    <2>2. Once(toPerformer'[d][q], Answers)
      <3>1. CASE p = q
        BY <3>1, AfterTell DEF OneExchange
      <3>2. CASE p # q
        BY <3>2 DEF Tell, TypeOK, OneExchange
      <3> QED BY <3>1, <3>2
    <2> QED BY <2>1, <2>2 DEF OneExchange, Offered, LookedAt, Answered, Answers
  <1> QED BY <1>1, ExchangeShrinks DEF OneExchange

\* An answer is published, or dropped, when the RESPONSE that was looked at is settled.
LEMMA ExchangeAnswered ==
    ASSUME TypeOK, ExchangeIsOne, NEW e \in Executors, NEW p \in Performers,
           LookedAt(p, e), NEW m \in Answers, Tell(e, p, m), spin' = SpinIdle,
           UNCHANGED <<toExecutor, committed, lifecycle>>
    PROVE  ExchangeIsOne'
  <1> SUFFICES ASSUME NEW q \in Performers PROVE OneExchange(q)'
    BY DEF ExchangeIsOne
  <1>1. OneExchange(q) /\ OneExchange(p)
    BY DEF ExchangeIsOne
  <1>2. ASSUME NEW d \in Executors
        PROVE  ~LookedAt(q, d)'
    BY ExecutorsAssumption DEF LookedAt, SpinIdle
  <1>3. ASSUME NEW d \in Executors
        PROVE  \A k : Holds(toPerformer'[d][q], k) =>
                        Holds(toPerformer[d][q], k) \/ (d = e /\ q = p /\ k = m)
    BY AfterTell DEF Answers, ExecutorMessage
  <1>4. ASSUME NEW d \in Executors
        PROVE  Answered(q, d)' => Answered(q, d) \/ (d = e /\ q = p)
    BY <1>3 DEF Answered
  <1>5. ASSUME NEW d \in Executors
        PROVE  Offered(q, d)' <=> Offered(q, d)
    BY DEF Offered
  <1>6. ~Answered(p, e)
    BY <1>1 DEF OneExchange
  <1>7. \A k \in Answers : ~Holds(toPerformer[e][p], k)
    BY <1>6 DEF Answered, Answers
  <1>8. ASSUME NEW d \in Executors
        PROVE  Once(toExecutor'[q][d], {"RESPONSE"}) /\ Once(toPerformer'[d][q], Answers)
    BY <1>1, <1>7, AfterTell DEF OneExchange, Answers, ExecutorMessage
  <1>9. CASE q # p
    BY <1>1, <1>2, <1>4, <1>5, <1>8, <1>9, ExchangeShrinks DEF OneExchange
  <1>10. CASE q = p
    <2>1. \A d \in Executors : /\ Exchanging(q, d) <=> Offered(q, d) \/ LookedAt(q, d) \/ Answered(q, d)
                               /\ Exchanging(q, d)' <=> Offered(q, d)' \/ Answered(q, d)'
      BY <1>2 DEF Exchanging, Offered, LookedAt, Answered
    <2>2. /\ committed[q] /\ committed'[q] /\ lifecycle'[q] = "INACTIVE"
          /\ \A d \in Executors : Exchanging(q, d) => d = e
          /\ ~Offered(q, e)
      BY <1>1, <1>10, <2>1 DEF OneExchange
    <2>3. \A d \in Executors : ~Offered(q, d)' /\ (Answered(q, d)' => d = e)
      BY <1>4, <1>5, <2>1, <2>2
    <2>4. \A d \in Executors : Exchanging(q, d)' => d = e
      BY <2>1, <2>3
    <2> QED BY <1>2, <1>8, <2>2, <2>3, <2>4 DEF OneExchange
  <1> QED BY <1>9, <1>10

\* A RESPONSE is taken and looked at.
LEMMA ExchangeLookedAt ==
    ASSUME TypeOK, ExchangeIsOne, NEW e \in Executors, NEW p \in Performers,
           ReceiveResponse(e, p)
    PROVE  ExchangeIsOne'
  <1> SUFFICES ASSUME NEW q \in Performers PROVE OneExchange(q)'
    BY DEF ExchangeIsOne
  <1>1. OneExchange(q) /\ OneExchange(p)
    BY DEF ExchangeIsOne
  <1>2. /\ NextForExecutor(p, e, "RESPONSE") /\ TakenByExecutor(p, e)
        /\ spin = SpinIdle /\ spin'.exec = e /\ spin'.from = p
        /\ UNCHANGED <<committed, lifecycle, toPerformer>>
    BY DEF ReceiveResponse, performerVars
  <1>3. ASSUME NEW d \in Executors
        PROVE  ~LookedAt(q, d) /\ (LookedAt(q, d)' <=> d = e /\ q = p)
    BY <1>2, ExecutorsAssumption DEF LookedAt, SpinIdle
  <1>4. ASSUME NEW d \in Executors
        PROVE  Answered(q, d)' <=> Answered(q, d)
    BY <1>2 DEF Answered
  <1>5. ASSUME NEW d \in Executors
        PROVE  /\ Offered(q, d)' => Offered(q, d)
               /\ d = e /\ q = p => Offered(q, d) /\ ~Offered(q, d)'
               /\ Once(toExecutor'[q][d], {"RESPONSE"})
    <2>1. Once(toExecutor[q][d], {"RESPONSE"})
      BY <1>1 DEF OneExchange
    <2> QED BY <1>2, <2>1, AfterHeard, HoldsNext DEF Offered
  <1>6. ASSUME NEW d \in Executors
        PROVE  Once(toPerformer'[d][q], Answers)
    BY <1>1, <1>2 DEF OneExchange
  <1>7. CASE q # p
    BY <1>1, <1>2, <1>3, <1>4, <1>5, <1>6, <1>7, ExchangeShrinks DEF OneExchange
  <1>8. CASE q = p
    <2>1. \A d \in Executors : /\ Exchanging(q, d) <=> Offered(q, d) \/ Answered(q, d)
                               /\ Exchanging(q, d)' <=> Offered(q, d)' \/ LookedAt(q, d)' \/ Answered(q, d)'
      BY <1>3 DEF Exchanging, Offered, LookedAt, Answered
    <2>2. Offered(q, e) /\ ~Offered(q, e)'
      BY <1>5, <1>8
    <2>3. /\ committed[q] /\ committed'[q] /\ lifecycle'[q] = "INACTIVE"
          /\ \A d \in Executors : Exchanging(q, d) => d = e
          /\ ~Answered(q, e)
      BY <1>1, <1>2, <2>1, <2>2 DEF OneExchange
    <2>4. \A d \in Executors : ~Offered(q, d)' /\ ~Answered(q, d)' /\ (LookedAt(q, d)' => d = e)
      BY <1>3, <1>4, <1>5, <2>1, <2>2, <2>3
    <2>5. \A d \in Executors : Exchanging(q, d)' => d = e
      BY <2>1, <2>4
    <2> QED BY <1>5, <1>6, <2>3, <2>4, <2>5 DEF OneExchange
  <1> QED BY <1>7, <1>8

\* A performer that is not in an exchange answers a REQUEST.
LEMMA ExchangeOffered ==
    ASSUME TypeOK, ExchangeIsOne, DistinctActions, NEW e \in Executors, NEW p \in Performers,
           lifecycle[p] = "INACTIVE", ~committed[p],
           NextForPerformer(e, p, "REQUEST"), TakenByPerformer(e, p),
           committed' = [committed EXCEPT ![p] = TRUE],
           Announce(p, ActionOf[e], "RESPONSE"),
           UNCHANGED <<lifecycle, spin>>
    PROVE  ExchangeIsOne'
  <1> SUFFICES ASSUME NEW q \in Performers PROVE OneExchange(q)'
    BY DEF ExchangeIsOne
  <1>1. OneExchange(q) /\ OneExchange(p)
    BY DEF ExchangeIsOne
  <1>2. ASSUME NEW d \in Executors
        PROVE  /\ LookedAt(q, d)' <=> LookedAt(q, d)
               /\ Answered(q, d)' => Answered(q, d)
               /\ Once(toPerformer'[d][q], Answers)
    <2>1. Once(toPerformer[d][q], Answers)
      BY <1>1 DEF OneExchange
    <2> QED BY <2>1, AfterTaken DEF LookedAt, Answered
  <1>3. \A d \in Executors : ActionOf[d] = ActionOf[e] => d = e
    BY DEF DistinctActions
  <1>4. ASSUME NEW d \in Executors
        PROVE  Offered(q, d)' => Offered(q, d) \/ (d = e /\ q = p)
    BY <1>3, AfterAnnounce DEF Offered, PerformerMessage
  <1>5. \A d \in Executors : ~Exchanging(p, d)
    BY <1>1 DEF OneExchange
  <1>6. ASSUME NEW d \in Executors
        PROVE  Once(toExecutor'[q][d], {"RESPONSE"})
    <2>1. Once(toExecutor[q][d], {"RESPONSE"}) /\ ~Holds(toExecutor[p][d], "RESPONSE")
      BY <1>1, <1>5 DEF OneExchange, Exchanging
    <2> QED BY <2>1, AfterAnnounce DEF PerformerMessage
  <1>7. CASE q # p
    <2>1. committed'[q] = committed[q] /\ lifecycle'[q] = lifecycle[q]
      BY <1>7 DEF TypeOK
    <2> QED BY <1>1, <1>2, <1>4, <1>6, <1>7, <2>1, ExchangeShrinks DEF OneExchange
  <1>8. CASE q = p
    <2>1. committed'[q] /\ lifecycle'[q] = "INACTIVE"
      BY <1>8 DEF TypeOK
    <2>2. \A d \in Executors : ~Offered(q, d) /\ ~LookedAt(q, d) /\ ~Answered(q, d)
      BY <1>5, <1>8 DEF Exchanging, Offered, LookedAt, Answered
    <2>3. \A d \in Executors : ~LookedAt(q, d)' /\ ~Answered(q, d)' /\ (Offered(q, d)' => d = e)
      BY <1>2, <1>4, <2>2
    <2>4. \A d \in Executors : Exchanging(q, d)' <=> Offered(q, d)'
      BY <2>3 DEF Exchanging, Offered, LookedAt, Answered
    <2> QED BY <1>2, <1>6, <2>1, <2>3, <2>4 DEF OneExchange
  <1> QED BY <1>7, <1>8

\* A performer that takes its answer is free again: no other was on its way.
LEMMA ExchangeEnds ==
    ASSUME TypeOK, ExchangeIsOne, NEW e \in Executors, NEW p \in Performers,
           NEW m \in Answers, NextForPerformer(e, p, m), TakenByPerformer(e, p),
           committed' = [committed EXCEPT ![p] = FALSE],
           \A q \in Performers : q # p => lifecycle'[q] = lifecycle[q],
           UNCHANGED <<toExecutor, spin>>
    PROVE  ExchangeIsOne'
  <1> SUFFICES ASSUME NEW q \in Performers PROVE OneExchange(q)'
    BY DEF ExchangeIsOne
  <1>1. OneExchange(q) /\ OneExchange(p)
    BY DEF ExchangeIsOne
  <1>2. ASSUME NEW d \in Executors
        PROVE  /\ LookedAt(q, d)' <=> LookedAt(q, d)
               /\ Offered(q, d)' <=> Offered(q, d)
               /\ Answered(q, d)' => Answered(q, d)
               /\ d = e /\ q = p => ~Answered(q, d)'
               /\ Once(toExecutor'[q][d], {"RESPONSE"})
               /\ Once(toPerformer'[d][q], Answers)
    <2>1. Once(toPerformer[d][q], Answers) /\ Once(toExecutor[q][d], {"RESPONSE"})
      BY <1>1 DEF OneExchange
    <2> QED BY <2>1, AfterTaken DEF LookedAt, Answered, Offered, Answers
  <1>3. CASE q # p
    <2>1. committed'[q] = committed[q] /\ lifecycle'[q] = lifecycle[q]
      BY <1>3 DEF TypeOK
    <2> QED BY <1>1, <1>2, <1>3, <2>1, ExchangeShrinks DEF OneExchange
  <1>4. CASE q = p
    <2>1. ~committed'[q]
      BY <1>4 DEF TypeOK
    <2>2. Answered(q, e)
      BY <1>4, HoldsNext DEF Answered, Answers
    <2>3. \A d \in Executors :
            Exchanging(q, d) <=> Offered(q, d) \/ LookedAt(q, d) \/ Answered(q, d)
      BY DEF Exchanging, Offered, LookedAt, Answered
    <2>4. /\ \A d \in Executors : Exchanging(q, d) => d = e
          /\ ~Offered(q, e) /\ ~LookedAt(q, e)
      BY <1>1, <2>2, <2>3 DEF OneExchange
    <2>5. \A d \in Executors : ~Offered(q, d)' /\ ~LookedAt(q, d)' /\ ~Answered(q, d)'
      BY <1>2, <1>4, <2>3, <2>4
    <2>6. \A d \in Executors : ~Exchanging(q, d)'
      BY <2>5 DEF Exchanging, Offered, LookedAt, Answered
    <2> QED BY <1>2, <2>1, <2>5, <2>6 DEF OneExchange
  <1> QED BY <1>3, <1>4

\* Every step leaves each performer with one exchange, in one stage, or with none.
LEMMA ExchangeIsOneNext ==
    ASSUME TypeOK, ExchangeIsOne, DistinctActions, Next
    PROVE  ExchangeIsOne'
  <1> USE DEF executorVars, threadVars, performerVars, hubVars
  <1>1. ASSUME NEW q \in Performers
        PROVE  /\ OneExchange(q)
               /\ \A d \in Executors : Exchanging(q, d) => committed[q]
               /\ committed[q] => lifecycle[q] = "INACTIVE"
    BY DEF ExchangeIsOne, OneExchange
  <1>2. CASE UNCHANGED <<spin, lifecycle, committed, toPerformer, toExecutor>>
    BY <1>2 DEF ExchangeIsOne, OneExchange, Exchanging, Offered, LookedAt, Answered
  <1>3. ASSUME NEW e \in Executors, RequestForPerformers(e) \/ WaitTimeout(e)
        PROVE  ExchangeIsOne'
    <2>1. Request(e) /\ UNCHANGED <<spin, lifecycle, committed, toExecutor>>
      BY <1>3 DEF RequestForPerformers, WaitTimeout
    <2> SUFFICES ASSUME NEW q \in Performers PROVE OneExchange(q)'
      BY DEF ExchangeIsOne
    <2>2. ASSUME NEW d \in Executors
          PROVE  /\ Offered(q, d)' => Offered(q, d)
                 /\ LookedAt(q, d)' => LookedAt(q, d)
                 /\ Answered(q, d)' => Answered(q, d)
                 /\ Once(toExecutor'[q][d], {"RESPONSE"}) /\ Once(toPerformer'[d][q], Answers)
      <3>1. Once(toPerformer[d][q], Answers) /\ Once(toExecutor[q][d], {"RESPONSE"})
        BY <1>1 DEF OneExchange
      <3> QED BY <2>1, <3>1, AfterRequest DEF LookedAt, Answered, Offered, Answers
    <2> QED BY <1>1, <2>1, <2>2, ExchangeShrinks
  <1>4. ASSUME NEW e \in Executors, SendCancel(e)
        PROVE  ExchangeIsOne'
    <2>1. Tell(e, performer[e], "CANCEL") /\ UNCHANGED <<spin, lifecycle, committed, toExecutor>>
      BY <1>4 DEF SendCancel
    <2>2. CASE performer[e] \in Performers
      BY <1>1, <2>1, <2>2, ExchangeTold DEF ExchangeIsOne, ExecutorMessage, Answers
    <2>3. CASE performer[e] \notin Performers
      <3>1. UNCHANGED toPerformer
        BY <2>1, <2>3 DEF Tell, TypeOK
      <3> QED BY <1>2, <2>1, <3>1
    <2> QED BY <2>2, <2>3
  <1>5. ASSUME NEW e \in Executors, NEW p \in Performers, SpinStep(e, p)
        PROVE  ExchangeIsOne'
    <2>1. CASE ReceiveResponse(e, p)
      BY <2>1, ExchangeLookedAt
    <2>2. CASE ConfirmPerformer(e, p)
      BY <2>2, ExchangeAnswered DEF ConfirmPerformer, SpinAt, LookedAt, Answers
    <2>3. CASE RejectPerformer(e, p)
      BY <2>3, ExchangeAnswered DEF RejectPerformer, SpinAt, LookedAt, Answers
    <2>4. ASSUME NEW m, m # "RESPONSE", NextForExecutor(p, e, m), TakenByExecutor(p, e),
                 UNCHANGED <<spin, lifecycle, committed, toPerformer>>
          PROVE  ExchangeIsOne'
      <3> SUFFICES ASSUME NEW q \in Performers PROVE OneExchange(q)'
        BY DEF ExchangeIsOne
      <3>1. ASSUME NEW d \in Executors
            PROVE  /\ Offered(q, d)' => Offered(q, d)
                   /\ LookedAt(q, d)' => LookedAt(q, d)
                   /\ Answered(q, d)' => Answered(q, d)
                   /\ Once(toExecutor'[q][d], {"RESPONSE"}) /\ Once(toPerformer'[d][q], Answers)
        <4>1. Once(toPerformer[d][q], Answers) /\ Once(toExecutor[q][d], {"RESPONSE"})
          BY <1>1 DEF OneExchange
        <4> QED BY <2>4, <4>1, AfterHeard DEF LookedAt, Answered, Offered
      <3> QED BY <1>1, <2>4, <3>1, ExchangeShrinks
    <2>5. CASE ReceiveFeedback(e, p)
      BY <2>4, <2>5 DEF ReceiveFeedback
    <2>6. ASSUME NEW m \in {"FINISH_SUCCESS", "FINISH_FAILURE"}, ReceiveFinish(e, p, m)
          PROVE  ExchangeIsOne'
      BY <2>4, <2>6 DEF ReceiveFinish
    <2> QED BY <1>5, <2>1, <2>2, <2>3, <2>5, <2>6 DEF SpinStep
  <1>6. ASSUME NEW e \in Executors, NEW p \in Performers, PerformerReceives(p, e)
        PROVE  ExchangeIsOne'
    <2>1. ASSUME NEW m \in {"REQUEST", "CANCEL"}, NextForPerformer(e, p, m), TakenByPerformer(e, p),
                 UNCHANGED <<spin, committed, toExecutor>>,
                 \A q \in Performers : lifecycle[q] = "INACTIVE" => lifecycle'[q] = "INACTIVE"
          PROVE  ExchangeIsOne'
      <3> SUFFICES ASSUME NEW q \in Performers PROVE OneExchange(q)'
        BY DEF ExchangeIsOne
      <3>1. ASSUME NEW d \in Executors
            PROVE  /\ Offered(q, d)' => Offered(q, d)
                   /\ LookedAt(q, d)' => LookedAt(q, d)
                   /\ Answered(q, d)' => Answered(q, d)
                   /\ Once(toExecutor'[q][d], {"RESPONSE"}) /\ Once(toPerformer'[d][q], Answers)
        <4>1. Once(toPerformer[d][q], Answers) /\ Once(toExecutor[q][d], {"RESPONSE"})
          BY <1>1 DEF OneExchange
        <4> QED BY <2>1, <4>1, AfterTaken DEF LookedAt, Answered, Offered
      <3> QED BY <1>1, <2>1, <3>1, ExchangeShrinks
    <2>2. CASE ReceiveRequest(p, e)
      <3>1. CASE lifecycle[p] = "INACTIVE" /\ ~committed[p] /\ ShouldExecute(p, ActionOf[e])
        BY <2>2, <3>1, ExchangeOffered DEF ReceiveRequest
      <3>2. CASE ~(lifecycle[p] = "INACTIVE" /\ ~committed[p] /\ ShouldExecute(p, ActionOf[e]))
        BY <2>1, <2>2, <3>2 DEF ReceiveRequest
      <3> QED BY <3>1, <3>2
    <2>3. CASE ReceiveConfirm(p, e)
      <3>1. Holds(toPerformer[e][p], "CONFIRM")
        BY <2>3, HoldsNext DEF ReceiveConfirm
      <3>2. lifecycle[p] = "INACTIVE" /\ committed[p]
        BY <1>1, <3>1 DEF Exchanging
      <3>3. \A q \in Performers : q # p => lifecycle'[q] = lifecycle[q]
        BY <2>3 DEF ReceiveConfirm, TypeOK
      <3> QED BY <2>3, <3>2, <3>3, ExchangeEnds DEF ReceiveConfirm, Answers
    <2>4. CASE ReceiveReject(p, e)
      BY <2>4, ExchangeEnds DEF ReceiveReject, Answers
    <2>5. CASE ReceiveCancel(p, e)
      <3>1. \A q \in Performers : lifecycle[q] = "INACTIVE" => lifecycle'[q] = "INACTIVE"
        BY <2>5 DEF ReceiveCancel, TypeOK
      <3> QED BY <2>1, <2>5, <3>1 DEF ReceiveCancel
    <2> QED BY <1>6, <2>2, <2>3, <2>4, <2>5 DEF PerformerReceives
  <1>7. ASSUME NEW p \in Performers, Configure(p) \/ SendFeedback(p) \/ PerformerFinishes(p)
        PROVE  ExchangeIsOne'
    <2>1. ASSUME NEW a, NEW m \in PerformerMessage \ {"RESPONSE"}, Announce(p, a, m),
                 UNCHANGED <<spin, committed, toPerformer>>,
                 \A q \in Performers : lifecycle[q] = "INACTIVE" => lifecycle'[q] = "INACTIVE"
          PROVE  ExchangeIsOne'
      <3> SUFFICES ASSUME NEW q \in Performers PROVE OneExchange(q)'
        BY DEF ExchangeIsOne
      <3>1. ASSUME NEW d \in Executors
            PROVE  /\ Offered(q, d)' => Offered(q, d)
                   /\ LookedAt(q, d)' => LookedAt(q, d)
                   /\ Answered(q, d)' => Answered(q, d)
                   /\ Once(toExecutor'[q][d], {"RESPONSE"}) /\ Once(toPerformer'[d][q], Answers)
        <4>1. Once(toPerformer[d][q], Answers) /\ Once(toExecutor[q][d], {"RESPONSE"})
          BY <1>1 DEF OneExchange
        <4> QED BY <2>1, <4>1, AfterAnnounce DEF LookedAt, Answered, Offered
      <3> QED BY <1>1, <2>1, <3>1, ExchangeShrinks
    <2>2. CASE Configure(p)
      <3>1. ASSUME NEW q \in Performers PROVE OneExchange(q)'
        <4>1. /\ UNCHANGED <<spin, committed, toPerformer, toExecutor>>
              /\ lifecycle[q] = "INACTIVE" => lifecycle'[q] = "INACTIVE"
          BY <2>2 DEF Configure, TypeOK
        <4> QED BY <1>1, <4>1 DEF OneExchange, Exchanging, Offered, LookedAt, Answered
      <3> QED BY <3>1 DEF ExchangeIsOne
    <2>3. CASE SendFeedback(p)
      BY <2>1, <2>3 DEF SendFeedback, PerformerMessage
    <2>4. ASSUME NEW m \in {"FINISH_SUCCESS", "FINISH_FAILURE"}, Finish(p, m)
          PROVE  ExchangeIsOne'
      <3>1. \A q \in Performers : lifecycle[q] = "INACTIVE" => lifecycle'[q] = "INACTIVE"
        BY <2>4 DEF Finish, TypeOK
      <3> QED BY <2>1, <2>4, <3>1 DEF Finish, PerformerMessage
    <2> QED BY <1>7, <2>2, <2>3, <2>4 DEF PerformerFinishes
  <1> QED BY StepKinds, <1>2, <1>3, <1>4, <1>5, <1>6, <1>7

\* A message for a performer waits until that performer takes it, and all a performer
\* takes was there.
LEMMA KeptForPerformer ==
    ASSUME TypeOK, Next, NEW d \in Executors, NEW q \in Performers, NEW k,
           Holds(toPerformer[d][q], k)
    PROVE  \/ Holds(toPerformer'[d][q], k)
           \/ NextForPerformer(d, q, k) /\ PerformerReceives(q, d)
  <1> USE DEF executorVars, threadVars, performerVars, hubVars
  <1>1. CASE UNCHANGED toPerformer
    BY <1>1
  <1>2. ASSUME NEW e \in Executors, Request(e)
        PROVE  Holds(toPerformer'[d][q], k)
    <2>1. CASE k = "REQUEST"
      <3>1. toPerformer[d][q] \in Seq(ExecutorMessage)
        BY DEF TypeOK
      <3>2. \/ toPerformer'[d][q] = toPerformer[d][q]
            \/ toPerformer'[d][q] = Append(toPerformer[d][q], "REQUEST")
        BY <1>2 DEF Request, TypeOK
      <3>3. Holds(Append(toPerformer[d][q], "REQUEST"), k)
        BY <3>1, <2>1, HoldsAppend DEF ExecutorMessage
      <3> QED BY <3>2, <3>3
    <2>2. CASE k # "REQUEST"
      BY <1>2, <2>2, AfterRequest
    <2> QED BY <2>1, <2>2
  <1>3. ASSUME NEW e \in Executors, NEW p \in Performers, NEW m \in ExecutorMessage, Tell(e, p, m)
        PROVE  Holds(toPerformer'[d][q], k)
    BY <1>3, AfterTell
  <1>4. ASSUME NEW e \in Executors, NEW p \in Performers, PerformerReceives(p, e)
        PROVE  \/ Holds(toPerformer'[d][q], k)
               \/ NextForPerformer(d, q, k) /\ PerformerReceives(q, d)
    <2>1. PICK m : NextForPerformer(e, p, m) /\ TakenByPerformer(e, p)
      BY <1>4
      DEF PerformerReceives, ReceiveRequest, ReceiveConfirm, ReceiveReject, ReceiveCancel
    <2>2. CASE d = e /\ q = p /\ k = m
      BY <1>4, <2>1, <2>2
    <2>3. CASE ~(d = e /\ q = p /\ k = m)
      BY <2>1, <2>3, AfterTaken
    <2> QED BY <2>2, <2>3
  <1>5. ASSUME NEW e \in Executors, SendCancel(e)
        PROVE  Holds(toPerformer'[d][q], k)
    <2>1. CASE performer[e] \in Performers
      BY <1>3, <1>5, <2>1 DEF SendCancel, ExecutorMessage
    <2>2. CASE performer[e] \notin Performers
      BY <1>1, <1>5, <2>2 DEF SendCancel, Tell, TypeOK
    <2> QED BY <2>1, <2>2
  <1>6. ASSUME NEW e \in Executors, RequestForPerformers(e) \/ WaitTimeout(e)
        PROVE  Holds(toPerformer'[d][q], k)
    BY <1>2, <1>6 DEF RequestForPerformers, WaitTimeout
  <1>7. ASSUME NEW e \in Executors, NEW p \in Performers, SpinStep(e, p)
        PROVE  Holds(toPerformer'[d][q], k)
    <2>1. CASE ConfirmPerformer(e, p) \/ RejectPerformer(e, p)
      BY <1>3, <2>1 DEF ConfirmPerformer, RejectPerformer, ExecutorMessage
    <2>2. CASE UNCHANGED toPerformer
      BY <1>1, <2>2
    <2> QED BY <1>7, <2>1, <2>2 DEF SpinStep, ReceiveResponse, ReceiveFeedback, ReceiveFinish
  <1>8. ASSUME NEW p \in Performers, Configure(p) \/ SendFeedback(p) \/ PerformerFinishes(p)
        PROVE  UNCHANGED toPerformer
    BY <1>8 DEF Configure, SendFeedback, PerformerFinishes, Finish
  <1> QED BY StepKinds, <1>1, <1>4, <1>5, <1>6, <1>7, <1>8

\* So does a message for an executor.
LEMMA KeptForExecutor ==
    ASSUME TypeOK, Next, NEW d \in Executors, NEW q \in Performers, NEW k,
           Holds(toExecutor[q][d], k)
    PROVE  \/ Holds(toExecutor'[q][d], k)
           \/ NextForExecutor(q, d, k) /\ SpinStep(d, q) /\ spin = SpinIdle
  <1> USE DEF executorVars, threadVars, performerVars, hubVars
  <1>1. CASE UNCHANGED toExecutor
    BY <1>1
  <1>2. ASSUME NEW p \in Performers, NEW a, NEW m \in PerformerMessage, Announce(p, a, m)
        PROVE  Holds(toExecutor'[q][d], k)
    BY <1>2, AfterAnnounce
  <1>3. ASSUME NEW e \in Executors, NEW p \in Performers, SpinStep(e, p)
        PROVE  \/ Holds(toExecutor'[q][d], k)
               \/ NextForExecutor(q, d, k) /\ SpinStep(d, q) /\ spin = SpinIdle
    <2>1. CASE ConfirmPerformer(e, p) \/ RejectPerformer(e, p)
      BY <1>1, <2>1 DEF ConfirmPerformer, RejectPerformer
    <2>2. ASSUME NEW m, NextForExecutor(p, e, m), TakenByExecutor(p, e), spin = SpinIdle
          PROVE  \/ Holds(toExecutor'[q][d], k)
                 \/ NextForExecutor(q, d, k) /\ SpinStep(d, q) /\ spin = SpinIdle
      <3>1. CASE d = e /\ q = p /\ k = m
        BY <1>3, <2>2, <3>1
      <3>2. CASE ~(d = e /\ q = p /\ k = m)
        BY <2>2, <3>2, AfterHeard
      <3> QED BY <3>1, <3>2
    <2> QED BY <1>3, <2>1, <2>2 DEF SpinStep, ReceiveResponse, ReceiveFeedback, ReceiveFinish
  <1>4. ASSUME NEW e \in Executors, NEW p \in Performers, PerformerReceives(p, e)
        PROVE  Holds(toExecutor'[q][d], k)
    BY <1>1, <1>2, <1>4
    DEF PerformerReceives, ReceiveRequest, ReceiveConfirm, ReceiveReject, ReceiveCancel,
        PerformerMessage
  <1>5. ASSUME NEW p \in Performers, Configure(p) \/ SendFeedback(p) \/ PerformerFinishes(p)
        PROVE  Holds(toExecutor'[q][d], k)
    <2>1. CASE Configure(p)
      BY <1>1, <2>1 DEF Configure
    <2>2. CASE SendFeedback(p)
      BY <1>2, <2>2 DEF SendFeedback, PerformerMessage
    <2>3. CASE PerformerFinishes(p)
      BY <1>2, <2>3 DEF PerformerFinishes, Finish, PerformerMessage
    <2> QED BY <1>5, <2>1, <2>2, <2>3
  <1>6. ASSUME NEW e \in Executors,
               RequestForPerformers(e) \/ WaitTimeout(e) \/ SendCancel(e)
        PROVE  UNCHANGED toExecutor
    BY <1>6 DEF RequestForPerformers, WaitTimeout, SendCancel
  <1> QED BY StepKinds, <1>1, <1>3, <1>4, <1>5, <1>6

\* A plan that is over stays over; an executor becomes RUNNING when its performer is
\* confirmed.
LEMMA PlanStep ==
    ASSUME TypeOK, Next
    PROVE  /\ PlanOver => PlanOver'
           /\ \A d \in Executors : status'[d] = "RUNNING" =>
                 status[d] = "RUNNING" \/ \E p \in Performers : ConfirmPerformer(d, p)
  <1> USE DEF executorVars, threadVars, performerVars, hubVars, PlanOver, CycleAt, CycleGoes,
              CycleIdle
  <1>1. CASE PlanFails \/ PlanCancelled
    BY <1>1 DEF PlanFails, PlanCancelled, EndPlan
  <1>2. ASSUME NEW e \in Executors, CycleStep(e)
        PROVE  /\ PlanOver => PlanOver'
               /\ \A d \in Executors : status'[d] = "RUNNING" => status[d] = "RUNNING"
    <2>1. CASE Tick(e) \/ RequestForPerformers(e) \/ ArmTimer(e) \/ DealingTimeout(e) \/ Expire(e)
      BY <2>1 DEF Tick, RequestForPerformers, ArmTimer, DealingTimeout, Expire, TypeOK
    <2>2. CASE ExpiryFailsPlan(e) \/ ExpiryOverwritten(e) \/ Visit(e)
      BY <2>2 DEF ExpiryFailsPlan, ExpiryOverwritten, EndPlan, Visit
    <2>3. CASE Cancel(e) \/ SendCancel(e)
      BY <2>3 DEF Cancel, SendCancel, TypeOK
    <2> QED BY <1>2, <2>1, <2>2, <2>3 DEF CycleStep
  <1>3. ASSUME NEW e \in Executors, WaitTimeout(e)
        PROVE  UNCHANGED <<status, cycle>>
    BY <1>3 DEF WaitTimeout
  <1>4. ASSUME NEW e \in Executors, NEW p \in Performers, SpinStep(e, p)
        PROVE  /\ UNCHANGED cycle
               /\ \A d \in Executors : status'[d] = "RUNNING" =>
                     status[d] = "RUNNING" \/ ConfirmPerformer(d, p)
    <2>1. CASE ConfirmPerformer(e, p)
      <3>1. UNCHANGED cycle /\ \A d \in Executors : d # e => status'[d] = status[d]
        BY <2>1 DEF ConfirmPerformer, TypeOK
      <3> QED BY <2>1, <3>1
    <2>2. ASSUME NEW m, ReceiveFinish(e, p, m)
          PROVE  /\ UNCHANGED cycle
                 /\ \A d \in Executors : status'[d] = "RUNNING" => status[d] = "RUNNING"
      BY <2>2 DEF ReceiveFinish, TypeOK
    <2>3. CASE ReceiveResponse(e, p) \/ RejectPerformer(e, p) \/ ReceiveFeedback(e, p)
      BY <2>3 DEF ReceiveResponse, RejectPerformer, ReceiveFeedback
    <2> QED BY <1>4, <2>1, <2>2, <2>3 DEF SpinStep
  <1>5. ASSUME NEW e \in Executors, NEW p \in Performers, PerformerReceives(p, e)
        PROVE  UNCHANGED <<status, cycle>>
    BY <1>5 DEF PerformerReceives, ReceiveRequest, ReceiveConfirm, ReceiveReject, ReceiveCancel
  <1>6. ASSUME NEW p \in Performers, Configure(p) \/ SendFeedback(p) \/ PerformerFinishes(p)
        PROVE  UNCHANGED <<status, cycle>>
    BY <1>6 DEF Configure, SendFeedback, PerformerFinishes, Finish
  <1> QED BY <1>1, <1>2, <1>3, <1>4, <1>5, <1>6 DEF Next

\* Only cancel_all_running_actions publishes CANCEL, and the plan is over then.
LEMMA CancelEndsPlanNext ==
    ASSUME TypeOK, CancelEndsPlan, Next
    PROVE  CancelEndsPlan'
  <1> SUFFICES ASSUME NEW d \in Executors, NEW q \in Performers,
                      Holds(toPerformer'[d][q], "CANCEL")
               PROVE  PlanOver'
    BY DEF CancelEndsPlan
  <1> USE DEF executorVars, threadVars, performerVars, hubVars
  <1>1. CASE Holds(toPerformer[d][q], "CANCEL")
    BY <1>1, PlanStep DEF CancelEndsPlan
  <1>2. CASE UNCHANGED toPerformer
    BY <1>1, <1>2
  <1>3. ASSUME NEW e \in Executors, RequestForPerformers(e) \/ WaitTimeout(e)
        PROVE  PlanOver'
    <2>1. Request(e)
      BY <1>3 DEF RequestForPerformers, WaitTimeout
    <2> QED BY <1>1, <2>1, HoldsRequested
  <1>4. ASSUME NEW e \in Executors, SendCancel(e)
        PROVE  PlanOver'
    BY <1>4 DEF SendCancel, CycleGoes, PlanOver
  <1>5. ASSUME NEW e \in Executors, NEW p \in Performers, SpinStep(e, p)
        PROVE  PlanOver'
    <2>1. CASE ConfirmPerformer(e, p) \/ RejectPerformer(e, p)
      BY <1>1, <2>1, HoldsTold DEF ConfirmPerformer, RejectPerformer, ExecutorMessage
    <2>2. CASE UNCHANGED toPerformer
      BY <1>2, <2>2
    <2> QED BY <1>5, <2>1, <2>2 DEF SpinStep, ReceiveResponse, ReceiveFeedback, ReceiveFinish
  <1>6. ASSUME NEW e \in Executors, NEW p \in Performers, PerformerReceives(p, e)
        PROVE  PlanOver'
    <2>1. toPerformer[e][p] # <<>> /\ TakenByPerformer(e, p)
      BY <1>6
      DEF PerformerReceives, ReceiveRequest, ReceiveConfirm, ReceiveReject, ReceiveCancel,
          NextForPerformer
    <2> QED BY <1>1, <2>1, HoldsTakenByPerformer
  <1>7. ASSUME NEW p \in Performers, Configure(p) \/ SendFeedback(p) \/ PerformerFinishes(p)
        PROVE  UNCHANGED toPerformer
    BY <1>7 DEF Configure, SendFeedback, PerformerFinishes, Finish
  <1> QED BY StepKinds, <1>2, <1>3, <1>4, <1>5, <1>6, <1>7

\* An executor becomes RUNNING when its performer is set, and keeps it.
LEMMA RunningIsChosenNext ==
    ASSUME TypeOK, Unchosen, RunningIsChosen, Next
    PROVE  RunningIsChosen'
  <1> SUFFICES ASSUME NEW d \in Executors, status'[d] = "RUNNING"
               PROVE  performer'[d] # NoPerformer
    BY DEF RunningIsChosen
  <1>1. ASSUME NEW p \in Performers, ConfirmPerformer(d, p)
        PROVE  performer'[d] # NoPerformer
    BY <1>1, PerformersAssumption DEF ConfirmPerformer, TypeOK
  <1>2. CASE status[d] = "RUNNING"
    BY <1>2, ChoiceKept DEF RunningIsChosen
  <1> QED BY <1>1, <1>2, PlanStep

\* The CONFIRM of a RUNNING executor, the work of its performer and its FINISH follow on
\* each other without a gap.
LEMMA RunningIsServedNext ==
    ASSUME ChoiceInv, SilentIsUnheard, ExchangeIsOne, CancelEndsPlan, RunningIsChosen,
           RunningIsServed, Next
    PROVE  RunningIsServed'
  <1> USE PerformersAssumption
      DEF executorVars, threadVars, performerVars, hubVars, ChoiceInv
  <1> SUFFICES ASSUME NEW d \in Executors, status'[d] = "RUNNING",
                      NEW p \in Performers \ Fallible, performer'[d] = p, ~PlanOver'
               PROVE  \/ Holds(toPerformer[d][p], "CONFIRM")'
                      \/ Executes(p, d)'
                      \/ FinishOnItsWay(p, d)'
    <2>1. \A d \in Executors : status'[d] = "RUNNING" => performer'[d] \in Performers
      BY RunningIsChosenNext, TypeNext DEF RunningIsChosen, TypeOK
    <2> QED BY <2>1 DEF RunningIsServed, Executes, Doing, FinishOnItsWay
  <1>1. ASSUME NEW q \in Performers, ConfirmPerformer(d, q)
        PROVE  Holds(toPerformer[d][p], "CONFIRM")'
    <2>1. spin.exec = d /\ spin.from = q /\ spin.at = "confirm" /\ p = q
      BY <1>1 DEF ConfirmPerformer, SpinAt, TypeOK
    <2>2. publishing[d]
      BY <2>1 DEF Unchosen, SilentIsUnheard
    <2>3. Subscribed(p)
      BY <2>1 DEF ExchangeIsOne, OneExchange, Exchanging, Subscribed
    <2> QED BY <1>1, <2>1, <2>2, <2>3, AfterTell DEF ConfirmPerformer, ExecutorMessage
  <1>2. CASE status[d] = "RUNNING"
    <2>1. performer[d] = p
      <3>1. performer[d] # NoPerformer
        BY <1>2 DEF RunningIsChosen
      <3> QED BY <3>1, ChoiceKept DEF TypeOK
    <2>2. ~PlanOver
      BY PlanStep
    <2>3. \/ Holds(toPerformer[d][p], "CONFIRM")
          \/ Executes(p, d)
          \/ FinishOnItsWay(p, d)
      BY <1>2, <2>1, <2>2 DEF RunningIsServed
    <2>4. CASE Holds(toPerformer[d][p], "CONFIRM")
      <3>1. ASSUME NextForPerformer(d, p, "CONFIRM"), PerformerReceives(p, d)
            PROVE  Executes(p, d)'
        <4>1. ReceiveConfirm(p, d)
          BY <3>1
          DEF PerformerReceives, ReceiveRequest, ReceiveReject, ReceiveCancel, NextForPerformer
        <4>2. committed[p] /\ lifecycle[p] = "INACTIVE"
          BY <2>1, <2>4 DEF ExchangeIsOne, OneExchange, Exchanging
        <4>3. lifecycle'[p] = "ACTIVE" /\ arguments'[p] = ActionOf[d].args
          BY <2>1, <4>1, <4>2 DEF ReceiveConfirm, TypeOK
        <4>4. ActionOf[d].name = Managed[p]
          BY <2>1 DEF OffersMatch
        <4> QED BY <4>3, <4>4, ActionsAssumption DEF Executes, Doing
      <3> QED BY <2>1, <2>4, <3>1, KeptForPerformer
    <2>5. CASE Executes(p, d)
      <3>1. lifecycle[p] = "ACTIVE" /\ [name |-> Managed[p], args |-> arguments[p]] = ActionOf[d]
        BY <2>5 DEF Executes, Doing
      <3>2. CASE lifecycle'[p] = lifecycle[p] /\ arguments'[p] = arguments[p]
        BY <2>1, <3>1, <3>2 DEF Executes, Doing
      <3>3. ASSUME NEW e \in Executors, NEW q \in Performers, PerformerReceives(q, e)
            PROVE  lifecycle'[p] = lifecycle[p] /\ arguments'[p] = arguments[p]
        <4>1. CASE ReceiveRequest(q, e) \/ ReceiveReject(q, e)
          BY <4>1 DEF ReceiveRequest, ReceiveReject
        <4>2. CASE ReceiveConfirm(q, e)
          BY <2>1, <3>1, <4>2 DEF ReceiveConfirm, TypeOK
        <4>3. CASE ReceiveCancel(q, e)
          BY <2>2, <4>3, HoldsNext DEF ReceiveCancel, CancelEndsPlan
        <4> QED BY <3>3, <4>1, <4>2, <4>3 DEF PerformerReceives
      <3>4. ASSUME NEW q \in Performers, Configure(q) \/ SendFeedback(q)
            PROVE  lifecycle'[p] = lifecycle[p] /\ arguments'[p] = arguments[p]
        BY <2>1, <3>1, <3>4 DEF Configure, SendFeedback, TypeOK
      <3>5. ASSUME NEW q \in Performers, NEW m \in {"FINISH_SUCCESS", "FINISH_FAILURE"},
                   Finish(q, m)
            PROVE  \/ lifecycle'[p] = lifecycle[p] /\ arguments'[p] = arguments[p]
                   \/ FinishOnItsWay(p, d)'
        <4>1. CASE q = p
          <5>1. Announce(p, ActionOf[d], m)
            BY <3>1, <3>5, <4>1 DEF Finish, Doing
          <5>2. Holds(toExecutor'[p][d], m)
            BY <2>1, <5>1, AfterAnnounce DEF PerformerMessage
          <5> QED BY <5>2 DEF FinishOnItsWay
        <4>2. CASE q # p
          BY <2>1, <3>5, <4>2 DEF Finish, TypeOK
        <4> QED BY <4>1, <4>2
      <3>6. ASSUME NEW e \in Executors,
                   \/ RequestForPerformers(e) \/ WaitTimeout(e) \/ SendCancel(e)
                   \/ \E q \in Performers : SpinStep(e, q)
            PROVE  UNCHANGED <<lifecycle, arguments>>
        BY <3>6
        DEF RequestForPerformers, WaitTimeout, SendCancel, SpinStep, ReceiveResponse,
            ConfirmPerformer, RejectPerformer, ReceiveFeedback, ReceiveFinish
      <3> QED BY StepKinds, <2>1, <3>2, <3>3, <3>4, <3>5, <3>6 DEF PerformerFinishes
    <2>6. CASE FinishOnItsWay(p, d)
      <3>1. ASSUME NEW m \in {"FINISH_SUCCESS", "FINISH_FAILURE"}, Holds(toExecutor[p][d], m)
            PROVE  Holds(toExecutor'[p][d], m)
        <4>1. ASSUME NextForExecutor(p, d, m), SpinStep(d, p), spin = SpinIdle
              PROVE  FALSE
          <5>1. PICK n \in {"FINISH_SUCCESS", "FINISH_FAILURE"} : ReceiveFinish(d, p, n)
            BY <4>1
            DEF SpinStep, ReceiveResponse, ConfirmPerformer, RejectPerformer, ReceiveFeedback,
                SpinAt, SpinIdle, NextForExecutor
          <5>2. status'[d] \in {"SUCCESS", "FAILURE"}
            BY <2>1, <5>1 DEF ReceiveFinish, TypeOK
          <5> QED BY <5>2
        <4> QED BY <2>1, <3>1, <4>1, KeptForExecutor
      <3> QED BY <2>1, <2>6, <3>1 DEF FinishOnItsWay
    <2> QED BY <2>3, <2>4, <2>5, <2>6
  <1> QED BY <1>1, <1>2, PlanStep

\* A performer leaves its exchange by being confirmed or rejected; if neither answer can
\* be published, the executor had a performer that finished.
LEMMA CommittedIsAccountedNext ==
    ASSUME ChoiceInv, SilentIsUnheard, ExchangeIsOne, CommittedIsAccounted, Next
    PROVE  CommittedIsAccounted'
  <1> USE PerformersAssumption
      DEF executorVars, threadVars, performerVars, hubVars, ChoiceInv
  <1> SUFFICES ASSUME NEW q \in Performers, committed'[q]
               PROVE  \E e \in Executors :
                         /\ ShouldExecute(q, ActionOf[e])
                         /\ \/ Exchanging(q, e)'
                            \/ performer'[e] # NoPerformer /\ ~publishing'[e]
    BY DEF CommittedIsAccounted, ShouldExecute
  <1>1. CASE ~committed[q]
    <2>1. PICK e \in Executors : ReceiveRequest(q, e)
      <3>1. ASSUME NEW e \in Executors, NEW p \in Performers, SpinStep(e, p)
            PROVE  UNCHANGED committed
        BY <3>1 DEF SpinStep, ReceiveResponse, ConfirmPerformer, RejectPerformer,
                    ReceiveFeedback, ReceiveFinish
      <3>2. ASSUME NEW e \in Executors, NEW p \in Performers, PerformerReceives(p, e)
            PROVE  p = q /\ ReceiveRequest(p, e)
        <4>1. CASE ReceiveRequest(p, e)
          BY <1>1, <4>1 DEF ReceiveRequest, TypeOK
        <4>2. CASE ReceiveConfirm(p, e) \/ ReceiveReject(p, e) \/ ReceiveCancel(p, e)
          BY <1>1, <4>2 DEF ReceiveConfirm, ReceiveReject, ReceiveCancel, TypeOK
        <4> QED BY <3>2, <4>1, <4>2 DEF PerformerReceives
      <3>3. ASSUME NEW p \in Performers, Configure(p) \/ SendFeedback(p) \/ PerformerFinishes(p)
            PROVE  UNCHANGED committed
        BY <3>3 DEF Configure, SendFeedback, PerformerFinishes, Finish
      <3>4. ASSUME NEW e \in Executors,
                   RequestForPerformers(e) \/ WaitTimeout(e) \/ SendCancel(e)
            PROVE  UNCHANGED committed
        BY <3>4 DEF RequestForPerformers, WaitTimeout, SendCancel
      <3> QED BY StepKinds, <1>1, <3>1, <3>2, <3>3, <3>4
    <2>2. ShouldExecute(q, ActionOf[e]) /\ Announce(q, ActionOf[e], "RESPONSE")
      BY <1>1, <2>1 DEF ReceiveRequest
    <2>3. Holds(toExecutor'[q][e], "RESPONSE")
      BY <2>2, AfterAnnounce DEF PerformerMessage
    <2> QED BY <2>2, <2>3 DEF Exchanging
  <1>2. CASE committed[q]
    <2>1. PICK e \in Executors :
             /\ ShouldExecute(q, ActionOf[e])
             /\ Exchanging(q, e) \/ (performer[e] # NoPerformer /\ ~publishing[e])
      BY <1>2 DEF CommittedIsAccounted
    <2> SUFFICES Exchanging(q, e)' \/ (performer'[e] # NoPerformer /\ ~publishing'[e])
      BY <2>1
    <2>2. CASE Offered(q, e)
      <3>1. ASSUME NextForExecutor(q, e, "RESPONSE"), SpinStep(e, q), spin = SpinIdle
            PROVE  LookedAt(q, e)'
        <4>1. ReceiveResponse(e, q)
          BY <3>1
          DEF SpinStep, ConfirmPerformer, RejectPerformer, ReceiveFeedback, ReceiveFinish,
              SpinAt, SpinIdle, NextForExecutor
        <4> QED BY <4>1 DEF ReceiveResponse, LookedAt
      <3>2. Offered(q, e)' \/ LookedAt(q, e)'
        BY <2>2, <3>1, KeptForExecutor DEF Offered
      <3> QED BY <3>2 DEF Exchanging, Offered, LookedAt
    <2>3. CASE LookedAt(q, e)
      <3>1. CASE UNCHANGED spin
        BY <2>3, <3>1 DEF LookedAt, Exchanging
      <3>2. ASSUME ~UNCHANGED spin
            PROVE  ConfirmPerformer(e, q) \/ RejectPerformer(e, q)
        <4>1. spin # SpinIdle
          BY <2>3, ExecutorsAssumption DEF LookedAt, SpinIdle
        <4>2. \E d \in Executors, p \in Performers :
                 ConfirmPerformer(d, p) \/ RejectPerformer(d, p)
          BY StepKinds, <3>2, <4>1
          DEF RequestForPerformers, WaitTimeout, SendCancel, SpinStep, ReceiveResponse,
              ReceiveFeedback, ReceiveFinish, PerformerReceives, ReceiveRequest,
              ReceiveConfirm, ReceiveReject, ReceiveCancel, Configure, SendFeedback,
              PerformerFinishes, Finish
        <4> QED BY <2>3, <4>2 DEF LookedAt, ConfirmPerformer, RejectPerformer, SpinAt
      <3>3. Subscribed(q)
        BY <1>2 DEF ExchangeIsOne, OneExchange, Subscribed
      <3>4. publishing[e] \/ performer[e] # NoPerformer
        BY <2>3 DEF SilentIsUnheard, LookedAt
      <3>5. CASE ConfirmPerformer(e, q)
        <4>1. publishing[e]
          BY <3>4, <3>5 DEF ConfirmPerformer, SpinAt, Unchosen
        <4>2. Holds(toPerformer'[e][q], "CONFIRM")
          BY <3>3, <3>5, <4>1, AfterTell DEF ConfirmPerformer, ExecutorMessage
        <4> QED BY <4>2 DEF Exchanging
      <3>6. CASE RejectPerformer(e, q)
        <4>1. CASE publishing[e]
          <5>1. Holds(toPerformer'[e][q], "REJECT")
            BY <3>3, <3>6, <4>1, AfterTell DEF RejectPerformer, ExecutorMessage
          <5> QED BY <5>1 DEF Exchanging
        <4>2. CASE ~publishing[e]
          BY <3>4, <3>6, <4>2 DEF RejectPerformer
        <4> QED BY <4>1, <4>2
      <3> QED BY <3>1, <3>2, <3>5, <3>6
    <2>4. CASE Answered(q, e)
      <3>1. ASSUME NEW m \in Answers, NextForPerformer(e, q, m), PerformerReceives(q, e)
            PROVE  FALSE
        <4>1. ReceiveConfirm(q, e) \/ ReceiveReject(q, e)
          BY <3>1 DEF PerformerReceives, ReceiveRequest, ReceiveCancel, NextForPerformer, Answers
        <4>2. lifecycle[q] = "INACTIVE"
          BY <1>2 DEF ExchangeIsOne, OneExchange
        <4>3. ~committed'[q]
          BY <1>2, <4>1, <4>2 DEF ReceiveConfirm, ReceiveReject, TypeOK
        <4> QED BY <4>3
      <3>2. Answered(q, e)'
        BY <2>4, <3>1, KeptForPerformer DEF Answered, Answers
      <3> QED BY <3>2 DEF Answered, Exchanging
    <2>5. CASE performer[e] # NoPerformer /\ ~publishing[e]
      <3>1. performer'[e] # NoPerformer
        BY <2>5, ChoiceKept
      <3>2. ~RequestForPerformers(e)
        BY <2>5 DEF RequestForPerformers, SilentIsUnheard, Silent
      <3>3. ASSUME NEW d \in Executors, NEW p \in Performers, SpinStep(d, p)
            PROVE  ~publishing'[e]
        BY <2>5, <3>3
        DEF SpinStep, ReceiveResponse, ConfirmPerformer, RejectPerformer, ReceiveFeedback,
            ReceiveFinish, TypeOK
      <3>4. ASSUME NEW d \in Executors, RequestForPerformers(d)
            PROVE  ~publishing'[e]
        BY <2>5, <3>2, <3>4 DEF RequestForPerformers, TypeOK
      <3>5. ~publishing'[e]
        BY StepKinds, <2>5, <3>3, <3>4
        DEF WaitTimeout, SendCancel, PerformerReceives, ReceiveRequest, ReceiveConfirm,
            ReceiveReject, ReceiveCancel, Configure, SendFeedback, PerformerFinishes, Finish
      <3> QED BY <3>1, <3>5
    <2> QED BY <2>1, <2>2, <2>3, <2>4, <2>5 DEF Exchanging, Offered, LookedAt, Answered
  <1> QED BY <1>1, <1>2

\* Before the first tick nobody has said anything.
LEMMA HandOverInit == Init => HandOverInv
  <1> SUFFICES ASSUME Init PROVE HandOverInv
    OBVIOUS
  <1> USE HoldsNothing, ExecutorsAssumption, PerformersAssumption
  <1>1. ChoiceInv
    BY TypeInit
    DEF ChoiceInv, Init, SpinIdle, Unchosen, OffersMatch, ConfirmsMatch, ActiveIsChosen
  <1>2. SilentIsUnheard /\ CancelEndsPlan /\ RunningIsChosen
    BY DEF Init, SpinIdle, CycleIdle, SilentIsUnheard, Silent, CancelEndsPlan, RunningIsChosen
  <1>3. ExchangeIsOne
    BY DEF Init, SpinIdle, ExchangeIsOne, OneExchange, Once, Offered, LookedAt, Answered,
           Exchanging
  <1>4. RunningIsServed /\ CommittedIsAccounted
    BY DEF Init, RunningIsServed, CommittedIsAccounted
  <1> QED BY <1>1, <1>2, <1>3, <1>4 DEF HandOverInv

\* Every step keeps the invariant of the hand-over.
LEMMA HandOverNext ==
    ASSUME DistinctActions, HandOverInv, ChoiceInv', [Next]_vars
    PROVE  HandOverInv'
  <1>1. CASE Next
    <2>1. /\ SilentIsUnheard' /\ ExchangeIsOne' /\ CancelEndsPlan' /\ RunningIsChosen'
          /\ RunningIsServed' /\ CommittedIsAccounted'
      BY <1>1, SilentIsUnheardNext, ExchangeIsOneNext, CancelEndsPlanNext, RunningIsChosenNext,
         RunningIsServedNext, CommittedIsAccountedNext
      DEF HandOverInv, ChoiceInv
    <2> QED BY <2>1 DEF HandOverInv
  <1>2. CASE UNCHANGED vars
    <2> USE <1>2 DEF HandOverInv, vars, executorVars, threadVars, performerVars, hubVars
    <2>1. SilentIsUnheard' /\ CancelEndsPlan' /\ RunningIsChosen'
      BY DEF SilentIsUnheard, Silent, CycleAt, CancelEndsPlan, PlanOver, RunningIsChosen
    <2>2. ExchangeIsOne'
      BY DEF ExchangeIsOne, OneExchange, Offered, LookedAt, Answered, Exchanging
    <2>3. RunningIsServed' /\ CommittedIsAccounted'
      BY DEF RunningIsServed, Executes, Doing, FinishOnItsWay, PlanOver,
             CommittedIsAccounted, Exchanging, ShouldExecute
    <2> QED BY <2>1, <2>2, <2>3
  <1> QED BY <1>1, <1>2

-----------------------------------------------------------------------------
(* Theorems about the hand-over.                                          *)

\* If no ground action occurs twice in the plan, HandOverInv holds initially and every
\* action keeps it.
THEOREM HandOverCorrect ==
    ASSUME DistinctActions
    PROVE  Spec => []HandOverInv
  <1>1. HandOverInv /\ ChoiceInv' /\ [Next]_vars => HandOverInv'
    BY HandOverNext
  <1> QED BY <1>1, HandOverInit, ChoiceCorrect, PTL DEF Spec

\* If no ground action occurs twice in the plan, an executor that is RUNNING while the
\* plan goes on has a performer that will take its CONFIRM, works, or sent a FINISH.
THEOREM RunningHasServer ==
    ASSUME DistinctActions
    PROVE  Spec => []RunningIsServed
  <1>1. HandOverInv => RunningIsServed
    BY DEF HandOverInv
  <1> QED BY <1>1, HandOverCorrect, PTL

\* If no ground action occurs twice in the plan, a performer that waits for an answer is
\* in an exchange that goes on, or asked by an executor that had finished.
THEOREM CommittedHasExchange ==
    ASSUME DistinctActions
    PROVE  Spec => []CommittedIsAccounted
  <1>1. HandOverInv => CommittedIsAccounted
    BY DEF HandOverInv
  <1> QED BY <1>1, HandOverCorrect, PTL
=============================================================================
