------------------------ MODULE PendingGatewayProofs ------------------------
(***************************************************************************)
(* Theorems about PendingGateway for any number of messages, attempts and  *)
(* any limit, with handlers of any slowness and late arrivals at the IM    *)
(* server unless a theorem says otherwise.                                 *)
(***************************************************************************)
EXTENDS PendingGateway, FiniteSetTheorems, TLAPS

-----------------------------------------------------------------------------
\* The updates of the relation keep its type.
LEMMA ContactTypes ==
  ASSUME NEW c \in Contact, NEW u \in Users
  PROVE  /\ ReserveOne(c) \in Contact
         /\ ReleaseOne(c, u) \in Contact
         /\ CountDirect(c, u) \in Contact
         /\ Activate(c, u) \in Contact
BY DEF Contact, ContactStatus, ReserveOne, ReleaseOne, CountDirect, Activate,
       IsPendingOf, IsReplyOf, Larger

LEMMA BusyAttempt ==
  ASSUME TypeOK, NEW a \in Attempts, attempt[a].pc # "idle"
  PROVE  /\ attempt[a].msg \in Msgs
         /\ attempt[a] \in [pc : Busy, msg : Msgs, gateway : BOOLEAN,
                            reply : BOOLEAN]
BY DEF TypeOK, Attempt, Idle

LEMMA GotoType ==
  ASSUME TypeOK, NEW a \in Attempts, attempt[a].pc # "idle",
         \/ \E pc \in Busy : Goto(a, pc)
         \/ AfterSend(a)
         \/ Finish(a)
  PROVE  attempt' \in [Attempts -> Attempt]
<1>1. attempt[a] \in [pc : Busy, msg : Msgs, gateway : BOOLEAN, reply : BOOLEAN]
  BY BusyAttempt
<1>2. attempt \in [Attempts -> Attempt]
  BY DEF TypeOK
<1>3. ASSUME NEW pc \in Busy, Goto(a, pc)
      PROVE  attempt' \in [Attempts -> Attempt]
  <2>1. [attempt[a] EXCEPT !.pc = pc] \in Attempt
    BY <1>1 DEF Attempt
  <2>2. QED BY <1>2, <1>3, <2>1 DEF Goto
<1>4. ASSUME Finish(a) PROVE attempt' \in [Attempts -> Attempt]
  BY <1>2, <1>4 DEF Finish, Attempt
<1>5. "activate" \in Busy
  BY DEF Busy
<1>6. QED BY <1>3, <1>4, <1>5 DEF AfterSend

LEMMA StartType ==
  ASSUME TypeOK, NEW a \in Attempts, NEW m \in Msgs, NEW pc \in Busy,
         Start(a, m, pc)
  PROVE  attempt' \in [Attempts -> Attempt]
BY DEF TypeOK, Start, Attempt, IsPendingOf, IsReplyOf

\* What a step does to the relation and the rows besides a refund: one
\* transaction, time passing, the cleanup, or a webhook.
CalmStep ==
  \/ NoTx
  \/ \E m \in Msgs : ReserveTx(m) \/ ClaimTx(m) \/ SettleTx(m) \/ DoubtTx(m)
  \/ \E m \in Msgs : /\ rows[m].status \in {"reserved", "uncertain"}
                     /\ rows' = [rows EXCEPT ![m].due = TRUE]
                     /\ UNCHANGED contact
  \/ \E m \in Msgs : /\ rows[m].status \in {"delivered", "failed"}
                     /\ rows' = [rows EXCEPT ![m] = NoRow]
                     /\ UNCHANGED contact
  \/ \E u \in Users : /\ \/ contact' = CountDirect(contact, u)
                         \/ contact' = Activate(contact, u)
                      /\ UNCHANGED rows

DataStep == CalmStep \/ \E m \in Msgs : RefundTx(m)

\* The same for every variable but attempt.
ServerStep ==
  \/ CalmStep /\ UNCHANGED <<im, flight>>
  \/ \E a \in Attempts : /\ attempt[a].pc = "rollback"
                         /\ RefundTx(attempt[a].msg)
                         /\ UNCHANGED <<im, flight>>
  \/ \E a \in Attempts, k \in Kind :
       /\ attempt[a].pc = "send"
       /\ im' = Store(attempt[a].msg, k) \/ UNCHANGED im
       /\ \/ UNCHANGED flight
          \/ LateAccept /\ flight' = flight \cup {<<attempt[a].msg, k>>}
       /\ NoTx
  \/ \E m \in Msgs, k \in Kind : /\ <<m, k>> \in flight
                                 /\ flight' = flight \ {<<m, k>>}
                                 /\ im' = Store(m, k)
                                 /\ NoTx

LEMMA StepWorks ==
  ASSUME TypeOK, NEW a \in Attempts, Step(a)
  PROVE  /\ attempt[a].pc # "idle"
         /\ attempt[a].msg \in Msgs
         /\ Sender[attempt[a].msg] \in Users
<1>1. attempt[a].pc # "idle"
  BY DEF Step, SearchFound, SearchMissing, SearchError, SendAccepted,
         SendUnknown, SendRejected, Complete, MarkUncertain, Rollback,
         ActivateReply
<1>2. QED BY <1>1, BusyAttempt, SenderAssumption

LEMMA EveryStepIsServerStep == TypeOK /\ [Next]_vars => ServerStep
<1> SUFFICES ASSUME TypeOK, [Next]_vars PROVE ServerStep
  OBVIOUS
<1> USE SenderAssumption
<1>1. ASSUME NEW a \in Attempts, NEW m \in Msgs, Prepare(a, m)
      PROVE  ServerStep
  BY <1>1 DEF Prepare, ServerStep, CalmStep
<1>2. ASSUME NEW a \in Attempts, Step(a)
      PROVE  ServerStep
  <2>1. /\ attempt[a].msg \in Msgs
        /\ Sender[attempt[a].msg] \in Users
    BY <1>2, StepWorks
  <2>2. CASE SearchFound(a) \/ Complete(a)
    BY <2>1, <2>2 DEF SearchFound, Complete, ServerStep, CalmStep
  <2>3. CASE SearchMissing(a) \/ SearchError(a) \/ SendRejected(a)
    BY <2>3 DEF SearchMissing, SearchError, SendRejected, ServerStep,
                CalmStep, NoTx
  <2>4. CASE SendAccepted(a) \/ SendUnknown(a)
    <3>1. KindOf(a) \in Kind
      BY DEF KindOf, Kind
    <3>2. QED
      BY <2>4, <3>1 DEF SendAccepted, SendUnknown, ServerStep, NoTx
  <2>5. CASE MarkUncertain(a)
    BY <2>1, <2>5 DEF MarkUncertain, ServerStep, CalmStep
  <2>6. CASE Rollback(a)
    BY <2>1, <2>6 DEF Rollback, ServerStep, CalmStep
  <2>7. CASE ActivateReply(a)
    BY <2>1, <2>7 DEF ActivateReply, ServerStep, CalmStep, NoTx
  <2>8. QED BY <1>2, <2>2, <2>3, <2>4, <2>5, <2>6, <2>7 DEF Step
<1>3. ASSUME NEW a \in Attempts, Crash(a)
      PROVE  ServerStep
  BY <1>3 DEF Crash, ServerStep, CalmStep, NoTx
<1>4. ASSUME NEW m \in Msgs, Webhook(m)
      PROVE  ServerStep
  BY <1>4 DEF Webhook, ServerStep, CalmStep
<1>5. ASSUME NEW m \in Msgs, NEW k \in Kind, LateArrival(m, k)
      PROVE  ServerStep
  BY <1>5 DEF LateArrival, ServerStep, NoTx
<1>6. ASSUME NEW m \in Msgs, Elapse(m) \/ Cleanup(m)
      PROVE  ServerStep
  BY <1>6 DEF Elapse, Cleanup, ServerStep, CalmStep
<1>7. ASSUME NEW u \in Users, DirectWebhook(u)
      PROVE  ServerStep
  BY <1>7 DEF DirectWebhook, ServerStep, CalmStep
<1>8. CASE UNCHANGED vars
  BY <1>8 DEF vars, ServerStep, CalmStep, NoTx
<1>9. QED
  BY <1>1, <1>2, <1>3, <1>4, <1>5, <1>6, <1>7, <1>8 DEF Next

LEMMA EveryStepIsDataStep == TypeOK /\ [Next]_vars => DataStep
<1> SUFFICES ASSUME TypeOK, [Next]_vars PROVE DataStep
  OBVIOUS
<1>1. ASSUME NEW a \in Attempts, attempt[a].pc = "rollback"
      PROVE  attempt[a].msg \in Msgs
  BY <1>1, BusyAttempt
<1>2. QED
  BY <1>1, EveryStepIsServerStep DEF ServerStep, DataStep, CalmStep

LEMMA DataTypes ==
  ASSUME TypeOK, DataStep
  PROVE  contact' \in Contact /\ rows' \in [Msgs -> Row]
<1> USE SenderAssumption
<1>1. CASE NoTx
  BY <1>1 DEF NoTx, TypeOK
<1>2. ASSUME NEW m \in Msgs, ReserveTx(m)
      PROVE  contact' \in Contact /\ rows' \in [Msgs -> Row]
  BY <1>2, ContactTypes DEF ReserveTx, TypeOK, Row, RowStatus
<1>3. ASSUME NEW m \in Msgs, ClaimTx(m) \/ SettleTx(m) \/ DoubtTx(m)
      PROVE  contact' \in Contact /\ rows' \in [Msgs -> Row]
  BY <1>3 DEF ClaimTx, SettleTx, DoubtTx, TypeOK, Row, RowStatus
<1>4. ASSUME NEW m \in Msgs, RefundTx(m)
      PROVE  contact' \in Contact /\ rows' \in [Msgs -> Row]
  BY <1>4, ContactTypes DEF RefundTx, TypeOK, Row, RowStatus
<1>5. ASSUME NEW m \in Msgs, UNCHANGED contact,
             \/ rows' = [rows EXCEPT ![m].due = TRUE]
             \/ rows' = [rows EXCEPT ![m] = NoRow]
      PROVE  contact' \in Contact /\ rows' \in [Msgs -> Row]
  <2>1. NoRow \in Row /\ [rows[m] EXCEPT !.due = TRUE] \in Row
    BY DEF TypeOK, Row, RowStatus, NoRow
  <2>2. QED BY <1>5, <2>1 DEF TypeOK
<1>6. ASSUME NEW u \in Users, UNCHANGED rows,
             contact' = CountDirect(contact, u) \/ contact' = Activate(contact, u)
      PROVE  contact' \in Contact /\ rows' \in [Msgs -> Row]
  BY <1>6, ContactTypes DEF TypeOK
<1>7. QED BY <1>1, <1>2, <1>3, <1>4, <1>5, <1>6 DEF DataStep, CalmStep

LEMMA ServerTypes ==
  ASSUME TypeOK, [Next]_vars
  PROVE  im' \in [Msgs -> Kind \cup {"no"}] /\ flight' \subseteq Msgs \X Kind
<1>1. ASSUME NEW a \in Attempts, attempt[a].pc = "send"
      PROVE  attempt[a].msg \in Msgs
  BY <1>1, BusyAttempt
<1>2. ServerStep
  BY EveryStepIsServerStep
<1>3. ASSUME NEW m \in Msgs, NEW k \in Kind
      PROVE  Store(m, k) \in [Msgs -> Kind \cup {"no"}]
  BY DEF Store, TypeOK
<1>4. CASE UNCHANGED <<im, flight>>
  BY <1>4 DEF TypeOK
<1>5. ASSUME NEW a \in Attempts, NEW k \in Kind, attempt[a].pc = "send",
             im' = Store(attempt[a].msg, k) \/ UNCHANGED im,
             UNCHANGED flight \/ flight' = flight \cup {<<attempt[a].msg, k>>}
      PROVE  im' \in [Msgs -> Kind \cup {"no"}] /\ flight' \subseteq Msgs \X Kind
  BY <1>1, <1>3, <1>5 DEF TypeOK
<1>6. ASSUME NEW m \in Msgs, NEW k \in Kind,
             flight' = flight \ {<<m, k>>}, im' = Store(m, k)
      PROVE  im' \in [Msgs -> Kind \cup {"no"}] /\ flight' \subseteq Msgs \X Kind
  BY <1>3, <1>6 DEF TypeOK
<1>7. QED
  BY <1>2, <1>4, <1>5, <1>6 DEF ServerStep

LEMMA AttemptTypes ==
  ASSUME TypeOK, [Next]_vars
  PROVE  attempt' \in [Attempts -> Attempt]
<1>1. {"search", "send", "complete", "mark", "rollback", "activate"} \subseteq Busy
  BY DEF Busy
<1>2. ASSUME NEW a \in Attempts, NEW m \in Msgs, Prepare(a, m)
      PROVE  attempt' \in [Attempts -> Attempt]
  BY <1>1, <1>2, StartType DEF Prepare
<1>3. ASSUME NEW a \in Attempts, Step(a)
      PROVE  attempt' \in [Attempts -> Attempt]
  <2>1. (\E pc \in Busy : Goto(a, pc)) \/ AfterSend(a) \/ Finish(a)
    BY <1>1, <1>3 DEF Step, SearchFound, SearchMissing, SearchError,
         SendAccepted, SendUnknown, SendRejected, Complete, MarkUncertain,
         Rollback, ActivateReply
  <2>2. QED BY <1>3, <2>1, StepWorks, GotoType
<1>4. ASSUME NEW a \in Attempts, Crash(a)
      PROVE  attempt' \in [Attempts -> Attempt]
  BY <1>4, GotoType DEF Crash
<1>5. CASE UNCHANGED attempt
  BY <1>5 DEF TypeOK
<1>6. QED
  BY <1>2, <1>3, <1>4, <1>5 DEF Next, Webhook, LateArrival, Elapse, Cleanup,
                                DirectWebhook, vars

LEMMA TypeStep == TypeOK /\ [Next]_vars => TypeOK'
BY EveryStepIsDataStep, DataTypes, ServerTypes, AttemptTypes DEF TypeOK

LEMMA TypeInit == Init => TypeOK
BY DEF Init, TypeOK, Greeted, Contact, ContactStatus, Row, RowStatus, NoRow,
       Kind, Attempt, Idle

\* Every variable keeps its type, whatever order requests, retries, IM
\* answers, webhooks and crashes come in.
THEOREM TypeCorrect == Spec => []TypeOK
<1>1. QED BY TypeInit, TypeStep, PTL DEF Spec

-----------------------------------------------------------------------------
(***************************************************************************)
(* The accounting of the quota, for handlers of any slowness.  Neither     *)
(* CountWithinLimit nor ReservationsCounted is inductive: a refund gives a *)
(* message back to the requester of the relation, so it must be known that *)
(* only this requester holds reservations, and that a row that was never   *)
(* reserved or was refunded holds none.                                    *)
(***************************************************************************)
Accounting ==
  /\ contact.status \in {"pending", "active"}
  /\ contact.requester \in Users
  /\ contact.count \in 1..MaxPending
  /\ \A m \in Msgs : rows[m].status \in {"none", "failed"} => rows[m].reserved = 0
  /\ \A m \in Msgs : rows[m].reserved = 1 => Sender[m] = contact.requester
  /\ ReservationsCounted

LEMMA ReservedFinite ==
  ASSUME NEW u
  PROVE  IsFiniteSet(Reserved(u)) /\ Cardinality(Reserved(u)) \in Nat
BY MsgsAssumption, FS_Subset, FS_CardinalityType DEF Reserved

LEMMA CountShrinks ==
  ASSUME NEW S, NEW T, IsFiniteSet(S), T \subseteq S
  PROVE  /\ Cardinality(T) <= Cardinality(S)
         /\ Cardinality(T) \in Nat /\ Cardinality(S) \in Nat
BY FS_Subset, FS_CardinalityType

LEMMA GrowsByOne ==
  ASSUME NEW S, NEW T, NEW m, IsFiniteSet(S), T \subseteq S \cup {m}
  PROVE  Cardinality(T) <= Cardinality(S) + 1
<1>1. Cardinality(S) \in Nat
  BY FS_CardinalityType
<1>2. IsFiniteSet(S \cup {m}) /\ Cardinality(S \cup {m}) <= Cardinality(S) + 1
  <2>1. CASE m \in S
    <3>1. S \cup {m} = S
      BY <2>1
    <3>2. QED BY <1>1, <3>1
  <2>2. CASE m \notin S
    <3>1. IsFiniteSet(S \cup {m})
      BY FS_AddElement
    <3>2. Cardinality(S \cup {m}) = Cardinality(S) + 1
      BY <2>2, FS_AddElement
    <3>3. QED BY <1>1, <3>1, <3>2
  <2>3. QED BY <2>1, <2>2
<1>3. /\ Cardinality(T) <= Cardinality(S \cup {m})
      /\ Cardinality(T) \in Nat /\ Cardinality(S \cup {m}) \in Nat
  BY <1>2, CountShrinks
<1>4. QED BY <1>1, <1>2, <1>3

LEMMA ShrinksByOne ==
  ASSUME NEW S, NEW T, NEW m \in S, IsFiniteSet(S), T \subseteq S \ {m}
  PROVE  /\ Cardinality(T) <= Cardinality(S) - 1
         /\ Cardinality(S) >= 1
<1>1. Cardinality(S) \in Nat
  BY FS_CardinalityType
<1>2. IsFiniteSet(S \ {m}) /\ Cardinality(S \ {m}) = Cardinality(S) - 1
  BY FS_RemoveElement
<1>3. /\ Cardinality(T) <= Cardinality(S \ {m})
      /\ Cardinality(S \ {m}) \in Nat
  BY <1>2, CountShrinks
<1>4. QED BY <1>1, <1>2, <1>3

LEMMA ReservedHasOne ==
  ASSUME NEW u, NEW m \in Reserved(u)
  PROVE  Cardinality(Reserved(u)) >= 1
<1>1. Cardinality(Reserved(u)) # 0
  BY ReservedFinite, FS_EmptySet
<1>2. QED BY <1>1, ReservedFinite

LEMMA CountedNext ==
  ASSUME NEW q, contact'.requester = q,
         contact'.status = "pending" => Cardinality(Reserved(q)') < contact'.count
  PROVE  ReservationsCounted'
<1>1. Reserved(contact.requester)' = Reserved(q)'
  BY DEF Reserved
<1>2. QED BY <1>1 DEF ReservationsCounted

LEMMA AccountingInit == Init => Accounting
<1> SUFFICES ASSUME Init PROVE Accounting
  OBVIOUS
<1>1. PICK u \in Users : contact = Greeted(u)
  BY DEF Init
<1>2. Reserved(u) = {}
  BY DEF Init, Reserved, NoRow
<1>3. Cardinality(Reserved(u)) = 0
  BY <1>2, FS_EmptySet
<1>4. QED
  BY <1>1, <1>3, MaxPendingAssumption DEF Init, Accounting, Greeted, NoRow,
     ReservationsCounted

LEMMA AccountingStep ==
  ASSUME TypeOK, Accounting, DataStep
  PROVE  Accounting'
<1> USE SenderAssumption, MaxPendingAssumption
<1>q. PICK q \in Users : contact.requester = q
  BY DEF Accounting, Row
<1>0. /\ contact.requester = q /\ contact \in Contact /\ rows \in [Msgs -> Row]
      /\ rows' \in [Msgs -> Row]
      /\ Cardinality(Reserved(q)) \in Nat
      /\ Cardinality(Reserved(q)') \in Nat
      /\ contact.status = "pending" => Cardinality(Reserved(q)) < contact.count
  <2>1. IsFiniteSet(Reserved(q)')
    BY MsgsAssumption, FS_Subset DEF Reserved, Row
  <2>2. QED BY <1>q, <2>1, ReservedFinite, FS_CardinalityType, DataTypes
               DEF TypeOK, Accounting, ReservationsCounted
<1>1. CASE NoTx
  <2>1. Cardinality(Reserved(q)') = Cardinality(Reserved(q))
    BY <1>1 DEF NoTx, Reserved
  <2>2. ReservationsCounted'
    BY <1>0, <1>1, <2>1, CountedNext DEF NoTx
  <2>3. QED BY <1>1, <2>2 DEF NoTx, Accounting
<1>2. ASSUME NEW m \in Msgs, ReserveTx(m)
      PROVE  Accounting'
  <2>1. CASE IsPendingOf(contact, Sender[m])
    <3>1. contact' = [contact EXCEPT !.count = @ + 1] /\ contact.count < MaxPending
      BY <1>0, <1>2, <2>1 DEF ReserveTx, ReserveOne
    <3>2. Reserved(q)' \subseteq Reserved(q) \cup {m}
      BY <1>0, <1>2 DEF ReserveTx, Reserved
    <3>3. Cardinality(Reserved(q)') <= Cardinality(Reserved(q)) + 1
      BY <1>0, <3>2, ReservedFinite, GrowsByOne
    <3>4. /\ contact'.requester = q
          /\ contact'.status = "pending"
          /\ contact'.count = contact.count + 1
      BY <1>0, <2>1, <3>1 DEF Contact, IsPendingOf
    <3>5. ReservationsCounted'
      <4>1. Cardinality(Reserved(q)') < contact'.count
        BY <1>0, <2>1, <3>3, <3>4 DEF IsPendingOf, Contact
      <4>2. QED BY <3>4, <4>1, CountedNext
    <3>6. \A n \in Msgs : /\ rows'[n].status \in {"none", "failed"}
                               => rows'[n].reserved = 0
                          /\ rows'[n].reserved = 1 => Sender[n] = q
      BY <1>0, <1>2, <2>1 DEF ReserveTx, IsPendingOf, Accounting
    <3>7. contact'.count \in 1..MaxPending
      BY <1>0, <3>1, <3>4 DEF Contact, Accounting
    <3>8. QED BY <1>0, <3>4, <3>5, <3>6, <3>7 DEF Accounting, Row
  <2>2. CASE ~IsPendingOf(contact, Sender[m])
    <3>1. UNCHANGED contact
      BY <1>0, <1>2, <2>2 DEF ReserveTx
    <3>2. Reserved(q)' \subseteq Reserved(q)
      BY <1>0, <1>2, <2>2, <3>1 DEF ReserveTx, Reserved
    <3>3. Cardinality(Reserved(q)') <= Cardinality(Reserved(q))
      BY <1>0, <3>2, ReservedFinite, CountShrinks
    <3>4. ReservationsCounted'
      BY <1>0, <3>1, <3>3, CountedNext DEF Contact
    <3>5. QED BY <1>0, <1>2, <2>2, <3>1, <3>4 DEF Accounting, ReserveTx
  <2>3. QED BY <2>1, <2>2
<1>3. ASSUME NEW m \in Msgs, ClaimTx(m) \/ SettleTx(m) \/ DoubtTx(m)
      PROVE  Accounting'
  <2>1. UNCHANGED contact
    BY <1>0, <1>3 DEF ClaimTx, SettleTx, DoubtTx
  <2>2. \A n \in Msgs : /\ rows'[n].reserved = rows[n].reserved
                        /\ rows'[n].status \in {"none", "failed"}
                             => rows[n].status \in {"none", "failed"}
    BY <1>0, <1>3 DEF ClaimTx, SettleTx, DoubtTx, Row
  <2>3. Reserved(q)' = Reserved(q)
    BY <1>0, <2>2 DEF Reserved, Row
  <2>4. ReservationsCounted'
    BY <1>0, <2>1, <2>3, CountedNext
  <2>5. QED BY <2>1, <2>2, <2>4 DEF Accounting, Row
<1>4. ASSUME NEW m \in Msgs, RefundTx(m)
      PROVE  Accounting'
  <2>1. \A n \in Msgs : /\ n # m => rows'[n] = rows[n]
                        /\ n = m => rows'[n].reserved = 0
    BY <1>0, <1>4 DEF RefundTx
  <2>2. CASE rows[m].reserved = 1 /\ contact.status = "pending"
    <3>1. IsPendingOf(contact, Sender[m])
      BY <1>0, <2>2 DEF Accounting, IsPendingOf
    <3>2. m \in Reserved(q)
      BY <1>0, <2>2 DEF Accounting, Reserved
    <3>3. Reserved(q)' \subseteq Reserved(q) \ {m}
      BY <1>0, <2>1 DEF Reserved, Row
    <3>4. /\ Cardinality(Reserved(q)') <= Cardinality(Reserved(q)) - 1
          /\ Cardinality(Reserved(q)) >= 1
      BY <1>0, <3>2, <3>3, ReservedFinite, ShrinksByOne
    <3>5. contact.count > Cardinality(Reserved(q))
      BY <1>0, <2>2 DEF Accounting, ReservationsCounted
    <3>6. contact' = [contact EXCEPT !.count = @ - 1]
      BY <1>0, <1>4, <2>2, <3>1, <3>4, <3>5
         DEF RefundTx, ReleaseOne, Larger, Contact, Accounting
    <3>7. /\ contact'.count = contact.count - 1
          /\ contact'.status = "pending" /\ contact'.requester = q
      BY <1>0, <2>2, <3>6 DEF Contact
    <3>8. ReservationsCounted'
      BY <1>0, <3>4, <3>5, <3>7, CountedNext DEF Contact
    <3>9. contact'.count \in 1..MaxPending
      BY <1>0, <3>4, <3>5, <3>7 DEF Contact, Accounting
    <3>10. QED BY <1>0, <2>1, <3>7, <3>8, <3>9 DEF Accounting, Row
  <2>3. CASE ~(rows[m].reserved = 1 /\ contact.status = "pending")
    <3>1. UNCHANGED contact
      BY <1>0, <1>4, <2>3 DEF RefundTx, ReleaseOne, IsPendingOf, Row
    <3>2. Reserved(q)' \subseteq Reserved(q)
      BY <1>0, <2>1 DEF Reserved, Row
    <3>3. Cardinality(Reserved(q)') <= Cardinality(Reserved(q))
      BY <1>0, <3>2, ReservedFinite, CountShrinks
    <3>4. ReservationsCounted'
      BY <1>0, <3>1, <3>3, CountedNext DEF Contact
    <3>5. QED BY <1>0, <2>1, <3>1, <3>4 DEF Accounting, Row
  <2>4. QED BY <2>2, <2>3
<1>5. ASSUME NEW m \in Msgs, UNCHANGED contact,
             \/ /\ rows[m].status \in {"reserved", "uncertain"}
                /\ rows' = [rows EXCEPT ![m].due = TRUE]
             \/ rows' = [rows EXCEPT ![m] = NoRow]
      PROVE  Accounting'
  <2>1. \A n \in Msgs : /\ rows'[n].reserved = 1 => rows[n].reserved = 1
                        /\ rows'[n].status \in {"none", "failed"} =>
                             \/ rows'[n].reserved = 0
                             \/ /\ rows'[n].reserved = rows[n].reserved
                                /\ rows[n].status = rows'[n].status
    BY <1>0, <1>5 DEF NoRow, Row
  <2>2. Reserved(q)' \subseteq Reserved(q)
    BY <1>0, <2>1 DEF Reserved, Row
  <2>3. Cardinality(Reserved(q)') <= Cardinality(Reserved(q))
    BY <1>0, <2>2, ReservedFinite, CountShrinks
  <2>4. ReservationsCounted'
    BY <1>0, <1>5, <2>3, CountedNext DEF Contact
  <2>5. QED BY <1>0, <1>5, <2>1, <2>4 DEF Accounting, Row
<1>6. ASSUME NEW u \in Users, UNCHANGED rows,
             contact' = CountDirect(contact, u) \/ contact' = Activate(contact, u)
      PROVE  Accounting'
  <2>1. /\ contact'.requester = q
        /\ contact'.status = contact.status \/ contact'.status = "active"
        /\ contact'.count \in contact.count..MaxPending
    BY <1>0, <1>6 DEF CountDirect, Activate, IsPendingOf, IsReplyOf, Contact,
                      Accounting
  <2>2. Reserved(q)' = Reserved(q)
    BY <1>0, <1>6 DEF Reserved, Row
  <2>3. ReservationsCounted'
    BY <1>0, <2>1, <2>2, CountedNext DEF Contact
  <2>4. QED BY <1>0, <1>6, <2>1, <2>3 DEF Accounting, Contact
<1>7. QED BY <1>1, <1>2, <1>3, <1>4, <1>5, <1>6 DEF DataStep, CalmStep

LEMMA AccountingInvariant == Spec => [](TypeOK /\ Accounting)
<1>1. TypeOK /\ Accounting /\ [Next]_vars => (TypeOK /\ Accounting)'
  BY TypeStep, EveryStepIsDataStep, AccountingStep
<1>2. QED BY TypeInit, AccountingInit, <1>1, PTL DEF Spec

\* Before the reply the counter of the three-message limit never leaves
\* 1..MaxPending, with any number of attempts at any speed.
THEOREM LimitKept == Spec => []CountWithinLimit
<1>1. Accounting => CountWithinLimit
  BY DEF Accounting, CountWithinLimit
<1>2. QED BY <1>1, AccountingInvariant, PTL

\* No refund pays twice: the reservations in hand are always covered by the
\* counter, for any number of messages.
THEOREM AccountingKept == Spec => []ReservationsCounted
<1>1. Accounting => ReservationsCounted
  BY DEF Accounting
<1>2. QED BY <1>1, AccountingInvariant, PTL

-----------------------------------------------------------------------------
(***************************************************************************)
(* Final results, and the ledger.                                          *)
(***************************************************************************)
LEMMA DeliveredStep ==
  ASSUME TypeOK, DataStep, NEW n \in Msgs, rows[n].status = "delivered"
  PROVE  rows'[n].status \in {"delivered", "none"}
<1>1. rows \in [Msgs -> Row]
  BY DEF TypeOK
<1>2. ASSUME NEW m \in Msgs, ReserveTx(m) \/ ClaimTx(m) \/ RefundTx(m)
      PROVE  rows'[n] = rows[n]
  BY <1>1, <1>2 DEF ReserveTx, ClaimTx, RefundTx
<1>3. ASSUME NEW m \in Msgs, SettleTx(m) \/ DoubtTx(m)
      PROVE  rows'[n] = rows[n]
  BY <1>1, <1>3 DEF SettleTx, DoubtTx
<1>4. ASSUME NEW m \in Msgs, rows[m].status \in {"reserved", "uncertain"},
             rows' = [rows EXCEPT ![m].due = TRUE]
      PROVE  rows'[n] = rows[n]
  BY <1>1, <1>4
<1>5. ASSUME NEW m \in Msgs, rows' = [rows EXCEPT ![m] = NoRow]
      PROVE  rows'[n].status \in {"delivered", "none"}
  BY <1>1, <1>5 DEF NoRow
<1>6. QED BY <1>2, <1>3, <1>4, <1>5 DEF DataStep, CalmStep, NoTx

\* A message that was settled as delivered is never doubted, refunded, sent
\* or reserved again by any attempt, however late it comes.
THEOREM DeliveredStays == Spec => DeliveredIsFinal
<1>1. TypeOK /\ [Next]_vars =>
        [\A m \in Msgs : rows[m].status = "delivered" =>
           rows'[m].status \in {"delivered", "none"}]_vars
  BY EveryStepIsDataStep, DeliveredStep
<1>2. QED BY <1>1, TypeCorrect, PTL DEF Spec, DeliveredIsFinal

ledgerBar == [m \in Msgs |-> LedgerOf(rows[m])]
leftBar == MaxPending - contact.count
openBar == contact.status = "active"

LEMMA LedgerMoves ==
  ASSUME NEW m \in Msgs, \A n \in Msgs : n # m => rows'[n] = rows[n]
  PROVE  /\ ledgerBar[m] = LedgerOf(rows[m])
         /\ ledgerBar' = [ledgerBar EXCEPT ![m] = LedgerOf(rows'[m])]
BY DEF ledgerBar

LEMMA LedgerInitMap == Init => Ledger!LedgerInit
<1> SUFFICES ASSUME Init PROVE Ledger!LedgerInit
  OBVIOUS
<1>1. PICK u \in Users : contact = Greeted(u)
  BY DEF Init
<1>2. ledgerBar = [m \in Msgs |-> "free"]
  BY DEF Init, ledgerBar, LedgerOf, NoRow
<1>3. leftBar = MaxPending - 1 /\ openBar = FALSE
  BY <1>1 DEF leftBar, openBar, Greeted
<1>4. QED BY <1>2, <1>3 DEF Ledger!LedgerInit, ledgerBar, leftBar, openBar

\* One step of the gateway, seen through the mapping.
LEMMA LedgerStepMap ==
  ASSUME TypeOK, Accounting, DataStep
  PROVE  Ledger!LedgerNext \/ UNCHANGED Ledger!lvars
<1> USE MaxPendingAssumption
<1>0. /\ contact \in Contact /\ rows \in [Msgs -> Row]
      /\ contact.count \in 1..MaxPending
      /\ contact.status \in {"pending", "active"}
  BY DEF TypeOK, Accounting
<1>1. CASE NoTx
  BY <1>1 DEF NoTx, Ledger!lvars
<1>2. ASSUME NEW m \in Msgs, ReserveTx(m)
      PROVE  Ledger!LedgerNext \/ UNCHANGED Ledger!lvars
  <2>1. rows[m].reserved = 0
    BY <1>2 DEF ReserveTx, Accounting
  <2>2. CASE IsPendingOf(contact, Sender[m])
    <3>1. /\ ledgerBar[m] = "free"
          /\ ledgerBar' = [ledgerBar EXCEPT ![m] = "held"]
      <4>1. \A n \in Msgs : n # m => rows'[n] = rows[n]
        BY <1>0, <1>2 DEF ReserveTx
      <4>2. LedgerOf(rows[m]) = "free" /\ LedgerOf(rows'[m]) = "held"
        BY <1>0, <1>2, <2>1, <2>2 DEF ReserveTx, LedgerOf
      <4>3. QED BY <4>1, <4>2, LedgerMoves
    <3>2. /\ contact.count < MaxPending
          /\ contact' = [contact EXCEPT !.count = @ + 1]
      BY <1>2, <2>2 DEF ReserveTx, ReserveOne
    <3>3. /\ ~openBar /\ UNCHANGED openBar
          /\ leftBar > 0 /\ leftBar' = leftBar - 1
      BY <1>0, <2>2, <3>2 DEF openBar, leftBar, IsPendingOf, Contact
    <3>4. Ledger!Reserve(m)
      BY <3>1, <3>3 DEF Ledger!Reserve, ledgerBar, leftBar, openBar
    <3>5. QED BY <3>4 DEF Ledger!LedgerNext
  <2>3. CASE ~IsPendingOf(contact, Sender[m])
    <3>1. ledgerBar' = ledgerBar
      BY <1>0, <1>2, <2>1, <2>3 DEF ReserveTx, ledgerBar, LedgerOf
    <3>2. UNCHANGED contact
      BY <1>2, <2>3 DEF ReserveTx
    <3>3. QED BY <3>1, <3>2 DEF Ledger!lvars, ledgerBar
  <2>4. QED BY <2>2, <2>3
<1>3. ASSUME NEW m \in Msgs, ClaimTx(m) \/ DoubtTx(m)
      PROVE  Ledger!LedgerNext \/ UNCHANGED Ledger!lvars
  <2>1. ledgerBar' = ledgerBar
    BY <1>0, <1>3 DEF ClaimTx, DoubtTx, ledgerBar, LedgerOf, Row
  <2>2. UNCHANGED contact
    BY <1>3 DEF ClaimTx, DoubtTx
  <2>3. QED BY <2>1, <2>2 DEF Ledger!lvars, ledgerBar
<1>4. ASSUME NEW m \in Msgs, SettleTx(m)
      PROVE  Ledger!LedgerNext \/ UNCHANGED Ledger!lvars
  <2>1. UNCHANGED contact
    BY <1>4 DEF SettleTx
  <2>2. CASE rows[m].reserved = 1 /\ rows[m].status \in {"reserved", "uncertain"}
    <3>1. /\ ledgerBar[m] = "held"
          /\ ledgerBar' = [ledgerBar EXCEPT ![m] = "spent"]
      <4>1. \A n \in Msgs : n # m => rows'[n] = rows[n]
        BY <1>0, <1>4 DEF SettleTx
      <4>2. LedgerOf(rows[m]) = "held" /\ LedgerOf(rows'[m]) = "spent"
        BY <1>0, <1>4, <2>2 DEF SettleTx, LedgerOf, Row
      <4>3. QED BY <4>1, <4>2, LedgerMoves
    <3>2. Ledger!Spend(m)
      BY <2>1, <3>1 DEF Ledger!Spend, ledgerBar
    <3>3. QED BY <3>2 DEF Ledger!LedgerNext
  <2>3. CASE ~(rows[m].reserved = 1 /\ rows[m].status \in {"reserved", "uncertain"})
    <3>1. ledgerBar' = ledgerBar
      BY <1>0, <1>4, <2>3 DEF SettleTx, ledgerBar, LedgerOf, Row
    <3>2. QED BY <2>1, <3>1 DEF Ledger!lvars, ledgerBar
  <2>4. QED BY <2>2, <2>3
<1>5. ASSUME NEW m \in Msgs, RefundTx(m)
      PROVE  Ledger!LedgerNext \/ UNCHANGED Ledger!lvars
  <2>1. CASE rows[m].reserved = 0
    <3>1. ledgerBar' = ledgerBar
      BY <1>0, <1>5, <2>1 DEF RefundTx, ledgerBar, LedgerOf
    <3>2. UNCHANGED contact
      BY <1>5, <2>1 DEF RefundTx
    <3>3. QED BY <3>1, <3>2 DEF Ledger!lvars, ledgerBar
  <2>2. CASE rows[m].reserved = 1
    <3>1. /\ ledgerBar[m] = "held"
          /\ ledgerBar' = [ledgerBar EXCEPT ![m] = "free"]
      <4>1. \A n \in Msgs : n # m => rows'[n] = rows[n]
        BY <1>0, <1>5 DEF RefundTx
      <4>2. LedgerOf(rows[m]) = "held" /\ LedgerOf(rows'[m]) = "free"
        BY <1>0, <1>5, <2>2 DEF RefundTx, LedgerOf
      <4>3. QED BY <4>1, <4>2, LedgerMoves
    <3>2. Sender[m] = contact.requester
      BY <2>2 DEF Accounting
    <3>3. openBar' = openBar
      BY <1>0, <1>5 DEF RefundTx, openBar, ReleaseOne, Contact
    <3>4. leftBar' = IF openBar THEN leftBar ELSE leftBar + 1
      <4>1. CASE openBar
        BY <1>0, <1>5, <4>1
           DEF RefundTx, ReleaseOne, IsPendingOf, openBar, leftBar
      <4>2. CASE ~openBar
        <5>1. contact.count > 1
          <6>1. m \in Reserved(contact.requester)
            BY <2>2, <3>2 DEF Reserved
          <6>2. Cardinality(Reserved(contact.requester)) >= 1
            BY <6>1, ReservedHasOne
          <6>3. Cardinality(Reserved(contact.requester)) < contact.count
            BY <1>0, <4>2 DEF openBar, Accounting, ReservationsCounted
          <6>4. Cardinality(Reserved(contact.requester)) \in Nat
            BY ReservedFinite
          <6>5. QED BY <1>0, <6>2, <6>3, <6>4 DEF Contact
        <5>2. IsPendingOf(contact, Sender[m])
          BY <1>0, <3>2, <4>2 DEF openBar, IsPendingOf
        <5>3. contact' = [contact EXCEPT !.count = @ - 1]
          BY <1>0, <1>5, <2>2, <5>1, <5>2
             DEF RefundTx, ReleaseOne, Larger, Contact
        <5>4. QED BY <1>0, <4>2, <5>3 DEF leftBar, Contact
      <4>3. QED BY <4>1, <4>2
    <3>5. Ledger!Refund(m)
      BY <3>1, <3>3, <3>4 DEF Ledger!Refund, ledgerBar, leftBar, openBar
    <3>6. QED BY <3>5 DEF Ledger!LedgerNext
  <2>3. QED BY <1>0, <2>1, <2>2 DEF Row
<1>6. ASSUME NEW m \in Msgs, UNCHANGED contact,
             rows[m].status \in {"reserved", "uncertain"},
             rows' = [rows EXCEPT ![m].due = TRUE]
      PROVE  Ledger!LedgerNext \/ UNCHANGED Ledger!lvars
  <2>1. ledgerBar' = ledgerBar
    BY <1>0, <1>6 DEF ledgerBar, LedgerOf, Row
  <2>2. QED BY <1>6, <2>1 DEF Ledger!lvars, ledgerBar
<1>7. ASSUME NEW m \in Msgs, UNCHANGED contact,
             rows[m].status \in {"delivered", "failed"},
             rows' = [rows EXCEPT ![m] = NoRow]
      PROVE  Ledger!LedgerNext \/ UNCHANGED Ledger!lvars
  <2>1. CASE rows[m].reserved = 1
    <3>1. /\ ledgerBar[m] = "spent"
          /\ ledgerBar' = [ledgerBar EXCEPT ![m] = "free"]
      <4>1. \A n \in Msgs : n # m => rows'[n] = rows[n]
        BY <1>0, <1>7 DEF NoRow
      <4>2. LedgerOf(rows[m]) = "spent" /\ LedgerOf(rows'[m]) = "free"
        BY <1>0, <1>7, <2>1 DEF Accounting, NoRow, LedgerOf
      <4>3. QED BY <4>1, <4>2, LedgerMoves
    <3>2. Ledger!Forget(m)
      BY <1>7, <3>1 DEF Ledger!Forget, ledgerBar
    <3>3. QED BY <3>2 DEF Ledger!LedgerNext
  <2>2. CASE rows[m].reserved = 0
    <3>1. ledgerBar' = ledgerBar
      BY <1>0, <1>7, <2>2 DEF ledgerBar, LedgerOf, NoRow
    <3>2. QED BY <1>7, <3>1 DEF Ledger!lvars, ledgerBar
  <2>3. QED BY <1>0, <2>1, <2>2 DEF Row
<1>8. ASSUME NEW u \in Users, UNCHANGED rows, contact' = CountDirect(contact, u)
      PROVE  Ledger!LedgerNext \/ UNCHANGED Ledger!lvars
  <2>1. CASE contact' = contact
    BY <1>8, <2>1 DEF Ledger!lvars
  <2>2. CASE contact' # contact
    <3>1. /\ ~openBar /\ leftBar > 0
          /\ leftBar' = leftBar - 1 /\ UNCHANGED openBar
      BY <1>0, <1>8, <2>2
         DEF CountDirect, IsPendingOf, openBar, leftBar, Contact
    <3>2. Ledger!TakeUnreserved
      BY <1>8, <3>1 DEF Ledger!TakeUnreserved, leftBar, openBar
    <3>3. QED BY <3>2 DEF Ledger!LedgerNext
  <2>3. QED BY <2>1, <2>2
<1>9. ASSUME NEW u \in Users, UNCHANGED rows, contact' = Activate(contact, u)
      PROVE  Ledger!LedgerNext \/ UNCHANGED Ledger!lvars
  <2>1. CASE contact' = contact
    BY <1>9, <2>1 DEF Ledger!lvars
  <2>2. CASE contact' # contact
    <3>1. openBar' = TRUE /\ UNCHANGED leftBar
      BY <1>0, <1>9, <2>2 DEF Activate, openBar, leftBar, Contact
    <3>2. Ledger!Reply
      BY <1>9, <3>1 DEF Ledger!Reply, leftBar, openBar
    <3>3. QED BY <3>2 DEF Ledger!LedgerNext
  <2>3. QED BY <2>1, <2>2
<1>10. QED
  BY <1>1, <1>2, <1>3, <1>4, <1>5, <1>6, <1>7, <1>8, <1>9 DEF DataStep, CalmStep

\* The gateway implements the message ledger: every step takes, gives back
\* or settles at most one message of the quota, and a refund returns exactly
\* what the reservation took.
THEOREM GatewayImplementsLedger == Spec => ImplementsLedger
<1>1. TypeOK /\ Accounting /\ [Next]_vars => [Ledger!LedgerNext]_(Ledger!lvars)
  BY EveryStepIsDataStep, LedgerStepMap
<1>2. QED
  BY <1>1, LedgerInitMap, AccountingInvariant, PTL
     DEF Spec, ImplementsLedger, Ledger!LedgerSpec

-----------------------------------------------------------------------------
(***************************************************************************)
(* What holds when a handler is never older than its reservation and the   *)
(* IM server accepts nothing after its time-out.                           *)
(*                                                                         *)
(* Hot(a): attempt a owns the row of its message.  The row is its own      *)
(* because a reservation that is not due is refused to everybody else, and *)
(* it cannot become due while a runs.                                      *)
(***************************************************************************)
Prompt == ~Overrun /\ ~LateAccept

Hot(a) == attempt[a].pc \in {"search", "send", "complete", "mark", "rollback"}

\* The messages of u that use the quota: reserved, or on the IM server.
InUse(u) ==
  {m \in Msgs : Sender[m] = u /\ (rows[m].reserved = 1 \/ im[m] # "no")}

OwnedRows ==
  \A a \in Attempts : Hot(a) =>
    /\ rows[attempt[a].msg].status \in {"reserved", "delivered"}
    /\ ~rows[attempt[a].msg].due

OneOwner ==
  \A a, b \in Attempts : Hot(a) /\ Hot(b) /\ a # b => attempt[a].msg # attempt[b].msg

RefundSafe ==
  \A a \in Attempts : attempt[a].pc = "rollback" => im[attempt[a].msg] = "no"

\* While no reply has come every open row of the requester is counted.
RequesterReserves ==
  contact.status = "pending" =>
    \A m \in Msgs : Sender[m] = contact.requester =>
      rows[m].status \in {"none", "failed"} \/ rows[m].reserved = 1

UseCounted ==
  contact.status = "pending" =>
    Cardinality(InUse(contact.requester)) < contact.count

Ownership ==
  /\ flight = {}
  /\ OwnedRows
  /\ OneOwner
  /\ RefundSafe
  /\ FailedNotStored
  /\ RequesterReserves
  /\ UseCounted

LEMMA OwnershipInit == Init => Ownership
<1> SUFFICES ASSUME Init PROVE Ownership
  OBVIOUS
<1>1. PICK u \in Users : contact = Greeted(u)
  BY DEF Init
<1>2. \A a \in Attempts : ~Hot(a) /\ attempt[a].pc = "idle"
  BY DEF Init, Hot, Idle
<1>3. InUse(u) = {}
  BY DEF Init, InUse, NoRow
<1>4. Cardinality(InUse(u)) = 0
  BY <1>3, FS_EmptySet
<1>5. UseCounted /\ RequesterReserves
  BY <1>1, <1>4 DEF Init, UseCounted, RequesterReserves, Greeted, NoRow
<1>6. QED
  BY <1>2, <1>5
     DEF Init, Ownership, OwnedRows, OneOwner, RefundSafe, FailedNotStored, NoRow

\* A step of attempt a changes nothing of the others, and nothing of the
\* messages it does not work on; while it stays the owner the row is kept.
LEMMA StepFrame ==
  ASSUME TypeOK, NEW a \in Attempts, Step(a)
  PROVE  /\ \A b \in Attempts \ {a} : attempt'[b] = attempt[b]
         /\ \A n \in Msgs \ {attempt[a].msg} : rows'[n] = rows[n] /\ im'[n] = im[n]
         /\ Hot(a)' => /\ Hot(a) /\ attempt'[a].msg = attempt[a].msg
                       /\ UNCHANGED rows
         /\ ~Hot(a) => UNCHANGED <<rows, im>>
         /\ attempt'[a].pc = "rollback" => UNCHANGED im /\ im[attempt[a].msg] = "no"
<1> USE DEF Hot
<1>0. /\ attempt \in [Attempts -> Attempt] /\ rows \in [Msgs -> Row]
      /\ attempt[a].msg \in Msgs
      /\ attempt[a] \in [pc : Busy, msg : Msgs, gateway : BOOLEAN, reply : BOOLEAN]
      /\ im \in [Msgs -> Kind \cup {"no"}]
  BY StepWorks, BusyAttempt DEF TypeOK
<1>1. \A b \in Attempts \ {a} : attempt'[b] = attempt[b]
  BY <1>0 DEF Step, SearchFound, SearchMissing, SearchError, SendAccepted,
    SendUnknown, SendRejected, Complete, MarkUncertain, Rollback, ActivateReply,
    AfterSend, Goto, Finish
<1>2. CASE SearchFound(a)
  BY <1>0, <1>1, <1>2
     DEF SearchFound, SettleTx, NoTx, AfterSend, Goto, Finish, Idle
<1>3. CASE SearchMissing(a) \/ SearchError(a)
  BY <1>0, <1>1, <1>3 DEF SearchMissing, SearchError, Goto
<1>4. CASE SendAccepted(a) \/ SendUnknown(a)
  <2>1. \A n \in Msgs \ {attempt[a].msg} : im'[n] = im[n]
    BY <1>0, <1>4 DEF SendAccepted, SendUnknown, Store
  <2>2. QED BY <1>0, <1>1, <1>4, <2>1 DEF SendAccepted, SendUnknown, Goto
<1>5. CASE SendRejected(a)
  BY <1>0, <1>1, <1>5 DEF SendRejected, Goto
<1>6. CASE Complete(a)
  BY <1>0, <1>1, <1>6
     DEF Complete, SettleTx, NoTx, AfterSend, Goto, Finish, Idle
<1>7. CASE MarkUncertain(a)
  BY <1>0, <1>1, <1>7 DEF MarkUncertain, DoubtTx, NoTx, Finish, Idle
<1>8. CASE Rollback(a)
  BY <1>0, <1>1, <1>8 DEF Rollback, RefundTx, NoTx, Finish, Idle
<1>9. CASE ActivateReply(a)
  BY <1>0, <1>1, <1>9 DEF ActivateReply, Finish, Idle
<1>10. QED
  BY <1>2, <1>3, <1>4, <1>5, <1>6, <1>7, <1>8, <1>9 DEF Step

\* A row becomes failed only by the refund of an attempt at "rollback".
LEMMA FailedStep ==
  ASSUME TypeOK, NEW a \in Attempts, Step(a), NEW n \in Msgs,
         rows'[n].status = "failed"
  PROVE  \/ rows[n].status = "failed"
         \/ n = attempt[a].msg /\ attempt[a].pc = "rollback" /\ UNCHANGED im
<1>0. rows \in [Msgs -> Row] /\ attempt[a].msg \in Msgs
  BY StepWorks DEF TypeOK
<1>. USE DEF Row
<1>9. ASSUME NEW m \in Msgs, SettleTx(m) \/ DoubtTx(m) \/ NoTx
      PROVE  rows[n].status = "failed"
  <2>1. CASE SettleTx(m)
    BY <1>0, <2>1 DEF SettleTx
  <2>2. CASE DoubtTx(m)
    BY <1>0, <2>2 DEF DoubtTx
  <2>3. CASE NoTx
    BY <2>3 DEF NoTx
  <2>4. QED BY <1>9, <2>1, <2>2, <2>3
<1>1. CASE SearchFound(a) \/ Complete(a)
  BY <1>0, <1>1, <1>9 DEF SearchFound, Complete
<1>2. CASE MarkUncertain(a)
  BY <1>0, <1>2, <1>9 DEF MarkUncertain
<1>3. CASE Rollback(a)
  BY <1>0, <1>3 DEF Rollback, RefundTx, NoTx
<1>4. CASE UNCHANGED rows
  BY <1>4
<1>5. QED
  BY <1>1, <1>2, <1>3, <1>4 DEF Step, SearchMissing, SearchError, SendAccepted,
     SendUnknown, SendRejected, ActivateReply

\* The parts of Ownership that do not count.
Control == OwnedRows /\ OneOwner /\ RefundSafe /\ FailedNotStored

LEMMA ControlPrepare ==
  ASSUME TypeOK, Control, NEW a \in Attempts, NEW m \in Msgs, Prepare(a, m)
  PROVE  Control'
<1>0. /\ attempt \in [Attempts -> Attempt] /\ rows \in [Msgs -> Row]
      /\ attempt[a].pc = "idle" /\ UNCHANGED im
  BY DEF TypeOK, Prepare
<1>1. \A b \in Attempts \ {a} : attempt'[b] = attempt[b]
  BY <1>0 DEF Prepare, Start
<1>2. CASE NoTx /\ Start(a, m, "activate")
  <2>1. attempt'[a].pc = "activate"
    BY <1>0, <1>2 DEF Start
  <2>2. QED
    BY <1>0, <1>1, <1>2, <2>1
       DEF Control, OwnedRows, OneOwner, RefundSafe, FailedNotStored, Hot, NoTx
<1>3. CASE \/ ClaimTx(m) /\ Start(a, m, "search")
           \/ ReserveTx(m) /\ Start(a, m, "send")
  <2>1. attempt'[a].pc \in {"search", "send"} /\ attempt'[a].msg = m
    BY <1>0, <1>3 DEF Start
  <2>2. /\ rows'[m].status = "reserved" /\ ~rows'[m].due
        /\ \A n \in Msgs \ {m} : rows'[n] = rows[n]
    BY <1>0, <1>3 DEF ClaimTx, ReserveTx, Row
  <2>3. \A b \in Attempts : Hot(b) => attempt[b].msg # m
    BY <1>3 DEF ClaimTx, ReserveTx, Control, OwnedRows
  <2>4. \A b \in Attempts : Hot(b) => attempt[b].msg \in Msgs
    BY BusyAttempt DEF Hot
  <2>5. \A b \in Attempts \ {a} : Hot(b)' = Hot(b)
    BY <1>1 DEF Hot
  <2>6. OwnedRows'
    BY <1>1, <2>1, <2>2, <2>3, <2>4, <2>5 DEF Control, OwnedRows
  <2>7. OneOwner'
    BY <1>1, <2>1, <2>3, <2>5 DEF Control, OneOwner
  <2>8. RefundSafe'
    BY <1>0, <1>1, <2>1 DEF Control, RefundSafe
  <2>9. FailedNotStored'
    BY <1>0, <2>2 DEF Control, FailedNotStored
  <2>10. QED BY <2>6, <2>7, <2>8, <2>9 DEF Control
<1>4. QED BY <1>2, <1>3 DEF Prepare

LEMMA ControlStep ==
  ASSUME TypeOK, Control, NEW a \in Attempts, Step(a)
  PROVE  Control'
<1> DEFINE m == attempt[a].msg
<1>0. /\ m \in Msgs /\ attempt[a].pc # "idle"
      /\ attempt \in [Attempts -> Attempt] /\ rows \in [Msgs -> Row]
  BY StepWorks DEF TypeOK
<1>1. /\ \A b \in Attempts \ {a} : attempt'[b] = attempt[b]
      /\ \A n \in Msgs \ {m} : rows'[n] = rows[n] /\ im'[n] = im[n]
      /\ Hot(a)' => Hot(a) /\ attempt'[a].msg = m /\ UNCHANGED rows
      /\ ~Hot(a) => UNCHANGED <<rows, im>>
      /\ attempt'[a].pc = "rollback" => UNCHANGED im /\ im[m] = "no"
  BY StepFrame
<1>2. \A b \in Attempts \ {a} : Hot(b)' = Hot(b)
  BY <1>1 DEF Hot
<1>3. \A b \in Attempts \ {a} : Hot(b) =>
        /\ attempt[b].msg \in Msgs
        /\ rows'[attempt[b].msg] = rows[attempt[b].msg]
        /\ im'[attempt[b].msg] = im[attempt[b].msg]
  <2>1. \A b \in Attempts : Hot(b) => attempt[b].msg \in Msgs
    BY BusyAttempt DEF Hot
  <2>2. QED BY <1>1, <2>1 DEF Control, OneOwner
<1>4. OwnedRows'
  BY <1>1, <1>2, <1>3 DEF Control, OwnedRows
<1>5. OneOwner'
  BY <1>1, <1>2 DEF Control, OneOwner
<1>6. RefundSafe'
  <2>1. attempt'[a].pc = "rollback" => im'[attempt'[a].msg] = "no"
    BY <1>1 DEF Hot
  <2>2. \A b \in Attempts \ {a} : attempt'[b].pc = "rollback" => im'[attempt'[b].msg] = "no"
    BY <1>1, <1>3 DEF Control, RefundSafe, Hot
  <2>3. QED BY <2>1, <2>2 DEF RefundSafe
<1>7. FailedNotStored'
  <2>1. SUFFICES ASSUME NEW n \in Msgs, rows'[n].status = "failed"
                 PROVE  im'[n] = "no"
    BY DEF FailedNotStored
  <2>2. CASE rows[n].status = "failed"
    <3>1. im'[n] = im[n]
      <4>1. CASE n # m
        BY <1>1, <4>1
      <4>2. CASE n = m
        BY <1>1, <2>2, <4>2 DEF Control, OwnedRows
      <4>3. QED BY <4>1, <4>2
    <3>2. QED BY <2>2, <3>1 DEF Control, FailedNotStored
  <2>3. CASE n = attempt[a].msg /\ attempt[a].pc = "rollback" /\ UNCHANGED im
    BY <2>3 DEF Control, RefundSafe
  <2>4. QED BY <2>1, <2>2, <2>3, FailedStep
<1>8. QED BY <1>4, <1>5, <1>6, <1>7 DEF Control

\* The webhook, time and the cleanup take no row from its owner.
LEMMA ControlElse ==
  ASSUME TypeOK, Control, Prompt, flight = {}, [Next]_vars,
         ~\E a \in Attempts : Step(a) \/ \E m \in Msgs : Prepare(a, m)
  PROVE  Control'
<1>0. /\ attempt \in [Attempts -> Attempt] /\ rows \in [Msgs -> Row]
      /\ \A b \in Attempts : Hot(b) => attempt[b].msg \in Msgs
  BY BusyAttempt DEF TypeOK, Hot
<1> USE DEF Control, OwnedRows, OneOwner, RefundSafe, FailedNotStored
<1>1. ASSUME NEW a \in Attempts, Crash(a)
      PROVE  Control'
  <2>1. /\ UNCHANGED <<rows, im>> /\ attempt'[a].pc = "idle"
        /\ \A b \in Attempts \ {a} : attempt'[b] = attempt[b]
    BY <1>0, <1>1 DEF Crash, Finish, Idle
  <2>2. QED BY <2>1 DEF Hot
<1>2. ASSUME UNCHANGED <<im, attempt>>,
             \A n \in Msgs : rows'[n].status = "failed" => rows[n].status = "failed",
             \A b \in Attempts : Hot(b) =>
               /\ rows'[attempt[b].msg].status \in {"reserved", "delivered"}
               /\ ~rows'[attempt[b].msg].due
      PROVE  Control'
  BY <1>2 DEF Hot
<1>3. ASSUME NEW m \in Msgs, SettleTx(m), UNCHANGED <<im, attempt>>
      PROVE  Control'
  <2>1. \A n \in Msgs : rows'[n] = rows[n] \/
          (rows'[n].status = "delivered" /\ ~rows'[n].due)
    BY <1>0, <1>3 DEF SettleTx, Row
  <2>2. QED BY <1>0, <1>2, <1>3, <2>1
<1>4. ASSUME NEW m \in Msgs, Elapse(m)
      PROVE  Control'
  <2>1. \A b \in Attempts : Hot(b) => attempt[b].msg # m
    BY <1>4 DEF Elapse, Prompt, WorksOn, Hot
  <2>2. /\ \A n \in Msgs \ {m} : rows'[n] = rows[n]
        /\ rows'[m].status = rows[m].status
    BY <1>0, <1>4 DEF Elapse, Row
  <2>3. QED BY <1>0, <1>2, <1>4, <2>1, <2>2 DEF Elapse
<1>5. ASSUME NEW m \in Msgs, Cleanup(m)
      PROVE  Control'
  <2>1. \A b \in Attempts : Hot(b) => attempt[b].msg # m
    BY <1>5 DEF Cleanup, WorksOn, Hot
  <2>2. /\ \A n \in Msgs \ {m} : rows'[n] = rows[n]
        /\ rows'[m].status = "none"
    BY <1>0, <1>5 DEF Cleanup, NoRow
  <2>3. QED BY <1>0, <1>2, <1>5, <2>1, <2>2 DEF Cleanup
<1>6. CASE UNCHANGED <<rows, im, attempt>>
  BY <1>0, <1>6 DEF Hot
<1>7. ASSUME NEW m \in Msgs, Webhook(m)
      PROVE  Control'
  BY <1>3, <1>6, <1>7 DEF Webhook
<1>8. ASSUME NEW m \in Msgs, NEW k \in Kind, LateArrival(m, k)
      PROVE  Control'
  BY <1>8 DEF LateArrival
<1>9. ASSUME NEW u \in Users, DirectWebhook(u)
      PROVE  Control'
  BY <1>6, <1>9 DEF DirectWebhook
<1>10. QED
  BY <1>1, <1>4, <1>5, <1>6, <1>7, <1>8, <1>9 DEF Next, vars

LEMMA InUseFinite ==
  ASSUME NEW u
  PROVE  IsFiniteSet(InUse(u)) /\ Cardinality(InUse(u)) \in Nat
BY MsgsAssumption, FS_Subset, FS_CardinalityType DEF InUse

LEMMA UseCountedNext ==
  ASSUME NEW q, contact'.requester = q,
         contact'.status = "pending" => Cardinality(InUse(q)') < contact'.count
  PROVE  UseCounted'
<1>1. InUse(contact.requester)' = InUse(q)'
  BY DEF InUse
<1>2. QED BY <1>1 DEF UseCounted

\* A reservation takes its message from the quota before the IM server can
\* show it, and a refund gives back only what the IM server does not show.
LEMMA UseStep ==
  ASSUME TypeOK, Accounting, Ownership, Prompt, [Next]_vars
  PROVE  UseCounted' /\ RequesterReserves'
<1>q. PICK q \in Users : contact.requester = q
  BY DEF Accounting
<1>0. /\ contact \in Contact /\ rows \in [Msgs -> Row] /\ contact' \in Contact
      /\ im \in [Msgs -> Kind \cup {"no"}]
      /\ contact.status \in {"pending", "active"}
      /\ Cardinality(InUse(q)) \in Nat
      /\ contact.status = "pending" => Cardinality(InUse(q)) < contact.count
  BY <1>q, InUseFinite, EveryStepIsDataStep, DataTypes
     DEF TypeOK, Accounting, Ownership, UseCounted
<1>1. /\ flight = {} /\ RequesterReserves /\ OwnedRows /\ RefundSafe
  BY DEF Ownership
\* What suffices when no message more is in use, or one more is counted.
<1>2. ASSUME contact'.requester = q,
             \/ contact'.status = "active"
             \/ /\ contact'.status = contact.status
                /\ contact'.count >= contact.count
                /\ InUse(q)' \subseteq InUse(q)
             \/ /\ contact'.status = contact.status
                /\ contact'.count = contact.count + 1
                /\ \E m \in Msgs : InUse(q)' \subseteq InUse(q) \cup {m}
             \/ /\ contact'.status = contact.status
                /\ contact'.count >= contact.count - 1
                /\ \E m \in InUse(q) : InUse(q)' \subseteq InUse(q) \ {m}
      PROVE  UseCounted'
  <2>1. CASE contact'.status = "active"
    BY <1>2, <2>1, UseCountedNext
  <2>2. CASE InUse(q)' \subseteq InUse(q) /\ contact'.count >= contact.count
             /\ contact'.status = contact.status
    <3>1. Cardinality(InUse(q)') <= Cardinality(InUse(q))
          /\ Cardinality(InUse(q)') \in Nat
      BY <2>2, InUseFinite, CountShrinks
    <3>2. contact'.status = "pending" => Cardinality(InUse(q)') < contact'.count
      BY <1>0, <2>2, <3>1 DEF Contact
    <3>3. QED BY <1>2, <3>2, UseCountedNext
  <2>3. ASSUME NEW m, InUse(q)' \subseteq InUse(q) \cup {m},
               contact'.count = contact.count + 1,
               contact'.status = contact.status
        PROVE  UseCounted'
    <3>1. Cardinality(InUse(q)') <= Cardinality(InUse(q)) + 1
      BY <2>3, InUseFinite, GrowsByOne
    <3>2. IsFiniteSet(InUse(q)') /\ Cardinality(InUse(q)') \in Nat
      BY MsgsAssumption, FS_Subset, FS_CardinalityType DEF InUse
    <3>3. contact'.status = "pending" => Cardinality(InUse(q)') < contact'.count
      BY <1>0, <2>3, <3>1, <3>2 DEF Contact
    <3>4. QED BY <1>2, <3>3, UseCountedNext
  <2>4. ASSUME NEW m \in InUse(q), InUse(q)' \subseteq InUse(q) \ {m},
               contact'.count >= contact.count - 1,
               contact'.status = contact.status
        PROVE  UseCounted'
    <3>1. Cardinality(InUse(q)') <= Cardinality(InUse(q)) - 1
      BY <2>4, InUseFinite, ShrinksByOne
    <3>2. IsFiniteSet(InUse(q)') /\ Cardinality(InUse(q)') \in Nat
      BY MsgsAssumption, FS_Subset, FS_CardinalityType DEF InUse
    <3>3. contact'.status = "pending" => Cardinality(InUse(q)') < contact'.count
      BY <1>0, <2>4, <3>1, <3>2 DEF Contact
    <3>4. QED BY <1>2, <3>3, UseCountedNext
  <2>5. QED BY <1>2, <2>1, <2>2, <2>3, <2>4
<1>3. ASSUME NEW m \in Msgs, ReserveTx(m), UNCHANGED im
      PROVE  UseCounted' /\ RequesterReserves'
  <2>1. /\ \A n \in Msgs \ {m} : rows'[n] = rows[n]
        /\ rows'[m].reserved = IF IsPendingOf(contact, Sender[m]) THEN 1 ELSE 0
        /\ rows'[m].status = "reserved"
    BY <1>0, <1>3 DEF ReserveTx, Row
  <2>2. CASE IsPendingOf(contact, Sender[m])
    <3>1. /\ contact'.requester = q /\ contact'.status = contact.status
          /\ contact'.count = contact.count + 1
      BY <1>q, <1>0, <1>3, <2>2 DEF ReserveTx, ReserveOne, Contact
    <3>2. InUse(q)' \subseteq InUse(q) \cup {m}
      BY <1>3, <2>1 DEF InUse
    <3>3. RequesterReserves'
      BY <1>q, <1>1, <2>1, <2>2, <3>1 DEF RequesterReserves
    <3>4. QED BY <1>2, <3>1, <3>2, <3>3
  <2>3. CASE ~IsPendingOf(contact, Sender[m])
    <3>1. UNCHANGED contact
      BY <1>3, <2>3 DEF ReserveTx
    <3>2. InUse(q)' \subseteq InUse(q)
      BY <1>3, <2>1, <2>3 DEF InUse
    <3>3. contact.status = "pending" => Sender[m] # q
      BY <1>q, <2>3 DEF IsPendingOf
    <3>4. RequesterReserves'
      BY <1>q, <1>1, <2>1, <3>1, <3>3 DEF RequesterReserves
    <3>5. QED BY <1>q, <1>0, <1>2, <3>1, <3>2, <3>4 DEF Contact
  <2>4. QED BY <2>2, <2>3
<1>4. ASSUME UNCHANGED <<contact, im>>,
             \A n \in Msgs :
               /\ rows'[n].reserved = 1 => rows[n].reserved = 1
               /\ \/ rows'[n].status \in {"none", "failed"}
                  \/ /\ rows'[n].reserved = rows[n].reserved
                     /\ rows[n].status \notin {"none", "failed"}
                  \/ rows'[n] = rows[n]
      PROVE  UseCounted' /\ RequesterReserves'
  <2>1. InUse(q)' \subseteq InUse(q)
    BY <1>4 DEF InUse
  <2>2. UseCounted'
    BY <1>q, <1>0, <1>2, <1>4, <2>1 DEF Contact
  <2>3. RequesterReserves'
    BY <1>1, <1>4 DEF RequesterReserves
  <2>4. QED BY <2>2, <2>3
<1>5. ASSUME NEW m \in Msgs, ClaimTx(m) \/ SettleTx(m) \/ DoubtTx(m), UNCHANGED im
      PROVE  UseCounted' /\ RequesterReserves'
  <2>1. UNCHANGED contact
    BY <1>5 DEF ClaimTx, SettleTx, DoubtTx
  <2>2. \A n \in Msgs :
          \/ rows'[n] = rows[n]
          \/ /\ rows'[n].reserved = rows[n].reserved
             /\ rows[n].status \notin {"none", "failed"}
    BY <1>0, <1>5 DEF ClaimTx, SettleTx, DoubtTx, Row
  <2>3. QED BY <1>4, <1>5, <2>1, <2>2
<1>6. ASSUME NEW m \in Msgs, UNCHANGED <<contact, im>>,
             \/ /\ rows[m].status \in {"reserved", "uncertain"}
                /\ rows' = [rows EXCEPT ![m].due = TRUE]
             \/ rows' = [rows EXCEPT ![m] = NoRow]
      PROVE  UseCounted' /\ RequesterReserves'
  <2>1. \A n \in Msgs :
          \/ rows'[n] = rows[n]
          \/ /\ rows'[n].reserved = rows[n].reserved
             /\ rows[n].status \notin {"none", "failed"}
          \/ rows'[n].reserved = 0 /\ rows'[n].status = "none"
    BY <1>0, <1>6 DEF NoRow, Row
  <2>2. QED BY <1>4, <1>6, <2>1
<1>7. ASSUME NEW u \in Users, UNCHANGED <<rows, im>>,
             contact' = CountDirect(contact, u) \/ contact' = Activate(contact, u)
      PROVE  UseCounted' /\ RequesterReserves'
  <2>1. /\ contact'.requester = q
        /\ \/ contact'.status = "active"
           \/ contact'.status = contact.status /\ contact'.count >= contact.count
    BY <1>q, <1>0, <1>7
       DEF CountDirect, Activate, IsPendingOf, IsReplyOf, Contact
  <2>2. InUse(q)' \subseteq InUse(q)
    BY <1>7 DEF InUse
  <2>3. UseCounted'
    BY <1>2, <2>1, <2>2
  <2>4. RequesterReserves'
    BY <1>q, <1>0, <1>1, <1>7, <2>1 DEF RequesterReserves
  <2>5. QED BY <2>3, <2>4
<1>8. ASSUME NEW a \in Attempts, attempt[a].pc = "rollback",
             RefundTx(attempt[a].msg), UNCHANGED im
      PROVE  UseCounted' /\ RequesterReserves'
  <2> DEFINE m == attempt[a].msg
  <2>0. PICK m0 \in Msgs : m0 = m
    BY <1>8, BusyAttempt
  <2>1. rows[m0].status \in {"reserved", "delivered"} /\ im[m0] = "no"
    BY <1>1, <1>8, <2>0 DEF OwnedRows, RefundSafe, Hot
  <2>2. /\ \A n \in Msgs \ {m0} : rows'[n] = rows[n]
        /\ rows'[m0].status = "failed" /\ rows'[m0].reserved = 0
    BY <1>0, <1>8, <2>0 DEF RefundTx
  <2>3. CASE rows[m0].reserved = 1 /\ contact.status = "pending"
    <3>1. Sender[m0] = q
      BY <1>q, <2>3 DEF Accounting
    <3>2. contact'.requester = q /\ contact'.status = contact.status
          /\ contact'.count >= contact.count - 1
      BY <1>q, <1>0, <1>8, <2>0, <2>3, <3>1
         DEF RefundTx, ReleaseOne, IsPendingOf, Larger, Contact
    <3>3. m0 \in InUse(q)
      BY <2>3, <3>1 DEF InUse
    <3>4. InUse(q)' \subseteq InUse(q) \ {m0}
      BY <1>8, <2>1, <2>2 DEF InUse
    <3>5. RequesterReserves'
      BY <1>q, <1>1, <2>2, <3>2 DEF RequesterReserves
    <3>6. UseCounted'
      BY <1>2, <3>2, <3>3, <3>4
    <3>7. QED BY <3>5, <3>6
  <2>4. CASE ~(rows[m0].reserved = 1 /\ contact.status = "pending")
    <3>1. UNCHANGED contact
      BY <1>0, <1>8, <2>0, <2>4 DEF RefundTx, ReleaseOne, IsPendingOf, Row
    <3>2. QED BY <1>4, <1>8, <2>2, <3>1
  <2>5. QED BY <2>3, <2>4
<1>9. ASSUME NEW a \in Attempts, NEW k \in Kind, attempt[a].pc = "send",
             im' = Store(attempt[a].msg, k) \/ UNCHANGED im, NoTx
      PROVE  UseCounted' /\ RequesterReserves'
  <2>0. PICK m0 \in Msgs : m0 = attempt[a].msg
    BY <1>9, BusyAttempt
  <2>1. rows[m0].status \in {"reserved", "delivered"}
    BY <1>1, <1>9, <2>0 DEF OwnedRows, Hot
  <2>2. contact.status = "pending" /\ Sender[m0] = q => rows[m0].reserved = 1
    BY <1>q, <1>1, <2>1 DEF RequesterReserves
  <2>3. \A n \in Msgs \ {m0} : im'[n] = im[n]
    BY <1>0, <1>9, <2>0 DEF Store
  <2>4. contact.status = "pending" => InUse(q)' \subseteq InUse(q)
    BY <1>9, <2>2, <2>3 DEF InUse, NoTx
  <2>5. UseCounted'
    BY <1>q, <1>0, <1>2, <1>9, <2>4 DEF NoTx, Contact
  <2>6. RequesterReserves'
    BY <1>1, <1>9 DEF RequesterReserves, NoTx
  <2>7. QED BY <2>5, <2>6
<1>10. CASE NoTx /\ UNCHANGED im
  BY <1>4, <1>10 DEF NoTx
<1>11. CalmStep /\ UNCHANGED im => UseCounted' /\ RequesterReserves'
  BY <1>3, <1>5, <1>6, <1>7, <1>10 DEF CalmStep
<1>12. QED
  BY <1>1, <1>8, <1>9, <1>11, EveryStepIsServerStep DEF ServerStep

LEMMA OwnershipStep ==
  ASSUME TypeOK, Accounting, Ownership, Prompt, [Next]_vars
  PROVE  Ownership'
<1>1. Control /\ flight = {}
  BY DEF Ownership, Control
<1>2. Control'
  BY <1>1, ControlPrepare, ControlStep, ControlElse
<1>3. flight' = {}
  BY <1>1, EveryStepIsServerStep DEF ServerStep, Prompt
<1>4. QED BY <1>2, <1>3, UseStep DEF Ownership, Control

LEMMA PromptInvariant ==
  ASSUME Prompt
  PROVE  Spec => [](TypeOK /\ Accounting /\ Ownership)
<1>1. Init => TypeOK /\ Accounting /\ Ownership
  BY TypeInit, AccountingInit, OwnershipInit
<1>2. TypeOK /\ Accounting /\ Ownership /\ [Next]_vars
        => (TypeOK /\ Accounting /\ Ownership)'
  BY TypeStep, EveryStepIsDataStep, AccountingStep, OwnershipStep
<1>3. QED BY <1>1, <1>2, PTL DEF Spec

\* Before the receiver has replied the IM server never shows more than the
\* limit of messages, the greeting included.
THEOREM LimitOnServer ==
  ASSUME Prompt
  PROVE  Spec => []VisibleWithinLimit
<1>1. ASSUME TypeOK, Accounting, Ownership
      PROVE  VisibleWithinLimit
  <2>1. SUFFICES ASSUME contact.status = "pending"
                 PROVE  Cardinality(Visible(contact.requester)) < MaxPending
    BY DEF VisibleWithinLimit
  <2>2. Visible(contact.requester) \subseteq InUse(contact.requester)
    BY DEF Visible, InUse
  <2>3. /\ Cardinality(Visible(contact.requester))
             <= Cardinality(InUse(contact.requester))
        /\ Cardinality(Visible(contact.requester)) \in Nat
        /\ Cardinality(InUse(contact.requester)) \in Nat
    BY <2>2, InUseFinite, CountShrinks
  <2>4. Cardinality(InUse(contact.requester)) < contact.count
    BY <2>1, <1>1 DEF Ownership, UseCounted
  <2>5. contact.count <= MaxPending /\ contact.count \in Nat
    BY <1>1 DEF Accounting
  <2>6. QED BY <2>3, <2>4, <2>5, MaxPendingAssumption
<1>2. QED BY <1>1, PromptInvariant, PTL

\* A message whose count was given back is not on the IM server.
THEOREM FailureIsReal ==
  ASSUME Prompt
  PROVE  Spec => []FailedNotStored
<1>1. Ownership => FailedNotStored
  BY DEF Ownership
<1>2. QED BY <1>1, PromptInvariant, PTL

\* No message is searched for, sent or given back by two attempts at once.
THEOREM SenderIsUnique ==
  ASSUME Prompt
  PROVE  Spec => []OneSender
<1>1. Ownership => OneSender
  BY DEF Ownership, OneOwner, OneSender, AtOnce, Hot
<1>2. QED BY <1>1, PromptInvariant, PTL

-----------------------------------------------------------------------------
(***************************************************************************)
(* What is reported as delivered was stored.                               *)
(***************************************************************************)

\* An attempt that is about to settle its row has had the server's answer.
Answered ==
  /\ DeliveredIsStored
  /\ \A a \in Attempts : attempt[a].pc = "complete" => im[attempt[a].msg] # "no"

\* The IM server forgets nothing.
LEMMA ServerKeeps ==
  ASSUME TypeOK, [Next]_vars, NEW n \in Msgs, im[n] # "no"
  PROVE  im'[n] # "no"
<1>1. ServerStep
  BY EveryStepIsServerStep
<1>2. ASSUME NEW m, NEW k \in Kind, im' = Store(m, k)
      PROVE  im'[n] # "no"
  BY <1>2 DEF Store, TypeOK, Kind
<1>3. QED BY <1>1, <1>2 DEF ServerStep

\* Only a settlement makes a row delivered.
LEMMA OnlySettled ==
  ASSUME TypeOK, NEW m \in Msgs, NEW n \in Msgs,
         \/ NoTx \/ UNCHANGED rows
         \/ ReserveTx(m) \/ ClaimTx(m) \/ DoubtTx(m) \/ RefundTx(m)
         \/ SettleTx(m) /\ m # n
         \/ rows' = [rows EXCEPT ![m].due = TRUE]
         \/ rows' = [rows EXCEPT ![m] = NoRow],
         rows'[n].status = "delivered"
  PROVE  rows[n].status = "delivered"
<1>1. rows \in [Msgs -> Row]
  BY DEF TypeOK
<1>2. CASE NoTx \/ UNCHANGED rows
  BY <1>2 DEF NoTx
<1>3. CASE ReserveTx(m) \/ ClaimTx(m) \/ RefundTx(m)
  BY <1>1, <1>3 DEF ReserveTx, ClaimTx, RefundTx, Row
<1>4. CASE DoubtTx(m) \/ (SettleTx(m) /\ m # n)
  BY <1>1, <1>4 DEF DoubtTx, SettleTx, Row
<1>5. CASE rows' = [rows EXCEPT ![m].due = TRUE]
  BY <1>1, <1>5 DEF Row
<1>6. CASE rows' = [rows EXCEPT ![m] = NoRow]
  BY <1>1, <1>6 DEF NoRow
<1>7. QED BY <1>2, <1>3, <1>4, <1>5, <1>6

LEMMA AnsweredStep ==
  ASSUME TypeOK, Answered, NEW a \in Attempts, Step(a)
  PROVE  /\ \A n \in Msgs : rows'[n].status = "delivered" => im'[n] # "no"
         /\ attempt'[a].pc = "complete" => im'[attempt'[a].msg] # "no"
<1>0. /\ attempt \in [Attempts -> Attempt] /\ attempt[a].msg \in Msgs
      /\ attempt[a] \in [pc : Busy, msg : Msgs, gateway : BOOLEAN, reply : BOOLEAN]
      /\ im \in [Msgs -> Kind \cup {"no"}]
  BY StepWorks, BusyAttempt DEF TypeOK
<1>1. \A n \in Msgs : im[n] # "no" => im'[n] # "no"
  BY ServerKeeps DEF Next
<1>2. ASSUME NEW n \in Msgs, rows'[n].status = "delivered"
      PROVE  im'[n] # "no"
  <2>1. CASE rows[n].status = "delivered"
    BY <1>1, <2>1 DEF Answered, DeliveredIsStored
  <2>2. CASE SettleTx(n) /\ n = attempt[a].msg /\ im[n] # "no"
    BY <1>1, <2>2
  <2>3. CASE SearchFound(a) \/ Complete(a)
    BY <1>0, <1>2, <2>1, <2>2, <2>3, OnlySettled DEF SearchFound, Complete, Answered
  <2>4. CASE MarkUncertain(a)
    BY <1>0, <1>2, <2>1, <2>4, OnlySettled DEF MarkUncertain
  <2>5. CASE Rollback(a)
    BY <1>0, <1>2, <2>1, <2>5, OnlySettled DEF Rollback
  <2>6. CASE UNCHANGED rows
    BY <1>2, <2>1, <2>6
  <2>7. QED
    BY <2>3, <2>4, <2>5, <2>6 DEF Step, SearchMissing, SearchError,
       SendAccepted, SendUnknown, SendRejected, ActivateReply
<1>3. ASSUME attempt'[a].pc = "complete"
      PROVE  im'[attempt'[a].msg] # "no"
  <2>1. SendAccepted(a)
    BY <1>0, <1>3 DEF Step, SearchFound, SearchMissing, SearchError,
       SendUnknown, SendRejected, Complete, MarkUncertain, Rollback,
       ActivateReply, AfterSend, Goto, Finish, Idle
  <2>2. attempt'[a].msg = attempt[a].msg
    BY <1>0, <2>1 DEF SendAccepted, Goto
  <2>3. QED BY <1>0, <2>1, <2>2 DEF SendAccepted, Store, KindOf
<1>4. QED BY <1>2, <1>3

LEMMA AnsweredNext ==
  ASSUME TypeOK, Answered, [Next]_vars
  PROVE  Answered'
<1>0. /\ attempt \in [Attempts -> Attempt] /\ im \in [Msgs -> Kind \cup {"no"}]
      /\ \A n \in Msgs : im[n] # "no" => im'[n] # "no"
      /\ \A b \in Attempts : attempt[b].pc # "idle" => attempt[b].msg \in Msgs
  BY ServerKeeps, BusyAttempt DEF TypeOK
\* The rows of a step that settles no other row than n, which is stored.
<1>1. ASSUME NEW n \in Msgs, im[n] # "no", NEW m \in Msgs,
             \/ SettleTx(n) \/ NoTx \/ UNCHANGED rows
             \/ ReserveTx(m) \/ ClaimTx(m)
             \/ rows' = [rows EXCEPT ![m].due = TRUE]
             \/ rows' = [rows EXCEPT ![m] = NoRow]
      PROVE  DeliveredIsStored'
  BY <1>0, <1>1, OnlySettled DEF Answered, DeliveredIsStored
<1>2. ASSUME NEW m \in Msgs,
             \/ NoTx \/ UNCHANGED rows
             \/ ReserveTx(m) \/ ClaimTx(m)
             \/ rows' = [rows EXCEPT ![m].due = TRUE]
             \/ rows' = [rows EXCEPT ![m] = NoRow]
      PROVE  DeliveredIsStored'
  BY <1>0, <1>2, OnlySettled DEF Answered, DeliveredIsStored
<1>3. ASSUME NEW b \in Attempts,
             attempt'[b].pc = "complete",
             attempt'[b] = attempt[b] \/ attempt'[b].pc \in {"search", "send", "activate", "idle"}
      PROVE  im'[attempt'[b].msg] # "no"
  BY <1>0, <1>3 DEF Answered
<1>4. ASSUME NEW a \in Attempts, NEW m \in Msgs, Prepare(a, m)
      PROVE  Answered'
  <2>1. DeliveredIsStored'
    BY <1>2, <1>4 DEF Prepare
  <2>2. \A b \in Attempts : \/ attempt'[b] = attempt[b]
                            \/ attempt'[b].pc \in {"search", "send", "activate", "idle"}
    BY <1>0, <1>4 DEF Prepare, Start
  <2>3. QED BY <1>3, <2>1, <2>2 DEF Answered
<1>5. ASSUME NEW a \in Attempts, Step(a)
      PROVE  Answered'
  <2>1. \A b \in Attempts \ {a} : attempt'[b] = attempt[b]
    BY <1>5, StepFrame
  <2>2. QED BY <1>3, <1>5, <2>1, AnsweredStep DEF Answered, DeliveredIsStored
<1>6. ASSUME NEW a \in Attempts, Crash(a)
      PROVE  Answered'
  <2>1. DeliveredIsStored'
    BY <1>0, <1>6 DEF Crash, Answered, DeliveredIsStored
  <2>2. \A b \in Attempts : attempt'[b] = attempt[b] \/ attempt'[b].pc = "idle"
    BY <1>0, <1>6 DEF Crash, Finish, Idle
  <2>3. QED BY <1>3, <2>1, <2>2 DEF Answered
<1>7. ASSUME NEW m \in Msgs, Webhook(m) \/ Elapse(m) \/ Cleanup(m)
      PROVE  Answered'
  <2>1. attempt' = attempt
    BY <1>7 DEF Webhook, Elapse, Cleanup
  <2>2. DeliveredIsStored'
    BY <1>1, <1>2, <1>7 DEF Webhook, Elapse, Cleanup
  <2>3. QED BY <1>3, <2>1, <2>2 DEF Answered
<1>8. CASE \/ \E m \in Msgs, k \in Kind : LateArrival(m, k)
           \/ \E u \in Users : DirectWebhook(u)
           \/ UNCHANGED vars
  <2>1. attempt' = attempt /\ rows' = rows
    BY <1>8 DEF LateArrival, DirectWebhook, vars
  <2>2. QED BY <1>0, <2>1 DEF Answered, DeliveredIsStored
<1>9. QED BY <1>4, <1>5, <1>6, <1>7, <1>8 DEF Next

\* A message that its sender is told is delivered was stored by the IM server,
\* however the answers were lost, repeated or late (completePartnerPendingMessage,
\* reconcilePartnerPendingMessage, the webhook).
THEOREM DeliveryIsReal == Spec => []DeliveredIsStored
<1>1. Init => Answered
  BY DEF Init, Answered, DeliveredIsStored, NoRow, Idle
<1>2. TypeOK /\ Answered /\ [Next]_vars => Answered'
  BY AnsweredNext
<1>3. Answered => DeliveredIsStored
  BY DEF Answered
<1>4. QED BY <1>1, <1>2, <1>3, TypeCorrect, PTL DEF Spec
=============================================================================
