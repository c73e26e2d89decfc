--------------------------- MODULE PartnersProofs ---------------------------
(***************************************************************************)
(* Theorems about modules/partners and the online status of modules/user:  *)
(* the greetings, for any workers and any number of greetings, where no    *)
(* two runs deliver the greeting of one sender at a time (Greeting), also  *)
(* beside the message gateway itself (PartnerPair); the                    *)
(* whitelists that follow the relation, for any channels and greetings,    *)
(* where no greeting takes the relation of another over                    *)
(* (PartnerPermissions); and who is online, in the rows, in                *)
(* partner_profiles and as friends were told, for any devices,             *)
(* connections, waiting notices and lapses (OnlineStatus).                 *)
(***************************************************************************)
EXTENDS PartnerPermissions, OnlineStatus, FiniteSetTheorems, TLAPS

-----------------------------------------------------------------------------
(***************************************************************************)
(* Greeting: the inductive invariant                                       *)
(***************************************************************************)
GreetRecord == [at : Nat, status : GreetStatus, done : BOOLEAN, due : BOOLEAN]
WorkerRecord ==
  [pc : Pc \cup {"idle"}, from : Users \cup {NoWorker}, at : Nat, run : Run]

Delivering ==
  {"ensure", "abandon", "search", "check", "remove", "add", "settle", "send",
   "sent", "unsure", "failed"}
\* Those that know that their message is not stored.
Unseen ==
  {"ensure", "abandon", "check", "remove", "add", "settle", "send", "failed"}
Sending == {"reserve", "record"}

\* A roll-back of the job may run beside a delivery to the same user.
JobRolls(r) == r.run = "job" /\ r.pc = "rollback"

\* A run that delivers works on the row as it is, and nobody has marked it.
Right(g, st, r) ==
  r.from \in Users /\ ~JobRolls(r) =>
    /\ r.pc \in Delivering => g[r.from].status = "unsure" /\ r.at = g[r.from].at
    /\ r.pc \in Unseen => <<r.from, r.at>> \notin st
    /\ r.pc \in Sending => g[r.from].status \in {"none", "failed"}

WorkersOK ==
  /\ worker \in [Workers -> WorkerRecord]
  /\ \A w \in Workers : worker[w].from \in Users <=> worker[w].pc # "idle"
  /\ \A w \in Workers : Right(greeting, stored, worker[w])

\* One run at a time for a sender, but for the job that rolls back.
OneRun ==
  \A v, w \in Workers :
    v # w /\ worker[v].from = worker[w].from /\ worker[v].from \in Users
      => JobRolls(worker[v]) \/ JobRolls(worker[w])

RowsOK ==
  /\ greeting \in [Users -> GreetRecord] /\ clock \in Nat
  /\ stored \subseteq Users \X (Nat \ {0})
  /\ \A u \in Users : /\ greeting[u].done => greeting[u].status = "failed"
                      /\ greeting[u].status = "none" <=> greeting[u].at = 0
                      /\ greeting[u].at <= clock

GreetInv == RowsOK /\ WorkersOK /\ OneRun /\ VisibleIsCurrent /\ FailedNotVisible

-----------------------------------------------------------------------------
(***************************************************************************)
(* Steps of a worker                                                       *)
(***************************************************************************)
LEMMA PcKinds ==
  /\ Delivering \subseteq Pc /\ Unseen \subseteq Delivering /\ Sending \subseteq Pc
  /\ {"look", "recover", "stats", "release", "rollback"} \subseteq Pc
  /\ \A pc \in {"idle", "look", "recover", "stats", "release", "rollback"} :
       pc \notin Delivering \cup Unseen \cup Sending
  /\ "idle" \notin Pc
  /\ \A pc \in Delivering : pc \notin Sending /\ pc # "rollback"
  /\ \A pc \in Sending : pc \notin Delivering \cup Unseen /\ pc # "rollback"
BY DEF Delivering, Unseen, Sending, Pc

LEMMA IdleIs ==
  /\ Idle \in WorkerRecord /\ Idle.pc = "idle" /\ Idle.from = NoWorker
  /\ NoWorker \notin Users
BY NoWorkerAssumption DEF Idle, WorkerRecord, Run

LEMMA WorkerIs ==
  ASSUME GreetInv, NEW w \in Workers
  PROVE  /\ worker[w] \in WorkerRecord /\ Right(greeting, stored, worker[w])
         /\ worker[w].from \in Users <=> worker[w].pc # "idle"
         /\ worker[w].at \in Nat /\ worker[w].run \in Run
BY DEF GreetInv, WorkersOK, WorkerRecord

\* The worker w becomes r, and the others stay.
Becomes(w, r) == worker' = [worker EXCEPT ![w] = r]

LEMMA BecomesIs ==
  ASSUME GreetInv, NEW w \in Workers, NEW r \in WorkerRecord, Becomes(w, r)
  PROVE  /\ worker' \in [Workers -> WorkerRecord] /\ worker'[w] = r
         /\ \A v \in Workers \ {w} : worker'[v] = worker[v]
BY DEF GreetInv, WorkersOK, Becomes

\* Who may go on beside the others: one that is done, that rolls back for the
\* job, that goes on with its greeting, or that has nobody beside it.
MayBe(w, r) ==
  \/ r.from \notin Users
  \/ JobRolls(r)
  \/ r.from = worker[w].from /\ ~JobRolls(worker[w])
  \/ \A v \in Workers : worker[v].from = r.from => JobRolls(worker[v])

LEMMA OneRunKept ==
  ASSUME GreetInv, NEW w \in Workers, NEW r \in WorkerRecord, Becomes(w, r), MayBe(w, r)
  PROVE  OneRun'
<1>1. /\ worker'[w] = r
      /\ \A v \in Workers \ {w} : worker'[v] = worker[v]
  BY BecomesIs
<1>2. ASSUME NEW v \in Workers, v # w, worker[v].from = r.from, r.from \in Users
      PROVE  JobRolls(worker[v]) \/ JobRolls(r)
  BY <1>2 DEF MayBe, GreetInv, OneRun
<1>3. ASSUME NEW v \in Workers, NEW x \in Workers, v # x,
             worker'[v].from = worker'[x].from, worker'[v].from \in Users
      PROVE  JobRolls(worker'[v]) \/ JobRolls(worker'[x])
  <2>1. CASE v = w
    BY <1>1, <1>2, <1>3, <2>1
  <2>2. CASE x = w
    BY <1>1, <1>2, <1>3, <2>2
  <2>3. CASE v # w /\ x # w
    BY <1>1, <1>3, <2>3 DEF GreetInv, OneRun
  <2>4. QED BY <2>1, <2>2, <2>3
<1>4. QED BY <1>3 DEF OneRun, JobRolls

\* A worker goes on, and no row changes.
LEMMA RunKept ==
  ASSUME GreetInv, NEW w \in Workers, NEW r \in WorkerRecord, Becomes(w, r),
         r.from \in Users <=> r.pc # "idle",
         MayBe(w, r), Right(greeting, stored, r), UNCHANGED <<greeting, stored, clock>>
  PROVE  GreetInv'
<1>1. /\ worker' \in [Workers -> WorkerRecord] /\ worker'[w] = r
      /\ \A v \in Workers \ {w} : worker'[v] = worker[v]
  BY BecomesIs
<1>2. WorkersOK'
  BY <1>1 DEF GreetInv, WorkersOK
<1>3. RowsOK' /\ VisibleIsCurrent' /\ FailedNotVisible'
  BY DEF GreetInv, RowsOK, VisibleIsCurrent, FailedNotVisible
<1>4. QED BY <1>2, <1>3, OneRunKept DEF GreetInv

\* A worker goes on to pc with its greeting.
LEMMA GotoKept ==
  ASSUME GreetInv, NEW w \in Workers, worker[w].pc # "idle", worker[w].pc # "rollback",
         NEW pc \in Pc, Goto(w, pc),
         pc \in Delivering => worker[w].pc \in Delivering,
         pc \in Unseen => <<worker[w].from, worker[w].at>> \notin stored,
         pc \in Sending => greeting[worker[w].from].status \in {"none", "failed"},
         UNCHANGED <<greeting, stored, clock>>
  PROVE  GreetInv'
<1> DEFINE r == [worker[w] EXCEPT !.pc = pc]
<1>1. /\ worker[w] \in WorkerRecord /\ Right(greeting, stored, worker[w])
      /\ worker[w].from \in Users
  BY WorkerIs
<1>2. /\ r \in WorkerRecord /\ r.pc = pc /\ r.from = worker[w].from
      /\ r.at = worker[w].at /\ r.run = worker[w].run
  BY <1>1 DEF WorkerRecord
<1>3. Becomes(w, r)
  BY DEF Goto, Becomes
<1> HIDE DEF r
<1>4. ~JobRolls(worker[w]) /\ pc # "idle"
  BY PcKinds DEF JobRolls
<1>5. MayBe(w, r)
  BY <1>2, <1>4 DEF MayBe
<1>6. Right(greeting, stored, r)
  BY <1>1, <1>2, <1>4 DEF Right
<1>7. r.from \in Users <=> r.pc # "idle"
  BY <1>1, <1>2, <1>4
<1>8. QED BY <1>2, <1>3, <1>5, <1>6, <1>7, RunKept

LEMMA FinishIs ==
  ASSUME GreetInv, NEW w \in Workers, Finish(w)
  PROVE  /\ Becomes(w, Idle) /\ Idle \in WorkerRecord
         /\ \A g, st : Right(g, st, Idle)
         /\ MayBe(w, Idle) /\ (Idle.from \in Users <=> Idle.pc # "idle")
BY IdleIs DEF Finish, Becomes, Right, MayBe

LEMMA FinishKept ==
  ASSUME GreetInv, NEW w \in Workers, Finish(w), UNCHANGED <<greeting, stored, clock>>
  PROVE  GreetInv'
BY FinishIs, RunKept

\* The run that has its sender to itself writes the row of it.
LEMMA RowKept ==
  ASSUME GreetInv, NEW w \in Workers, worker[w].pc # "idle", ~JobRolls(worker[w]),
         NEW r \in WorkerRecord, Becomes(w, r), MayBe(w, r),
         r.from \in Users <=> r.pc # "idle",
         NEW g \in GreetRecord,
         greeting' = [greeting EXCEPT ![worker[w].from] = g],
         g.done => g.status = "failed", g.status = "none" <=> g.at = 0,
         \A s \in stored : s[1] = worker[w].from => s[2] = g.at,
         g.status = "failed" => <<worker[w].from, g.at>> \notin stored,
         Right(greeting', stored, r), UNCHANGED stored,
         clock' \in Nat, clock <= clock', g.at <= clock'
  PROVE  GreetInv'
<1> DEFINE u == worker[w].from
<1>1. u \in Users
  BY WorkerIs
<1>2. /\ worker' \in [Workers -> WorkerRecord] /\ worker'[w] = r
      /\ \A v \in Workers \ {w} : worker'[v] = worker[v]
  BY BecomesIs
<1>3. greeting' \in [Users -> GreetRecord] /\ greeting'[u] = g
      /\ \A x \in Users \ {u} : greeting'[x] = greeting[x]
  BY <1>1 DEF GreetInv, RowsOK
<1>4. ASSUME NEW v \in Workers \ {w} PROVE Right(greeting', stored, worker[v])
  <2>1. Right(greeting, stored, worker[v])
    BY WorkerIs
  <2>2. CASE worker[v].from = u
    BY <1>1, <2>2 DEF GreetInv, OneRun, Right
  <2>3. CASE worker[v].from # u
    <3>1. worker[v].from \in Users => greeting'[worker[v].from] = greeting[worker[v].from]
      BY <1>3, <2>3
    <3>2. QED BY <2>1, <3>1 DEF Right
  <2>4. QED BY <2>2, <2>3
<1>5. WorkersOK'
  BY <1>2, <1>4 DEF GreetInv, WorkersOK
<1>6. RowsOK'
  <2>1. \A x \in Users : greeting[x].at \in Nat /\ greeting[x].at <= clock /\ clock \in Nat
    BY DEF GreetInv, RowsOK, GreetRecord
  <2>2. g.at \in Nat
    BY DEF GreetRecord
  <2>3. \A x \in Users : greeting'[x].at <= clock'
    BY <1>3, <2>1, <2>2
  <2>4. QED BY <1>1, <1>3, <2>3 DEF GreetInv, RowsOK
<1>7. VisibleIsCurrent'
  <2>1. \A s \in stored : s[1] \in Users /\ greeting[s[1]].at = s[2]
    BY DEF GreetInv, RowsOK, VisibleIsCurrent
  <2>2. QED BY <1>3, <2>1 DEF VisibleIsCurrent
<1>8. FailedNotVisible'
  BY <1>3 DEF GreetInv, FailedNotVisible
<1>9. QED BY <1>5, <1>6, <1>7, <1>8, OneRunKept DEF GreetInv

\* The marker of a row, or whether it is due, changes.
SameRows ==
  /\ greeting' \in [Users -> GreetRecord]
  /\ \A u \in Users : /\ greeting'[u].at = greeting[u].at
                      /\ greeting'[u].status = greeting[u].status
                      /\ greeting'[u].done => greeting[u].status = "failed"
  /\ UNCHANGED <<stored, clock>>

LEMMA SameRowsKeep ==
  ASSUME GreetInv, SameRows
  PROVE  /\ RowsOK' /\ VisibleIsCurrent' /\ FailedNotVisible'
         /\ \A r \in WorkerRecord : Right(greeting, stored, r) => Right(greeting', stored, r)
<1>1. RowsOK'
  BY DEF GreetInv, RowsOK, SameRows
<1>2. VisibleIsCurrent'
  <2>1. \A s \in stored : s[1] \in Users
    BY DEF GreetInv, RowsOK
  <2>2. QED BY <2>1 DEF GreetInv, VisibleIsCurrent, SameRows
<1>3. FailedNotVisible'
  BY DEF GreetInv, FailedNotVisible, SameRows
<1>4. \A r \in WorkerRecord : Right(greeting, stored, r) => Right(greeting', stored, r)
  BY DEF Right, SameRows
<1>5. QED BY <1>1, <1>2, <1>3, <1>4

LEMMA MarkerKept ==
  ASSUME GreetInv, SameRows, NEW w \in Workers, NEW r \in WorkerRecord, Becomes(w, r),
         MayBe(w, r), r.from \in Users <=> r.pc # "idle", Right(greeting, stored, r)
  PROVE  GreetInv'
<1>1. /\ worker' \in [Workers -> WorkerRecord] /\ worker'[w] = r
      /\ \A v \in Workers \ {w} : worker'[v] = worker[v]
  BY BecomesIs
<1>2. /\ RowsOK' /\ VisibleIsCurrent' /\ FailedNotVisible'
      /\ \A x \in WorkerRecord : Right(greeting, stored, x) => Right(greeting', stored, x)
  BY SameRowsKeep
<1>3. \A v \in Workers : Right(greeting', stored, worker'[v])
  <2>1. \A v \in Workers : worker[v] \in WorkerRecord /\ Right(greeting, stored, worker[v])
    BY WorkerIs
  <2>2. QED BY <1>1, <1>2, <2>1
<1>4. WorkersOK'
  BY <1>1, <1>3 DEF GreetInv, WorkersOK, SameRows
<1>5. QED BY <1>2, <1>4, OneRunKept DEF GreetInv

LEMMA RollbackTxIs ==
  ASSUME GreetInv, NEW u \in Users, NEW at, RollbackTx(u, at) \/ NoTx,
         UNCHANGED <<stored, clock>>
  PROVE  SameRows /\ \A x \in Users : greeting[x].done => greeting'[x].done
<1>1. greeting \in [Users -> GreetRecord]
  BY DEF GreetInv, RowsOK
<1>2. CASE UNCHANGED greeting
  BY <1>1, <1>2 DEF SameRows, GreetInv, RowsOK
<1>3. CASE Claimable(u, at) /\ greeting' = [greeting EXCEPT ![u].done = TRUE]
  <2> DEFINE g == [greeting[u] EXCEPT !.done = TRUE]
  <2>1. /\ g \in GreetRecord /\ g.at = greeting[u].at /\ g.status = greeting[u].status
        /\ g.done
    BY <1>1 DEF GreetRecord
  <2>2. greeting' = [greeting EXCEPT ![u] = g]
    BY <1>3
  <2> HIDE DEF g
  <2>3. /\ greeting' \in [Users -> GreetRecord] /\ greeting'[u] = g
        /\ \A x \in Users \ {u} : greeting'[x] = greeting[x]
    BY <1>1, <2>1, <2>2
  <2>4. greeting[u].status = "failed"
    BY <1>3 DEF Claimable
  <2>5. QED BY <2>1, <2>3, <2>4 DEF SameRows, GreetInv, RowsOK
<1>4. QED BY <1>2, <1>3 DEF RollbackTx, NoTx

\* A greeting is marked by the run that delivers it: its own row, which nobody
\* has rolled back.
LEMMA MarkIs ==
  ASSUME GreetInv, NEW w \in Workers, worker[w].pc \in Delivering,
         NEW status \in {"sent", "unsure", "failed"}, Mark(w, status)
  PROVE  LET u == worker[w].from IN
         /\ u \in Users /\ ~JobRolls(worker[w]) /\ ~greeting[u].done
         /\ \E g \in GreetRecord :
              /\ greeting' = [greeting EXCEPT ![u] = g]
              /\ g.at = greeting[u].at /\ g.at = worker[w].at
              /\ g.status = status /\ ~g.done
              /\ g.status # "none" /\ g.at # 0 /\ g.at <= clock
              /\ \A s \in stored : s[1] = u => s[2] = g.at
<1> DEFINE u == worker[w].from
<1>1. /\ u \in Users /\ Right(greeting, stored, worker[w])
      /\ ~JobRolls(worker[w])
  BY WorkerIs, PcKinds DEF JobRolls
<1>2. greeting[u].status = "unsure" /\ worker[w].at = greeting[u].at
  BY <1>1 DEF Right
<1>3. /\ greeting \in [Users -> GreetRecord] /\ greeting[u] \in GreetRecord
      /\ ~greeting[u].done /\ greeting[u].at # 0 /\ greeting[u].at <= clock
      /\ \A s \in stored : s[1] = u => s[2] = greeting[u].at
  BY <1>1, <1>2 DEF GreetInv, RowsOK, VisibleIsCurrent
<1> DEFINE h == [greeting[u] EXCEPT !.status = status, !.done = FALSE]
           g == [h EXCEPT !.due = FALSE]
<1>4. greeting' = [greeting EXCEPT ![u] = g]
  BY <1>1, <1>2, <1>3 DEF Mark
<1>5. h \in GreetRecord /\ h.at = greeting[u].at /\ h.status = status /\ ~h.done
  BY <1>3 DEF GreetRecord, GreetStatus
<1> HIDE DEF h
<1>6. g \in GreetRecord /\ g.at = greeting[u].at /\ g.status = status /\ ~g.done
  BY <1>5 DEF GreetRecord
<1> HIDE DEF g
<1>7. QED BY <1>1, <1>2, <1>3, <1>4, <1>6

\* After the mark the run delivers no more.
LEMMA MarkKept ==
  ASSUME GreetInv, NEW w \in Workers, worker[w].pc \in Delivering,
         NEW status \in {"sent", "unsure", "failed"}, Mark(w, status),
         status = "failed" => worker[w].pc \in Unseen,
         Finish(w) \/ Goto(w, "release") \/ Goto(w, "rollback"),
         UNCHANGED <<stored, clock>>
  PROVE  GreetInv'
<1> DEFINE u == worker[w].from
<1>1. u \in Users /\ ~JobRolls(worker[w])
  BY MarkIs
<1>2. PICK g \in GreetRecord :
        /\ greeting' = [greeting EXCEPT ![u] = g]
        /\ g.at = greeting[u].at /\ g.at = worker[w].at
        /\ g.status = status /\ ~g.done
        /\ g.status # "none" /\ g.at # 0 /\ g.at <= clock
        /\ \A s \in stored : s[1] = u => s[2] = g.at
  BY MarkIs
<1>3. g.status = "failed" => <<u, g.at>> \notin stored
  BY <1>1, <1>2, WorkerIs DEF Right
<1>4. worker[w].pc # "idle" /\ clock \in Nat
  BY PcKinds DEF GreetInv, RowsOK
<1>5. PICK r \in WorkerRecord :
        /\ Becomes(w, r) /\ MayBe(w, r) /\ (r.from \in Users <=> r.pc # "idle")
        /\ r.pc \in {"idle", "release", "rollback"}
  <2>1. CASE Finish(w)
    BY <2>1, FinishIs, IdleIs
  <2>2. ASSUME NEW pc \in {"release", "rollback"}, Goto(w, pc)
        PROVE  \E r \in WorkerRecord :
                 /\ Becomes(w, r) /\ MayBe(w, r) /\ (r.from \in Users <=> r.pc # "idle")
                 /\ r.pc \in {"idle", "release", "rollback"}
    <3> DEFINE r == [worker[w] EXCEPT !.pc = pc]
    <3>1. r \in WorkerRecord /\ r.pc = pc /\ r.from = u
      BY WorkerIs, PcKinds DEF WorkerRecord
    <3>2. Becomes(w, r)
      BY <2>2 DEF Goto, Becomes
    <3> HIDE DEF r
    <3>3. MayBe(w, r) /\ (r.from \in Users <=> r.pc # "idle")
      BY <1>1, <3>1 DEF MayBe
    <3>4. QED BY <3>1, <3>2, <3>3
  <2>3. QED BY <2>1, <2>2
<1>6. Right(greeting', stored, r)
  BY <1>5, PcKinds DEF Right
<1>7. /\ g.done => g.status = "failed"
      /\ g.status = "none" <=> g.at = 0
  BY <1>2
<1>8. clock' \in Nat /\ clock <= clock' /\ g.at <= clock' /\ stored' = stored
  BY <1>2, <1>4
<1>9. greeting' = [greeting EXCEPT ![worker[w].from] = g]
  BY <1>2
<1>10. \A s \in stored : s[1] = worker[w].from => s[2] = g.at
  BY <1>2
<1>11. r \in WorkerRecord /\ Becomes(w, r) /\ MayBe(w, r) /\ (r.from \in Users <=> r.pc # "idle")
  BY <1>5
<1>12. QED BY <1>1, <1>3, <1>4, <1>6, <1>7, <1>8, <1>9, <1>10, <1>11, RowKept

\* A run that keeps its sender, or begins with it alone, becomes r.
LEMMA BecomesKept ==
  ASSUME GreetInv, NEW w \in Workers, NEW r \in WorkerRecord, Becomes(w, r),
         r.from \in Users, r.pc \in Pc, MayBe(w, r), Right(greeting, stored, r),
         UNCHANGED <<greeting, stored, clock>>
  PROVE  GreetInv'
BY PcKinds, RunKept

-----------------------------------------------------------------------------
(***************************************************************************)
(* The steps of RecordGreeting                                             *)
(***************************************************************************)
LEMMA GreetKept ==
  ASSUME GreetInv, ~Overlap, NEW w \in Workers, NEW u \in Users, Greet(w, u)
  PROVE  GreetInv'
<1> DEFINE pc == IF contact.status = "none" THEN "stats" ELSE "look"
           r == [pc |-> pc, from |-> u, at |-> 0, run |-> "request"]
<1>1. Becomes(w, r) /\ UNCHANGED <<greeting, stored, clock>> /\ Alone(u)
  BY DEF Greet, Becomes
<1>2. pc \in {"stats", "look"}
  OBVIOUS
<1> HIDE DEF pc
<1>3. pc \in Pc /\ pc \notin Delivering \cup Unseen \cup Sending
  BY <1>2, PcKinds
<1>4. r \in WorkerRecord /\ r.pc = pc /\ r.from = u
  BY <1>3 DEF WorkerRecord, Run
<1> HIDE DEF r
<1>5. MayBe(w, r)
  BY <1>1, <1>4 DEF MayBe, Alone, JobRolls
<1>6. Right(greeting, stored, r)
  BY <1>3, <1>4 DEF Right
<1>7. QED BY <1>1, <1>3, <1>4, <1>5, <1>6, BecomesKept

LEMMA LookKept ==
  ASSUME GreetInv, NEW w \in Workers, Look(w)
  PROVE  GreetInv'
<1> DEFINE u == worker[w].from
<1>1. /\ worker[w].pc = "look" /\ worker[w] \in WorkerRecord /\ u \in Users
      /\ UNCHANGED <<greeting, stored, clock>>
  BY WorkerIs DEF Look
<1>2. greeting[u].at \in Nat /\ ~JobRolls(worker[w])
  BY <1>1 DEF GreetInv, RowsOK, GreetRecord, JobRolls
<1>3. CASE /\ greeting[u].status = "failed"
           /\ worker' = [worker EXCEPT ![w].pc = "recover", ![w].at = greeting[u].at]
  <2> DEFINE r == [worker[w] EXCEPT !.pc = "recover", !.at = greeting[u].at]
  <2>1. r \in WorkerRecord /\ r.pc = "recover" /\ r.from = u
    BY <1>1, <1>2, PcKinds DEF WorkerRecord
  <2>2. Becomes(w, r)
    BY <1>1, <1>3 DEF Becomes, GreetInv, WorkersOK
  <2> HIDE DEF r
  <2>3. MayBe(w, r)
    BY <1>2, <2>1 DEF MayBe
  <2>4. r.pc \notin Delivering /\ r.pc \notin Unseen /\ r.pc \notin Sending
    BY <2>1, PcKinds
  <2>5. Right(greeting, stored, r)
    BY <2>4 DEF Right
  <2>6. QED BY <1>1, <2>1, <2>2, <2>3, <2>5, PcKinds, BecomesKept
<1>4. CASE /\ greeting[u].status = "unsure"
           /\ worker' = [worker EXCEPT ![w].pc = "search", ![w].at = greeting[u].at,
                                       ![w].run = "retry"]
  <2> DEFINE h == [worker[w] EXCEPT !.pc = "search", !.at = greeting[u].at]
             r == [h EXCEPT !.run = "retry"]
  <2>1. Becomes(w, r)
    BY <1>1, <1>4 DEF Becomes, GreetInv, WorkersOK
  <2>2. /\ h \in WorkerRecord /\ h.pc = "search" /\ h.from = u
        /\ h.at = greeting[u].at
    BY <1>1, <1>2 DEF WorkerRecord, Pc
  <2> HIDE DEF h
  <2>3. /\ r \in WorkerRecord /\ r.pc = "search" /\ r.from = u
        /\ r.at = greeting[u].at
    BY <2>2 DEF WorkerRecord, Run
  <2> HIDE DEF r
  <2>4. MayBe(w, r)
    BY <1>2, <2>3 DEF MayBe
  <2>5. r.pc \in Pc /\ r.pc \notin Unseen /\ r.pc \notin Sending
    BY <2>3 DEF Unseen, Sending, Pc
  <2>6. Right(greeting, stored, r)
    BY <1>4, <2>3, <2>5 DEF Right
  <2>7. QED BY <1>1, <2>1, <2>3, <2>4, <2>5, <2>6, BecomesKept
<1>5. CASE Finish(w)
  BY <1>1, <1>5, FinishKept
<1>6. QED BY <1>3, <1>4, <1>5 DEF Look

\* The pc a run leaves with Goto.
LEMMA PcNow ==
  ASSUME NEW pc \in {"look", "stats", "reserve", "record", "release", "recover"}
  PROVE  pc # "idle" /\ pc # "rollback" /\ pc \notin Delivering
BY DEF Delivering

LEMMA StatsKept ==
  ASSUME GreetInv, NEW w \in Workers, Stats(w)
  PROVE  GreetInv'
<1>1. worker[w].pc = "stats" /\ UNCHANGED <<greeting, stored, clock>>
  BY DEF Stats
<1>2. CASE greeting[worker[w].from].status \in {"none", "failed"} /\ Goto(w, "reserve")
  <2>1. "reserve" \in Pc /\ "reserve" \notin Delivering /\ "reserve" \notin Unseen
    BY DEF Pc, Delivering, Unseen
  <2>2. QED BY <1>1, <1>2, <2>1, GotoKept
<1>3. QED BY <1>1, <1>2, FinishKept DEF Stats

LEMMA ReserveKept ==
  ASSUME GreetInv, NEW w \in Workers, Reserve(w)
  PROVE  GreetInv'
<1>1. worker[w].pc = "reserve" /\ UNCHANGED <<greeting, stored, clock>>
  BY DEF Reserve
<1>2. CASE Goto(w, "record")
  <2>1. "record" \in Pc /\ "record" \notin Delivering /\ "record" \notin Unseen
    BY DEF Pc, Delivering, Unseen
  <2>2. greeting[worker[w].from].status \in {"none", "failed"}
    <3>1. "reserve" \in Sending /\ ~JobRolls(worker[w])
      BY <1>1 DEF Sending, JobRolls
    <3>2. worker[w].from \in Users /\ Right(greeting, stored, worker[w])
      BY <1>1, WorkerIs
    <3>3. QED BY <1>1, <3>1, <3>2 DEF Right
  <2>3. QED BY <1>1, <1>2, <2>1, <2>2, GotoKept
<1>3. QED BY <1>1, <1>2, FinishKept DEF Reserve

\* Nothing is stored of a user whose row is empty or failed.
LEMMA NothingStored ==
  ASSUME GreetInv, NEW u \in Users, greeting[u].status \in {"none", "failed"}
  PROVE  \A s \in stored : s[1] # u
<1>1. SUFFICES ASSUME NEW s \in stored, s[1] = u PROVE FALSE
  OBVIOUS
<1>2. s = <<s[1], s[2]>> /\ s[2] # 0
  BY DEF GreetInv, RowsOK
<1>3. greeting[u].at = s[2]
  BY <1>1 DEF GreetInv, VisibleIsCurrent
<1>4. <<u, greeting[u].at>> \in stored
  BY <1>1, <1>2, <1>3
<1>5. QED BY <1>2, <1>3, <1>4 DEF GreetInv, RowsOK, FailedNotVisible

LEMMA RecordKept ==
  ASSUME GreetInv, NEW w \in Workers, Record(w)
  PROVE  GreetInv'
<1> DEFINE u == worker[w].from
<1>1. /\ worker[w].pc = "record" /\ worker[w] \in WorkerRecord /\ u \in Users
      /\ UNCHANGED stored /\ clock \in Nat
  BY WorkerIs DEF Record, GreetInv, RowsOK
<1>2. "record" \in Sending /\ ~JobRolls(worker[w])
  BY <1>1 DEF Sending, JobRolls
<1>3. greeting[u].status \in {"none", "failed"}
  BY <1>1, <1>2, WorkerIs DEF Right
<1>4. \A s \in stored : s[1] # u
  BY <1>1, <1>3, NothingStored
<1>5. "release" \in Pc /\ "release" \notin Delivering /\ "release" \notin Unseen
      /\ "release" \notin Sending
  BY PcKinds
<1>6. CASE UNCHANGED <<greeting, clock>> /\ Goto(w, "release")
  BY <1>1, <1>5, <1>6, GotoKept
<1>7. CASE /\ clock' = clock + 1
           /\ greeting' = [greeting EXCEPT ![u] =
                [NoGreeting EXCEPT !.at = clock', !.status = "unsure"]]
           /\ \/ worker' = [worker EXCEPT ![w].pc = "ensure", ![w].at = clock']
              \/ Goto(w, "release")
  <2> DEFINE t == clock + 1
             g == [NoGreeting EXCEPT !.at = t, !.status = "unsure"]
  <2>1. t \in Nat /\ t # 0 /\ clock' = t /\ clock <= t
    BY <1>1, <1>7
  <2>2. greeting' = [greeting EXCEPT ![u] = g]
    BY <1>7
  <2>3. g \in GreetRecord /\ g.at = t /\ g.status = "unsure" /\ ~g.done
    BY <2>1 DEF GreetRecord, GreetStatus, NoGreeting
  <2> HIDE DEF g
  <2>4. greeting'[u] = g
    BY <1>1, <2>2 DEF GreetInv, RowsOK
  <2>5. PICK r \in WorkerRecord :
          /\ Becomes(w, r) /\ r.from = u
          /\ r.pc = "release" \/ (r.pc = "ensure" /\ r.at = t)
    <3>1. CASE Goto(w, "release")
      <4> DEFINE r == [worker[w] EXCEPT !.pc = "release"]
      <4>1. r \in WorkerRecord /\ r.pc = "release" /\ r.from = u
        BY <1>1, <1>5 DEF WorkerRecord
      <4>2. Becomes(w, r)
        BY <3>1 DEF Goto, Becomes
      <4> HIDE DEF r
      <4>3. QED BY <4>1, <4>2
    <3>2. CASE worker' = [worker EXCEPT ![w].pc = "ensure", ![w].at = clock']
      <4> DEFINE r == [worker[w] EXCEPT !.pc = "ensure", !.at = t]
      <4>1. r \in WorkerRecord /\ r.pc = "ensure" /\ r.from = u /\ r.at = t
        BY <1>1, <2>1 DEF WorkerRecord, Pc
      <4>2. Becomes(w, r)
        BY <1>1, <2>1, <3>2 DEF Becomes, GreetInv, WorkersOK
      <4> HIDE DEF r
      <4>3. QED BY <4>1, <4>2
    <3>3. QED BY <1>7, <3>1, <3>2
  <2>6. MayBe(w, r) /\ r.pc # "idle" /\ r.from \in Users
    BY <1>1, <1>2, <2>5 DEF MayBe
  <2>7. "ensure" \notin Sending /\ <<u, t>> \notin stored
    BY <1>4 DEF Sending
  <2>8. Right(greeting', stored, r)
    <3>1. CASE r.pc = "release"
      BY <1>5, <3>1 DEF Right
    <3>2. CASE r.pc = "ensure" /\ r.at = t
      BY <2>3, <2>4, <2>5, <2>7, <3>2 DEF Right
    <3>3. QED BY <2>5, <3>1, <3>2
  <2>9. /\ g.done => g.status = "failed"
        /\ g.status = "none" <=> g.at = 0
        /\ g.status = "failed" => <<u, g.at>> \notin stored
        /\ clock' \in Nat /\ clock <= clock' /\ g.at <= clock'
    BY <2>1, <2>3
  <2>10. worker[w].pc # "idle" /\ (\A s \in stored : s[1] = u => s[2] = g.at)
    BY <1>1, <1>4
  <2>11. QED BY <1>1, <1>2, <2>2, <2>3, <2>5, <2>6, <2>8, <2>9, <2>10, RowKept
<1>8. QED BY <1>6, <1>7 DEF Record

LEMMA EnsureKept ==
  ASSUME GreetInv, NEW w \in Workers, Ensure(w)
  PROVE  GreetInv'
<1>1. /\ worker[w].pc = "ensure" /\ UNCHANGED <<greeting, stored, clock>>
      /\ Goto(w, "search") \/ Goto(w, "abandon")
  BY DEF Ensure
<1>2. /\ "ensure" \in Delivering /\ "ensure" \in Unseen
      /\ \A pc \in {"search", "abandon"} : pc \in Pc /\ pc \notin Sending
      /\ "search" \notin Unseen
  BY DEF Delivering, Unseen, Sending, Pc
<1>3. <<worker[w].from, worker[w].at>> \notin stored
  <2>1. ~JobRolls(worker[w])
    BY <1>1 DEF JobRolls
  <2>2. QED BY <1>1, <1>2, <2>1, WorkerIs DEF Right
<1>4. QED BY <1>1, <1>2, <1>3, GotoKept

LEMMA AbandonKept ==
  ASSUME GreetInv, NEW w \in Workers, Abandon(w)
  PROVE  GreetInv'
<1>1. /\ worker[w].pc = "abandon" /\ Goto(w, "release") /\ UNCHANGED <<stored, clock>>
      /\ Mark(w, "failed") \/ UNCHANGED greeting
  BY DEF Abandon
<1>2. "abandon" \in Delivering /\ "abandon" \in Unseen
  BY DEF Delivering, Unseen
<1>3. CASE Mark(w, "failed")
  BY <1>1, <1>2, <1>3, MarkKept
<1>4. CASE UNCHANGED greeting
  BY <1>1, <1>4, PcKinds, GotoKept
<1>5. QED BY <1>1, <1>3, <1>4

LEMMA ReleaseKept ==
  ASSUME GreetInv, NEW w \in Workers, Release(w)
  PROVE  GreetInv'
BY FinishKept DEF Release

-----------------------------------------------------------------------------
(***************************************************************************)
(* The steps of a delivery                                                 *)
(***************************************************************************)

\* A delivery goes on; it leaves the message alone unless it still knows that
\* the message is not stored.
LEMMA DeliveryGoesOn ==
  ASSUME GreetInv, NEW w \in Workers, worker[w].pc \in Delivering,
         NEW pc \in Delivering, Goto(w, pc),
         pc \in Unseen => (worker[w].pc \in Unseen \/ Sent(w) \notin stored),
         UNCHANGED <<greeting, stored, clock>>
  PROVE  GreetInv'
<1>1. /\ worker[w].pc # "idle" /\ worker[w].pc # "rollback"
      /\ pc \in Pc /\ pc \notin Sending
  BY PcKinds
<1>2. worker[w].from \in Users /\ ~JobRolls(worker[w])
  BY <1>1, WorkerIs DEF JobRolls
<1>3. pc \in Unseen => <<worker[w].from, worker[w].at>> \notin stored
  BY <1>2, WorkerIs DEF Right, Sent
<1>4. QED BY <1>1, <1>3, GotoKept

LEMMA DeliveryPcs ==
  /\ {"search", "check", "remove", "add", "settle", "send", "sent", "unsure", "failed"}
       \subseteq Delivering
  /\ {"check", "remove", "add", "settle", "send", "failed"} \subseteq Unseen
  /\ "sent" \notin Unseen /\ "unsure" \notin Unseen
BY DEF Delivering, Unseen

LEMMA SearchKept ==
  ASSUME GreetInv, NEW w \in Workers, Search(w)
  PROVE  GreetInv'
<1>1. worker[w].pc = "search" /\ UNCHANGED <<greeting, stored, clock>>
  BY DEF Search
<1>2. CASE Goto(w, "unsure")
  BY <1>1, <1>2, DeliveryPcs, DeliveryGoesOn
<1>3. CASE Sent(w) \in stored /\ Goto(w, "sent")
  BY <1>1, <1>3, DeliveryPcs, DeliveryGoesOn
<1>4. CASE Sent(w) \notin stored /\ Goto(w, "check")
  BY <1>1, <1>4, DeliveryPcs, DeliveryGoesOn
<1>5. QED BY <1>2, <1>3, <1>4 DEF Search

LEMMA CheckKept ==
  ASSUME GreetInv, NEW w \in Workers, Check(w)
  PROVE  GreetInv'
<1>1. worker[w].pc = "check" /\ UNCHANGED <<greeting, stored, clock>>
  BY DEF Check
<1>2. Goto(w, "remove") \/ Goto(w, "failed") \/ Goto(w, "unsure")
  BY DEF Check
<1>3. QED BY <1>1, <1>2, DeliveryPcs, DeliveryGoesOn

LEMMA PermissionsKept ==
  ASSUME GreetInv, NEW w \in Workers, RemoveSender(w) \/ AddReceiver(w) \/ Settle(w)
  PROVE  GreetInv'
<1>1. UNCHANGED <<greeting, stored, clock>>
  BY DEF RemoveSender, AddReceiver, Settle
<1>2. /\ worker[w].pc \in {"remove", "add", "settle"}
      /\ \E pc \in {"add", "settle", "send", "unsure"} : Goto(w, pc)
  BY DEF RemoveSender, AddReceiver, Settle
<1>3. QED BY <1>1, <1>2, DeliveryPcs, DeliveryGoesOn

\* The server stores the message of the row as it is.
LEMMA StoreKept ==
  ASSUME GreetInv, NEW w \in Workers, worker[w].pc = "send",
         NEW pc \in {"sent", "unsure"}, Goto(w, pc),
         stored' = stored \cup {Sent(w)}, UNCHANGED <<greeting, clock>>
  PROVE  GreetInv'
<1> DEFINE u == worker[w].from
           r == [worker[w] EXCEPT !.pc = pc]
<1>1. /\ u \in Users /\ ~JobRolls(worker[w]) /\ worker[w] \in WorkerRecord
      /\ Right(greeting, stored, worker[w])
  BY WorkerIs DEF JobRolls
<1>2. greeting[u].status = "unsure" /\ worker[w].at = greeting[u].at
  BY <1>1, DeliveryPcs DEF Right
<1>3. greeting[u].at \in Nat \ {0}
  BY <1>1, <1>2 DEF GreetInv, RowsOK, GreetRecord
<1>4. r \in WorkerRecord /\ r.pc = pc /\ r.from = u /\ r.at = worker[w].at
  BY <1>1, PcKinds, DeliveryPcs DEF WorkerRecord
<1>5. Becomes(w, r)
  BY DEF Goto, Becomes
<1> HIDE DEF r
<1>6. MayBe(w, r)
  BY <1>1, <1>4 DEF MayBe
<1>7. OneRun'
  BY <1>4, <1>5, <1>6, OneRunKept
<1>8. /\ worker' \in [Workers -> WorkerRecord] /\ worker'[w] = r
      /\ \A v \in Workers \ {w} : worker'[v] = worker[v]
  BY <1>4, <1>5, BecomesIs
<1>9. Right(greeting, stored', r)
  BY <1>2, <1>4, DeliveryPcs, PcKinds DEF Right
<1>10. ASSUME NEW v \in Workers \ {w} PROVE Right(greeting, stored', worker[v])
  <2>1. Right(greeting, stored, worker[v])
    BY WorkerIs
  <2>2. CASE worker[v].from = u
    BY <1>1, <2>2 DEF GreetInv, OneRun, Right
  <2>3. CASE worker[v].from # u
    BY <2>1, <2>3 DEF Right, Sent
  <2>4. QED BY <2>2, <2>3
<1>11. \A v \in Workers : worker'[v].from \in Users <=> worker'[v].pc # "idle"
  BY <1>1, <1>4, <1>8 DEF GreetInv, WorkersOK
<1>12. \A v \in Workers : Right(greeting, stored', worker'[v])
  BY <1>8, <1>9, <1>10
<1>13. WorkersOK'
  BY <1>8, <1>11, <1>12 DEF WorkersOK
<1>14. RowsOK'
  BY <1>1, <1>2, <1>3 DEF GreetInv, RowsOK, Sent
<1>15. VisibleIsCurrent' /\ FailedNotVisible'
  BY <1>1, <1>2 DEF GreetInv, VisibleIsCurrent, FailedNotVisible, Sent
<1>16. QED BY <1>7, <1>13, <1>14, <1>15 DEF GreetInv

LEMMA SendKept ==
  ASSUME GreetInv, NEW w \in Workers, Send(w)
  PROVE  GreetInv'
<1>1. worker[w].pc = "send" /\ UNCHANGED <<greeting, clock>>
  BY DEF Send
<1>2. CASE stored' = stored \cup {Sent(w)} /\ (Goto(w, "sent") \/ Goto(w, "unsure"))
  BY <1>1, <1>2, StoreKept
<1>3. CASE stored' = stored /\ (Goto(w, "unsure") \/ Goto(w, "failed"))
  BY <1>1, <1>3, DeliveryPcs, DeliveryGoesOn
<1>4. QED BY <1>2, <1>3 DEF Send

LEMMA MarkSentKept ==
  ASSUME GreetInv, NEW w \in Workers, MarkSent(w)
  PROVE  GreetInv'
<1>1. worker[w].pc = "sent" /\ Finish(w) /\ UNCHANGED <<stored, clock>>
  BY DEF MarkSent
<1>2. CASE Mark(w, "sent")
  BY <1>1, <1>2, DeliveryPcs, MarkKept
<1>3. QED BY <1>1, <1>2, FinishKept DEF MarkSent

LEMMA MarkUnsureKept ==
  ASSUME GreetInv, NEW w \in Workers, MarkUnsure(w)
  PROVE  GreetInv'
<1>1. worker[w].pc = "unsure" /\ Finish(w) /\ UNCHANGED <<stored, clock>>
  BY DEF MarkUnsure
<1>2. CASE Mark(w, "unsure")
  BY <1>1, <1>2, DeliveryPcs, MarkKept
<1>3. QED BY <1>1, <1>2, FinishKept DEF MarkUnsure

LEMMA MarkFailedKept ==
  ASSUME GreetInv, NEW w \in Workers, MarkFailed(w)
  PROVE  GreetInv'
<1>1. worker[w].pc = "failed" /\ UNCHANGED <<stored, clock>>
  BY DEF MarkFailed
<1>2. CASE Mark(w, "failed") /\ (Goto(w, "rollback") \/ Finish(w))
  BY <1>1, <1>2, DeliveryPcs, MarkKept
<1>3. CASE UNCHANGED greeting /\ Finish(w)
  BY <1>1, <1>3, FinishKept
<1>4. QED BY <1>2, <1>3 DEF MarkFailed

-----------------------------------------------------------------------------
(***************************************************************************)
(* The roll-back, the job and the rest                                     *)
(***************************************************************************)
LEMMA RollbackKept ==
  ASSUME GreetInv, NEW w \in Workers, Rollback(w)
  PROVE  GreetInv'
<1>1. worker[w].from \in Users
  BY WorkerIs DEF Rollback
<1>2. SameRows
  BY <1>1, RollbackTxIs DEF Rollback
<1>3. Finish(w)
  BY DEF Rollback
<1>4. QED BY <1>2, <1>3, FinishIs, MarkerKept

LEMMA RecoverKept ==
  ASSUME GreetInv, NEW w \in Workers, Recover(w)
  PROVE  GreetInv'
<1> DEFINE u == worker[w].from
           r == [worker[w] EXCEPT !.pc = "stats"]
<1>1. /\ worker[w].pc = "recover" /\ u \in Users /\ worker[w] \in WorkerRecord
      /\ ~JobRolls(worker[w])
  BY WorkerIs DEF Recover, JobRolls
<1>2. SameRows
  BY <1>1, RollbackTxIs DEF Recover
<1>3. CASE Finish(w)
  BY <1>2, <1>3, FinishIs, MarkerKept
<1>4. CASE Goto(w, "stats")
  <2>1. r \in WorkerRecord /\ r.pc = "stats" /\ r.from = u
    BY <1>1, PcKinds DEF WorkerRecord
  <2>2. Becomes(w, r)
    BY <1>4 DEF Goto, Becomes
  <2> HIDE DEF r
  <2>3. MayBe(w, r)
    BY <1>1, <2>1 DEF MayBe
  <2>4. Right(greeting, stored, r)
    BY <2>1, PcKinds DEF Right
  <2>5. QED BY <1>1, <1>2, <2>1, <2>2, <2>3, <2>4, MarkerKept
<1>5. QED BY <1>3, <1>4 DEF Recover

LEMMA JobTakesIs ==
  ASSUME GreetInv, NEW w \in Workers, NEW u \in Users, NEW pc \in Pc, JobTakes(w, u, pc)
  PROVE  \E r \in WorkerRecord :
           /\ Becomes(w, r) /\ r.pc = pc /\ r.from = u /\ r.run = "job"
           /\ r.at = greeting[u].at
<1> DEFINE r == [pc |-> pc, from |-> u, at |-> greeting[u].at, run |-> "job"]
<1>1. greeting[u].at \in Nat
  BY DEF GreetInv, RowsOK, GreetRecord
<1>2. /\ r \in WorkerRecord /\ r.pc = pc /\ r.from = u /\ r.run = "job"
      /\ r.at = greeting[u].at
  BY <1>1 DEF WorkerRecord, Run
<1>3. Becomes(w, r)
  BY DEF JobTakes, Becomes
<1> HIDE DEF r
<1>4. QED BY <1>2, <1>3

LEMMA JobRollbackKept ==
  ASSUME GreetInv, NEW w \in Workers, NEW u \in Users, JobRollback(w, u)
  PROVE  GreetInv'
<1>1. "rollback" \in Pc /\ UNCHANGED <<greeting, stored, clock>>
  BY PcKinds DEF JobRollback, JobTakes
<1>2. PICK r \in WorkerRecord :
        Becomes(w, r) /\ r.pc = "rollback" /\ r.from = u /\ r.run = "job"
  BY <1>1, JobTakesIs DEF JobRollback
<1>3. JobRolls(r)
  BY <1>2 DEF JobRolls
<1>4. MayBe(w, r) /\ Right(greeting, stored, r)
  BY <1>3 DEF MayBe, Right
<1>5. QED BY <1>1, <1>2, <1>4, BecomesKept

LEMMA JobDeliverKept ==
  ASSUME GreetInv, ~Overlap, NEW w \in Workers, NEW u \in Users, JobDeliver(w, u)
  PROVE  GreetInv'
<1>1. /\ "search" \in Pc /\ "search" \notin Unseen /\ "search" \notin Sending
      /\ UNCHANGED <<greeting, stored, clock>>
  BY DEF Pc, Unseen, Sending, JobDeliver, JobTakes
<1>2. PICK r \in WorkerRecord :
        /\ Becomes(w, r) /\ r.pc = "search" /\ r.from = u /\ r.run = "job"
        /\ r.at = greeting[u].at
  BY <1>1, JobTakesIs DEF JobDeliver
<1>3. Alone(u) /\ greeting[u].status = "unsure"
  BY DEF JobDeliver
<1>4. MayBe(w, r)
  BY <1>2, <1>3 DEF MayBe, Alone, JobRolls
<1>5. Right(greeting, stored, r)
  BY <1>1, <1>2, <1>3 DEF Right
<1>6. QED BY <1>1, <1>2, <1>4, <1>5, BecomesKept

LEMMA ElapseIs ==
  ASSUME GreetInv, NEW u \in Users, Elapse(u)
  PROVE  SameRows /\ \A x \in Users : greeting[x].done => greeting'[x].done
<1> DEFINE g == [greeting[u] EXCEPT !.due = TRUE]
<1>1. greeting \in [Users -> GreetRecord]
  BY DEF GreetInv, RowsOK
<1>2. /\ g \in GreetRecord /\ g.at = greeting[u].at /\ g.status = greeting[u].status
      /\ g.done = greeting[u].done
  BY <1>1 DEF GreetRecord
<1>3. greeting' = [greeting EXCEPT ![u] = g] /\ UNCHANGED <<stored, clock>>
  BY DEF Elapse
<1> HIDE DEF g
<1>4. /\ greeting' \in [Users -> GreetRecord] /\ greeting'[u] = g
      /\ \A x \in Users \ {u} : greeting'[x] = greeting[x]
  BY <1>1, <1>2, <1>3
<1>5. QED BY <1>2, <1>3, <1>4 DEF SameRows, GreetInv, RowsOK

LEMMA ElapseKept ==
  ASSUME GreetInv, NEW u \in Users, Elapse(u)
  PROVE  GreetInv'
<1>1. SameRows /\ worker' = worker
  BY ElapseIs DEF Elapse
<1>2. /\ RowsOK' /\ VisibleIsCurrent' /\ FailedNotVisible'
      /\ \A x \in WorkerRecord : Right(greeting, stored, x) => Right(greeting', stored, x)
  BY <1>1, SameRowsKeep
<1>3. WorkersOK' /\ OneRun'
  BY <1>1, <1>2 DEF GreetInv, WorkersOK, OneRun, SameRows
<1>4. QED BY <1>2, <1>3 DEF GreetInv

LEMMA StutterKept ==
  ASSUME GreetInv, UNCHANGED <<greeting, stored, worker, clock>>
  PROVE  GreetInv'
BY DEF GreetInv, RowsOK, WorkersOK, OneRun, VisibleIsCurrent, FailedNotVisible

-----------------------------------------------------------------------------
LEMMA InitGreetInv == Init => GreetInv
<1> SUFFICES ASSUME Init PROVE GreetInv
  OBVIOUS
<1>1. NoGreeting \in GreetRecord /\ NoGreeting.at = 0 /\ NoGreeting.status = "none"
      /\ ~NoGreeting.done
  BY DEF NoGreeting, GreetRecord, GreetStatus
<1>2. \A g, st : Right(g, st, Idle)
  BY IdleIs DEF Right
<1>3. QED
  BY <1>1, <1>2, IdleIs
     DEF Init, GreetInv, RowsOK, WorkersOK, OneRun, VisibleIsCurrent, FailedNotVisible

LEMMA NextGreetInv ==
  ASSUME GreetInv, ~Overlap, [Next]_vars
  PROVE  GreetInv'
<1>1. CASE UNCHANGED vars
  BY <1>1, StutterKept DEF vars
<1>2. ASSUME NEW u \in Users, Counting(u) \/ DirectMessage(u) \/ Reply(u)
      PROVE  GreetInv'
  BY <1>2, StutterKept DEF Counting, DirectMessage, Reply, Elsewhere
<1>3. ASSUME NEW u \in Users, Elapse(u) PROVE GreetInv'
  BY <1>3, ElapseKept
<1>4. ASSUME NEW w \in Workers, Crash(w) PROVE GreetInv'
  BY <1>4, FinishKept DEF Crash
<1>5. ASSUME NEW w \in Workers, NEW u \in Users, Begin(w, u) PROVE GreetInv'
  BY <1>5, GreetKept, JobRollbackKept, JobDeliverKept DEF Begin
<1>6. ASSUME NEW w \in Workers, WorkerStep(w) PROVE GreetInv'
  <2>1. CASE Look(w) \/ Stats(w) \/ Reserve(w) \/ Record(w) \/ Ensure(w) \/ Abandon(w)
             \/ Release(w)
    BY <2>1, LookKept, StatsKept, ReserveKept, RecordKept, EnsureKept, AbandonKept,
       ReleaseKept
  <2>2. CASE Search(w) \/ Check(w) \/ RemoveSender(w) \/ AddReceiver(w) \/ Settle(w)
             \/ Send(w)
    BY <2>2, SearchKept, CheckKept, PermissionsKept, SendKept
  <2>3. CASE MarkSent(w) \/ MarkUnsure(w) \/ MarkFailed(w) \/ Rollback(w) \/ Recover(w)
    BY <2>3, MarkSentKept, MarkUnsureKept, MarkFailedKept, RollbackKept, RecoverKept
  <2>4. QED BY <1>6, <2>1, <2>2, <2>3 DEF WorkerStep
<1>7. QED BY <1>1, <1>2, <1>3, <1>4, <1>5, <1>6 DEF Next, GreetNext

LEMMA GreetInvKept ==
  ASSUME ~Overlap
  PROVE  Spec => []GreetInv
<1>1. GreetInv /\ [Next]_vars => GreetInv'
  BY NextGreetInv
<1>2. QED BY <1>1, InitGreetInv, PTL DEF Spec

\* The marker of a row is overwritten by the next greeting alone.
LEMMA MarkerStays ==
  ASSUME GreetInv, [Next]_vars, NEW u \in Users,
         greeting[u].done, greeting'[u].at = greeting[u].at
  PROVE  greeting'[u].done
<1>1. CASE UNCHANGED greeting
  BY <1>1
<1>2. ASSUME NEW x \in Users, Elapse(x) PROVE greeting'[u].done
  BY <1>2, ElapseIs
<1>3. ASSUME NEW w \in Workers, NEW status \in {"sent", "unsure", "failed"},
             worker[w].pc \in Delivering, Mark(w, status)
      PROVE  greeting'[u].done
  <2>1. worker[w].from \in Users /\ ~greeting[worker[w].from].done
    BY <1>3, MarkIs
  <2>2. QED BY <1>3, <2>1 DEF Mark, GreetInv, RowsOK
<1>4. ASSUME NEW w \in Workers, Rollback(w) \/ Recover(w) PROVE greeting'[u].done
  <2>1. worker[w].from \in Users /\ UNCHANGED <<stored, clock>>
        /\ (RollbackTx(worker[w].from, worker[w].at) \/ NoTx)
    BY <1>4, WorkerIs DEF Rollback, Recover
  <2>2. QED BY <2>1, RollbackTxIs
<1>5. ASSUME NEW w \in Workers, Record(w) PROVE greeting'[u].done
  <2>1. CASE u = worker[w].from
    <3>1. SUFFICES ASSUME clock' = clock + 1,
                          greeting' = [greeting EXCEPT ![u] =
                            [NoGreeting EXCEPT !.at = clock', !.status = "unsure"]]
                   PROVE  FALSE
      BY <1>1, <1>5, <2>1 DEF Record
    <3>2. greeting'[u].at = clock + 1
      BY <3>1 DEF GreetInv, RowsOK, NoGreeting
    <3>3. greeting[u].at \in Nat /\ clock \in Nat /\ greeting[u].at <= clock
      BY DEF GreetInv, RowsOK, GreetRecord
    <3>4. QED BY <3>2, <3>3
  <2>2. CASE u # worker[w].from
    BY <1>1, <1>5, <2>2 DEF Record, GreetInv, RowsOK
  <2>3. QED BY <2>1, <2>2
<1>6. ASSUME NEW w \in Workers,
             Abandon(w) \/ MarkSent(w) \/ MarkUnsure(w) \/ MarkFailed(w)
      PROVE  greeting'[u].done
  <2>1. worker[w].pc \in Delivering
    BY <1>6 DEF Abandon, MarkSent, MarkUnsure, MarkFailed, Delivering
  <2>2. CASE Abandon(w)
    BY <1>1, <1>3, <2>1, <2>2 DEF Abandon
  <2>3. CASE MarkSent(w)
    BY <1>1, <1>3, <2>1, <2>3 DEF MarkSent
  <2>4. CASE MarkUnsure(w)
    BY <1>1, <1>3, <2>1, <2>4 DEF MarkUnsure
  <2>5. CASE MarkFailed(w)
    BY <1>1, <1>3, <2>1, <2>5 DEF MarkFailed
  <2>6. QED BY <1>6, <2>2, <2>3, <2>4, <2>5
<1>7. ASSUME NEW w \in Workers, WorkerStep(w) PROVE greeting'[u].done
  <2>1. CASE Look(w) \/ Stats(w) \/ Reserve(w) \/ Ensure(w) \/ Release(w)
             \/ Search(w) \/ Check(w) \/ RemoveSender(w) \/ AddReceiver(w) \/ Settle(w)
             \/ Send(w)
    BY <1>1, <2>1 DEF Look, Stats, Reserve, Ensure, Release, Search, Check,
                      RemoveSender, AddReceiver, Settle, Send
  <2>2. QED BY <1>4, <1>5, <1>6, <1>7, <2>1 DEF WorkerStep
<1>8. ASSUME NEW w \in Workers, NEW x \in Users, Begin(w, x) \/ Crash(w)
      PROVE  greeting'[u].done
  BY <1>1, <1>8 DEF Begin, Greet, JobRollback, JobDeliver, JobTakes, Crash
<1>9. ASSUME NEW x \in Users, Counting(x) \/ DirectMessage(x) \/ Reply(x)
      PROVE  greeting'[u].done
  BY <1>1, <1>9 DEF Counting, DirectMessage, Reply, Elsewhere
<1>10. CASE UNCHANGED vars
  BY <1>1, <1>10 DEF vars
<1>11. QED BY <1>2, <1>7, <1>8, <1>9, <1>10 DEF Next, GreetNext

-----------------------------------------------------------------------------
(***************************************************************************)
(* The theorems                                                            *)
(***************************************************************************)

\* However the answers of the IM server and of MySQL are lost, the receiver
\* sees no greeting but the one of the row (RecordGreeting, deliverGreetingRow
\* and the job, modules/partners/service.go), as long as no two runs deliver
\* for one sender.
THEOREM OneVisibleGreeting ==
  ASSUME ~Overlap
  PROVE  Spec => []VisibleIsCurrent
<1>1. GreetInv => VisibleIsCurrent
  BY DEF GreetInv
<1>2. QED BY <1>1, GreetInvKept, PTL

\* Under the same condition a row that is marked as failed, and so is rolled
\* back and refunded, is of a greeting that the server did not store.
THEOREM RefundIsRight ==
  ASSUME ~Overlap
  PROVE  Spec => []FailedNotVisible
<1>1. GreetInv => FailedNotVisible
  BY DEF GreetInv
<1>2. QED BY <1>1, GreetInvKept, PTL

\* Under the same condition the marker of a roll-back outlives every late write
\* of its greeting (db.rollbackPendingGreetingSend, db.markGreetingSendStatus).
THEOREM RolledBackOnce ==
  ASSUME ~Overlap
  PROVE  Spec => RollbackIsFinal
<1>1. GreetInv /\ [Next]_vars =>
        [\A u \in Users :
           greeting[u].done /\ greeting'[u].at = greeting[u].at => greeting'[u].done]_vars
  BY MarkerStays
<1>2. QED BY <1>1, GreetInvKept, PTL DEF Spec, RollbackIsFinal

-----------------------------------------------------------------------------
(***************************************************************************)
(* PartnerPair: the greeting beside the message gateway itself, for any    *)
(* messages, attempts and workers                                          *)
(***************************************************************************)
CONSTANTS Msgs, NoMsg, Sender, Attempts, Overrun, LateAccept
VARIABLES rows, im, flight, attempt

Pair == INSTANCE PartnerPair

\* An attempt that runs works on a message.
AttemptsRunOn == attempt \in [Attempts -> Pair!P!Attempt]

\* What a transaction of the gateway on the row of m makes of the relation.
LEMMA GatewayTx ==
  ASSUME Sender \in [Msgs -> Users], NEW m \in Msgs,
         \/ Pair!P!ReserveTx(m) \/ Pair!P!ClaimTx(m) \/ Pair!P!SettleTx(m)
         \/ Pair!P!DoubtTx(m) \/ Pair!P!RefundTx(m) \/ Pair!P!NoTx,
         Elsewhere
  PROVE  contact' = contact \/ Counting(Sender[m])
BY DEF Pair!P!ReserveTx, Pair!P!ClaimTx, Pair!P!SettleTx, Pair!P!DoubtTx, Pair!P!RefundTx,
       Pair!P!NoTx, Pair!P!IsPendingOf, Pair!P!ReserveOne, Pair!P!ReleaseOne,
       Pair!P!Larger, Counting, IsPendingOf, ReserveOne, ReleaseOne, Larger

\* What the gateway makes of the relation is what Greeting lets it make of it.
LEMMA GatewayStep ==
  ASSUME Sender \in [Msgs -> Users], AttemptsRunOn,
         Pair!P!Next, UNCHANGED Pair!greetingVars
  PROVE  contact' = contact \/ \E u \in Users : Counting(u) \/ DirectMessage(u) \/ Reply(u)
<1>1. Elsewhere
  BY DEF Pair!greetingVars, Elsewhere
<1>2. ASSUME NEW a \in Attempts, NEW m \in Msgs, Pair!P!Prepare(a, m)
      PROVE  contact' = contact \/ Counting(Sender[m])
  BY <1>1, <1>2, GatewayTx DEF Pair!P!Prepare
<1>3. ASSUME NEW a \in Attempts, Pair!P!Step(a)
      PROVE  contact' = contact \/ \E m \in Msgs : Counting(Sender[m]) \/ Reply(Sender[m])
  <2> DEFINE m == attempt[a].msg
  <2>1. CASE attempt[a].pc = "idle"
    BY <1>3, <2>1 DEF Pair!P!Step, Pair!P!SearchFound, Pair!P!SearchMissing, Pair!P!SearchError,
         Pair!P!SendAccepted, Pair!P!SendUnknown, Pair!P!SendRejected, Pair!P!Complete,
         Pair!P!MarkUncertain, Pair!P!Rollback, Pair!P!ActivateReply
  <2>2. CASE attempt[a].pc # "idle"
    <3>1. m \in Msgs
      BY <2>2 DEF AttemptsRunOn, Pair!P!Attempt, Pair!P!Idle
    <3>2. CASE Pair!P!ActivateReply(a)
      BY <1>1, <3>1, <3>2 DEF Pair!P!ActivateReply, Reply, Pair!P!Activate, Activate,
           Pair!P!IsReplyOf, IsReplyOf
    <3>3. CASE ~Pair!P!ActivateReply(a)
      <4>1. \/ contact' = contact
            \/ Pair!P!SettleTx(m) \/ Pair!P!DoubtTx(m) \/ Pair!P!RefundTx(m) \/ Pair!P!NoTx
        BY <1>3, <3>3 DEF Pair!P!Step, Pair!P!SearchFound, Pair!P!SearchMissing, Pair!P!SearchError,
             Pair!P!SendAccepted, Pair!P!SendUnknown, Pair!P!SendRejected, Pair!P!Complete,
             Pair!P!MarkUncertain, Pair!P!Rollback
      <4> HIDE DEF m
      <4>2. QED BY <1>1, <3>1, <4>1, GatewayTx
    <3>4. QED BY <3>2, <3>3
  <2>3. QED BY <2>1, <2>2
<1>4. ASSUME NEW m \in Msgs, Pair!P!Webhook(m)
      PROVE  contact' = contact \/ DirectMessage(Sender[m]) \/ Reply(Sender[m])
  <2>1. CASE contact' = CountDirect(contact, Sender[m])
    BY <1>1, <2>1 DEF DirectMessage
  <2>2. CASE contact' = Activate(contact, Sender[m])
    BY <1>1, <2>2 DEF Reply
  <2>3. CASE contact' = contact
    BY <2>3
  <2>4. QED
    BY <1>4, <2>1, <2>2, <2>3 DEF Pair!P!Webhook, Pair!P!SettleTx, Pair!P!CountDirect, CountDirect,
         Pair!P!Activate, Activate, Pair!P!IsPendingOf, IsPendingOf, Pair!P!IsReplyOf, IsReplyOf
<1>5. ASSUME NEW u \in Users, Pair!P!DirectWebhook(u)
      PROVE  DirectMessage(u) \/ Reply(u)
  <2>1. \/ contact' = CountDirect(contact, u)
        \/ contact' = Activate(contact, u)
    BY <1>5 DEF Pair!P!DirectWebhook, Pair!P!CountDirect, CountDirect,
         Pair!P!Activate, Activate, Pair!P!IsPendingOf, IsPendingOf, Pair!P!IsReplyOf, IsReplyOf
  <2>2. QED BY <1>1, <2>1 DEF DirectMessage, Reply
<1>6. CASE contact' = contact
  BY <1>6
<1>7. CASE contact' # contact
  <2>1. \/ \E a \in Attempts : (\E m \in Msgs : Pair!P!Prepare(a, m)) \/ Pair!P!Step(a)
        \/ \E m \in Msgs : Pair!P!Webhook(m)
        \/ \E u \in Users : Pair!P!DirectWebhook(u)
    BY <1>7 DEF Pair!P!Next, Pair!P!Crash, Pair!P!Elapse, Pair!P!Cleanup, Pair!P!LateArrival
  <2>2. \A m \in Msgs : Sender[m] \in Users
    OBVIOUS
  <2>3. QED BY <1>2, <1>3, <1>4, <1>5, <1>7, <2>1, <2>2
<1>8. QED BY <1>6, <1>7

-----------------------------------------------------------------------------
\* The steps of the greeting are the same in both modules.
LEMMA GreetingStep ==
  ASSUME Pair!G!GreetNext
  PROVE  GreetNext
<1>1. ASSUME NEW w \in Workers, NEW u \in Users
      PROVE  Pair!G!Greet(w, u) => Greet(w, u)
  BY DEF Pair!G!Greet, Greet, Pair!G!Alone, Alone, Pair!G!IsPendingOf,
    IsPendingOf
<1>2. ASSUME NEW w \in Workers
      PROVE  Pair!G!Look(w) => Look(w)
  BY DEF Pair!G!Look, Look, Pair!G!Finish, Finish, Pair!G!Idle, Idle
<1>3. ASSUME NEW w \in Workers
      PROVE  Pair!G!Stats(w) => Stats(w)
  BY DEF Pair!G!Stats, Stats, Pair!G!Goto, Goto, Pair!G!Finish, Finish,
    Pair!G!Idle, Idle
<1>4. ASSUME NEW w \in Workers
      PROVE  Pair!G!Reserve(w) => Reserve(w)
  BY DEF Pair!G!Reserve, Reserve, Pair!G!Goto, Goto, Pair!G!Finish,
    Finish, Pair!G!Idle, Idle
<1>5. ASSUME NEW w \in Workers
      PROVE  Pair!G!Record(w) => Record(w)
  BY DEF Pair!G!Record, Record, Pair!G!Goto, Goto, Pair!G!NoGreeting,
    NoGreeting
<1>6. ASSUME NEW w \in Workers
      PROVE  Pair!G!Ensure(w) => Ensure(w)
  BY DEF Pair!G!Ensure, Ensure, Pair!G!Goto, Goto, Pair!G!EnsurePending,
    EnsurePending, Pair!G!Larger, Larger
<1>7. ASSUME NEW w \in Workers
      PROVE  Pair!G!Abandon(w) => Abandon(w)
  BY DEF Pair!G!Abandon, Abandon, Pair!G!Mark, Mark, Pair!G!Goto, Goto
<1>8. ASSUME NEW w \in Workers
      PROVE  Pair!G!Release(w) => Release(w)
  BY DEF Pair!G!Release, Release, Pair!G!Finish, Finish, Pair!G!Idle,
    Idle
<1>9. ASSUME NEW w \in Workers
      PROVE  Pair!G!Search(w) => Search(w)
  BY DEF Pair!G!Search, Search, Pair!G!Goto, Goto, Pair!G!Sent, Sent
<1>10. ASSUME NEW w \in Workers
      PROVE  Pair!G!Check(w) => Check(w)
  BY DEF Pair!G!Check, Check, Pair!G!Goto, Goto, Pair!G!IsPendingOf,
    IsPendingOf
<1>11. ASSUME NEW w \in Workers
      PROVE  Pair!G!RemoveSender(w) => RemoveSender(w)
  BY DEF Pair!G!RemoveSender, RemoveSender, Pair!G!Goto, Goto
<1>12. ASSUME NEW w \in Workers
      PROVE  Pair!G!AddReceiver(w) => AddReceiver(w)
  BY DEF Pair!G!AddReceiver, AddReceiver, Pair!G!Goto, Goto
<1>13. ASSUME NEW w \in Workers
      PROVE  Pair!G!Settle(w) => Settle(w)
  BY DEF Pair!G!Settle, Settle, Pair!G!Goto, Goto
<1>14. ASSUME NEW w \in Workers
      PROVE  Pair!G!Send(w) => Send(w)
  BY DEF Pair!G!Send, Send, Pair!G!Goto, Goto, Pair!G!Sent, Sent
<1>15. ASSUME NEW w \in Workers
      PROVE  Pair!G!MarkSent(w) => MarkSent(w)
  BY DEF Pair!G!MarkSent, MarkSent, Pair!G!Mark, Mark, Pair!G!Finish,
    Finish, Pair!G!Idle, Idle
<1>16. ASSUME NEW w \in Workers
      PROVE  Pair!G!MarkUnsure(w) => MarkUnsure(w)
  BY DEF Pair!G!MarkUnsure, MarkUnsure, Pair!G!Mark, Mark,
    Pair!G!Finish, Finish, Pair!G!Idle, Idle
<1>17. ASSUME NEW w \in Workers
      PROVE  Pair!G!MarkFailed(w) => MarkFailed(w)
  BY DEF Pair!G!MarkFailed, MarkFailed, Pair!G!Mark, Mark, Pair!G!Goto,
    Goto, Pair!G!Finish, Finish, Pair!G!Idle, Idle
<1>18. ASSUME NEW w \in Workers
      PROVE  Pair!G!Rollback(w) => Rollback(w)
  BY DEF Pair!G!Rollback, Rollback, Pair!G!RollbackTx, RollbackTx,
    Pair!G!Claimable, Claimable, Pair!G!NoTx, NoTx, Pair!G!Finish,
    Finish, Pair!G!DropGreeting, DropGreeting, Pair!G!IsPendingOf,
    IsPendingOf, Pair!G!NoContact, NoContact, Pair!G!Idle, Idle
<1>19. ASSUME NEW w \in Workers
      PROVE  Pair!G!Recover(w) => Recover(w)
  BY DEF Pair!G!Recover, Recover, Pair!G!RollbackTx, RollbackTx,
    Pair!G!Claimable, Claimable, Pair!G!NoTx, NoTx, Pair!G!Goto, Goto,
    Pair!G!Finish, Finish, Pair!G!DropGreeting, DropGreeting,
    Pair!G!IsPendingOf, IsPendingOf, Pair!G!NoContact, NoContact,
    Pair!G!Idle, Idle
<1>20. ASSUME NEW w \in Workers, NEW u \in Users
      PROVE  Pair!G!JobRollback(w, u) => JobRollback(w, u)
  BY DEF Pair!G!JobRollback, JobRollback, Pair!G!Claimable, Claimable,
    Pair!G!JobTakes, JobTakes
<1>21. ASSUME NEW w \in Workers, NEW u \in Users
      PROVE  Pair!G!JobDeliver(w, u) => JobDeliver(w, u)
  BY DEF Pair!G!JobDeliver, JobDeliver, Pair!G!Alone, Alone,
    Pair!G!JobTakes, JobTakes
<1>22. ASSUME NEW w \in Workers
      PROVE  Pair!G!Crash(w) => Crash(w)
  BY DEF Pair!G!Crash, Crash, Pair!G!Finish, Finish, Pair!G!Idle, Idle
<1>23. ASSUME NEW u \in Users
      PROVE  Pair!G!Elapse(u) => Elapse(u)
  BY DEF Pair!G!Elapse, Elapse
<1>24. QED
  BY <1>1, <1>2, <1>3, <1>4, <1>5, <1>6, <1>7, <1>8, <1>9, <1>10, <1>11,
    <1>12, <1>13, <1>14, <1>15, <1>16, <1>17, <1>18, <1>19, <1>20, <1>21,
    <1>22, <1>23 DEF Pair!G!GreetNext, GreetNext, Pair!G!WorkerStep,
    WorkerStep, Pair!G!Begin, Begin


-----------------------------------------------------------------------------
LEMMA AttemptsKept ==
  ASSUME AttemptsRunOn, Pair!Next \/ UNCHANGED <<contact, Pair!gatewayVars, Pair!greetingVars>>
  PROVE  AttemptsRunOn'
<1>1. CASE UNCHANGED attempt
  BY <1>1 DEF AttemptsRunOn
<1>2. ASSUME NEW a \in Attempts, NEW m \in Msgs, Pair!P!Prepare(a, m)
      PROVE  AttemptsRunOn'
  <2>1. Pair!P!IsPendingOf(contact, Sender[m]) \in BOOLEAN
    BY DEF Pair!P!IsPendingOf
  <2>2. Pair!P!IsReplyOf(contact, Sender[m]) \in BOOLEAN
    BY DEF Pair!P!IsReplyOf
  <2>3. \E pc \in Pair!P!Busy : Pair!P!Start(a, m, pc)
    BY <1>2 DEF Pair!P!Prepare, Pair!P!Busy
  <2>4. PICK pc \in Pair!P!Busy : Pair!P!Start(a, m, pc)
    BY <2>3
  <2>5. attempt' = [attempt EXCEPT ![a] =
          [pc |-> pc, msg |-> m, gateway |-> Pair!P!IsPendingOf(contact, Sender[m]),
           reply |-> Pair!P!IsReplyOf(contact, Sender[m])]]
    BY <2>4 DEF Pair!P!Start
  <2>6. QED BY <2>1, <2>2, <2>5 DEF AttemptsRunOn, Pair!P!Attempt
<1>3. ASSUME NEW a \in Attempts, Pair!P!Finish(a)
      PROVE  AttemptsRunOn'
  BY <1>3 DEF AttemptsRunOn, Pair!P!Finish, Pair!P!Attempt
<1>4. ASSUME NEW a \in Attempts, NEW pc \in Pair!P!Busy, attempt[a].pc # "idle", Pair!P!Goto(a, pc)
      PROVE  AttemptsRunOn'
  BY <1>4 DEF AttemptsRunOn, Pair!P!Goto, Pair!P!Attempt, Pair!P!Idle
<1>5. ASSUME NEW a \in Attempts, Pair!P!Step(a)
      PROVE  AttemptsRunOn'
  <2>1. \/ Pair!P!Finish(a)
        \/ /\ attempt[a].pc # "idle"
           /\ \E pc \in Pair!P!Busy : Pair!P!Goto(a, pc)
    BY <1>5 DEF Pair!P!Step, Pair!P!SearchFound, Pair!P!SearchMissing, Pair!P!SearchError,
         Pair!P!SendAccepted, Pair!P!SendUnknown, Pair!P!SendRejected, Pair!P!Complete,
         Pair!P!MarkUncertain, Pair!P!Rollback, Pair!P!ActivateReply, Pair!P!AfterSend,
         Pair!P!Busy
  <2>2. QED BY <1>3, <1>4, <2>1
<1>6. QED
  BY <1>1, <1>2, <1>3, <1>5 DEF Pair!Next, Pair!gatewayVars, Pair!P!Next, Pair!P!Crash,
       Pair!P!Webhook, Pair!P!DirectWebhook, Pair!P!Elapse, Pair!P!Cleanup, Pair!P!LateArrival

\* The partners module beside the message gateway itself behaves like the
\* partners module beside anything that counts messages, gives them back or
\* answers: what Greeting leaves open covers every transaction, retry, crash
\* and webhook of partner_pending.go on the relation of the pair.
THEOREM PairIsGreeting ==
  ASSUME Sender \in [Msgs -> Users]
  PROVE  Pair!Spec => Spec
<1>1. Pair!Init => Init /\ AttemptsRunOn
  BY DEF Pair!Init, Pair!G!Init, Init, AttemptsRunOn, Pair!P!Attempt, Pair!G!NoContact, NoContact,
       Pair!G!NoGreeting, NoGreeting, Pair!G!Idle, Idle
<1>2. AttemptsRunOn /\ [Pair!Next]_<<contact, Pair!gatewayVars, Pair!greetingVars>> => AttemptsRunOn'
  BY AttemptsKept
<1>3. AttemptsRunOn /\ [Pair!Next]_<<contact, Pair!gatewayVars, Pair!greetingVars>> => [Next]_vars
  <2>1. CASE Pair!G!GreetNext
    BY <2>1, GreetingStep DEF Next
  <2>2. ASSUME AttemptsRunOn, Pair!P!Next, UNCHANGED Pair!greetingVars
        PROVE  [Next]_vars
    BY <2>2, GatewayStep DEF Next, vars, Pair!greetingVars
  <2>3. CASE UNCHANGED <<contact, Pair!gatewayVars, Pair!greetingVars>>
    BY <2>3 DEF vars, Pair!greetingVars
  <2>4. QED BY <2>1, <2>2, <2>3 DEF Pair!Next
<1>4. QED BY <1>1, <1>2, <1>3, PTL DEF Pair!Spec, Spec

\* With the gateway itself at work, the receiver sees no greeting but the
\* recorded one, none that is rolled back, and no roll-back is repeated.
THEOREM GreetingsBesideGateway ==
  ASSUME Sender \in [Msgs -> Users], ~Overlap
  PROVE  Pair!Spec => []VisibleIsCurrent /\ []FailedNotVisible /\ RollbackIsFinal
BY PairIsGreeting, OneVisibleGreeting, RefundIsRight, RolledBackOnce, PTL

-----------------------------------------------------------------------------
(***************************************************************************)
(* PartnerPermissions: the inductive invariant                             *)
(***************************************************************************)
\* May the other user send into the channel of u?
Grants(c, u) == c.status = "active" \/ IsPendingOf(c, u)

\* No insert takes over the relation that the other user's greeting made: what
\* ON DUPLICATE KEY does at db.go:936 when two users greet each other at the
\* same time.  Without it the theorems fail: the first deliverer then opens the
\* channel of its user after the outbox has closed it for the second.
NoTakeover ==
  \A w \in Workers :
    worker[w].pc = "ensure" /\ contact.status = "pending"
      => contact.requester = worker[w].from

\* Where a deliverer has checked the relation and has not called the last time.
Granted == {"remove", "add", "settle", "send"}

\* Task without the bound on the greetings.
PermTask == [kind : TaskKind, channel : Channels, at : Nat]

PermTypes ==
  /\ contact \in Contact
  /\ whitelist \in [Channels -> BOOLEAN]
  /\ tasks \subseteq PermTask /\ queued \subseteq PermTask
  /\ \A k \in queued : k.kind = "pending"
  /\ flush \in [pc : {"idle", "apply", "done"}, key : SUBSET PermTask, want : BOOLEAN]
  /\ flush.pc = "idle" => flush.key = {}
  /\ flush.pc # "idle" => \E k \in PermTask : flush.key = {k}

\* A deliverer opens the channel of its sender only where the relation does.
PermitsOf ==
  \A w \in Workers :
    worker[w].pc \in Granted => Grants(contact, worker[w].from)

\* A greeting is known by its last_greet_at.
RowsDiffer ==
  \A u, v \in Users : greeting[u].at = greeting[v].at => u = v \/ greeting[u].at = 0

\* The task of a roll-back is of a greeting that bears the marker, so no second
\* roll-back enqueues the task that the flush job is about to close.
Marked ==
  \A k \in tasks \cup flush.key :
    k.kind = "rollback" =>
      k.at <= clock /\ \A u \in Users : greeting[u].at = k.at => greeting[u].done

\* The channel is open, or the flush job is about to open it.
Allows(c) ==
  \/ whitelist[c]
  \/ flush.pc = "apply" /\ flush.want /\ \E k \in flush.key : k.channel = c

\* A roll-back left a task that the flush job will read again, or that it is
\* about to apply.
Covers(c) ==
  \E k \in tasks :
    /\ k.kind = "rollback" /\ k.channel = c
    /\ k \in flush.key => flush.pc = "apply" /\ ~flush.want

\* What the relation does not ask for any longer has a task to take it away.
Covered == \A c \in Channels : Allows(c) /\ ~Desired(c) => Covers(c)

PermInv ==
  GreetInv /\ PermTypes /\ PermitsOf /\ RowsDiffer /\ Marked /\ Covered

-----------------------------------------------------------------------------
LEMMA ChannelIs ==
  ASSUME NEW c \in Channels
  PROVE  c \in Users /\ (Desired(c) <=> Grants(contact, c))
BY ChannelsAssumption DEF Desired, Grants

LEMMA EnsureIs ==
  ASSUME NEW c \in Contact, NEW u \in Users, c.status = "pending" => c.requester = u
  PROVE  /\ EnsurePending(c, u) \in Contact
         /\ \A x \in Users : Grants(c, x) => Grants(EnsurePending(c, u), x)
<1>1. CASE c.status = "none"
  BY <1>1 DEF EnsurePending, Contact, ContactStatus, Grants, IsPendingOf
<1>2. CASE c.status # "none"
  <2>1. Larger(c.count, 1) \in Nat
    BY DEF Contact, Larger
  <2> DEFINE h == [c EXCEPT !.requester = u]
             e == [h EXCEPT !.count = Larger(c.count, 1)]
  <2>2. EnsurePending(c, u) = e
    BY <1>2 DEF EnsurePending, Contact
  <2>3. h \in Contact /\ h.status = c.status /\ h.requester = u
    BY DEF Contact
  <2> HIDE DEF h
  <2>4. e \in Contact /\ e.status = c.status /\ e.requester = u
    BY <2>1, <2>3 DEF Contact
  <2> HIDE DEF e
  <2>5. QED BY <2>2, <2>4 DEF Grants, IsPendingOf
<1>3. QED BY <1>1, <1>2

LEMMA DropIs ==
  ASSUME NEW c \in Contact, NEW u \in Users
  PROVE  /\ DropGreeting(c, u) \in Contact
         /\ \A x \in Users :
              Grants(c, x) /\ ~Grants(DropGreeting(c, u), x) =>
                x = u /\ c.status # "none" /\ DropGreeting(c, u).status = "none"
<1>1. CASE ~IsPendingOf(c, u)
  BY <1>1 DEF DropGreeting
<1>2. CASE IsPendingOf(c, u) /\ c.count <= 1
  <2>1. DropGreeting(c, u) = NoContact /\ NoContact \in Contact
        /\ NoContact.status = "none"
    BY <1>2 DEF DropGreeting, NoContact, Contact, ContactStatus
  <2>2. QED BY <1>2, <2>1 DEF Grants, IsPendingOf
<1>3. CASE IsPendingOf(c, u) /\ ~(c.count <= 1)
  <2>1. c.count - 1 \in Nat
    BY <1>3 DEF Contact
  <2> DEFINE e == [c EXCEPT !.count = c.count - 1]
  <2>2. DropGreeting(c, u) = e
    BY <1>3 DEF DropGreeting
  <2>3. e \in Contact /\ e.status = c.status /\ e.requester = c.requester
    BY <2>1 DEF Contact
  <2> HIDE DEF e
  <2>4. QED BY <2>2, <2>3 DEF Grants, IsPendingOf
<1>4. QED BY <1>1, <1>2, <1>3

\* The gateway and the webhook take no permission away.
LEMMA CountIs ==
  ASSUME NEW c \in Contact, NEW n \in Nat, NEW d, d = [c EXCEPT !.count = n]
  PROVE  d \in Contact /\ \A x \in Users : Grants(c, x) => Grants(d, x)
BY DEF Contact, Grants, IsPendingOf

LEMMA ElsewhereIs ==
  ASSUME contact \in Contact, NEW u \in Users, Counting(u) \/ DirectMessage(u) \/ Reply(u)
  PROVE  contact' \in Contact /\ \A x \in Users : Grants(contact, x) => Grants(contact', x)
<1>1. contact.count \in Nat /\ contact.count + 1 \in Nat /\ Larger(contact.count - 1, 1) \in Nat
  BY DEF Contact, Larger
<1>2. CASE Reply(u)
  <2>1. CASE contact' = contact
    BY <2>1
  <2>2. CASE contact' = [contact EXCEPT !.status = "active"]
    BY <2>2 DEF Contact, ContactStatus, Grants, IsPendingOf
  <2>3. QED BY <1>2, <2>1, <2>2 DEF Reply, Activate
<1>3. CASE DirectMessage(u)
  BY <1>1, <1>3, CountIs DEF DirectMessage, CountDirect
<1>4. CASE Counting(u)
  <2>1. CASE contact' = ReserveOne(contact)
    BY <1>1, <2>1, CountIs DEF ReserveOne
  <2>2. CASE contact' = ReleaseOne(contact, u)
    BY <1>1, <2>2, CountIs DEF ReleaseOne
  <2>3. QED BY <1>4, <2>1, <2>2 DEF Counting
<1>5. QED BY <1>2, <1>3, <1>4

LEMMA TxIs ==
  ASSUME contact \in Contact, NEW u \in Users, NEW at, RollbackTx(u, at) \/ NoTx
  PROVE  /\ contact' \in Contact
         /\ \A x \in Users :
              Grants(contact, x) /\ ~Grants(contact', x) =>
                x = u /\ Claimable(u, at) /\ contact.status # "none"
                /\ contact'.status = "none"
<1>1. CASE contact' = contact
  BY <1>1
<1>2. CASE Claimable(u, at) /\ contact' = DropGreeting(contact, u)
  BY <1>2, DropIs
<1>3. QED BY <1>1, <1>2 DEF RollbackTx, NoTx

\* Only the roll-back that deletes the relation takes a permission away.
Undoes(w) ==
  /\ RollbackEnqueues(w)
  /\ Claimable(worker[w].from, worker[w].at)
  /\ contact.status # "none" /\ contact'.status = "none"

LEMMA OtherIs ==
  ASSUME NEW w \in Workers, OtherStep(w)
  PROVE  UNCHANGED <<contact, permVars>>
BY DEF OtherStep, Look, Stats, Reserve, Record, Abandon, Release, Search, Check, Send,
       MarkSent, MarkUnsure, MarkFailed, Crash, Begin, Greet, JobRollback, JobDeliver,
       JobTakes

LEMMA ContactIs ==
  ASSUME GreetInv, PermTypes, NoTakeover, [PermNext]_<<vars, permVars>>
  PROVE  /\ contact' \in Contact
         /\ \A x \in Users :
              Grants(contact, x) /\ ~Grants(contact', x) =>
                \E w \in Workers : Undoes(w) /\ worker[w].from = x
<1>1. contact \in Contact
  BY DEF PermTypes
<1>2. CASE contact' = contact
  BY <1>1, <1>2
<1>3. ASSUME NEW w \in Workers, EnsureEnqueues(w) PROVE contact' \in Contact
        /\ \A x \in Users : Grants(contact, x) => Grants(contact', x)
  <2>1. worker[w].pc = "ensure" /\ worker[w].from \in Users
    BY <1>3, WorkerIs DEF EnsureEnqueues, Ensure
  <2>2. contact.status = "pending" => contact.requester = worker[w].from
    BY <2>1 DEF NoTakeover
  <2>3. QED BY <1>1, <1>3, <2>1, <2>2, EnsureIs DEF EnsureEnqueues
<1>4. ASSUME NEW w \in Workers, RollbackEnqueues(w)
      PROVE  /\ contact' \in Contact
             /\ \A x \in Users :
                  Grants(contact, x) /\ ~Grants(contact', x) =>
                    Undoes(w) /\ worker[w].from = x
  <2>1. worker[w].from \in Users
    BY <1>4, WorkerIs DEF RollbackEnqueues, Rollback, Recover
  <2>2. RollbackTx(worker[w].from, worker[w].at) \/ NoTx
    BY <1>4 DEF RollbackEnqueues, Rollback, Recover
  <2>3. QED BY <1>1, <1>4, <2>1, <2>2, TxIs DEF Undoes
<1>5. ASSUME NEW w \in Workers,
             RemoveCalls(w) \/ AddCalls(w) \/ SettleCloses(w) \/ OtherStep(w)
      PROVE  contact' = contact
  BY <1>5, OtherIs DEF RemoveCalls, AddCalls, SettleCloses, RemoveSender, AddReceiver,
                       Settle
<1>6. ASSUME NEW u \in Users,
             \/ DirectMessageCalls(u) \/ ReplyEnqueues(u)
             \/ (Counting(u) \/ Elapse(u)) /\ UNCHANGED permVars
      PROVE  /\ contact' \in Contact
             /\ \A x \in Users : Grants(contact, x) => Grants(contact', x)
  <2>1. CASE Elapse(u)
    BY <1>1, <2>1 DEF Elapse
  <2>2. CASE Counting(u) \/ DirectMessage(u) \/ Reply(u)
    BY <1>1, <2>2, ElsewhereIs
  <2>3. QED BY <1>6, <2>1, <2>2 DEF DirectMessageCalls, ReplyEnqueues
<1>7. FlushRead \/ FlushApply \/ FlushDone \/ FlushCrash \/ Repair => contact' = contact
  BY DEF FlushRead, FlushApply, FlushDone, FlushCrash, Repair, FlushUnchanged
<1>8. UNCHANGED <<vars, permVars>> => contact' = contact
  BY DEF vars
<1>9. QED BY <1>2, <1>3, <1>4, <1>5, <1>6, <1>7, <1>8 DEF PermNext

LEMMA PermStep ==
  ASSUME [PermNext]_<<vars, permVars>>
  PROVE  [Next]_vars
<1>1. ASSUME NEW w \in Workers,
             \/ EnsureEnqueues(w) \/ RemoveCalls(w) \/ AddCalls(w) \/ SettleCloses(w)
             \/ RollbackEnqueues(w) \/ OtherStep(w)
      PROVE  GreetNext
  BY <1>1 DEF EnsureEnqueues, RemoveCalls, AddCalls, SettleCloses, RollbackEnqueues,
              OtherStep, GreetNext, WorkerStep
<1>2. ASSUME NEW u \in Users,
             \/ DirectMessageCalls(u) \/ ReplyEnqueues(u)
             \/ (Counting(u) \/ Elapse(u)) /\ UNCHANGED permVars
      PROVE  Next
  BY <1>2 DEF DirectMessageCalls, ReplyEnqueues, Next, GreetNext
<1>3. FlushRead \/ FlushApply \/ FlushDone \/ FlushCrash \/ Repair => UNCHANGED vars
  BY DEF FlushRead, FlushApply, FlushDone, FlushCrash, Repair, FlushUnchanged, vars
<1>4. QED BY <1>1, <1>2, <1>3 DEF PermNext, Next

-----------------------------------------------------------------------------
(***************************************************************************)
(* The deliverer                                                           *)
(***************************************************************************)
LEMMA GotoIs ==
  ASSUME GreetInv, NEW w \in Workers, NEW pc, Goto(w, pc)
  PROVE  /\ \A v \in Workers \ {w} : worker'[v] = worker[v]
         /\ worker'[w].pc = pc /\ worker'[w].from = worker[w].from
<1>1. worker \in [Workers -> WorkerRecord] /\ worker[w] \in WorkerRecord
  BY WorkerIs DEF GreetInv, WorkersOK
<1> DEFINE r == [worker[w] EXCEPT !.pc = pc]
<1>2. worker' = [worker EXCEPT ![w] = r]
  BY DEF Goto
<1>3. r.pc = pc /\ r.from = worker[w].from
  BY <1>1 DEF WorkerRecord
<1> HIDE DEF r
<1>4. QED BY <1>1, <1>2, <1>3

LEMMA FinishGoes ==
  ASSUME GreetInv, NEW w \in Workers, Finish(w)
  PROVE  worker'[w].pc = "idle" /\ \A v \in Workers \ {w} : worker'[v] = worker[v]
<1>1. worker \in [Workers -> WorkerRecord]
  BY DEF GreetInv, WorkersOK
<1>2. QED BY <1>1, IdleIs DEF Finish

\* A run comes to the calls of the IM server by the check of the relation.
Arrives(w, v) ==
  worker'[v].pc \in Granted =>
    \/ worker'[v] = worker[v]
    \/ /\ v = w /\ worker'[v].from = worker[v].from /\ UNCHANGED contact
       /\ worker[v].pc \in Granted \/ IsPendingOf(contact, worker[v].from)

LEMMA LeavesGranted ==
  ASSUME GreetInv, NEW w \in Workers,
         \/ Finish(w)
         \/ \E pc \in Pc \ Granted : Goto(w, pc)
         \/ \E r \in WorkerRecord : Becomes(w, r) /\ r.pc \notin Granted,
         NEW v \in Workers
  PROVE  Arrives(w, v)
<1>1. CASE Finish(w)
  BY <1>1, FinishGoes DEF Arrives, Granted
<1>2. CASE \E pc \in Pc \ Granted : Goto(w, pc)
  BY <1>2, GotoIs DEF Arrives
<1>3. CASE \E r \in WorkerRecord : Becomes(w, r) /\ r.pc \notin Granted
  BY <1>3, BecomesIs DEF Arrives
<1>4. QED BY <1>1, <1>2, <1>3

LEMMA GotoAt ==
  ASSUME GreetInv, NEW w \in Workers, NEW pc \in Pc \ Granted, NEW at,
         \/ worker' = [worker EXCEPT ![w].pc = pc, ![w].at = at]
         \/ worker' = [worker EXCEPT ![w].pc = pc, ![w].at = at, ![w].run = "retry"],
         NEW v \in Workers
  PROVE  Arrives(w, v)
<1>1. worker \in [Workers -> WorkerRecord] /\ worker[w] \in WorkerRecord
  BY WorkerIs DEF GreetInv, WorkersOK
<1> DEFINE r == [worker[w] EXCEPT !.pc = pc, !.at = at]
           s == [r EXCEPT !.run = "retry"]
<1>2. worker' = [worker EXCEPT ![w] = r] \/ worker' = [worker EXCEPT ![w] = s]
  BY <1>1
<1>3. r.pc = pc /\ s.pc = pc
  BY <1>1 DEF WorkerRecord
<1> HIDE DEF r, s
<1>4. v # w => worker'[v] = worker[v]
  BY <1>1, <1>2
<1>5. worker'[w].pc = pc
  BY <1>1, <1>2, <1>3
<1>6. QED BY <1>4, <1>5 DEF Arrives

LEMMA StepArrives ==
  ASSUME GreetInv, NEW w \in Workers, WorkerStep(w) \/ Crash(w), NEW v \in Workers
  PROVE  Arrives(w, v)
<1> DEFINE Off == Pc \ Granted
<1>1. /\ {"search", "stats", "reserve", "record", "release", "abandon", "sent", "check",
          "unsure", "failed", "rollback", "recover", "ensure"} \subseteq Off
  BY DEF Pc, Granted
<1> HIDE DEF Off
<1>2. ASSUME Finish(w) \/ \E pc \in Off : Goto(w, pc) PROVE Arrives(w, v)
  BY <1>2, LeavesGranted DEF Off
<1>3. CASE Stats(w) \/ Reserve(w) \/ Ensure(w) \/ Abandon(w) \/ Release(w)
  BY <1>1, <1>2, <1>3 DEF Stats, Reserve, Ensure, Abandon, Release
<1>4. CASE MarkSent(w) \/ MarkUnsure(w) \/ MarkFailed(w) \/ Rollback(w) \/ Recover(w)
           \/ Crash(w)
  BY <1>1, <1>2, <1>4 DEF MarkSent, MarkUnsure, MarkFailed, Rollback, Recover, Crash
<1>5. CASE Look(w)
  <2>1. \/ Finish(w)
        \/ worker' = [worker EXCEPT ![w].pc = "recover",
                                    ![w].at = greeting[worker[w].from].at]
        \/ worker' = [worker EXCEPT ![w].pc = "search",
                                    ![w].at = greeting[worker[w].from].at,
                                    ![w].run = "retry"]
    BY <1>5 DEF Look
  <2>2. QED BY <1>1, <1>2, <2>1, GotoAt DEF Off
<1>6. CASE Record(w)
  <2>1. \/ \E pc \in Off : Goto(w, pc)
        \/ worker' = [worker EXCEPT ![w].pc = "ensure", ![w].at = clock']
    BY <1>1, <1>6 DEF Record
  <2>2. QED BY <1>1, <1>2, <2>1, GotoAt DEF Off
<1>7. CASE Search(w)
  <2>1. Goto(w, "sent") \/ Goto(w, "check") \/ Goto(w, "unsure")
    BY <1>7 DEF Search
  <2>2. QED BY <1>1, <1>2, <2>1
<1>8. CASE Check(w)
  <2>1. \/ Goto(w, "failed") \/ Goto(w, "unsure")
        \/ Goto(w, "remove") /\ IsPendingOf(contact, worker[w].from)
    BY <1>8 DEF Check
  <2>2. contact' = contact
    BY <1>8 DEF Check
  <2>3. CASE Goto(w, "remove") /\ IsPendingOf(contact, worker[w].from)
    BY <2>2, <2>3, GotoIs DEF Arrives
  <2>4. QED BY <1>1, <1>2, <2>1, <2>3
<1>9. ASSUME NEW pc, Goto(w, pc), worker[w].pc \in Granted, UNCHANGED contact
      PROVE  Arrives(w, v)
  BY <1>9, GotoIs DEF Arrives
<1>10. CASE RemoveSender(w) \/ AddReceiver(w) \/ Settle(w)
  BY <1>9, <1>10 DEF RemoveSender, AddReceiver, Settle, Granted
<1>11. CASE Send(w)
  BY <1>9, <1>11 DEF Send, Granted
<1>12. QED BY <1>3, <1>4, <1>5, <1>6, <1>7, <1>8, <1>10, <1>11 DEF WorkerStep

LEMMA BeginArrives ==
  ASSUME GreetInv, NEW w \in Workers, NEW u \in Users, Begin(w, u), NEW v \in Workers
  PROVE  Arrives(w, v)
<1>1. {"stats", "look", "rollback", "search"} \subseteq Pc \ Granted
  BY DEF Pc, Granted
<1>2. CASE Greet(w, u)
  <2> DEFINE pc == IF contact.status = "none" THEN "stats" ELSE "look"
             r == [pc |-> pc, from |-> u, at |-> 0, run |-> "request"]
  <2>1. pc \in {"stats", "look"}
    OBVIOUS
  <2>2. Becomes(w, r)
    BY <1>2 DEF Greet, Becomes
  <2> HIDE DEF pc
  <2>3. r \in WorkerRecord /\ r.pc = pc
    BY <1>1, <2>1 DEF WorkerRecord, Run
  <2> HIDE DEF r
  <2>4. QED BY <1>1, <2>1, <2>2, <2>3, LeavesGranted
<1>3. CASE JobRollback(w, u)
  <2>1. \E r \in WorkerRecord : Becomes(w, r) /\ r.pc = "rollback"
    BY <1>1, <1>3, JobTakesIs DEF JobRollback
  <2>2. QED BY <1>1, <2>1, LeavesGranted
<1>4. CASE JobDeliver(w, u)
  <2>1. \E r \in WorkerRecord : Becomes(w, r) /\ r.pc = "search"
    BY <1>1, <1>4, JobTakesIs DEF JobDeliver
  <2>2. QED BY <1>1, <2>1, LeavesGranted
<1>5. QED BY <1>2, <1>3, <1>4 DEF Begin

\* Whoever works on a greeting that is not rolled back keeps the permission.
LEMMA PermitsKept ==
  ASSUME GreetInv, PermTypes, PermitsOf, NoTakeover, [PermNext]_<<vars, permVars>>
  PROVE  PermitsOf'
<1> SUFFICES ASSUME NEW v \in Workers, worker'[v].pc \in Granted
             PROVE  Grants(contact', worker'[v].from)
  BY DEF PermitsOf
<1>1. CASE worker'[v] = worker[v]
  <2>1. Grants(contact, worker[v].from) /\ worker[v].pc \in Granted
    BY <1>1 DEF PermitsOf
  <2>2. /\ worker[v].from \in Users /\ worker[v].pc \in Delivering
        /\ ~JobRolls(worker[v]) /\ Right(greeting, stored, worker[v])
    BY <2>1, WorkerIs DEF Granted, Delivering, JobRolls
  <2>3. greeting[worker[v].from].status = "unsure"
    BY <2>2 DEF Right
  <2>4. ~\E w \in Workers : Undoes(w) /\ worker[w].from = worker[v].from
    BY <2>3 DEF Undoes, Claimable
  <2>5. QED BY <1>1, <2>1, <2>2, <2>4, ContactIs
<1>2. ASSUME NEW w \in Workers, Arrives(w, v) PROVE Grants(contact', worker'[v].from)
  <2>1. CASE /\ worker'[v].from = worker[v].from /\ UNCHANGED contact
             /\ worker[v].pc \in Granted \/ IsPendingOf(contact, worker[v].from)
    BY <2>1 DEF PermitsOf, Grants
  <2>2. QED BY <1>1, <1>2, <2>1 DEF Arrives
<1>3. CASE worker' = worker
  BY <1>1, <1>3
<1>4. ASSUME NEW w \in Workers, WorkerStep(w) \/ Crash(w) \/ \E u \in Users : Begin(w, u)
      PROVE  Grants(contact', worker'[v].from)
  BY <1>2, <1>4, StepArrives, BeginArrives
<1>5. [Next]_vars
  BY PermStep
<1>6. QED
  BY <1>3, <1>4, <1>5
     DEF Next, GreetNext, vars, Counting, DirectMessage, Reply, Elapse, Elsewhere

-----------------------------------------------------------------------------
(***************************************************************************)
(* last_greet_at: a new greeting takes a later one, and nothing else       *)
(* moves it                                                                *)
(***************************************************************************)
SameTimes == clock' = clock /\ \A u \in Users : greeting'[u].at = greeting[u].at

NewTime ==
  /\ clock' = clock + 1
  /\ \E x \in Users : /\ greeting'[x].at = clock + 1
                      /\ \A u \in Users \ {x} : greeting'[u].at = greeting[u].at

LEMMA TimesAre ==
  ASSUME GreetInv, [Next]_vars
  PROVE  SameTimes \/ NewTime
<1>1. ASSUME UNCHANGED <<greeting, clock>> PROVE SameTimes
  BY <1>1 DEF SameTimes
<1>2. ASSUME NEW x \in Users, Elapse(x) PROVE SameTimes
  BY <1>2, ElapseIs DEF SameRows, SameTimes
<1>3. ASSUME NEW w \in Workers, NEW status \in {"sent", "unsure", "failed"},
             worker[w].pc \in Delivering, Mark(w, status), clock' = clock
      PROVE  SameTimes
  <2> DEFINE u == worker[w].from
  <2>1. u \in Users
    BY <1>3, MarkIs
  <2>2. PICK g \in GreetRecord :
          greeting' = [greeting EXCEPT ![u] = g] /\ g.at = greeting[u].at
    BY <1>3, MarkIs
  <2>3. greeting \in [Users -> GreetRecord]
    BY DEF GreetInv, RowsOK
  <2>4. QED BY <1>3, <2>1, <2>2, <2>3 DEF SameTimes
<1>4. ASSUME NEW w \in Workers, Rollback(w) \/ Recover(w) PROVE SameTimes
  <2>1. worker[w].from \in Users /\ UNCHANGED <<stored, clock>>
        /\ (RollbackTx(worker[w].from, worker[w].at) \/ NoTx)
    BY <1>4, WorkerIs DEF Rollback, Recover
  <2>2. QED BY <2>1, RollbackTxIs DEF SameRows, SameTimes
<1>5. ASSUME NEW w \in Workers, Record(w) PROVE SameTimes \/ NewTime
  <2> DEFINE u == worker[w].from
  <2>1. u \in Users /\ greeting \in [Users -> GreetRecord]
    BY <1>5, WorkerIs DEF Record, GreetInv, RowsOK
  <2>2. CASE /\ clock' = clock + 1
             /\ greeting' = [greeting EXCEPT ![u] =
                  [NoGreeting EXCEPT !.at = clock', !.status = "unsure"]]
    <3> DEFINE g == [NoGreeting EXCEPT !.at = clock + 1, !.status = "unsure"]
    <3>1. greeting' = [greeting EXCEPT ![u] = g]
      BY <2>2
    <3>2. g.at = clock + 1
      BY DEF NoGreeting
    <3> HIDE DEF g
    <3>3. greeting'[u].at = clock + 1
          /\ \A x \in Users \ {u} : greeting'[x].at = greeting[x].at
      BY <2>1, <3>1, <3>2
    <3>4. QED BY <2>1, <2>2, <3>3 DEF NewTime
  <2>3. QED BY <1>1, <1>5, <2>2 DEF Record
<1>6. ASSUME NEW w \in Workers,
             Abandon(w) \/ MarkSent(w) \/ MarkUnsure(w) \/ MarkFailed(w)
      PROVE  SameTimes
  <2>1. worker[w].pc \in Delivering /\ clock' = clock
    BY <1>6 DEF Abandon, MarkSent, MarkUnsure, MarkFailed, Delivering
  <2>2. CASE UNCHANGED greeting
    <3>1. UNCHANGED <<greeting, clock>>
      BY <2>1, <2>2
    <3>2. QED BY <1>1, <3>1
  <2>3. UNCHANGED greeting
        \/ \E status \in {"sent", "unsure", "failed"} : Mark(w, status)
    BY <1>6 DEF Abandon, MarkSent, MarkUnsure, MarkFailed
  <2>4. QED BY <1>3, <2>1, <2>2, <2>3
<1>7. ASSUME NEW w \in Workers, WorkerStep(w) PROVE SameTimes \/ NewTime
  <2>1. CASE Look(w) \/ Stats(w) \/ Reserve(w) \/ Ensure(w) \/ Release(w)
             \/ Search(w) \/ Check(w) \/ RemoveSender(w) \/ AddReceiver(w) \/ Settle(w)
             \/ Send(w)
    BY <1>1, <2>1 DEF Look, Stats, Reserve, Ensure, Release, Search, Check,
                      RemoveSender, AddReceiver, Settle, Send
  <2>2. QED BY <1>4, <1>5, <1>6, <1>7, <2>1 DEF WorkerStep
<1>8. ASSUME NEW w \in Workers, NEW x \in Users, Begin(w, x)
      PROVE  SameTimes
  <2>1. UNCHANGED <<greeting, clock>>
    BY <1>8 DEF Begin, Greet, JobRollback, JobDeliver, JobTakes
  <2>2. QED BY <1>1, <2>1
<1>9. ASSUME NEW x \in Users, Counting(x) \/ DirectMessage(x) \/ Reply(x)
      PROVE  SameTimes
  <2>1. UNCHANGED <<greeting, clock>>
    BY <1>9 DEF Counting, DirectMessage, Reply, Elsewhere
  <2>2. QED BY <1>1, <2>1
<1>10. CASE UNCHANGED vars
  BY <1>1, <1>10 DEF vars
<1>11. ASSUME NEW w \in Workers, Crash(w) PROVE SameTimes
  <2>1. UNCHANGED <<greeting, clock>>
    BY <1>11 DEF Crash
  <2>2. QED BY <1>1, <2>1
<1>12. QED BY <1>2, <1>7, <1>8, <1>9, <1>10, <1>11 DEF Next, GreetNext

LEMMA RowsDifferKept ==
  ASSUME GreetInv, RowsDiffer, [Next]_vars
  PROVE  RowsDiffer'
<1>1. \A u \in Users : greeting[u].at \in Nat /\ greeting[u].at <= clock /\ clock \in Nat
  BY DEF GreetInv, RowsOK, GreetRecord
<1>2. CASE SameTimes
  BY <1>2 DEF SameTimes, RowsDiffer
<1>3. CASE NewTime
  <2>1. PICK x \in Users : /\ greeting'[x].at = clock + 1
                           /\ \A u \in Users \ {x} : greeting'[u].at = greeting[u].at
    BY <1>3 DEF NewTime
  <2>2. \A u \in Users \ {x} : greeting'[u].at # greeting'[x].at
    BY <1>1, <2>1
  <2>3. QED BY <2>1, <2>2 DEF RowsDiffer
<1>4. QED BY <1>2, <1>3, TimesAre

\* A greeting that is rolled back stays so.
LEMMA MarksStay ==
  ASSUME GreetInv, [Next]_vars, NEW at \in Nat, at <= clock,
         \A u \in Users : greeting[u].at = at => greeting[u].done
  PROVE  at <= clock' /\ \A u \in Users : greeting'[u].at = at => greeting'[u].done
<1>1. clock \in Nat /\ \A u \in Users : greeting[u].at \in Nat
  BY DEF GreetInv, RowsOK, GreetRecord
<1>2. at <= clock'
  BY <1>1, TimesAre DEF SameTimes, NewTime
<1>3. ASSUME NEW u \in Users, greeting'[u].at = at PROVE greeting[u].at = at
  BY <1>1, <1>3, TimesAre DEF SameTimes, NewTime
<1>4. QED BY <1>2, <1>3, MarkerStays

-----------------------------------------------------------------------------
(***************************************************************************)
(* The outbox                                                              *)
(***************************************************************************)
LEMMA KeysAre ==
  ASSUME NEW kind \in TaskKind, NEW at \in Nat
  PROVE  /\ Keys(kind, at) \subseteq PermTask
         /\ \A k \in Keys(kind, at) : k.kind = kind /\ k.at = at
         /\ \A c \in Channels :
              \E k \in Keys(kind, at) : k.kind = kind /\ k.channel = c /\ k.at = at
<1> DEFINE key(c) == [kind |-> kind, channel |-> c, at |-> at]
<1>1. \A c \in Channels :
        /\ key(c) \in Keys(kind, at) /\ key(c) \in PermTask
        /\ key(c).kind = kind /\ key(c).channel = c /\ key(c).at = at
  BY DEF Keys, PermTask
<1>2. \A k \in Keys(kind, at) : \E c \in Channels : k = key(c)
  BY DEF Keys
<1> HIDE DEF key
<1>3. QED BY <1>1, <1>2

LEMMA SetIs ==
  ASSUME PermTypes, NEW channel, NEW allowed \in BOOLEAN
  PROVE  /\ Set(channel, allowed) \in [Channels -> BOOLEAN]
         /\ \A c \in Channels :
              Set(channel, allowed)[c] => whitelist[c] \/ (c = channel /\ allowed)
<1>1. whitelist \in [Channels -> BOOLEAN]
  BY DEF PermTypes
<1>2. Set(channel, allowed) \in [Channels -> BOOLEAN]
  BY <1>1 DEF Set
<1>3. \A c \in Channels :
        Set(channel, allowed)[c] = IF c = channel THEN allowed ELSE whitelist[c]
  BY DEF Set
<1>4. QED BY <1>2, <1>3

LEMMA RollbackIs ==
  ASSUME GreetInv, NEW w \in Workers, RollbackEnqueues(w)
  PROVE  /\ worker[w].from \in Users /\ worker[w].at \in Nat
         /\ \/ tasks' = tasks
            \/ Undoes(w) /\ tasks' = tasks \cup Keys("rollback", worker[w].at)
<1>1. worker[w].from \in Users /\ worker[w].at \in Nat
  BY WorkerIs DEF RollbackEnqueues, Rollback, Recover
<1>2. CASE contact.status # "none" /\ contact'.status = "none"
  <2>1. tasks' = tasks \cup Keys("rollback", worker[w].at)
    BY <1>2 DEF RollbackEnqueues
  <2>2. RollbackTx(worker[w].from, worker[w].at) \/ NoTx
    BY DEF RollbackEnqueues, Rollback, Recover
  <2>3. contact' # contact
    BY <1>2
  <2>4. Claimable(worker[w].from, worker[w].at)
    BY <2>2, <2>3 DEF RollbackTx, NoTx
  <2>5. QED BY <1>1, <1>2, <2>1, <2>4 DEF Undoes
<1>3. CASE ~(contact.status # "none" /\ contact'.status = "none")
  BY <1>1, <1>3 DEF RollbackEnqueues
<1>4. QED BY <1>2, <1>3

\* What a step that is not of the flush job may do.
Beside ==
  /\ flush' = flush
  /\ whitelist' \in [Channels -> BOOLEAN]
  /\ \A c \in Channels : whitelist'[c] => whitelist[c] \/ Desired(c)
  /\ tasks' \subseteq PermTask /\ queued' \subseteq PermTask
  /\ \A k \in queued' : k.kind = "pending"
  /\ \A k \in tasks : k.kind = "rollback" => k \in tasks'
  /\ \A k \in tasks' \ tasks :
       k.kind = "rollback" =>
         \E w \in Workers : /\ Undoes(w) /\ k \in Keys("rollback", worker[w].at)

LEMMA EnsureBeside ==
  ASSUME GreetInv, PermTypes, NEW w \in Workers, EnsureEnqueues(w)
  PROVE  Beside
<1>1. worker[w].at \in Nat
  BY WorkerIs
<1>2. /\ Keys("pending", worker[w].at) \subseteq PermTask
      /\ \A k \in Keys("pending", worker[w].at) : k.kind = "pending"
  BY <1>1, KeysAre DEF TaskKind
<1>3. QED BY <1>2 DEF EnsureEnqueues, Beside, PermTypes

LEMMA CallsBeside ==
  ASSUME GreetInv, PermTypes, PermitsOf, NEW w \in Workers,
         RemoveCalls(w) \/ AddCalls(w)
  PROVE  Beside
<1>1. UNCHANGED <<tasks, queued, flush>>
  BY DEF RemoveCalls, AddCalls
<1>2. whitelist \in [Channels -> BOOLEAN]
  BY DEF PermTypes
<1>3. CASE UNCHANGED whitelist
  BY <1>1, <1>2, <1>3 DEF Beside, PermTypes
<1>4. CASE RemoveCalls(w) /\ whitelist' = Set(Other(worker[w].from), FALSE)
  <2>1. whitelist' \in [Channels -> BOOLEAN]
        /\ \A c \in Channels : whitelist'[c] => whitelist[c]
    BY <1>4, SetIs
  <2>2. QED BY <1>1, <2>1 DEF Beside, PermTypes
<1>5. CASE AddCalls(w) /\ whitelist' = Set(worker[w].from, TRUE)
  <2>1. Grants(contact, worker[w].from)
    BY <1>5 DEF AddCalls, AddReceiver, PermitsOf, Granted
  <2>2. worker[w].from \in Channels => Desired(worker[w].from)
    BY <2>1, ChannelIs
  <2>3. whitelist' \in [Channels -> BOOLEAN]
        /\ \A c \in Channels : whitelist'[c] => whitelist[c] \/ c = worker[w].from
    BY <1>5, SetIs
  <2>4. QED BY <1>1, <2>2, <2>3 DEF Beside, PermTypes
<1>6. QED BY <1>3, <1>4, <1>5 DEF RemoveCalls, AddCalls

LEMMA SettleBeside ==
  ASSUME GreetInv, PermTypes, NEW w \in Workers, SettleCloses(w)
  PROVE  Beside
<1>1. worker[w].at \in Nat
  BY WorkerIs
<1>2. \A k \in Keys("pending", worker[w].at) : k.kind = "pending"
  BY <1>1, KeysAre DEF TaskKind
<1>3. QED BY <1>2 DEF SettleCloses, Beside, PermTypes

LEMMA RollbackBeside ==
  ASSUME GreetInv, PermTypes, NEW w \in Workers, RollbackEnqueues(w)
  PROVE  Beside
<1>1. worker[w].at \in Nat /\ UNCHANGED <<whitelist, queued, flush>>
      /\ \/ tasks' = tasks
         \/ Undoes(w) /\ tasks' = tasks \cup Keys("rollback", worker[w].at)
  BY RollbackIs DEF RollbackEnqueues
<1>2. Keys("rollback", worker[w].at) \subseteq PermTask
  BY <1>1, KeysAre DEF TaskKind
<1>3. QED BY <1>1, <1>2 DEF Beside, PermTypes

LEMMA OtherBeside ==
  ASSUME PermTypes, UNCHANGED permVars
  PROVE  Beside
BY DEF Beside, PermTypes, permVars

LEMMA GatewayBeside ==
  ASSUME PermTypes, NEW u \in Users, DirectMessageCalls(u) \/ ReplyEnqueues(u)
  PROVE  Beside
<1>1. Keys("active", 0) \subseteq PermTask
      /\ \A k \in Keys("active", 0) : k.kind = "active"
  BY KeysAre DEF TaskKind
<1>2. CASE ReplyEnqueues(u)
  BY <1>1, <1>2 DEF ReplyEnqueues, Beside, PermTypes
<1>3. CASE DirectMessageCalls(u)
  <2>1. UNCHANGED <<tasks, queued, flush>>
        /\ (UNCHANGED whitelist \/ whitelist' = Set(Other(u), FALSE))
    BY <1>3 DEF DirectMessageCalls
  <2>2. whitelist' \in [Channels -> BOOLEAN]
        /\ \A c \in Channels : whitelist'[c] => whitelist[c]
    <3>1. CASE UNCHANGED whitelist
      BY <3>1 DEF PermTypes
    <3>2. CASE whitelist' = Set(Other(u), FALSE)
      BY <3>2, SetIs
    <3>3. QED BY <2>1, <3>1, <3>2
  <2>3. QED BY <2>1, <2>2 DEF Beside, PermTypes
<1>4. QED BY <1>2, <1>3

LEMMA RepairBeside ==
  ASSUME PermTypes, Repair
  PROVE  Beside
<1>1. Keys("repair", 0) \subseteq PermTask
      /\ \A k \in Keys("repair", 0) : k.kind = "repair"
  BY KeysAre DEF TaskKind
<1>2. QED BY <1>1 DEF Repair, FlushUnchanged, Beside, PermTypes

Flushes == FlushRead \/ FlushApply \/ FlushDone \/ FlushCrash

LEMMA StepIs ==
  ASSUME GreetInv, PermTypes, PermitsOf, [PermNext]_<<vars, permVars>>
  PROVE  Beside \/ Flushes
BY EnsureBeside, CallsBeside, SettleBeside, RollbackBeside, OtherIs, OtherBeside,
   GatewayBeside, RepairBeside DEF PermNext, Flushes

-----------------------------------------------------------------------------
(***************************************************************************)
(* Steps that are not of the flush job                                     *)
(***************************************************************************)
LEMMA UndoneIs ==
  ASSUME GreetInv, RowsDiffer, [Next]_vars, NEW w \in Workers, Undoes(w)
  PROVE  /\ worker[w].from \in Users /\ worker[w].at \in Nat
         /\ greeting[worker[w].from].at = worker[w].at
         /\ ~greeting[worker[w].from].done
         /\ worker[w].at <= clock'
         /\ \A u \in Users : greeting'[u].at = worker[w].at => greeting'[u].done
<1> DEFINE x == worker[w].from
<1>1. /\ x \in Users /\ worker[w].at \in Nat /\ Claimable(x, worker[w].at)
      /\ UNCHANGED <<stored, clock>>
  BY RollbackIs DEF Undoes, RollbackEnqueues, Rollback, Recover
<1>2. RollbackTx(x, worker[w].at) \/ NoTx
  BY DEF Undoes, RollbackEnqueues, Rollback, Recover
<1>3. contact' # contact
  BY DEF Undoes
<1>4. greeting' = [greeting EXCEPT ![x].done = TRUE]
  BY <1>1, <1>2, <1>3 DEF RollbackTx, NoTx
<1>5. SameRows
  BY <1>1, <1>2, RollbackTxIs
<1>6. greeting \in [Users -> GreetRecord] /\ greeting[x] \in GreetRecord
  BY <1>1 DEF GreetInv, RowsOK
<1>7. greeting'[x].done
  BY <1>1, <1>4, <1>6 DEF GreetRecord
<1>8. worker[w].at # 0 /\ worker[w].at <= clock /\ clock' = clock
  BY <1>1 DEF Claimable, GreetInv, RowsOK
<1>9. ASSUME NEW u \in Users, greeting'[u].at = worker[w].at PROVE u = x
  BY <1>1, <1>5, <1>8, <1>9 DEF SameRows, RowsDiffer, Claimable
<1>10. QED BY <1>1, <1>7, <1>8, <1>9 DEF Claimable

LEMMA BesideKeeps ==
  ASSUME PermInv, NoTakeover, [PermNext]_<<vars, permVars>>, Beside
  PROVE  PermTypes' /\ Marked' /\ Covered'
<1>1. GreetInv /\ PermTypes /\ RowsDiffer /\ Marked /\ Covered /\ [Next]_vars
  BY PermStep DEF PermInv
<1>2. PermTypes'
  BY <1>1, ContactIs DEF PermTypes, Beside
<1>3. ASSUME NEW k \in tasks' \cup flush'.key, k.kind = "rollback"
      PROVE  k.at <= clock' /\ \A u \in Users : greeting'[u].at = k.at => greeting'[u].done
  <2>1. CASE k \in tasks \cup flush.key
    <3>1. k \in PermTask
      BY <1>1, <2>1 DEF PermTypes
    <3>2. k.at \in Nat
      BY <3>1 DEF PermTask
    <3>3. k.at <= clock /\ \A u \in Users : greeting[u].at = k.at => greeting[u].done
      BY <1>1, <1>3, <2>1 DEF Marked
    <3>4. QED BY <1>1, <3>2, <3>3, MarksStay
  <2>2. CASE k \in tasks' \ tasks
    <3>1. PICK w \in Workers : Undoes(w) /\ k \in Keys("rollback", worker[w].at)
      BY <1>3, <2>2 DEF Beside
    <3>2. worker[w].at \in Nat
      BY <1>1, WorkerIs
    <3>3. k.at = worker[w].at
      BY <3>1, <3>2, KeysAre DEF TaskKind
    <3>4. QED BY <1>1, <3>1, <3>3, UndoneIs
  <2>3. QED BY <1>3, <2>1, <2>2 DEF Beside
<1>4. Marked'
  BY <1>3 DEF Marked
<1>5. ASSUME NEW c \in Channels, Allows(c)', ~Desired(c)' PROVE Covers(c)'
  <2>1. c \in Users /\ (Desired(c) <=> Grants(contact, c))
        /\ (Desired(c)' <=> Grants(contact', c))
    BY ChannelIs DEF Desired, Grants
  <2>2. CASE Desired(c)
    <3>1. PICK w \in Workers : Undoes(w) /\ worker[w].from = c
      BY <1>1, <1>5, <2>1, <2>2, ContactIs DEF PermInv
    <3>2. /\ worker[w].at \in Nat /\ greeting[c].at = worker[w].at /\ ~greeting[c].done
      BY <1>1, <3>1, UndoneIs
    <3>3. PICK k \in Keys("rollback", worker[w].at) :
            k.kind = "rollback" /\ k.channel = c /\ k.at = worker[w].at
      BY <3>2, KeysAre DEF TaskKind
    <3>4. k \notin flush.key
      BY <1>1, <2>1, <3>2, <3>3 DEF Marked
    <3>5. k \in tasks' /\ flush' = flush
      BY <3>1, <3>3 DEF Undoes, RollbackEnqueues
    <3>6. QED BY <3>3, <3>4, <3>5 DEF Covers
  <2>3. CASE ~Desired(c)
    <3>1. Allows(c)
      BY <1>5, <2>3 DEF Allows, Beside
    <3>2. Covers(c)
      BY <1>1, <2>3, <3>1 DEF Covered
    <3>3. QED BY <3>2 DEF Covers, Beside
  <2>4. QED BY <2>2, <2>3
<1>6. Covered'
  BY <1>5 DEF Covered
<1>7. QED BY <1>2, <1>4, <1>6

-----------------------------------------------------------------------------
(***************************************************************************)
(* The flush job                                                           *)
(***************************************************************************)
\* Nothing but the permissions and the job itself changes.
LEMMA FlushIs ==
  ASSUME PermTypes, Flushes
  PROVE  /\ UNCHANGED <<contact, greeting, clock, queued>> /\ tasks' \subseteq tasks
         /\ \A c \in Channels : Desired(c)' <=> Desired(c)
<1>1. UNCHANGED <<contact, greeting, clock, queued>> /\ tasks' \subseteq tasks
  BY DEF Flushes, FlushRead, FlushApply, FlushDone, FlushCrash, FlushUnchanged
<1>2. QED BY <1>1 DEF Desired

LEMMA IdleFlush ==
  /\ FlushIdle.pc = "idle" /\ FlushIdle.key = {} /\ ~FlushIdle.want
  /\ FlushIdle \in [pc : {"idle", "apply", "done"}, key : SUBSET PermTask,
                    want : BOOLEAN]
BY DEF FlushIdle

LEMMA ReadKept ==
  ASSUME PermTypes, Marked, Covered, FlushRead
  PROVE  PermTypes' /\ Marked' /\ Covered'
<1>1. PICK k \in tasks \cup queued :
        flush' = [pc |-> "apply", key |-> {k}, want |-> Desired(k.channel)]
  BY DEF FlushRead
<1>2. k \in PermTask /\ Desired(k.channel) \in BOOLEAN
  BY DEF PermTypes, Desired
<1>3. flush'.pc = "apply" /\ flush'.key = {k} /\ (flush'.want <=> Desired(k.channel))
  BY <1>1
<1>4. flush' \in [pc : {"idle", "apply", "done"}, key : SUBSET PermTask, want : BOOLEAN]
  BY <1>1, <1>2
<1>5. UNCHANGED <<contact, greeting, clock, queued, whitelist, tasks>>
  BY DEF FlushRead, FlushUnchanged
<1>6. PermTypes'
  BY <1>2, <1>3, <1>4, <1>5 DEF PermTypes
<1>7. Marked'
  BY <1>3, <1>5 DEF Marked, PermTypes
<1>8. ASSUME NEW c \in Channels, Allows(c)', ~Desired(c)' PROVE Covers(c)'
  <2>1. ~Desired(c) /\ flush.key = {}
    BY <1>5, <1>8 DEF Desired, FlushRead, PermTypes
  <2>2. whitelist[c]
    BY <1>3, <1>5, <1>8, <2>1 DEF Allows
  <2>3. Covers(c)
    BY <2>1, <2>2 DEF Covered, Allows
  <2>4. PICK j \in tasks : j.kind = "rollback" /\ j.channel = c
    BY <2>3 DEF Covers
  <2>5. j \in flush'.key => flush'.pc = "apply" /\ ~flush'.want
    BY <1>3, <2>1, <2>4
  <2>6. QED BY <1>5, <2>4, <2>5 DEF Covers
<1>9. QED BY <1>6, <1>7, <1>8 DEF Covered

\* The job goes on with its task, or breaks off.
LEMMA JobGoesOn ==
  ASSUME PermTypes, Marked, Flushes, whitelist' \in [Channels -> BOOLEAN],
         \/ flush' = FlushIdle
         \/ flush.pc = "apply" /\ flush' = [flush EXCEPT !.pc = "done"]
  PROVE  PermTypes' /\ Marked'
<1>1. UNCHANGED <<contact, greeting, clock, queued>> /\ tasks' \subseteq tasks
  BY FlushIs
<1>2. CASE flush' = FlushIdle
  BY <1>1, <1>2, IdleFlush DEF PermTypes, Marked
<1>3. CASE flush.pc = "apply" /\ flush' = [flush EXCEPT !.pc = "done"]
  <2>1. /\ flush' \in [pc : {"idle", "apply", "done"}, key : SUBSET PermTask,
                       want : BOOLEAN]
        /\ flush'.pc = "done" /\ flush'.key = flush.key
    BY <1>3 DEF PermTypes
  <2>2. QED BY <1>1, <1>3, <2>1 DEF PermTypes, Marked
<1>4. QED BY <1>2, <1>3

LEMMA ApplyKept ==
  ASSUME PermTypes, Marked, Covered, FlushApply
  PROVE  PermTypes' /\ Marked' /\ Covered'
<1>1. flush.pc = "apply" /\ Flushes /\ flush.want \in BOOLEAN
      /\ whitelist \in [Channels -> BOOLEAN]
  BY DEF FlushApply, Flushes, PermTypes
<1>2. PICK k \in flush.key :
        \/ whitelist' = Set(k.channel, flush.want) /\ flush' = [flush EXCEPT !.pc = "done"]
        \/ whitelist' \in {Set(k.channel, flush.want), whitelist} /\ flush' = FlushIdle
  BY DEF FlushApply
<1>3. flush.key = {k}
  BY <1>1 DEF PermTypes
<1>4. whitelist' \in [Channels -> BOOLEAN]
      /\ \A c \in Channels :
           whitelist'[c] => whitelist[c] \/ (c = k.channel /\ flush.want)
  <2>1. CASE whitelist' = whitelist
    BY <1>1, <2>1
  <2>2. CASE whitelist' = Set(k.channel, flush.want)
    BY <1>1, <2>2, SetIs
  <2>3. QED BY <1>2, <2>1, <2>2
<1>5. PermTypes' /\ Marked'
  BY <1>1, <1>2, <1>4, JobGoesOn
<1>6. UNCHANGED <<contact, tasks>>
  BY DEF FlushApply, FlushUnchanged
<1>7. flush'.pc # "apply"
  BY <1>2, IdleFlush DEF PermTypes
<1>8. flush'.key \subseteq flush.key
  BY <1>2, IdleFlush DEF PermTypes
<1>9. ASSUME NEW c \in Channels, Allows(c)', ~Desired(c)' PROVE Covers(c)'
  <2>1. whitelist'[c] /\ ~Desired(c)
    BY <1>6, <1>7, <1>9 DEF Allows, Desired
  <2>2. Allows(c)
    BY <1>1, <1>3, <1>4, <2>1 DEF Allows
  <2>3. PICK j \in tasks : /\ j.kind = "rollback" /\ j.channel = c
                           /\ j \in flush.key => ~flush.want
    BY <2>1, <2>2 DEF Covered, Covers
  <2>4. j \notin flush'.key
    <3>1. CASE flush' = FlushIdle
      BY <3>1, IdleFlush
    <3>2. CASE flush.want
      BY <1>8, <2>3, <3>2
    <3>3. CASE ~flush.want /\ c # k.channel
      BY <1>3, <1>8, <2>3, <3>3
    <3>4. CASE ~flush.want /\ c = k.channel /\ whitelist' = Set(k.channel, flush.want)
      BY <2>1, <3>4 DEF Set
    <3>5. QED BY <1>1, <1>2, <3>1, <3>2, <3>3, <3>4
  <2>5. QED BY <1>6, <2>3, <2>4 DEF Covers
<1>10. QED BY <1>5, <1>9 DEF Covered

LEMMA DoneKept ==
  ASSUME PermTypes, Marked, Covered, FlushDone \/ FlushCrash
  PROVE  PermTypes' /\ Marked' /\ Covered'
<1>1. /\ Flushes /\ flush' = FlushIdle /\ UNCHANGED <<contact, whitelist>>
      /\ tasks \ flush.key \subseteq tasks'
      /\ flush.pc = "done" \/ tasks' = tasks
  BY DEF FlushDone, FlushCrash, FlushUnchanged, Flushes
<1>2. PermTypes' /\ Marked'
  BY <1>1, JobGoesOn DEF PermTypes
<1>3. ASSUME NEW c \in Channels, Allows(c)', ~Desired(c)' PROVE Covers(c)'
  <2>1. whitelist[c] /\ ~Desired(c)
    BY <1>1, <1>3, IdleFlush DEF Allows, Desired
  <2>2. PICK j \in tasks : /\ j.kind = "rollback" /\ j.channel = c
                           /\ j \in flush.key => flush.pc = "apply"
    BY <2>1 DEF Covered, Covers, Allows
  <2>3. j \in tasks'
    BY <1>1, <2>2
  <2>4. j \notin flush'.key
    BY <1>1, IdleFlush
  <2>5. QED BY <2>2, <2>3, <2>4 DEF Covers
<1>4. QED BY <1>2, <1>3 DEF Covered

-----------------------------------------------------------------------------
(***************************************************************************)
(* The invariant and the theorems                                          *)
(***************************************************************************)
LEMMA InitPermInv == PermInit => PermInv
<1> SUFFICES ASSUME PermInit PROVE PermInv
  OBVIOUS
<1>1. GreetInv
  BY InitGreetInv DEF PermInit
<1>2. /\ contact = NoContact /\ contact \in Contact
      /\ \A u \in Users : greeting[u].at = 0
      /\ \A w \in Workers : worker[w].pc = "idle"
  BY IdleIs DEF PermInit, Init, NoContact, Contact, ContactStatus, NoGreeting
<1>3. \A c \in Channels : whitelist[c] = FALSE
  BY DEF PermInit
<1>4. whitelist \in [Channels -> BOOLEAN]
  BY DEF PermInit
<1>5. flush.pc = "idle" /\ flush.key = {} /\ tasks = {} /\ queued = {}
      /\ flush \in [pc : {"idle", "apply", "done"}, key : SUBSET PermTask, want : BOOLEAN]
  BY IdleFlush DEF PermInit
<1>6. PermTypes
  BY <1>2, <1>4, <1>5 DEF PermTypes
<1>7. PermitsOf /\ RowsDiffer
  BY <1>2 DEF PermitsOf, RowsDiffer, Granted
<1>8. Marked
  BY <1>5 DEF Marked
<1>9. Covered
  BY <1>3, <1>5 DEF Covered, Allows
<1>10. QED BY <1>1, <1>6, <1>7, <1>8, <1>9 DEF PermInv

LEMMA NextPermInv ==
  ASSUME PermInv, ~Overlap, NoTakeover, [PermNext]_<<vars, permVars>>
  PROVE  PermInv'
<1>1. GreetInv /\ PermTypes /\ PermitsOf /\ RowsDiffer /\ Marked /\ Covered
      /\ [Next]_vars
  BY PermStep DEF PermInv
<1>2. GreetInv' /\ PermitsOf' /\ RowsDiffer'
  BY <1>1, NextGreetInv, PermitsKept, RowsDifferKept
<1>3. PermTypes' /\ Marked' /\ Covered'
  <2>1. CASE Beside
    BY <2>1, BesideKeeps
  <2>2. CASE Flushes
    BY <1>1, <2>2, ReadKept, ApplyKept, DoneKept DEF Flushes
  <2>3. QED BY <1>1, <2>1, <2>2, StepIs
<1>4. QED BY <1>2, <1>3 DEF PermInv

LEMMA PermInvKept ==
  ASSUME ~Overlap
  PROVE  PermSpec /\ []NoTakeover => []PermInv
<1>1. PermInv /\ NoTakeover /\ [PermNext]_<<vars, permVars>> => PermInv'
  BY NextPermInv
<1>2. QED BY <1>1, InitPermInv, PTL DEF PermSpec

LEMMA SettledIs ==
  ASSUME PermInv, NEW c \in Channels, Settled(c), whitelist[c]
  PROVE  Desired(c)
BY DEF PermInv, Covered, Allows, Covers, Settled

\* Once the outbox has caught up the requester of a pending relation cannot send
\* past the gateway, whatever calls of the IM server failed, took effect without
\* an answer or came late (flushPartnerIMPermissionOutbox and
\* ensurePendingPermissionsNow, modules/partners/service.go), as long as no two
\* runs deliver for one sender and no insert takes a relation over.
THEOREM NoWayAroundTheGateway ==
  ASSUME ~Overlap
  PROVE  PermSpec /\ []NoTakeover => []RequesterKeptOut
<1>1. PermInv => RequesterKeptOut
  BY SettledIs DEF RequesterKeptOut, Desired, IsPendingOf
<1>2. QED BY <1>1, PermInvKept, PTL

\* Under the same conditions a relation that was rolled back leaves no channel
\* open (db.rollbackPendingGreetingSend, modules/partners/db.go).
THEOREM RolledBackIsForgotten ==
  ASSUME ~Overlap
  PROVE  PermSpec /\ []NoTakeover => []NothingLeftBehind
<1>1. PermInv => NothingLeftBehind
  BY SettledIs DEF NothingLeftBehind, Desired, IsPendingOf
<1>2. QED BY <1>1, PermInvKept, PTL

-----------------------------------------------------------------------------
(***************************************************************************)
(* When the two users do not greet each other at the same time             *)
(***************************************************************************)
\* Those at work on the pair have one sender.
OneSender ==
  \A v, w \in Workers :
    worker[v].pc # "idle" /\ worker[w].pc # "idle" => worker[v].from = worker[w].from

\* Where a run has not yet inserted the relation.
Before == {"look", "recover", "stats", "reserve", "record", "ensure"}

\* The relation that a run is about to insert is nobody else's.
AimsRight ==
  \A w \in Workers :
    worker[w].pc \in Before /\ contact.status = "pending"
      => contact.requester = worker[w].from

LEMMA EnsureTakes ==
  ASSUME NEW c \in Contact, NEW u \in Users
  PROVE  EnsurePending(c, u).requester = u
<1>1. CASE c.status = "none"
  BY <1>1 DEF EnsurePending
<1>2. CASE c.status # "none"
  <2> DEFINE h == [c EXCEPT !.requester = u]
             e == [h EXCEPT !.count = Larger(c.count, 1)]
  <2>1. EnsurePending(c, u) = e
    BY <1>2 DEF EnsurePending, Contact
  <2>2. h \in Contact /\ h.requester = u
    BY DEF Contact
  <2> HIDE DEF h
  <2>3. e.requester = u
    BY <2>2 DEF Contact
  <2> HIDE DEF e
  <2>4. QED BY <2>1, <2>3
<1>3. QED BY <1>1, <1>2

LEMMA CountSays ==
  ASSUME NEW c \in Contact, NEW n, NEW d, d = [c EXCEPT !.count = n]
  PROVE  d.status = c.status /\ d.requester = c.requester
BY DEF Contact

LEMMA DropSays ==
  ASSUME NEW c \in Contact, NEW u \in Users, NEW d, d = DropGreeting(c, u),
         d.status = "pending"
  PROVE  d.status = c.status /\ d.requester = c.requester
<1>1. CASE d = c
  BY <1>1
<1>2. CASE d = NoContact
  BY <1>2 DEF NoContact
<1>3. CASE d = [c EXCEPT !.count = c.count - 1]
  BY <1>3, CountSays
<1>4. QED BY <1>1, <1>2, <1>3 DEF DropGreeting

\* A pending relation has the requester that it had, or one that inserts it.
LEMMA RequesterIs ==
  ASSUME GreetInv, contact \in Contact, [Next]_vars, contact'.status = "pending"
  PROVE  \/ contact.status = "pending" /\ contact'.requester = contact.requester
         \/ \E v \in Workers :
              worker[v].pc = "ensure" /\ contact'.requester = worker[v].from
<1> DEFINE Same == contact.status = "pending" /\ contact'.requester = contact.requester
<1>1. ASSUME contact' = contact PROVE Same
  BY <1>1
<1>2. ASSUME NEW w \in Workers, Ensure(w)
      PROVE  Same \/ (worker[w].pc = "ensure" /\ contact'.requester = worker[w].from)
  <2>1. worker[w].pc = "ensure" /\ worker[w].from \in Users
    BY <1>2, WorkerIs DEF Ensure
  <2>2. contact' = contact \/ contact' = EnsurePending(contact, worker[w].from)
    BY <1>2 DEF Ensure
  <2>3. QED BY <2>1, <2>2, EnsureTakes
<1>3. ASSUME NEW w \in Workers, Rollback(w) \/ Recover(w) PROVE Same
  <2>1. worker[w].from \in Users
    BY <1>3, WorkerIs DEF Rollback, Recover
  <2>2. contact' = contact \/ contact' = DropGreeting(contact, worker[w].from)
    BY <1>3 DEF Rollback, Recover, RollbackTx, NoTx
  <2>3. QED BY <2>1, <2>2, DropSays
<1>4. ASSUME NEW u \in Users, Counting(u) \/ DirectMessage(u) PROVE Same
  <2>1. contact' = contact \/ \E n : contact' = [contact EXCEPT !.count = n]
    BY <1>4 DEF Counting, DirectMessage, ReserveOne, ReleaseOne, CountDirect
  <2>2. QED BY <2>1, CountSays
<1>5. ASSUME NEW u \in Users, Reply(u) PROVE Same
  BY <1>5 DEF Reply, Activate, Contact
<1>6. ASSUME NEW w \in Workers,
             \/ Look(w) \/ Stats(w) \/ Reserve(w) \/ Record(w) \/ Abandon(w)
             \/ Release(w) \/ Search(w) \/ Check(w) \/ RemoveSender(w)
             \/ AddReceiver(w) \/ Settle(w) \/ Send(w) \/ MarkSent(w)
             \/ MarkUnsure(w) \/ MarkFailed(w) \/ Crash(w)
      PROVE  Same
  BY <1>6 DEF Look, Stats, Reserve, Record, Abandon, Release, Search, Check,
              RemoveSender, AddReceiver, Settle, Send, MarkSent, MarkUnsure,
              MarkFailed, Crash
<1>7. ASSUME NEW w \in Workers, NEW u \in Users, Begin(w, u) PROVE Same
  BY <1>7 DEF Begin, Greet, JobRollback, JobDeliver, JobTakes
<1>8. ASSUME NEW u \in Users, Elapse(u) PROVE Same
  BY <1>8 DEF Elapse
<1>9. CASE UNCHANGED vars
  BY <1>9 DEF vars
<1>10. QED
  BY <1>2, <1>3, <1>4, <1>5, <1>6, <1>7, <1>8, <1>9 DEF Next, GreetNext, WorkerStep

\* A run that is about to insert the relation saw that nobody else had.
LEMMA BeforeIs ==
  ASSUME GreetInv, [Next]_vars, NEW v \in Workers, worker'[v].pc \in Before
  PROVE  \/ worker[v].pc \in Before /\ worker'[v].from = worker[v].from
         \/ /\ UNCHANGED contact
            /\ contact.status = "pending" => contact.requester = worker'[v].from
<1> DEFINE Old == worker[v].pc \in Before /\ worker'[v].from = worker[v].from
<1>1. worker \in [Workers -> WorkerRecord] /\ worker[v] \in WorkerRecord
  BY WorkerIs DEF GreetInv, WorkersOK
<1>2. ASSUME worker'[v] = worker[v] PROVE Old
  BY <1>2
<1>3. ASSUME NEW w \in Workers, Finish(w) PROVE Old
  BY <1>2, <1>3, FinishGoes DEF Before
<1>4. ASSUME NEW w \in Workers, NEW pc, Goto(w, pc), pc \in Before => worker[w].pc \in Before
      PROVE  Old
  BY <1>2, <1>4, GotoIs
<1>5. ASSUME NEW w \in Workers, NEW at, worker[w].pc \in Before,
             worker' = [worker EXCEPT ![w].pc = "recover", ![w].at = at]
             \/ worker' = [worker EXCEPT ![w].pc = "ensure", ![w].at = at]
             \/ worker' = [worker EXCEPT ![w].pc = "search", ![w].at = at,
                                         ![w].run = "retry"]
      PROVE  Old
  <2>1. CASE v = w
    <3>1. worker'[v].from = worker[v].from
      BY <1>1, <1>5, <2>1 DEF WorkerRecord
    <3>2. QED BY <1>5, <2>1, <3>1
  <2>2. CASE v # w
    BY <1>1, <1>2, <1>5, <2>2
  <2>3. QED BY <2>1, <2>2
<1>6. ASSUME NEW w \in Workers, NEW u \in Users, Begin(w, u)
      PROVE  \/ Old
             \/ /\ UNCHANGED contact
                /\ contact.status = "pending" => contact.requester = worker'[v].from
  <2>1. CASE Greet(w, u)
    <3>1. CASE v = w
      <4>1. worker'[v].from = u
        BY <1>1, <2>1, <3>1 DEF Greet
      <4>2. QED BY <2>1, <4>1 DEF Greet, IsPendingOf
    <3>2. CASE v # w
      BY <1>1, <1>2, <2>1, <3>2 DEF Greet
    <3>3. QED BY <3>1, <3>2
  <2>2. ASSUME NEW pc \in {"rollback", "search"}, JobTakes(w, u, pc) PROVE Old
    <3>1. CASE v = w
      BY <1>1, <2>2, <3>1 DEF JobTakes, Before
    <3>2. CASE v # w
      BY <1>1, <1>2, <2>2, <3>2 DEF JobTakes
    <3>3. QED BY <3>1, <3>2
  <2>3. QED BY <1>6, <2>1, <2>2 DEF Begin, JobRollback, JobDeliver
<1>7. ASSUME NEW w \in Workers, Look(w) PROVE Old
  <2>1. /\ worker[w].pc \in Before
        /\ \/ Finish(w)
           \/ \E at : worker' = [worker EXCEPT ![w].pc = "recover", ![w].at = at]
           \/ \E at : worker' = [worker EXCEPT ![w].pc = "search", ![w].at = at,
                                               ![w].run = "retry"]
    BY <1>7 DEF Look, Before
  <2>2. QED BY <1>3, <1>5, <2>1
<1>8. ASSUME NEW w \in Workers, Record(w) PROVE Old
  <2>1. /\ worker[w].pc \in Before
        /\ \/ Goto(w, "release")
           \/ \E at : worker' = [worker EXCEPT ![w].pc = "ensure", ![w].at = at]
    BY <1>8 DEF Record, Before
  <2>2. QED BY <1>4, <1>5, <2>1
<1>9. ASSUME NEW w \in Workers, Stats(w) \/ Reserve(w) \/ Recover(w) PROVE Old
  BY <1>3, <1>4, <1>9 DEF Stats, Reserve, Recover, Before
<1>10. ASSUME NEW w \in Workers,
              \/ Ensure(w) \/ Abandon(w) \/ Release(w) \/ Check(w)
              \/ RemoveSender(w) \/ AddReceiver(w) \/ Settle(w) \/ Send(w)
       PROVE  Old
  BY <1>3, <1>4, <1>10 DEF Ensure, Abandon, Release, Check, RemoveSender,
                           AddReceiver, Settle, Send, Before
<1>11. ASSUME NEW w \in Workers, Search(w) PROVE Old
  <2>1. Goto(w, "sent") \/ Goto(w, "check") \/ Goto(w, "unsure")
    BY <1>11 DEF Search
  <2>2. QED BY <1>4, <2>1 DEF Before
<1>12. ASSUME NEW w \in Workers,
              MarkSent(w) \/ MarkUnsure(w) \/ MarkFailed(w) \/ Rollback(w) \/ Crash(w)
       PROVE  Old
  BY <1>3, <1>4, <1>12 DEF MarkSent, MarkUnsure, MarkFailed, Rollback, Crash, Before
<1>13. ASSUME worker' = worker PROVE Old
  BY <1>2, <1>13
<1>14. ASSUME NEW u \in Users, Counting(u) \/ DirectMessage(u) \/ Reply(u) \/ Elapse(u)
       PROVE  Old
  BY <1>13, <1>14 DEF Counting, DirectMessage, Reply, Elapse, Elsewhere
<1>15. UNCHANGED vars => Old
  BY <1>13 DEF vars
<1>16. QED
  BY <1>6, <1>7, <1>8, <1>9, <1>10, <1>11, <1>12, <1>14, <1>15
     DEF Next, GreetNext, WorkerStep

LEMMA AimsKept ==
  ASSUME GreetInv, contact \in Contact, AimsRight, OneSender, [Next]_vars
  PROVE  AimsRight'
<1> SUFFICES ASSUME NEW w \in Workers, worker'[w].pc \in Before, contact'.status = "pending"
             PROVE  contact'.requester = worker'[w].from
  BY DEF AimsRight
<1>1. CASE worker[w].pc \in Before /\ worker'[w].from = worker[w].from
  BY <1>1, RequesterIs DEF AimsRight, OneSender, Before
<1>2. CASE UNCHANGED contact /\ contact.status = "pending"
           /\ contact.requester = worker'[w].from
  BY <1>2
<1>3. QED BY <1>1, <1>2, BeforeIs

\* The condition of the two theorems above holds as long as the two users do not
\* greet each other at the same time: getPartnerContact turns the second away
\* (RecordGreeting, modules/partners/service.go).
THEOREM OneSenderTakesNothingOver ==
  ASSUME ~Overlap
  PROVE  PermSpec /\ []OneSender => []NoTakeover
<1>1. AimsRight => NoTakeover
  BY DEF AimsRight, NoTakeover, Before
<1>2. PermInit => PermInv /\ AimsRight
  BY InitPermInv, IdleIs DEF PermInit, Init, AimsRight, Before
<1>3. PermInv /\ AimsRight /\ OneSender /\ [PermNext]_<<vars, permVars>>
        => (PermInv /\ AimsRight)'
  BY <1>1, NextPermInv, AimsKept, PermStep DEF PermInv, PermTypes
<1>4. QED BY <1>1, <1>2, <1>3, PTL DEF PermSpec

-----------------------------------------------------------------------------
(***************************************************************************)
(* OnlineStatus: the inductive invariant                                   *)
(***************************************************************************)
Fields == {"pc", "list", "found", "rows", "copied", "torn", "tells"}
Busy == {"row", "copy", "commit"}

\* A writer s has written a row of the user u, has the row of u next to copy.
HasRowOf(s, u) == \E d \in DOMAIN s.rows : Owner(d) = u
Pending(s, u) == s.pc = "copy" /\ Owner(Head(s.list).dev) = u

\* What it holds of u: the row of a device, or all of them.
Takes(s, u) == u \in DOMAIN s.copied \/ HasRowOf(s, u)

\* The user as the writer sees him over the rows f.
Seen(s, f, e) == IF e \in DOMAIN s.rows THEN s.rows[e] ELSE f[e]
SeenAny(s, f, u) == \E e \in DevicesOf(u) : Seen(s, f, e)

\* A copy says what its writer sees, until he writes another row of the user.
CopiesRight(s, f, un) ==
  \A u \in Owners : ~Pending(s, u) =>
    /\ u \in DOMAIN s.copied => (s.copied[u] <=> SeenAny(s, f, u))
    /\ HasRowOf(s, u) => u \in DOMAIN s.copied \/ u \in un

\* A writer that is no transaction holds nothing.
HoldsRight(s) ==
  s.torn \/ s.pc \notin Busy => DOMAIN s.rows = {} /\ DOMAIN s.copied = {}

\* Who has made the copy of a user has all his rows for himself.
Apart ==
  \A v, w \in Writers : \A u \in Owners :
    v # w /\ u \in DOMAIN writer[w].copied => ~Takes(writer[v], u)

ShownInv ==
  /\ DOMAIN writer = Writers /\ DOMAIN shown = Owners /\ DOMAIN online = Devices
  /\ \A w \in Writers : /\ DOMAIN writer[w] = Fields
                        /\ HoldsRight(writer[w])
                        /\ CopiesRight(writer[w], online, uncopied)
  /\ Apart
  /\ ShownWithAnyDevice

-----------------------------------------------------------------------------
(***************************************************************************)
(* Steps of a writer                                                       *)
(***************************************************************************)
LEMMA WriterKept ==
  ASSUME ShownInv, NEW w \in Writers, NEW s, writer' = [writer EXCEPT ![w] = s],
         DOMAIN s = Fields, HoldsRight(s), CopiesRight(s, online', uncopied'),
         DOMAIN shown' = Owners, DOMAIN online' = Devices, ShownWithAnyDevice',
         ASSUME NEW v \in Writers \ {w}, NEW u \in Owners
         PROVE  /\ u \in DOMAIN writer[v].copied =>
                     ~Takes(s, u) /\ \A e \in DevicesOf(u) : online'[e] = online[e]
                /\ u \in DOMAIN s.copied => ~Takes(writer[v], u)
                /\ u \in uncopied /\ u \notin uncopied' => ~HasRowOf(writer[v], u)
  PROVE  ShownInv'
<1>1. /\ DOMAIN writer' = Writers /\ writer'[w] = s
      /\ \A v \in Writers \ {w} : writer'[v] = writer[v]
  BY DEF ShownInv
<1>2. ASSUME NEW v \in Writers \ {w} PROVE CopiesRight(writer[v], online', uncopied')
  <2>1. SUFFICES ASSUME NEW u \in Owners, ~Pending(writer[v], u)
        PROVE  /\ u \in DOMAIN writer[v].copied =>
                    (writer[v].copied[u] <=> SeenAny(writer[v], online', u))
               /\ HasRowOf(writer[v], u) => u \in DOMAIN writer[v].copied \/ u \in uncopied'
    BY DEF CopiesRight
  <2>2. /\ u \in DOMAIN writer[v].copied =>
             (writer[v].copied[u] <=> SeenAny(writer[v], online, u))
        /\ HasRowOf(writer[v], u) => u \in DOMAIN writer[v].copied \/ u \in uncopied
    BY <2>1 DEF ShownInv, CopiesRight
  <2>3. (\A e \in DevicesOf(u) : online'[e] = online[e]) =>
          (SeenAny(writer[v], online', u) <=> SeenAny(writer[v], online, u))
    BY DEF SeenAny, Seen
  <2>4. QED BY <2>2, <2>3
<1>3. Apart'
  BY <1>1 DEF ShownInv, Apart, Takes, HasRowOf
<1>4. \A v \in Writers : /\ DOMAIN writer'[v] = Fields
                         /\ HoldsRight(writer'[v])
                         /\ CopiesRight(writer'[v], online', uncopied')
  BY <1>1, <1>2 DEF ShownInv
<1>5. QED BY <1>1, <1>3, <1>4 DEF ShownInv

\* Nothing written, nothing copied.
Blank(s) == DOMAIN s = Fields /\ DOMAIN s.rows = {} /\ DOMAIN s.copied = {}

LEMMA BlankIs ==
  ASSUME NEW s, Blank(s)
  PROVE  /\ DOMAIN s = Fields /\ HoldsRight(s)
         /\ \A f, un : CopiesRight(s, f, un)
         /\ \A u : ~Takes(s, u) /\ ~HasRowOf(s, u)
BY DEF Blank, HoldsRight, CopiesRight, Takes, HasRowOf

\* A writer starts, gives up or goes on without having written anything.
LEMMA BlankKept ==
  ASSUME ShownInv, NEW w \in Writers, NEW s, writer' = [writer EXCEPT ![w] = s],
         Blank(s), online' = online, shown' = shown, uncopied' = uncopied
  PROVE  ShownInv'
<1>1. ShownWithAnyDevice'
  BY DEF ShownInv, ShownWithAnyDevice
<1>2. QED BY <1>1, BlankIs, WriterKept DEF ShownInv, Blank

LEMMA NoWriterIs ==
  /\ Blank(NoWriter)
  /\ \A l, p, t : Blank([NoWriter EXCEPT !.pc = p, !.list = l, !.tells = t])
  /\ \A p, t : Blank([NoWriter EXCEPT !.pc = p, !.tells = t])
  /\ \A p, f : Blank([NoWriter EXCEPT !.pc = p, !.found = f])
BY DEF NoWriter, Blank, Fields

\* The writer goes on to its next entry.
LEMMA ProceedsIs ==
  ASSUME NEW w, NEW s, DOMAIN s = Fields, Proceeds(w, s)
  PROVE  \E z : /\ writer' = [writer EXCEPT ![w] = z]
                /\ DOMAIN z = Fields /\ z.pc \in {"row", "commit"}
                /\ z.rows = s.rows /\ z.copied = s.copied /\ z.torn = s.torn
                /\ z.list = Tail(s.list) /\ z.tells = s.tells
                /\ z.pc = "row" <=> Len(s.list) > 1
<1> DEFINE y == [s EXCEPT !.list = Tail(s.list)]
           z == [y EXCEPT !.pc = IF Len(s.list) > 1 THEN "row" ELSE "commit"]
<1>1. /\ DOMAIN y = Fields /\ y.rows = s.rows /\ y.copied = s.copied /\ y.torn = s.torn
      /\ y.list = Tail(s.list) /\ y.tells = s.tells
  BY DEF Fields
<1>2. writer' = [writer EXCEPT ![w] = z]
  BY DEF Proceeds, WriterGoes
<1> HIDE DEF y
<1>3. /\ DOMAIN z = Fields /\ z.pc \in {"row", "commit"}
      /\ z.rows = s.rows /\ z.copied = s.copied /\ z.torn = s.torn
      /\ z.list = Tail(s.list) /\ z.tells = s.tells
      /\ z.pc = "row" <=> Len(s.list) > 1
  BY <1>1 DEF Fields
<1>4. QED BY <1>2, <1>3

LEMMA LeavesIs ==
  ASSUME NEW w, Leaves(w)
  PROVE  \E s : Blank(s) /\ writer' = [writer EXCEPT ![w] = s]
BY NoWriterIs DEF Leaves, WriterGoes

\* The row of one device, read by nobody who is in its way.
LEMMA WriteRowKept ==
  ASSUME ShownInv, NEW w \in Writers, WriteRow(w)
  PROVE  ShownInv'
<1> DEFINE d == Entry(w).dev
           on == Entry(w).on
           s == [writer[w] EXCEPT !.pc = "copy"]
           r == [s EXCEPT !.rows = Put(writer[w].rows, d, on)]
<1>1. DOMAIN writer[w] = Fields /\ writer[w].pc = "row" /\ shown' = shown
  BY DEF WriteRow, WriterAt, ShownInv
<1>2. \A v \in Writers \ {w} : Owner(d) \notin DOMAIN writer[v].copied
  BY <1>1 DEF WriteRow, Blocked, WriterAt, RowTaken, Copied
<1>3. /\ DOMAIN s = Fields /\ s.pc = "copy" /\ s.rows = writer[w].rows
      /\ s.copied = writer[w].copied /\ s.torn = writer[w].torn
      /\ s.list = writer[w].list
  BY <1>1 DEF Fields
<1>4. CASE writer[w].torn
  <2>1. /\ writer' = [writer EXCEPT ![w] = s] /\ online' = [online EXCEPT ![d] = on]
        /\ uncopied' = uncopied \cup {Owner(d)}
    BY <1>4 DEF WriteRow, WriterGoes
  <2>2. Blank(s)
    BY <1>3, <1>4 DEF Blank, ShownInv, HoldsRight
  <2>3. \A e \in Devices : Owner(e) # Owner(d) => online'[e] = online[e]
    BY <2>1 DEF ShownInv
  <2>4. ShownWithAnyDevice'
    <3>1. \A u \in Owners : u # Owner(d) =>
            ((\E e \in DevicesOf(u) : online'[e]) <=> (\E e \in DevicesOf(u) : online[e]))
      BY <2>3 DEF DevicesOf
    <3>2. QED BY <1>1, <2>1, <3>1 DEF ShownInv, ShownWithAnyDevice
  <2>5. DOMAIN shown' = Owners /\ DOMAIN online' = Devices
    BY <1>1, <2>1 DEF ShownInv
  <2>6. ASSUME NEW v \in Writers \ {w}, NEW u \in Owners, u \in DOMAIN writer[v].copied
        PROVE  \A e \in DevicesOf(u) : online'[e] = online[e]
    BY <1>2, <2>3, <2>6 DEF DevicesOf
  <2> HIDE DEF s, d, on
  <2>7. QED BY <2>1, <2>2, <2>4, <2>5, <2>6, BlankIs, WriterKept DEF Blank
<1>5. CASE ~writer[w].torn
  <2>1. writer' = [writer EXCEPT ![w] = r] /\ online' = online /\ uncopied' = uncopied
    BY <1>5 DEF WriteRow, WriterGoes
  <2> HIDE DEF s
  <2>2. /\ DOMAIN r = Fields /\ r.pc = "copy" /\ r.rows = Put(writer[w].rows, d, on)
        /\ r.copied = writer[w].copied /\ r.torn = writer[w].torn
        /\ r.list = writer[w].list
    BY <1>3 DEF Fields
  <2> HIDE DEF r
  <2>3. /\ DOMAIN r.rows = DOMAIN writer[w].rows \cup {d}
        /\ \A e : e # d /\ e \in DOMAIN writer[w].rows => r.rows[e] = writer[w].rows[e]
    BY <2>2 DEF Put
  <2>4. \A u : u # Owner(d) => (HasRowOf(r, u) <=> HasRowOf(writer[w], u))
    BY <2>3 DEF HasRowOf
  <2>5. HoldsRight(r)
    BY <1>5, <2>2 DEF HoldsRight, Busy
  <2>6. CopiesRight(r, online, uncopied)
    <3>1. SUFFICES ASSUME NEW u \in Owners, ~Pending(r, u)
          PROVE  /\ u \in DOMAIN r.copied => (r.copied[u] <=> SeenAny(r, online, u))
                 /\ HasRowOf(r, u) => u \in DOMAIN r.copied \/ u \in uncopied
      BY DEF CopiesRight
    <3>2. u # Owner(d) /\ ~Pending(writer[w], u)
      BY <1>1, <2>2, <3>1 DEF Pending, Entry
    <3>3. SeenAny(r, online, u) <=> SeenAny(writer[w], online, u)
      <4>1. \A e \in DevicesOf(u) : e # d
        BY <3>2 DEF DevicesOf
      <4>2. \A e \in DevicesOf(u) : Seen(r, online, e) = Seen(writer[w], online, e)
        BY <2>3, <4>1 DEF Seen
      <4>3. QED BY <4>2 DEF SeenAny
    <3>4. QED BY <2>2, <2>4, <3>2, <3>3 DEF ShownInv, CopiesRight
  <2>7. ShownWithAnyDevice'
    BY <1>1, <2>1 DEF ShownInv, ShownWithAnyDevice
  <2>8. ASSUME NEW v \in Writers \ {w}, NEW u \in Owners
        PROVE  /\ u \in DOMAIN writer[v].copied => ~Takes(r, u)
               /\ u \in DOMAIN r.copied => ~Takes(writer[v], u)
    BY <1>2, <2>2, <2>4 DEF ShownInv, Apart, Takes
  <2>9. QED
    BY <1>1, <2>1, <2>2, <2>5, <2>6, <2>7, <2>8, WriterKept DEF ShownInv
<1>6. QED BY <1>4, <1>5

LEMMA CommitKept ==
  ASSUME ShownInv, NEW w \in Writers, Commit(w)
  PROVE  ShownInv'
<1>1. PICK s : Blank(s) /\ writer' = [writer EXCEPT ![w] = s]
  BY LeavesIs DEF Commit
<1>2. /\ writer[w].pc = "commit" /\ uncopied' = uncopied \ DOMAIN writer[w].copied
      /\ online' = [d \in Devices |-> Seen(writer[w], online, d)]
      /\ shown' = [u \in Owners |-> IF u \in DOMAIN writer[w].copied
                                    THEN writer[w].copied[u] ELSE shown[u]]
  BY DEF Commit, WriterAt, Sees, Seen, Written, Copied
<1>3. DOMAIN shown' = Owners /\ DOMAIN online' = Devices
  BY <1>2
<1>4. \A u \in Owners : \A e \in DevicesOf(u) :
        /\ online'[e] = Seen(writer[w], online, e)
        /\ ~HasRowOf(writer[w], u) => online'[e] = online[e]
  BY <1>2 DEF DevicesOf, Seen, HasRowOf
<1>5. ShownWithAnyDevice'
  <2>1. SUFFICES ASSUME NEW u \in Owners, u \notin uncopied'
                 PROVE  shown'[u] <=> \E e \in DevicesOf(u) : online'[e]
    BY DEF ShownWithAnyDevice
  <2>2. ~Pending(writer[w], u)
    BY <1>2 DEF Pending
  <2>3. /\ u \in DOMAIN writer[w].copied =>
             (writer[w].copied[u] <=> SeenAny(writer[w], online, u))
        /\ HasRowOf(writer[w], u) => u \in DOMAIN writer[w].copied \/ u \in uncopied
    BY <2>2 DEF ShownInv, CopiesRight
  <2>4. CASE u \in DOMAIN writer[w].copied
    <3>1. SeenAny(writer[w], online, u) <=> \E e \in DevicesOf(u) : online'[e]
      BY <1>4 DEF SeenAny
    <3>2. shown'[u] = writer[w].copied[u]
      BY <1>2, <2>4
    <3>3. QED BY <2>3, <2>4, <3>1, <3>2
  <2>5. CASE u \notin DOMAIN writer[w].copied
    <3>1. u \notin uncopied /\ ~HasRowOf(writer[w], u) /\ shown'[u] = shown[u]
      BY <1>2, <2>1, <2>3, <2>5
    <3>2. \A e \in DevicesOf(u) : online'[e] = online[e]
      BY <1>4, <3>1
    <3>3. QED BY <3>1, <3>2 DEF ShownInv, ShownWithAnyDevice
  <2>6. QED BY <2>4, <2>5
<1>6. ASSUME NEW v \in Writers \ {w}, NEW u \in Owners
      PROVE  /\ u \in DOMAIN writer[v].copied =>
                  \A e \in DevicesOf(u) : online'[e] = online[e]
             /\ u \in uncopied /\ u \notin uncopied' => ~HasRowOf(writer[v], u)
  BY <1>2, <1>4 DEF ShownInv, Apart, Takes
<1>7. /\ DOMAIN s = Fields /\ HoldsRight(s) /\ CopiesRight(s, online', uncopied')
      /\ \A u : ~Takes(s, u)
      /\ DOMAIN s.copied = {}
  BY <1>1, BlankIs DEF Blank
<1>8. QED BY <1>1, <1>3, <1>5, <1>6, <1>7, WriterKept

\* The copy of a user is made while nobody else holds a row of his.
LEMMA WriteCopyKept ==
  ASSUME ShownInv, NEW w \in Writers, WriteCopy(w)
  PROVE  ShownInv'
<1> DEFINE d == Entry(w).dev
           u == Owner(d)
           on == CopyOfUser(w, d)
           s == [writer[w] EXCEPT !.copied = Put(writer[w].copied, u, on)]
<1>1. /\ DOMAIN writer[w] = Fields /\ writer[w].pc = "copy" /\ online' = online
      /\ HoldsRight(writer[w]) /\ CopiesRight(writer[w], online, uncopied)
  BY DEF WriteCopy, WriterAt, ShownInv
<1>2. \A v \in Writers \ {w} : ~Takes(writer[v], u)
  BY <1>1 DEF WriteCopy, Blocked, WriterAt, UserTaken, Copied, Written, Takes, HasRowOf
<1>3. on <=> SeenAny(writer[w], online, u)
  BY DEF CopyOfUser, SeenAny, Seen, Sees, Written
<1>4. CASE writer[w].torn
  <2>1. Proceeds(w, writer[w]) /\ shown' = [shown EXCEPT ![u] = on]
        /\ uncopied' = uncopied \ {u}
    BY <1>4 DEF WriteCopy
  <2>2. PICK z : /\ writer' = [writer EXCEPT ![w] = z]
                 /\ DOMAIN z = Fields /\ z.pc \in {"row", "commit"}
                 /\ z.rows = writer[w].rows /\ z.copied = writer[w].copied
    BY <1>1, <2>1, ProceedsIs
  <2>3. Blank(z) /\ DOMAIN writer[w].rows = {}
    BY <1>1, <1>4, <2>2 DEF Blank, HoldsRight
  <2>4. SeenAny(writer[w], online, u) <=> \E e \in DevicesOf(u) : online[e]
    BY <2>3 DEF SeenAny, Seen
  <2>5. ShownWithAnyDevice'
    <3>1. SUFFICES ASSUME NEW x \in Owners, x \notin uncopied'
                   PROVE  shown'[x] <=> \E e \in DevicesOf(x) : online[e]
      BY <1>1 DEF ShownWithAnyDevice
    <3>2. CASE x = u
      <4>1. shown'[x] = on
        BY <2>1, <3>2 DEF ShownInv
      <4> HIDE DEF on, u
      <4>2. QED BY <1>3, <2>4, <3>2, <4>1
    <3>3. CASE x # u
      <4>1. shown'[x] = shown[x] /\ x \notin uncopied
        BY <2>1, <3>1, <3>3 DEF ShownInv
      <4>2. QED BY <4>1 DEF ShownInv, ShownWithAnyDevice
    <3>4. QED BY <3>2, <3>3
  <2>6. DOMAIN shown' = Owners /\ DOMAIN online' = Devices
    BY <1>1, <2>1 DEF ShownInv
  <2>7. ASSUME NEW v \in Writers \ {w}, NEW x \in Owners, x \in uncopied, x \notin uncopied'
        PROVE  ~HasRowOf(writer[v], x)
    BY <1>2, <2>1, <2>7 DEF Takes
  <2>8. /\ DOMAIN z = Fields /\ HoldsRight(z) /\ CopiesRight(z, online', uncopied')
        /\ DOMAIN z.copied = {} /\ \A x : ~Takes(z, x)
    BY <2>3, BlankIs DEF Blank
  <2> HIDE DEF u, on, d
  <2>9. QED BY <1>1, <2>2, <2>5, <2>6, <2>7, <2>8, WriterKept
<1>5. CASE ~writer[w].torn
  <2>1. Proceeds(w, s) /\ shown' = shown /\ uncopied' = uncopied
    BY <1>5 DEF WriteCopy, Copied, Put
  <2>2. DOMAIN s = Fields /\ s.copied = Put(writer[w].copied, u, on)
        /\ s.rows = writer[w].rows /\ s.torn = writer[w].torn
    BY <1>1 DEF Fields
  <2> HIDE DEF s
  <2>3. PICK z : /\ writer' = [writer EXCEPT ![w] = z]
                 /\ DOMAIN z = Fields /\ z.pc \in {"row", "commit"}
                 /\ z.rows = s.rows /\ z.copied = s.copied /\ z.torn = s.torn
    BY <2>1, <2>2, ProceedsIs
  <2> HIDE DEF on
  <2>4. /\ DOMAIN z.copied = DOMAIN writer[w].copied \cup {u} /\ z.copied[u] = on
        /\ \A x : x # u /\ x \in DOMAIN writer[w].copied => z.copied[x] = writer[w].copied[x]
        /\ z.rows = writer[w].rows
    BY <2>2, <2>3 DEF Put
  <2>5. \A x : /\ SeenAny(z, online, x) <=> SeenAny(writer[w], online, x)
               /\ HasRowOf(z, x) <=> HasRowOf(writer[w], x)
    BY <2>4 DEF SeenAny, Seen, HasRowOf
  <2>6. HoldsRight(z)
    BY <1>5, <2>2, <2>3 DEF HoldsRight, Busy
  <2>7. CopiesRight(z, online, uncopied)
    <3>1. SUFFICES ASSUME NEW x \in Owners
          PROVE  /\ x \in DOMAIN z.copied => (z.copied[x] <=> SeenAny(z, online, x))
                 /\ HasRowOf(z, x) => x \in DOMAIN z.copied \/ x \in uncopied
      BY DEF CopiesRight
    <3>2. CASE x = u
      BY <1>3, <2>4, <2>5, <3>2
    <3>3. CASE x # u
      <4>1. ~Pending(writer[w], x)
        BY <3>3 DEF Pending, Entry
      <4>2. QED BY <1>1, <2>4, <2>5, <3>3, <4>1 DEF CopiesRight
    <3>4. QED BY <3>2, <3>3
  <2>8. ShownWithAnyDevice' /\ DOMAIN shown' = Owners /\ DOMAIN online' = Devices
    BY <1>1, <2>1 DEF ShownInv, ShownWithAnyDevice
  <2>9. ASSUME NEW v \in Writers \ {w}, NEW x \in Owners
        PROVE  /\ x \in DOMAIN writer[v].copied => ~Takes(z, x)
               /\ x \in DOMAIN z.copied => ~Takes(writer[v], x)
    BY <1>2, <2>4, <2>5 DEF ShownInv, Apart, Takes
  <2> HIDE DEF u, d
  <2>10. QED BY <1>1, <2>1, <2>3, <2>6, <2>7, <2>8, <2>9, WriterKept
<1>6. QED BY <1>4, <1>5

\* An entry that is passed over.
LEMMA PassOverKept ==
  ASSUME ShownInv, NEW w \in Writers, PassOver(w)
  PROVE  ShownInv'
<1> DEFINE s == writer[w]
<1>1. /\ DOMAIN s = Fields /\ s.pc = "row" /\ Proceeds(w, s)
      /\ UNCHANGED <<online, shown, uncopied>>
      /\ HoldsRight(s) /\ CopiesRight(s, online, uncopied)
  BY DEF PassOver, WriterAt, ShownInv, historyVars
<1> HIDE DEF s
<1>2. PICK z : /\ writer' = [writer EXCEPT ![w] = z]
               /\ DOMAIN z = Fields /\ z.pc \in {"row", "commit"}
               /\ z.rows = s.rows /\ z.copied = s.copied /\ z.torn = s.torn
  BY <1>1, ProceedsIs
<1>3. \A x : /\ SeenAny(z, online, x) <=> SeenAny(s, online, x)
             /\ HasRowOf(z, x) <=> HasRowOf(s, x)
             /\ Takes(z, x) <=> Takes(s, x)
  BY <1>2 DEF SeenAny, Seen, HasRowOf, Takes
<1>4. HoldsRight(z)
  BY <1>1, <1>2 DEF HoldsRight, Busy
<1>5. CopiesRight(z, online, uncopied)
  BY <1>1, <1>2, <1>3 DEF CopiesRight, Pending
<1>6. ShownWithAnyDevice' /\ DOMAIN shown' = Owners /\ DOMAIN online' = Devices
  BY <1>1 DEF ShownInv, ShownWithAnyDevice
<1>7. ASSUME NEW v \in Writers \ {w}, NEW x \in Owners
      PROVE  /\ x \in DOMAIN writer[v].copied => ~Takes(z, x)
             /\ x \in DOMAIN z.copied => ~Takes(writer[v], x)
  BY <1>2, <1>3 DEF ShownInv, Apart, s
<1>8. QED BY <1>1, <1>2, <1>4, <1>5, <1>6, <1>7, WriterKept

LEMMA CopyFailsKept ==
  ASSUME ShownInv, NEW w \in Writers, CopyFails(w)
  PROVE  ShownInv'
<1> DEFINE u == Owner(Entry(w).dev)
           old == writer[w].copied
           left == [v \in Copied(w) \ {u} |-> old[v]]
           s == [writer[w] EXCEPT !.copied = left]
<1>1. /\ DOMAIN writer[w] = Fields /\ writer[w].pc = "copy" /\ online' = online
      /\ shown' = shown /\ uncopied' = uncopied \cup {u}
      /\ HoldsRight(writer[w]) /\ CopiesRight(writer[w], online, uncopied)
  BY DEF CopyFails, WriterAt, ShownInv
<1>2. Proceeds(w, s)
  BY DEF CopyFails
<1>3. /\ DOMAIN left = DOMAIN old \ {u}
      /\ \A v : v # u /\ v \in DOMAIN old => left[v] = old[v]
  BY DEF Copied
<1> HIDE DEF left
<1>4. DOMAIN s = Fields /\ s.copied = left /\ s.rows = writer[w].rows
      /\ s.torn = writer[w].torn
  BY <1>1 DEF Fields
<1> HIDE DEF s
<1>5. PICK z : /\ writer' = [writer EXCEPT ![w] = z]
               /\ DOMAIN z = Fields /\ z.pc \in {"row", "commit"}
               /\ z.rows = s.rows /\ z.copied = s.copied /\ z.torn = s.torn
  BY <1>2, <1>4, ProceedsIs
<1>6. \A x : /\ SeenAny(z, online, x) <=> SeenAny(writer[w], online, x)
             /\ HasRowOf(z, x) <=> HasRowOf(writer[w], x)
  BY <1>4, <1>5 DEF SeenAny, Seen, HasRowOf
<1>7. HoldsRight(z)
  BY <1>1, <1>3, <1>4, <1>5 DEF HoldsRight, Busy
<1>8. CopiesRight(z, online, uncopied')
  <2>1. SUFFICES ASSUME NEW x \in Owners
        PROVE  /\ x \in DOMAIN z.copied => (z.copied[x] <=> SeenAny(z, online, x))
               /\ HasRowOf(z, x) => x \in DOMAIN z.copied \/ x \in uncopied'
    BY DEF CopiesRight
  <2>2. CASE x = u
    BY <1>1, <1>3, <1>4, <1>5, <2>2
  <2>3. CASE x # u
    <3>1. ~Pending(writer[w], x)
      BY <2>3 DEF Pending, Entry
    <3>2. x \in DOMAIN z.copied => x \in DOMAIN old /\ z.copied[x] = old[x]
      BY <1>3, <1>4, <1>5, <2>3
    <3>3. x \in DOMAIN old => x \in DOMAIN z.copied
      BY <1>3, <1>4, <1>5, <2>3
    <3>4. QED BY <1>1, <1>6, <3>1, <3>2, <3>3 DEF CopiesRight
  <2>4. QED BY <2>2, <2>3
<1>9. ShownWithAnyDevice' /\ DOMAIN shown' = Owners /\ DOMAIN online' = Devices
  BY <1>1 DEF ShownInv, ShownWithAnyDevice
<1>10. ASSUME NEW v \in Writers \ {w}, NEW x \in Owners
       PROVE  /\ x \in DOMAIN writer[v].copied => ~Takes(z, x)
              /\ x \in DOMAIN z.copied => ~Takes(writer[v], x)
  BY <1>3, <1>4, <1>5, <1>6 DEF ShownInv, Apart, Takes
<1> HIDE DEF u, old
<1>11. QED BY <1>1, <1>5, <1>7, <1>8, <1>9, <1>10, WriterKept

LEMMA DeadlockKept ==
  ASSUME ShownInv, NEW w \in Writers, Deadlock(w)
  PROVE  ShownInv'
<1>1. UNCHANGED <<online, shown, uncopied>>
  BY DEF Deadlock
<1>2. CASE Leaves(w)
  BY <1>1, <1>2, LeavesIs, BlankKept
<1>3. CASE ~Leaves(w)
  <2> DEFINE a == [writer[w] EXCEPT !.rows = <<>>]
             b == [a EXCEPT !.copied = <<>>]
             s == [b EXCEPT !.torn = TRUE]
  <2>1. Proceeds(w, s)
    BY <1>3 DEF Deadlock
  <2>2. DOMAIN a = Fields /\ DOMAIN a.rows = {}
    BY DEF ShownInv, Fields
  <2> HIDE DEF a
  <2>3. DOMAIN b = Fields /\ DOMAIN b.rows = {} /\ DOMAIN b.copied = {}
    BY <2>2 DEF Fields
  <2> HIDE DEF b
  <2>4. Blank(s)
    BY <2>3 DEF Blank, Fields
  <2> HIDE DEF s
  <2>5. PICK z : /\ writer' = [writer EXCEPT ![w] = z]
                 /\ DOMAIN z = Fields /\ z.rows = s.rows /\ z.copied = s.copied
    BY <2>1, <2>4, ProceedsIs DEF Blank
  <2>6. Blank(z)
    BY <2>4, <2>5 DEF Blank
  <2>7. QED BY <1>1, <2>5, <2>6, BlankKept
<1>4. QED BY <1>2, <1>3

\* A list of notices or of devices that are gone, an answer, a friend: no row.
LEMMA AsideKept ==
  ASSUME ShownInv, Listen \/ TellFriends \/ CheckReads \/ CheckAsks
  PROVE  ShownInv'
<1>1. {"listener", "check"} = Writers
  BY DEF Writers
<1>2. online' = online /\ shown' = shown /\ uncopied' = uncopied
  BY DEF Listen, TellFriends, CheckReads, CheckAsks, historyVars
<1>3. ASSUME NEW w, NEW list, NEW tells, Starts(w, list, tells)
      PROVE  \E s : Blank(s) /\ writer' = [writer EXCEPT ![w] = s]
  BY <1>3, NoWriterIs DEF Starts, WriterGoes
<1>4. CASE Listen
  <2>1. Starts("listener", notices, notices)
    BY <1>4 DEF Listen
  <2>2. QED BY <1>1, <1>2, <1>3, <2>1, BlankKept
<1>5. CASE CheckReads
  <2>1. \E s : Blank(s) /\ writer' = [writer EXCEPT !["check"] = s]
    BY <1>5, NoWriterIs DEF CheckReads, WriterGoes
  <2>2. QED BY <1>1, <1>2, <2>1, BlankKept
<1>6. CASE CheckAsks
  <2>1. \E s : Blank(s) /\ writer' = [writer EXCEPT !["check"] = s]
    BY <1>3, <1>6, NoWriterIs DEF CheckAsks, WriterGoes
  <2>2. QED BY <1>1, <1>2, <2>1, BlankKept
<1>7. CASE TellFriends
  <2> DEFINE s == [writer["listener"] EXCEPT !.tells = Tail(writer["listener"].tells)]
  <2>1. \/ writer' = [writer EXCEPT !["listener"] = s]
        \/ writer' = [writer EXCEPT !["listener"] = NoWriter]
    BY <1>7 DEF TellFriends, WriterGoes
  <2>2. Blank(s)
    <3>1. /\ DOMAIN writer["listener"] = Fields /\ writer["listener"].pc = "tell"
          /\ HoldsRight(writer["listener"])
      BY <1>1, <1>7 DEF TellFriends, WriterAt, ShownInv
    <3>2. Blank(writer["listener"])
      BY <3>1 DEF Blank, HoldsRight, Busy
    <3>3. QED BY <3>2 DEF Blank, Fields
  <2> HIDE DEF s
  <2>3. QED BY <1>1, <1>2, <2>1, <2>2, NoWriterIs, BlankKept
<1>8. QED BY <1>4, <1>5, <1>6, <1>7

LEMMA NextShown ==
  ASSUME ShownInv, [OnlineNext]_onlineVars
  PROVE  ShownInv'
<1>1. ASSUME UNCHANGED <<writer, online, shown, uncopied>> PROVE ShownInv'
  BY <1>1 DEF ShownInv, Apart, ShownWithAnyDevice
<1>2. UNCHANGED onlineVars \/ IMServer \/ (\E d \in Devices : MinutePasses(d)) =>
        UNCHANGED <<writer, online, shown, uncopied>>
  BY DEF onlineVars, historyVars, IMServer, MinutePasses
<1>3. ASSUME NEW w \in Writers, WriterFails(w) \/ WriterDies(w) PROVE ShownInv'
  <2>1. \E s : Blank(s) /\ writer' = [writer EXCEPT ![w] = s]
    BY <1>3, LeavesIs, NoWriterIs DEF WriterFails, WriterDies, WriterGoes
  <2>2. online' = online /\ shown' = shown /\ uncopied' = uncopied
    BY <1>3 DEF WriterFails, WriterDies
  <2>3. QED BY <2>1, <2>2, BlankKept
<1>4. ASSUME NEW w \in Writers, Writes(w) \/ Mistakes(w) PROVE ShownInv'
  BY <1>3, <1>4, WriteRowKept, PassOverKept, WriteCopyKept, CommitKept, CopyFailsKept, DeadlockKept
     DEF Writes, Mistakes
<1>5. QED
  BY <1>1, <1>2, <1>4, AsideKept DEF OnlineNext, Checks

LEMMA InitShown == OnlineInit => ShownInv
<1>1. Blank(NoWriter)
  BY NoWriterIs
<1>2. SUFFICES ASSUME OnlineInit PROVE ShownInv
  OBVIOUS
<1>3. \A w \in Writers : writer[w] = NoWriter
  BY <1>2 DEF OnlineInit
<1>4. Apart
  BY <1>1, <1>3 DEF Apart, Blank
<1>5. ShownWithAnyDevice
  BY <1>2 DEF OnlineInit, ShownWithAnyDevice, DevicesOf
<1>6. QED BY <1>1, <1>2, <1>3, <1>4, <1>5, BlankIs DEF OnlineInit, ShownInv

-----------------------------------------------------------------------------
(***************************************************************************)
(* OnlineStatus: what the rows and the friends still have before them      *)
(***************************************************************************)
Notice == [dev : Devices, on : BOOLEAN, count : Nat]

\* No notice of the list is kept for the device; the last that is says on.
Silent(list, d) == \A i \in DOMAIN list : Kept(list[i]) => list[i].dev # d
Says(list, d, on) ==
  \E i \in DOMAIN list :
    /\ Kept(list[i]) /\ list[i].dev = d /\ list[i].on = on
    /\ \A j \in DOMAIN list : j > i /\ Kept(list[j]) => list[j].dev # d
SilentOf(list, u) ==
  \A i \in DOMAIN list : Kept(list[i]) => Owner(list[i].dev) # u

Connected(d) == sockets[d] > 0

\* What the listener has before it is well formed, and it holds no row of which
\* friends will not be told.
ListOK(s) ==
  /\ s.list \in Seq(Notice) /\ s.tells \in Seq(Notice)
  /\ s.pc \in {"row", "copy"} <=> s.list # <<>>
  /\ s.pc = "copy" => Kept(Head(s.list))
  /\ s.pc = "idle" => s.tells = <<>>
  /\ s.pc = "tell" => s.tells # <<>>
  /\ s.pc \in {"idle", "tell"} => DOMAIN s.rows = {}
  /\ s.torn => DOMAIN s.rows = {}
  /\ DOMAIN s.rows \subseteq EntriesOf(s.tells)
  /\ \A d \in DOMAIN s.rows : s.rows[d] \in BOOLEAN
  /\ EntriesOf(s.list) \subseteq EntriesOf(s.tells)

\* The check takes rows off and does nothing else.
CheckOK(s) ==
  /\ s.list \in Seq(Notice) /\ s.tells = <<>>
  /\ s.pc \in {"row", "copy"} <=> s.list # <<>>
  /\ \A i \in DOMAIN s.list : ~s.list[i].on
  /\ \A d \in DOMAIN s.rows : s.rows[d] \in BOOLEAN /\ ~s.rows[d]
  /\ s.pc = "ask" => s.found \subseteq Devices

\* For a device whose notices were not lost: the last notice that is still to
\* be handled says whether it is connected, and where none is left its row does.
WordRight(s, d) ==
  /\ \A on \in BOOLEAN : Says(notices, d, on) => (on <=> Connected(d))
  /\ Silent(notices, d) =>
       /\ \A on \in BOOLEAN : Says(s.list, d, on) => (on <=> Connected(d))
       /\ \A on \in BOOLEAN : Says(s.tells, d, on) => (on <=> Connected(d))
       /\ Silent(s.list, d) => (Seen(s, online, d) <=> Connected(d))
       /\ s.pc = "copy" /\ Head(s.list).dev = d /\ Silent(Tail(s.list), d) =>
            (Seen(s, online, d) <=> Connected(d))

\* Friends whom nobody has still to tell know.
FriendsTold(s, u) ==
  SilentOf(notices, u) /\ SilentOf(s.tells, u) => (told[u] <=> AnyOnline(u))

OnlineTypes ==
  /\ sockets \in [Devices -> Nat] /\ notices \in Seq(Notice)
  /\ online \in [Devices -> BOOLEAN] /\ DOMAIN told = Owners
  /\ DOMAIN writer = Writers /\ \A w \in Writers : DOMAIN writer[w] = Fields

WordInv ==
  /\ OnlineTypes
  /\ ListOK(writer["listener"]) /\ CheckOK(writer["check"])
  /\ \A d \in Devices \ misled : WordRight(writer["listener"], d)
  /\ \A u \in Owners \ untold :
       DevicesOf(u) \cap misled = {} => FriendsTold(writer["listener"], u)

LEMMA TailList ==
  ASSUME NEW list \in Seq(Notice), list # <<>>
  PROVE  /\ Tail(list) \in Seq(Notice) /\ Head(list) \in Notice
         /\ Len(list) > 1 <=> Tail(list) # <<>>
         /\ 1 \in DOMAIN list /\ Head(list) = list[1]
         /\ \A i \in DOMAIN Tail(list) : i \in Nat \ {0} /\ i + 1 \in DOMAIN list
                                         /\ Tail(list)[i] = list[i + 1]
         /\ \A i \in DOMAIN list : /\ i \in Nat \ {0}
                                   /\ i = 1 \/ i - 1 \in DOMAIN Tail(list)
<1> DEFINE t == Tail(list)
<1>1. /\ Len(list) \in Nat \ {0} /\ DOMAIN list = 1..Len(list)
      /\ \A i \in 1..Len(list) : list[i] \in Notice
      /\ Head(list) = list[1]
  OBVIOUS
<1>2. t \in Seq(Notice) /\ Len(t) = Len(list) - 1
  OBVIOUS
<1>3. DOMAIN t = 1..(Len(list) - 1)
  BY <1>2
<1>4. \A i \in DOMAIN t : t[i] = list[i + 1]
  BY <1>3
<1>5. t = <<>> <=> Len(t) = 0
  BY <1>2
<1> HIDE DEF t
<1>6. Len(list) > 1 <=> t # <<>>
  BY <1>1, <1>2, <1>5
<1>7. \A i \in DOMAIN t : i \in Nat \ {0} /\ i + 1 \in DOMAIN list
  BY <1>1, <1>3
<1>8. \A i \in DOMAIN list : i \in Nat \ {0} /\ (i = 1 \/ i - 1 \in DOMAIN t)
  BY <1>1, <1>3
<1>9. Head(list) \in Notice /\ 1 \in DOMAIN list
  BY <1>1
<1>10. QED BY <1>1, <1>2, <1>4, <1>6, <1>7, <1>8, <1>9 DEF t

LEMMA TailWord ==
  ASSUME NEW list \in Seq(Notice), list # <<>>, NEW d
  PROVE  /\ \A on : Says(Tail(list), d, on) => Says(list, d, on)
         /\ Silent(list, d) => Silent(Tail(list), d)
         /\ Silent(Tail(list), d) =>
              IF Kept(Head(list)) /\ Head(list).dev = d
              THEN Says(list, d, Head(list).on) ELSE Silent(list, d)
<1> DEFINE t == Tail(list)
<1>1. /\ 1 \in DOMAIN list /\ Head(list) = list[1]
      /\ \A i \in DOMAIN t : i \in Nat \ {0} /\ i + 1 \in DOMAIN list /\ t[i] = list[i + 1]
      /\ \A i \in DOMAIN list : i \in Nat \ {0} /\ (i = 1 \/ i - 1 \in DOMAIN t)
  BY TailList
<1> HIDE DEF t
<1>2. \A i \in DOMAIN list : i # 1 => t[i - 1] = list[i]
  BY <1>1
<1>3. ASSUME NEW on, Says(t, d, on) PROVE Says(list, d, on)
  <2>1. PICK i \in DOMAIN t : /\ Kept(t[i]) /\ t[i].dev = d /\ t[i].on = on
                              /\ \A j \in DOMAIN t : j > i /\ Kept(t[j]) => t[j].dev # d
    BY <1>3 DEF Says
  <2>2. \A j \in DOMAIN list : j > i + 1 /\ Kept(list[j]) => list[j].dev # d
    <3>1. SUFFICES ASSUME NEW j \in DOMAIN list, j > i + 1, Kept(list[j])
                   PROVE  list[j].dev # d
      OBVIOUS
    <3>2. j # 1 /\ j - 1 \in DOMAIN t /\ j - 1 > i /\ t[j - 1] = list[j]
      BY <1>1, <1>2, <3>1
    <3>3. QED BY <2>1, <3>1, <3>2
  <2>3. QED BY <1>1, <2>1, <2>2 DEF Says
<1>4. Silent(list, d) => Silent(t, d)
  BY <1>1 DEF Silent
<1>5. ASSUME Silent(t, d), ~(Kept(Head(list)) /\ Head(list).dev = d)
      PROVE  Silent(list, d)
  BY <1>1, <1>2, <1>5 DEF Silent
<1>6. ASSUME Silent(t, d), Kept(Head(list)), Head(list).dev = d
      PROVE  Says(list, d, Head(list).on)
  <2>1. \A j \in DOMAIN list : j > 1 /\ Kept(list[j]) => list[j].dev # d
    <3>1. SUFFICES ASSUME NEW j \in DOMAIN list, j > 1, Kept(list[j])
                   PROVE  list[j].dev # d
      OBVIOUS
    <3>2. j - 1 \in DOMAIN t /\ t[j - 1] = list[j]
      BY <1>1, <1>2, <3>1
    <3>3. QED BY <1>6, <3>1, <3>2 DEF Silent
  <2>2. QED BY <1>1, <1>6, <2>1 DEF Says
<1>7. QED BY <1>3, <1>4, <1>5, <1>6 DEF t

LEMMA TailSilentOf ==
  ASSUME NEW list \in Seq(Notice), list # <<>>, NEW u, SilentOf(Tail(list), u),
         ~(Kept(Head(list)) /\ Owner(Head(list).dev) = u)
  PROVE  SilentOf(list, u)
<1> DEFINE t == Tail(list)
<1>1. /\ 1 \in DOMAIN list /\ Head(list) = list[1]
      /\ \A i \in DOMAIN t : i \in Nat \ {0} /\ i + 1 \in DOMAIN list /\ t[i] = list[i + 1]
      /\ \A i \in DOMAIN list : i \in Nat \ {0} /\ (i = 1 \/ i - 1 \in DOMAIN t)
  BY TailList
<1> HIDE DEF t
<1>2. \A i \in DOMAIN list : i # 1 => t[i - 1] = list[i]
  BY <1>1
<1>3. SilentOf(t, u)
  BY DEF t
<1>4. QED BY <1>1, <1>2, <1>3 DEF SilentOf

LEMMA TailEntries ==
  ASSUME NEW list \in Seq(Notice), list # <<>>
  PROVE  /\ EntriesOf(Tail(list)) \subseteq EntriesOf(list)
         /\ Kept(Head(list)) => Head(list).dev \in EntriesOf(list)
<1>1. /\ 1 \in DOMAIN list /\ Head(list) = list[1]
      /\ \A i \in DOMAIN Tail(list) : i + 1 \in DOMAIN list
                                      /\ Tail(list)[i] = list[i + 1]
  BY TailList
<1>2. QED BY <1>1 DEF EntriesOf

LEMMA EntriesAre ==
  /\ \A list, d : d \notin EntriesOf(list) <=> Silent(list, d)
  /\ \A list, u : SilentOf(list, u) => \A d \in EntriesOf(list) : Owner(d) # u
  /\ \A list, u : (\A d \in EntriesOf(list) : Owner(d) # u) => SilentOf(list, u)
<1>1. \A list, d : d \notin EntriesOf(list) <=> Silent(list, d)
  BY DEF EntriesOf, Silent
<1>2. \A list, u : SilentOf(list, u) => \A d \in EntriesOf(list) : Owner(d) # u
  BY DEF EntriesOf, SilentOf
<1>3. \A list, u : (\A d \in EntriesOf(list) : Owner(d) # u) => SilentOf(list, u)
  BY DEF EntriesOf, SilentOf
<1>4. QED BY <1>1, <1>2, <1>3

LEMMA EmptyWord ==
  /\ <<>> \in Seq(Notice) /\ EntriesOf(<<>>) = {}
  /\ \A d : Silent(<<>>, d) /\ \A on : ~Says(<<>>, d, on)
  /\ \A u : SilentOf(<<>>, u)
BY DEF EntriesOf, Silent, Says, SilentOf

LEMMA AppendWord ==
  ASSUME NEW list \in Seq(Notice), NEW e \in Notice, NEW new,
         new = Append(list, e), NEW d
  PROVE  /\ new \in Seq(Notice)
         /\ Silent(new, d) => Silent(list, d) /\ ~(Kept(e) /\ e.dev = d)
         /\ \A on : Says(new, d, on) =>
              IF Kept(e) /\ e.dev = d THEN e.on = on ELSE Says(list, d, on)
         /\ \A u : SilentOf(new, u) => SilentOf(list, u)
<1> DEFINE n == Len(list) + 1
<1>1. /\ new \in Seq(Notice) /\ DOMAIN new = DOMAIN list \cup {n} /\ new[n] = e
      /\ \A i \in DOMAIN list : new[i] = list[i] /\ i \in Nat /\ i < n
      /\ n \in Nat
  OBVIOUS
<1> HIDE DEF n
<1>2. Silent(new, d) => Silent(list, d) /\ ~(Kept(e) /\ e.dev = d)
  BY <1>1 DEF Silent
<1>3. \A u : SilentOf(new, u) => SilentOf(list, u)
  BY <1>1 DEF SilentOf
<1>4. ASSUME NEW on, Says(new, d, on)
      PROVE  IF Kept(e) /\ e.dev = d THEN e.on = on ELSE Says(list, d, on)
  <2>1. PICK i \in DOMAIN new :
             /\ Kept(new[i]) /\ new[i].dev = d /\ new[i].on = on
             /\ \A j \in DOMAIN new : j > i /\ Kept(new[j]) => new[j].dev # d
    BY <1>4 DEF Says
  <2>2. CASE i = n
    BY <1>1, <2>1, <2>2
  <2>3. CASE i # n
    <3>1. i \in DOMAIN list /\ ~(Kept(e) /\ e.dev = d)
      BY <1>1, <2>1, <2>3
    <3>2. Says(list, d, on)
      BY <1>1, <2>1, <3>1 DEF Says
    <3>3. QED BY <3>1, <3>2
  <2>4. QED BY <2>2, <2>3
<1>5. QED BY <1>1, <1>2, <1>3, <1>4

-----------------------------------------------------------------------------
\* The listener goes on with its list: the head is done.
LEMMA ListenerGoesOn ==
  ASSUME WordInv, NEW s, writer' = [writer EXCEPT !["listener"] = s],
         DOMAIN s = Fields, writer["listener"].list # <<>>,
         s.list = Tail(writer["listener"].list), s.tells = writer["listener"].tells,
         s.pc \in {"row", "commit"}, s.pc = "row" <=> Len(writer["listener"].list) > 1,
         DOMAIN s.rows \subseteq DOMAIN writer["listener"].rows,
         \A d \in DOMAIN s.rows : s.rows[d] \in BOOLEAN,
         s.torn => DOMAIN s.rows = {},
         \/ writer["listener"].pc = "copy"
         \/ ~Kept(Head(writer["listener"].list)),
         UNCHANGED <<sockets, notices, online, told, untold>>, misled \subseteq misled',
         \A d \in Devices \ misled' : Seen(s, online, d) = Seen(writer["listener"], online, d)
  PROVE  WordInv'
<1> DEFINE l == writer["listener"]
<1>1. /\ OnlineTypes /\ ListOK(l) /\ CheckOK(writer["check"])
      /\ \A d \in Devices \ misled : WordRight(l, d)
      /\ "listener" \in Writers /\ "check" \in Writers /\ DOMAIN writer = Writers
  BY DEF WordInv, OnlineTypes, Writers
<1>2. /\ DOMAIN writer' = Writers /\ writer'["listener"] = s
      /\ \A w \in Writers \ {"listener"} : writer'[w] = writer[w]
      /\ writer'["check"] = writer["check"]
  BY <1>1
<1> HIDE DEF l
<1>3. l.list \in Seq(Notice) /\ l.list # <<>> /\ s.list = Tail(l.list)
      /\ s.tells = l.tells
  BY <1>1 DEF ListOK, l
<1>4. OnlineTypes'
  BY <1>1, <1>2 DEF OnlineTypes
<1>5. ListOK(s)
  <2>1. s.list \in Seq(Notice) /\ (Len(l.list) > 1 <=> s.list # <<>>)
    BY <1>3, TailList
  <2>2. EntriesOf(s.list) \subseteq EntriesOf(s.tells)
    BY <1>1, <1>3, TailEntries DEF ListOK
  <2>3. DOMAIN s.rows \subseteq EntriesOf(s.tells)
    BY <1>1, <1>3 DEF ListOK, l
  <2>4. s.tells \in Seq(Notice)
    BY <1>1, <1>3 DEF ListOK
  <2>5. QED BY <2>1, <2>2, <2>3, <2>4 DEF ListOK, l
<1>6. ASSUME NEW d \in Devices \ misled' PROVE WordRight(s, d)'
  <2>1. WordRight(l, d) /\ Seen(s, online, d) = Seen(l, online, d)
    BY <1>1, <1>6 DEF l
  <2>2. /\ \A on : Says(s.list, d, on) => Says(l.list, d, on)
        /\ Silent(s.list, d) =>
             IF Kept(Head(l.list)) /\ Head(l.list).dev = d
             THEN Says(l.list, d, Head(l.list).on) ELSE Silent(l.list, d)
    BY <1>3, TailWord
  <2>3. l.pc = "copy" \/ ~Kept(Head(l.list))
    BY DEF l
  <2>4. Silent(notices, d) /\ Silent(s.list, d) => (Seen(s, online, d) <=> Connected(d))
    <3>1. CASE Kept(Head(l.list)) /\ Head(l.list).dev = d
      BY <1>3, <2>1, <2>3, <3>1 DEF WordRight
    <3>2. CASE ~(Kept(Head(l.list)) /\ Head(l.list).dev = d)
      BY <2>1, <2>2, <3>2 DEF WordRight
    <3>3. QED BY <3>1, <3>2
  <2>5. s.pc # "copy"
    OBVIOUS
  <2>6. QED BY <1>3, <2>1, <2>2, <2>4, <2>5 DEF WordRight, Connected
<1>7. ASSUME NEW u \in Owners \ untold', DevicesOf(u) \cap misled' = {}
      PROVE  FriendsTold(s, u)'
  <2>1. FriendsTold(l, u)
    BY <1>7 DEF WordInv, l
  <2>2. QED BY <1>3, <2>1 DEF FriendsTold, AnyOnline
<1>8. QED BY <1>1, <1>2, <1>4, <1>5, <1>6, <1>7 DEF WordInv

\* The listener is done with its list: what it has not given up is visible.
LEMMA ListenerEnds ==
  ASSUME WordInv, NEW s, writer' = [writer EXCEPT !["listener"] = s],
         DOMAIN s = Fields, s.list = <<>>, DOMAIN s.rows = {}, s.pc \in {"idle", "tell"},
         \/ s.tells = writer["listener"].tells
         \/ /\ s.tells = <<>>
            /\ \A d \in EntriesOf(writer["listener"].tells) : Owner(d) \in untold',
         s.pc = "idle" <=> s.tells = <<>>,
         UNCHANGED <<sockets, notices, told>>,
         misled \subseteq misled', untold \subseteq untold',
         online' \in [Devices -> BOOLEAN],
         \A d \in Devices : d \in DOMAIN writer["listener"].rows \/ online'[d] = online[d],
         \A d \in Devices \ misled' :
           Silent(writer["listener"].list, d) /\ online'[d] = Seen(writer["listener"], online, d)
  PROVE  WordInv'
<1> DEFINE l == writer["listener"]
<1>1. /\ OnlineTypes /\ ListOK(l) /\ CheckOK(writer["check"])
      /\ \A d \in Devices \ misled : WordRight(l, d)
      /\ "listener" \in Writers /\ "check" \in Writers /\ DOMAIN writer = Writers
  BY DEF WordInv, OnlineTypes, Writers
<1>2. /\ DOMAIN writer' = Writers /\ writer'["listener"] = s
      /\ \A w \in Writers \ {"listener"} : writer'[w] = writer[w]
      /\ writer'["check"] = writer["check"]
  BY <1>1
<1>3. \A d \in Devices : d \in DOMAIN l.rows \/ online'[d] = online[d]
  OBVIOUS
<1>4. \A d \in Devices \ misled' : Silent(l.list, d) /\ online'[d] = Seen(l, online, d)
  OBVIOUS
<1>5. \/ s.tells = l.tells
      \/ s.tells = <<>> /\ \A d \in EntriesOf(l.tells) : Owner(d) \in untold'
  OBVIOUS
<1> HIDE DEF l
<1>6. OnlineTypes'
  BY <1>1, <1>2 DEF OnlineTypes
<1>7. ListOK(s)
  BY <1>1, <1>5, EmptyWord DEF ListOK
<1>8. ASSUME NEW d \in Devices \ misled' PROVE WordRight(s, d)'
  <2>1. WordRight(l, d) /\ Silent(l.list, d) /\ Seen(s, online', d) = Seen(l, online, d)
    BY <1>1, <1>4, <1>8 DEF Seen
  <2>2. /\ \A on : ~Says(s.list, d, on)
        /\ \A on : Says(s.tells, d, on) => Says(l.tells, d, on)
    <3>1. \A on : ~Says(<<>>, d, on)
      BY EmptyWord
    <3>2. s.list = <<>>
      OBVIOUS
    <3>3. \A on : ~Says(s.list, d, on)
      BY <3>1, <3>2
    <3>4. CASE s.tells = l.tells
      BY <3>3, <3>4
    <3>5. CASE s.tells = <<>>
      BY <3>1, <3>3, <3>5
    <3>6. QED BY <1>5, <3>4, <3>5
  <2>3. QED BY <2>1, <2>2 DEF WordRight, Connected
<1>9. ASSUME NEW u \in Owners \ untold', DevicesOf(u) \cap misled' = {},
             SilentOf(notices, u), SilentOf(s.tells, u)
      PROVE  told[u] <=> \E d \in DevicesOf(u) : online'[d]
  <2>1. SilentOf(l.tells, u)
    BY <1>5, <1>9, EntriesAre
  <2>2. told[u] <=> AnyOnline(u)
    BY <1>9, <2>1 DEF WordInv, FriendsTold, l
  <2>3. \A d \in DevicesOf(u) : online'[d] = online[d]
    <3>1. \A d \in DOMAIN l.rows : Owner(d) # u
      BY <1>1, <2>1, EntriesAre DEF ListOK
    <3>2. QED BY <1>3, <3>1 DEF DevicesOf
  <2>4. QED BY <2>2, <2>3 DEF AnyOnline
<1>10. \A u \in Owners \ untold' : DevicesOf(u) \cap misled' = {} => FriendsTold(s, u)'
  BY <1>9 DEF FriendsTold, AnyOnline
<1>11. QED BY <1>1, <1>2, <1>6, <1>7, <1>8, <1>10 DEF WordInv

\* The check takes rows off, of devices that are not connected or are noted.
LEMMA CheckGoesOn ==
  ASSUME WordInv, NEW s, writer' = [writer EXCEPT !["check"] = s],
         DOMAIN s = Fields, CheckOK(s),
         UNCHANGED <<sockets, notices, told>>,
         misled \subseteq misled', untold \subseteq untold',
         online' \in [Devices -> BOOLEAN],
         \A d \in Devices : online'[d] # online[d] =>
           ~online'[d] /\ Owner(d) \in untold' /\ (Connected(d) => d \in misled')
  PROVE  WordInv'
<1> DEFINE l == writer["listener"]
<1>1. /\ OnlineTypes /\ ListOK(l)
      /\ \A d \in Devices \ misled : WordRight(l, d)
      /\ "listener" \in Writers /\ "check" \in Writers /\ DOMAIN writer = Writers
  BY DEF WordInv, OnlineTypes, Writers
<1>2. /\ DOMAIN writer' = Writers /\ writer'["check"] = s
      /\ \A w \in Writers \ {"check"} : writer'[w] = writer[w]
      /\ writer'["listener"] = l
  BY <1>1
<1> HIDE DEF l
<1>3. OnlineTypes'
  BY <1>1, <1>2 DEF OnlineTypes
<1>4. ASSUME NEW d \in Devices \ misled' PROVE WordRight(l, d)'
  <2>1. WordRight(l, d) /\ (online'[d] = online[d] \/ (~online'[d] /\ ~Connected(d)))
    BY <1>1, <1>4
  <2>2. \/ Seen(l, online', d) = Seen(l, online, d)
        \/ ~Seen(l, online', d) /\ ~Connected(d)
    BY <2>1 DEF Seen
  <2>3. l' = l
    BY <1>2 DEF l
  <2>4. QED BY <2>1, <2>2, <2>3 DEF WordRight, Connected
<1>5. ASSUME NEW u \in Owners \ untold', DevicesOf(u) \cap misled' = {}
      PROVE  FriendsTold(l, u)'
  <2>1. FriendsTold(l, u)
    BY <1>5 DEF WordInv, l
  <2>2. \A d \in DevicesOf(u) : online'[d] = online[d]
    BY <1>5 DEF DevicesOf
  <2>3. l' = l
    BY <1>2 DEF l
  <2>4. QED BY <2>1, <2>2, <2>3 DEF FriendsTold, AnyOnline
<1>6. l' = l
  BY <1>2 DEF l
<1>7. QED BY <1>1, <1>2, <1>3, <1>4, <1>5, <1>6 DEF WordInv, l

-----------------------------------------------------------------------------
LEMMA WritersAre ==
  /\ Writers = {"listener", "check"} /\ "listener" # "check"
BY DEF Writers

\* What the actions of a writer leave alone.
LEMMA PlainWord ==
  ASSUME WordInv, NEW w \in Writers
  PROVE  /\ DOMAIN writer = Writers /\ DOMAIN writer[w] = Fields
         /\ writer[w].list \in Seq(Notice)
         /\ writer[w].pc \in {"row", "copy"} <=> writer[w].list # <<>>
         /\ w = "listener" => ListOK(writer[w])
         /\ w = "check" => CheckOK(writer[w])
BY WritersAre DEF WordInv, OnlineTypes, ListOK, CheckOK

\* The check goes on with its list.
LEMMA CheckTail ==
  ASSUME NEW l, NEW s, CheckOK(l), l.list # <<>>,
         s.list = Tail(l.list), s.tells = l.tells, s.pc \in {"row", "commit"},
         s.pc = "row" <=> Len(l.list) > 1,
         \A d \in DOMAIN s.rows : s.rows[d] \in BOOLEAN /\ ~s.rows[d]
  PROVE  CheckOK(s)
<1>1. /\ s.list \in Seq(Notice) /\ (Len(l.list) > 1 <=> s.list # <<>>)
      /\ \A i \in DOMAIN s.list : i + 1 \in DOMAIN l.list /\ s.list[i] = l.list[i + 1]
  BY TailList DEF CheckOK
<1>2. QED BY <1>1 DEF CheckOK

\* A statement that is done, or passed over, or whose error is dropped: rows
\* stay, or are given up by a writer that MySQL has rolled back.
LEMMA StatementDone ==
  ASSUME WordInv, NEW w \in Writers, NEW s, Proceeds(w, s), DOMAIN s = Fields,
         s.list = writer[w].list, s.tells = writer[w].tells,
         writer[w].pc = "copy" \/ (writer[w].pc = "row" /\ ~Kept(Head(writer[w].list))),
         \/ s.rows = writer[w].rows /\ (s.torn => writer[w].torn)
         \/ DOMAIN s.rows = {} /\ (w = "check" \/ DOMAIN writer[w].rows \subseteq misled'),
         UNCHANGED <<sockets, notices, online, told, untold>>, misled \subseteq misled'
  PROVE  WordInv'
<1> DEFINE l == writer[w]
<1>1. PICK z : /\ writer' = [writer EXCEPT ![w] = z]
               /\ DOMAIN z = Fields /\ z.pc \in {"row", "commit"}
               /\ z.rows = s.rows /\ z.torn = s.torn
               /\ z.list = Tail(l.list) /\ z.tells = l.tells
               /\ z.pc = "row" <=> Len(l.list) > 1
  BY ProceedsIs
<1>2. l.list # <<>>
  BY PlainWord
<1>3. CASE w = "listener"
  <2>1. ListOK(l)
    BY <1>3, PlainWord
  <2>2. DOMAIN z.rows \subseteq DOMAIN l.rows /\ \A d \in DOMAIN z.rows : z.rows[d] \in BOOLEAN
    BY <1>1, <2>1 DEF ListOK
  <2>3. z.torn => DOMAIN z.rows = {}
    BY <1>1, <2>1 DEF ListOK
  <2>4. \A d \in Devices \ misled' : Seen(z, online, d) = Seen(l, online, d)
    BY <1>1, <1>3 DEF Seen
  <2>5. QED BY <1>1, <1>2, <1>3, <2>2, <2>3, <2>4, ListenerGoesOn
<1>4. CASE w = "check"
  <2>1. CheckOK(l)
    BY <1>4, PlainWord
  <2>2. \A d \in DOMAIN z.rows : z.rows[d] \in BOOLEAN /\ ~z.rows[d]
    BY <1>1, <2>1 DEF CheckOK
  <2>3. CheckOK(z)
    BY <1>1, <1>2, <2>1, <2>2, CheckTail
  <2>4. online' \in [Devices -> BOOLEAN]
    BY DEF WordInv, OnlineTypes
  <2>5. QED BY <1>1, <1>4, <2>3, <2>4, CheckGoesOn
<1>5. QED BY <1>3, <1>4, WritersAre

LEMMA PassOverWord ==
  ASSUME WordInv, NEW w \in Writers, PassOver(w), UNCHANGED <<sockets, notices>>
  PROVE  WordInv'
<1>1. /\ Proceeds(w, writer[w]) /\ DOMAIN writer[w] = Fields
      /\ writer[w].pc = "row" /\ ~Kept(Head(writer[w].list))
      /\ UNCHANGED <<online, told, untold, misled>>
  BY PlainWord DEF PassOver, WriterAt, Entry, historyVars
<1>2. QED BY <1>1, StatementDone

LEMMA CopyWord ==
  ASSUME WordInv, NEW w \in Writers, WriteCopy(w) \/ CopyFails(w),
         UNCHANGED <<sockets, notices>>
  PROVE  WordInv'
<1>1. /\ writer[w].pc = "copy" /\ DOMAIN writer[w] = Fields
      /\ UNCHANGED <<online, told, untold, misled>>
  BY PlainWord DEF WriteCopy, CopyFails, WriterAt
<1>2. Proceeds(w, writer[w]) \/ \E c : Proceeds(w, [writer[w] EXCEPT !.copied = c])
  BY DEF WriteCopy, CopyFails
<1>3. CASE Proceeds(w, writer[w])
  BY <1>1, <1>3, StatementDone
<1>4. ASSUME NEW c, Proceeds(w, [writer[w] EXCEPT !.copied = c]) PROVE WordInv'
  <2> DEFINE s == [writer[w] EXCEPT !.copied = c]
  <2>1. /\ DOMAIN s = Fields /\ s.list = writer[w].list /\ s.tells = writer[w].tells
        /\ s.rows = writer[w].rows /\ s.torn = writer[w].torn
    BY <1>1 DEF Fields
  <2>2. Proceeds(w, s)
    BY <1>4
  <2> HIDE DEF s
  <2>3. QED BY <1>1, <2>1, <2>2, StatementDone
<1>5. QED BY <1>2, <1>3, <1>4

\* The writer leaves for the friends, or for good.
LEMMA LeavesFor ==
  ASSUME NEW w, Leaves(w)
  PROVE  \E s : /\ writer' = [writer EXCEPT ![w] = s] /\ DOMAIN s = Fields
                /\ s.list = <<>> /\ DOMAIN s.rows = {} /\ s.tells = writer[w].tells
                /\ s.pc = IF writer[w].tells = <<>> THEN "idle" ELSE "tell"
<1> DEFINE y == [NoWriter EXCEPT !.pc = "tell"]
           z == [y EXCEPT !.tells = writer[w].tells]
<1>1. DOMAIN NoWriter = Fields /\ NoWriter.list = <<>> /\ DOMAIN NoWriter.rows = {}
      /\ NoWriter.tells = <<>> /\ NoWriter.pc = "idle"
  BY DEF NoWriter, Fields
<1>2. /\ DOMAIN y = Fields /\ y.list = <<>> /\ DOMAIN y.rows = {} /\ y.pc = "tell"
  BY <1>1 DEF Fields
<1>3. /\ DOMAIN z = Fields /\ z.list = <<>> /\ DOMAIN z.rows = {}
      /\ z.tells = writer[w].tells /\ z.pc = "tell"
  BY <1>2 DEF Fields
<1>4. writer' = [writer EXCEPT ![w] = IF writer[w].tells = <<>> THEN NoWriter ELSE z]
  BY DEF Leaves, WriterGoes
<1> HIDE DEF z
<1>5. QED BY <1>1, <1>3, <1>4

\* It leaves without having made its rows visible, or it dies.
LEMMA GivesUpWord ==
  ASSUME WordInv, NEW w \in Writers, Loses(w, writer[w]),
         \/ Leaves(w) /\ untold' = untold
         \/ /\ WriterGoes(w, NoWriter)
            /\ untold' = untold \cup {Owner(d) : d \in EntriesOf(writer[w].tells)},
         UNCHANGED <<sockets, notices, online, told>>
  PROVE  WordInv'
<1> DEFINE l == writer[w]
<1>1. DOMAIN NoWriter = Fields /\ NoWriter.list = <<>> /\ DOMAIN NoWriter.rows = {}
      /\ NoWriter.tells = <<>> /\ NoWriter.pc = "idle"
  BY DEF NoWriter, Fields
<1>2. PICK s : /\ writer' = [writer EXCEPT ![w] = s] /\ DOMAIN s = Fields
               /\ s.list = <<>> /\ DOMAIN s.rows = {} /\ s.pc \in {"idle", "tell"}
               /\ \/ s.tells = l.tells
                  \/ /\ s.tells = <<>>
                     /\ \A d \in EntriesOf(l.tells) : Owner(d) \in untold'
               /\ s.pc = "idle" <=> s.tells = <<>>
  <2>1. CASE Leaves(w)
    <3>1. PICK s : /\ writer' = [writer EXCEPT ![w] = s] /\ DOMAIN s = Fields
                   /\ s.list = <<>> /\ DOMAIN s.rows = {} /\ s.tells = writer[w].tells
                   /\ s.pc = IF writer[w].tells = <<>> THEN "idle" ELSE "tell"
      BY <2>1, LeavesFor
    <3>2. s.pc \in {"idle", "tell"} /\ (s.pc = "idle" <=> s.tells = <<>>)
      BY <3>1
    <3>3. QED BY <3>1, <3>2
  <2>2. CASE ~Leaves(w)
    BY <1>1, <2>2 DEF WriterGoes
  <2>3. QED BY <2>1, <2>2
<1>3. online \in [Devices -> BOOLEAN] /\ untold \subseteq untold'
  BY DEF WordInv, OnlineTypes
<1>4. CASE w = "listener"
  <2>1. misled' = misled \cup DOMAIN l.rows \cup EntriesOf(l.list)
    BY <1>4, WritersAre DEF Loses
  <2>2. \A d \in Devices \ misled' : Silent(l.list, d) /\ online'[d] = Seen(l, online, d)
    BY <2>1, EntriesAre DEF Seen
  <2>3. QED BY <1>2, <1>3, <1>4, <2>1, <2>2, ListenerEnds
<1>5. CASE w = "check"
  <2>1. l.tells = <<>> /\ misled' = misled
    BY <1>5, PlainWord DEF CheckOK, Loses
  <2>2. s.tells = <<>>
    BY <1>2, <2>1
  <2>3. CheckOK(s)
    BY <1>2, <2>2, EmptyWord DEF CheckOK
  <2>4. QED BY <1>2, <1>3, <1>5, <2>1, <2>3, CheckGoesOn
<1>6. QED BY <1>4, <1>5, WritersAre

-----------------------------------------------------------------------------
\* The listener goes to a state of its own.
LEMMA ListenerTo ==
  ASSUME WordInv, NEW s, writer' = [writer EXCEPT !["listener"] = s],
         DOMAIN s = Fields, ListOK(s), notices' \in Seq(Notice),
         sockets' \in [Devices -> Nat], online' \in [Devices -> BOOLEAN],
         DOMAIN told' = Owners,
         ASSUME NEW d \in Devices \ misled' PROVE WordRight(s, d)',
         ASSUME NEW u \in Owners \ untold', DevicesOf(u) \cap misled' = {}
         PROVE  FriendsTold(s, u)'
  PROVE  WordInv'
<1>1. /\ OnlineTypes /\ CheckOK(writer["check"])
      /\ "listener" \in Writers /\ "check" \in Writers /\ DOMAIN writer = Writers
  BY DEF WordInv, OnlineTypes, Writers
<1>2. /\ DOMAIN writer' = Writers /\ writer'["listener"] = s
      /\ \A w \in Writers \ {"listener"} : writer'[w] = writer[w]
      /\ writer'["check"] = writer["check"]
  BY <1>1
<1>3. OnlineTypes'
  BY <1>1, <1>2 DEF OnlineTypes
<1>4. QED BY <1>1, <1>2, <1>3 DEF WordInv

\* The listener has written the row of the head, on its own or not.
LEMMA ListenerWrites ==
  ASSUME WordInv, NEW s, writer' = [writer EXCEPT !["listener"] = s],
         DOMAIN s = Fields, writer["listener"].pc = "row", s.pc = "copy",
         s.list = writer["listener"].list, s.tells = writer["listener"].tells,
         NEW h, h = Head(s.list), Kept(h), s.torn = writer["listener"].torn,
         \/ /\ s.rows = Put(writer["listener"].rows, h.dev, h.on)
            /\ ~s.torn /\ online' = online
         \/ s.rows = writer["listener"].rows /\ s.torn
            /\ online' = [online EXCEPT ![h.dev] = h.on],
         UNCHANGED <<sockets, notices, told, misled, untold>>
  PROVE  WordInv'
<1> DEFINE l == writer["listener"]
<1>1. /\ OnlineTypes /\ ListOK(l) /\ \A d \in Devices \ misled : WordRight(l, d)
      /\ l.list \in Seq(Notice) /\ l.list # <<>>
      /\ l.pc = "row" /\ s.list = l.list /\ s.tells = l.tells
      /\ s.torn = l.torn
  BY DEF WordInv, ListOK
<1>2. h \in Notice /\ h.dev \in Devices /\ h.on \in BOOLEAN /\ h = Head(l.list)
  BY <1>1, TailList DEF Notice
<1>3. \/ s.rows = Put(l.rows, h.dev, h.on) /\ ~s.torn /\ online' = online
      \/ s.rows = l.rows /\ s.torn /\ online' = [online EXCEPT ![h.dev] = h.on]
  OBVIOUS
<1>4. ASSUME NEW u \in Owners \ untold', DevicesOf(u) \cap misled' = {}
      PROVE  FriendsTold(l, u)
  BY <1>4 DEF WordInv, l
<1> HIDE DEF l
<1>5. h.dev \in EntriesOf(l.list) /\ h.dev \in EntriesOf(s.tells)
  BY <1>1, <1>2, TailEntries DEF ListOK
<1>6. ListOK(s)
  <2>1. CASE s.torn
    BY <1>1, <1>2, <1>3, <2>1 DEF ListOK
  <2>2. CASE ~s.torn
    <3>1. /\ DOMAIN s.rows = DOMAIN l.rows \cup {h.dev}
          /\ \A d \in DOMAIN s.rows : s.rows[d] \in BOOLEAN
      BY <1>1, <1>2, <1>3, <2>2 DEF Put, ListOK
    <3>2. QED BY <1>1, <1>2, <1>5, <2>2, <3>1 DEF ListOK
  <2>3. QED BY <2>1, <2>2
<1>7. online' \in [Devices -> BOOLEAN]
  BY <1>1, <1>2, <1>3 DEF OnlineTypes
<1>8. /\ Seen(s, online', h.dev) = h.on
      /\ \A d \in Devices : d # h.dev => Seen(s, online', d) = Seen(l, online, d)
  <2>1. CASE s.torn
    <3>1. s.rows = l.rows /\ DOMAIN l.rows = {} /\ online' = [online EXCEPT ![h.dev] = h.on]
      BY <1>1, <1>3, <2>1 DEF ListOK
    <3>2. /\ Seen(s, online', h.dev) = online'[h.dev]
          /\ \A d \in Devices : Seen(s, online', d) = online'[d] /\ Seen(l, online, d) = online[d]
      BY <3>1 DEF Seen
    <3>3. online'[h.dev] = h.on /\ \A d \in Devices : d # h.dev => online'[d] = online[d]
      BY <1>1, <1>2, <3>1 DEF OnlineTypes
    <3>4. QED BY <3>2, <3>3
  <2>2. CASE ~s.torn
    BY <1>3, <2>2 DEF Seen, Put
  <2>3. QED BY <2>1, <2>2
<1>9. ASSUME NEW d \in Devices \ misled' PROVE WordRight(s, d)'
  <2>1. WordRight(l, d)
    BY <1>1, <1>9
  <2>2. Silent(l.list, d) => d # h.dev
    BY <1>5, EntriesAre
  <2>3. Silent(notices, d) /\ h.dev = d /\ Silent(Tail(l.list), d) =>
          (Seen(s, online', d) <=> Connected(d))
    <3>1. SUFFICES ASSUME Silent(notices, d), h.dev = d, Silent(Tail(l.list), d)
                   PROVE  Seen(s, online', d) <=> Connected(d)
      OBVIOUS
    <3>2. Says(l.list, d, h.on)
      BY <1>1, <1>2, <3>1, TailWord
    <3>3. h.on <=> Connected(d)
      BY <1>2, <2>1, <3>1, <3>2 DEF WordRight
    <3>4. QED BY <1>8, <3>1, <3>3
  <2>4. Silent(notices, d) /\ Silent(l.list, d) => (Seen(s, online', d) <=> Connected(d))
    BY <1>8, <2>1, <2>2 DEF WordRight
  <2>5. QED BY <1>1, <1>2, <2>1, <2>3, <2>4 DEF WordRight, Connected
<1>10. ASSUME NEW u \in Owners \ untold', DevicesOf(u) \cap misled' = {}
       PROVE  FriendsTold(s, u)'
  <2>1. FriendsTold(l, u)
    BY <1>4, <1>10
  <2>2. SilentOf(s.tells, u) => Owner(h.dev) # u
    BY <1>5, EntriesAre
  <2>3. Owner(h.dev) # u => \A d \in DevicesOf(u) : online'[d] = online[d]
    BY <1>1, <1>2, <1>3 DEF DevicesOf, OnlineTypes
  <2>4. QED BY <1>1, <2>1, <2>2, <2>3 DEF FriendsTold, AnyOnline
<1>11. QED BY <1>1, <1>6, <1>7, <1>9, <1>10, ListenerTo DEF OnlineTypes

LEMMA WriteRowWord ==
  ASSUME WordInv, NEW w \in Writers, WriteRow(w), UNCHANGED <<sockets, notices>>
  PROVE  WordInv'
<1> DEFINE h == Head(writer[w].list)
           y == [writer[w] EXCEPT !.pc = "copy"]
           z == [y EXCEPT !.rows = Put(writer[w].rows, h.dev, h.on)]
<1>1. /\ writer[w].pc = "row" /\ Kept(h) /\ told' = told
      /\ DOMAIN writer = Writers /\ DOMAIN writer[w] = Fields
      /\ writer[w].list \in Seq(Notice) /\ writer[w].list # <<>>
  BY PlainWord DEF WriteRow, WriterAt, Entry
<1>2. h \in Notice /\ h.dev \in Devices /\ h.on \in BOOLEAN
  BY <1>1, TailList DEF Notice
<1>3. /\ writer[w].torn => /\ online' = [online EXCEPT ![h.dev] = h.on]
                           /\ Appear(w, {h.dev}) /\ writer' = [writer EXCEPT ![w] = y]
      /\ ~writer[w].torn => /\ online' = online /\ misled' = misled /\ untold' = untold
                            /\ writer' = [writer EXCEPT ![w] = z]
  BY DEF WriteRow, WriterGoes, Entry
<1>4. /\ DOMAIN y = Fields /\ y.pc = "copy" /\ y.list = writer[w].list
      /\ y.tells = writer[w].tells /\ y.rows = writer[w].rows /\ y.torn = writer[w].torn
  BY <1>1 DEF Fields
<1> HIDE DEF y
<1>5. /\ DOMAIN z = Fields /\ z.pc = "copy" /\ z.list = writer[w].list
      /\ z.tells = writer[w].tells /\ z.rows = Put(writer[w].rows, h.dev, h.on)
      /\ z.torn = writer[w].torn
  BY <1>4 DEF Fields
<1> HIDE DEF z
<1>6. PICK k : k = h
  OBVIOUS
<1>7. PICK s : /\ writer' = [writer EXCEPT ![w] = s] /\ s = IF writer[w].torn THEN y ELSE z
  BY <1>3
<1>8. /\ DOMAIN s = Fields /\ s.pc = "copy" /\ s.list = writer[w].list
      /\ s.tells = writer[w].tells /\ s.torn = writer[w].torn
      /\ \/ ~s.torn /\ s.rows = Put(writer[w].rows, k.dev, k.on) /\ online' = online
         \/ s.torn /\ s.rows = writer[w].rows /\ online' = [online EXCEPT ![k.dev] = k.on]
  BY <1>3, <1>4, <1>5, <1>6, <1>7
<1>9. CASE w = "listener"
  <2>1. writer[w].torn => misled' = misled /\ untold' = untold
    BY <1>3, <1>9, WritersAre DEF Appear
  <2>2. k = Head(s.list) /\ Kept(k)
    BY <1>1, <1>6, <1>8
  <2>3. misled' = misled /\ untold' = untold
    BY <1>3, <2>1
  <2>4. QED BY <1>1, <1>7, <1>8, <1>9, <2>2, <2>3, ListenerWrites
<1>10. CASE w = "check"
  <2>1. CheckOK(writer[w]) /\ ~k.on
    <3>1. CheckOK(writer[w])
      BY <1>10, PlainWord
    <3>2. h = writer[w].list[1] /\ 1 \in DOMAIN writer[w].list
      BY <1>1, TailList
    <3>3. QED BY <1>6, <3>1, <3>2 DEF CheckOK
  <2>2. \A d \in DOMAIN s.rows : s.rows[d] \in BOOLEAN /\ ~s.rows[d]
    BY <1>2, <1>6, <1>8, <2>1 DEF CheckOK, Put
  <2>3. CheckOK(s)
    BY <1>1, <1>8, <2>1, <2>2 DEF CheckOK
  <2>4. online \in [Devices -> BOOLEAN] /\ online' \in [Devices -> BOOLEAN]
    BY <1>2, <1>6, <1>8 DEF WordInv, OnlineTypes
  <2>5. ASSUME NEW d \in Devices, online'[d] # online[d]
        PROVE  ~online'[d] /\ Owner(d) \in untold' /\ (Connected(d) => d \in misled')
    <3>1. writer[w].torn /\ d = k.dev /\ online'[d] = k.on
      BY <1>2, <1>6, <1>8, <2>4, <2>5
    <3>2. Appear(w, {d})
      BY <1>3, <1>6, <3>1
    <3>3. QED BY <1>10, <2>1, <3>1, <3>2 DEF Appear, Connected
  <2>6. misled \subseteq misled' /\ untold \subseteq untold'
    BY <1>3 DEF Appear
  <2>7. QED BY <1>1, <1>7, <1>8, <1>10, <2>3, <2>4, <2>5, <2>6, CheckGoesOn
<1>11. QED BY <1>9, <1>10, WritersAre

LEMMA CommitWord ==
  ASSUME WordInv, NEW w \in Writers, Commit(w), UNCHANGED <<sockets, notices>>
  PROVE  WordInv'
<1> DEFINE l == writer[w]
<1>1. /\ l.pc = "commit" /\ online' = [d \in Devices |-> Seen(l, online, d)]
      /\ Appear(w, DOMAIN l.rows) /\ Leaves(w) /\ told' = told
  BY DEF Commit, WriterAt, Sees, Seen, Written
<1>2. PICK s : /\ writer' = [writer EXCEPT ![w] = s] /\ DOMAIN s = Fields
               /\ s.list = <<>> /\ DOMAIN s.rows = {} /\ s.tells = l.tells
               /\ s.pc = IF l.tells = <<>> THEN "idle" ELSE "tell"
  BY <1>1, LeavesFor
<1>3. l.list = <<>> /\ s.pc \in {"idle", "tell"} /\ (s.pc = "idle" <=> s.tells = <<>>)
  BY <1>1, <1>2, PlainWord
<1>4. online \in [Devices -> BOOLEAN]
  BY DEF WordInv, OnlineTypes
<1>5. misled \subseteq misled' /\ untold \subseteq untold'
  BY <1>1 DEF Appear
<1>6. CASE w = "listener"
  <2>1. \A d \in DOMAIN l.rows : l.rows[d] \in BOOLEAN
    BY <1>6, PlainWord DEF ListOK
  <2>2. online' \in [Devices -> BOOLEAN]
    BY <1>1, <1>4, <2>1 DEF Seen
  <2>3. /\ \A d \in Devices : d \in DOMAIN l.rows \/ online'[d] = online[d]
        /\ \A d \in Devices \ misled' : online'[d] = Seen(l, online, d)
    BY <1>1 DEF Seen
  <2>4. \A d : Silent(l.list, d)
    BY <1>3, EmptyWord
  <2>5. QED BY <1>1, <1>2, <1>3, <1>5, <1>6, <2>2, <2>3, <2>4, ListenerEnds
<1>7. CASE w = "check"
  <2>1. \A d \in DOMAIN l.rows : l.rows[d] \in BOOLEAN /\ ~l.rows[d]
    BY <1>7, PlainWord DEF CheckOK
  <2>2. l.tells = <<>>
    BY <1>7, PlainWord DEF CheckOK
  <2>3. online' \in [Devices -> BOOLEAN]
    BY <1>1, <1>4, <2>1 DEF Seen
  <2>4. ASSUME NEW d \in Devices, online'[d] # online[d]
        PROVE  ~online'[d] /\ Owner(d) \in untold' /\ (Connected(d) => d \in misled')
    <3>1. d \in DOMAIN l.rows /\ ~online'[d]
      BY <1>1, <2>1, <2>4 DEF Seen
    <3>2. QED BY <1>1, <1>7, <3>1 DEF Appear, Connected
  <2>5. CheckOK(s)
    BY <1>2, <2>2, EmptyWord DEF CheckOK
  <2>6. QED BY <1>1, <1>2, <1>5, <1>7, <2>3, <2>4, <2>5, CheckGoesOn
<1>8. QED BY <1>6, <1>7, WritersAre

LEMMA DeadlockWord ==
  ASSUME WordInv, NEW w \in Writers, Deadlock(w), UNCHANGED <<sockets, notices>>
  PROVE  WordInv'
<1>1. /\ UNCHANGED <<online, told, untold>> /\ DOMAIN writer[w] = Fields
      /\ writer[w].pc = "row" \/ writer[w].pc = "copy"
  BY PlainWord DEF Deadlock, Blocked, WriterAt
<1>2. CASE writer[w].pc = "row"
  <2>1. Leaves(w) /\ Loses(w, writer[w])
    BY <1>2 DEF Deadlock, WriterAt
  <2>2. QED BY <1>1, <2>1, GivesUpWord
<1>3. CASE writer[w].pc = "copy"
  <2> DEFINE s == [writer[w] EXCEPT !.rows = <<>>, !.copied = <<>>, !.torn = TRUE]
             y == [writer[w] EXCEPT !.list = <<>>]
  <2>1. Proceeds(w, s) /\ Loses(w, y)
    BY <1>3 DEF Deadlock, WriterAt
  <2>2. DOMAIN s = Fields /\ s.list = writer[w].list /\ s.tells = writer[w].tells
        /\ s.rows = <<>> /\ s.torn
    BY <1>1 DEF Fields
  <2>3. y.rows = writer[w].rows
    BY <1>1 DEF Fields
  <2> HIDE DEF s, y
  <2>4. DOMAIN s.rows = {}
    BY <2>2
  <2>5. misled \subseteq misled' /\ (w = "check" \/ DOMAIN writer[w].rows \subseteq misled')
    BY <2>1, <2>3 DEF Loses
  <2>6. QED BY <1>1, <1>3, <2>1, <2>2, <2>4, <2>5, StatementDone
<1>4. QED BY <1>1, <1>2, <1>3

LEMMA FailsWord ==
  ASSUME WordInv, NEW w \in Writers, WriterFails(w) \/ WriterDies(w),
         UNCHANGED <<sockets, notices>>
  PROVE  WordInv'
BY GivesUpWord DEF WriterFails, WriterDies

\* A list is fetched by a listener that has nothing left.
LEMMA ListenWord ==
  ASSUME WordInv, Listen
  PROVE  WordInv'
<1> DEFINE l == writer["listener"]
           y == [NoWriter EXCEPT !.pc = "row", !.list = notices, !.tells = notices]
<1>1. /\ ListOK(l) /\ l.pc = "idle" /\ notices # <<>> /\ notices' = <<>>
      /\ OnlineTypes /\ \A d \in Devices \ misled : WordRight(l, d)
      /\ UNCHANGED <<sockets, online, told, misled, untold>>
      /\ writer' = [writer EXCEPT !["listener"] = y]
      /\ notices \in Seq(Notice)
  BY DEF WordInv, OnlineTypes, Listen, WriterAt, Starts, WriterGoes, historyVars
<1>2. ASSUME NEW u \in Owners \ untold', DevicesOf(u) \cap misled' = {}
      PROVE  FriendsTold(l, u)
  BY <1>1, <1>2 DEF WordInv
<1>3. PICK n : n = notices
  OBVIOUS
<1>4. PICK s : s = y
  OBVIOUS
<1>5. /\ DOMAIN s = Fields /\ s.pc = "row" /\ s.list = n /\ s.tells = n
      /\ DOMAIN s.rows = {} /\ ~s.torn
  <2> DEFINE a == [NoWriter EXCEPT !.pc = "row"]
             b == [a EXCEPT !.list = notices]
  <2>1. /\ DOMAIN a = Fields /\ a.pc = "row" /\ DOMAIN a.rows = {} /\ ~a.torn
    BY DEF NoWriter, Fields
  <2> HIDE DEF a
  <2>2. /\ DOMAIN b = Fields /\ b.pc = "row" /\ b.list = notices /\ DOMAIN b.rows = {}
        /\ ~b.torn
    BY <2>1 DEF Fields
  <2>3. s = [b EXCEPT !.tells = notices]
    BY <1>4 DEF a
  <2> HIDE DEF b
  <2>4. QED BY <1>3, <2>2, <2>3 DEF Fields
<1> HIDE DEF l, y
<1>6. l.list = <<>> /\ l.tells = <<>> /\ DOMAIN l.rows = {}
  BY <1>1 DEF ListOK
<1>7. ListOK(s)
  BY <1>1, <1>3, <1>5 DEF ListOK
<1>8. ASSUME NEW d \in Devices \ misled' PROVE WordRight(s, d)'
  <2>1. WordRight(l, d)
    BY <1>1, <1>8
  <2>2. \A on \in BOOLEAN : Says(n, d, on) => (on <=> Connected(d))
    BY <1>3, <2>1 DEF WordRight
  <2>3. Silent(n, d) => (online[d] <=> Connected(d))
    BY <1>3, <1>6, <2>1, EmptyWord DEF WordRight, Seen
  <2>4. \A on : ~Says(notices', d, on)
    <3>1. \A on : ~Says(<<>>, d, on)
      BY EmptyWord
    <3>2. \A m : m = <<>> => \A on : ~Says(m, d, on)
      BY <3>1
    <3>3. QED BY <1>1, <3>2
  <2>5. Seen(s, online, d) = online[d]
    BY <1>5 DEF Seen
  <2>6. s.pc # "copy"
    BY <1>5
  <2>7. QED BY <1>1, <1>5, <2>2, <2>3, <2>4, <2>5, <2>6 DEF WordRight, Connected
<1>9. ASSUME NEW u \in Owners \ untold', DevicesOf(u) \cap misled' = {}
      PROVE  FriendsTold(s, u)'
  <2>1. FriendsTold(l, u)
    BY <1>2, <1>9
  <2>2. SilentOf(l.tells, u)
    BY <1>6, EmptyWord
  <2>3. SilentOf(n, u) => (told[u] <=> AnyOnline(u))
    BY <1>3, <2>1, <2>2 DEF FriendsTold
  <2>4. QED BY <1>1, <1>5, <2>3 DEF FriendsTold, AnyOnline
<1>10. QED
  BY <1>1, <1>4, <1>5, <1>7, <1>8, <1>9, EmptyWord, ListenerTo DEF OnlineTypes, y

-----------------------------------------------------------------------------
\* A check starts with rows that are on, and puts down those of devices that
\* are gone.
LEMMA CheckWord ==
  ASSUME WordInv, NEW s, writer' = [writer EXCEPT !["check"] = s],
         DOMAIN s = Fields, CheckOK(s),
         UNCHANGED <<sockets, notices, online, told, misled, untold>>
  PROVE  WordInv'
<1>1. online \in [Devices -> BOOLEAN]
  BY DEF WordInv, OnlineTypes
<1>2. QED BY <1>1, CheckGoesOn

LEMMA OrdersAre ==
  ASSUME NEW S \in SUBSET Devices, S # {}, NEW s \in Orders(S)
  PROVE  \E n \in Nat \ {0} : DOMAIN s = 1..n /\ \A i \in 1..n : s[i] \in S
<1>1. IsFiniteSet(S)
  BY OnlineAssumption, FS_Subset
<1>2. Cardinality(S) \in Nat /\ Cardinality(S) # 0
  BY <1>1, FS_CardinalityType, FS_EmptySet
<1>3. QED BY <1>2 DEF Orders

LEMMA ChecksWord ==
  ASSUME WordInv, Checks
  PROVE  WordInv'
<1>1. UNCHANGED <<sockets, notices, online, told, misled, untold>>
  BY DEF Checks, CheckReads, CheckAsks, historyVars
<1>2. DOMAIN NoWriter = Fields /\ CheckOK(NoWriter)
  <2>1. /\ DOMAIN NoWriter = Fields /\ NoWriter.list = <<>> /\ NoWriter.tells = <<>>
        /\ NoWriter.pc = "idle" /\ DOMAIN NoWriter.rows = {}
    BY DEF NoWriter, Fields
  <2>2. QED BY <2>1, EmptyWord DEF CheckOK
<1>3. CASE CheckReads
  <2>1. PICK f \in SUBSET Devices : writer' = [writer EXCEPT !["check"] =
                              [NoWriter EXCEPT !.pc = "ask", !.found = f]]
    BY <1>3 DEF CheckReads, WriterGoes
  <2> DEFINE y == [NoWriter EXCEPT !.pc = "ask"]
             s == [y EXCEPT !.found = f]
  <2>2. DOMAIN y = Fields /\ y.pc = "ask" /\ y.list = <<>> /\ y.tells = <<>>
        /\ DOMAIN y.rows = {}
    BY DEF NoWriter, Fields
  <2> HIDE DEF y
  <2>3. DOMAIN s = Fields /\ s.pc = "ask" /\ s.list = <<>> /\ s.tells = <<>>
        /\ DOMAIN s.rows = {} /\ s.found = f
    BY <2>2 DEF Fields
  <2>4. writer' = [writer EXCEPT !["check"] = s]
    BY <2>1 DEF y
  <2> HIDE DEF s
  <2>5. CheckOK(s)
    BY <2>3, EmptyWord DEF CheckOK
  <2>6. QED BY <1>1, <2>3, <2>4, <2>5, CheckWord
<1>4. CASE CheckAsks
  <2> DEFINE gone == {d \in writer["check"].found : sockets[d] = 0}
  <2>1. CASE WriterGoes("check", NoWriter)
    BY <1>1, <1>2, <2>1, CheckWord DEF WriterGoes
  <2>2. CASE ~WriterGoes("check", NoWriter)
    <3>1. /\ gone # {}
          /\ \E o \in Orders(gone) :
               Starts("check", [i \in DOMAIN o |-> [dev |-> o[i], on |-> FALSE, count |-> 0]],
                      <<>>)
      BY <1>4, <2>2 DEF CheckAsks
    <3>2. PICK S : S = gone
      OBVIOUS
    <3>3. PICK o \in Orders(S) :
            Starts("check", [i \in DOMAIN o |-> [dev |-> o[i], on |-> FALSE, count |-> 0]], <<>>)
      BY <3>1, <3>2
    <3>4. S \subseteq Devices /\ S # {}
      BY <1>4, <3>1, <3>2 DEF WordInv, CheckOK, CheckAsks, WriterAt
    <3>5. PICK n \in Nat \ {0} : DOMAIN o = 1..n /\ \A i \in 1..n : o[i] \in S
      BY <3>3, <3>4, OrdersAre
    <3> DEFINE list == [i \in DOMAIN o |-> [dev |-> o[i], on |-> FALSE, count |-> 0]]
               a == [NoWriter EXCEPT !.pc = "row"]
               b == [a EXCEPT !.list = list]
               s == [b EXCEPT !.tells = <<>>]
    <3>6. writer' = [writer EXCEPT !["check"] = s]
      BY <3>3 DEF Starts, WriterGoes
    <3>7. list \in Seq(Notice) /\ list # <<>> /\ \A i \in DOMAIN list : ~list[i].on
      <4>1. \A i \in 1..n : list[i] \in Notice
        BY <3>4, <3>5 DEF Notice
      <4>2. list = [i \in 1..n |-> list[i]]
        BY <3>5
      <4>3. list \in Seq(Notice)
        BY <4>1, <4>2
      <4>4. 1 \in DOMAIN list
        BY <3>5
      <4>5. QED BY <4>3, <4>4
    <3> HIDE DEF list
    <3>8. DOMAIN a = Fields /\ a.pc = "row" /\ DOMAIN a.rows = {}
      BY DEF NoWriter, Fields
    <3> HIDE DEF a
    <3>9. DOMAIN b = Fields /\ b.pc = "row" /\ DOMAIN b.rows = {} /\ b.list = list
      BY <3>8 DEF Fields
    <3> HIDE DEF b
    <3>10. DOMAIN s = Fields /\ s.pc = "row" /\ DOMAIN s.rows = {} /\ s.list = list
           /\ s.tells = <<>>
      BY <3>9 DEF Fields
    <3> HIDE DEF s
    <3>11. CheckOK(s)
      BY <3>7, <3>10 DEF CheckOK
    <3>12. QED BY <1>1, <3>6, <3>10, <3>11, CheckWord
  <2>3. QED BY <2>1, <2>2
<1>5. QED BY <1>3, <1>4 DEF Checks

-----------------------------------------------------------------------------
\* What friends are told is true by the time nobody has to tell them any more.
LEMMA TellWord ==
  ASSUME WordInv, TellFriends
  PROVE  WordInv'
<1> DEFINE l == writer["listener"]
<1>1. /\ OnlineTypes /\ ListOK(l) /\ \A d \in Devices \ misled : WordRight(l, d)
      /\ l.pc = "tell" /\ UNCHANGED <<sockets, notices, online, misled>>
      /\ DOMAIN l = Fields
  BY WritersAre DEF WordInv, OnlineTypes, TellFriends, WriterAt
<1>2. ASSUME NEW u \in Owners \ untold, DevicesOf(u) \cap misled = {}
      PROVE  FriendsTold(l, u)
  BY <1>2 DEF WordInv
<1>3. PICK h : h = Head(l.tells)
  OBVIOUS
<1>4. /\ writer' = [writer EXCEPT !["listener"] = IF Len(l.tells) = 1 THEN NoWriter
                                                  ELSE [l EXCEPT !.tells = Tail(@)]]
      /\ \/ /\ Kept(h) /\ told' = [told EXCEPT ![Owner(h.dev)] = NowOnline(h)]
            /\ untold' = untold \ {Owner(h.dev)}
         \/ Kept(h) /\ untold' = untold \cup {Owner(h.dev)} /\ told' = told
         \/ ~Kept(h) /\ told' = told /\ untold' = untold
  BY <1>3 DEF TellFriends, WriterGoes
<1>5. PICK s : /\ writer' = [writer EXCEPT !["listener"] = s]
               /\ s = IF Len(l.tells) = 1 THEN NoWriter ELSE [l EXCEPT !.tells = Tail(@)]
  BY <1>4
<1> HIDE DEF l
<1>6. /\ l.list = <<>> /\ DOMAIN l.rows = {} /\ l.tells \in Seq(Notice) /\ l.tells # <<>>
  BY <1>1 DEF ListOK
<1>7. /\ Tail(l.tells) \in Seq(Notice) /\ h \in Notice /\ h = Head(l.tells)
      /\ Len(l.tells) \in Nat \ {0} /\ (Len(l.tells) > 1 <=> Tail(l.tells) # <<>>)
  BY <1>3, <1>6, TailList
<1>8. /\ DOMAIN s = Fields /\ s.list = <<>> /\ DOMAIN s.rows = {}
      /\ s.tells = Tail(l.tells) /\ s.pc = IF s.tells = <<>> THEN "idle" ELSE "tell"
  <2>1. CASE Len(l.tells) = 1
    <3>1. Tail(l.tells) = <<>>
      BY <1>7, <2>1
    <3>2. s = NoWriter
      BY <1>5, <2>1
    <3>3. QED BY <3>1, <3>2 DEF NoWriter, Fields
  <2>2. CASE Len(l.tells) # 1
    <3>1. Tail(l.tells) # <<>>
      <4>1. PICK n : n = Len(l.tells)
        OBVIOUS
      <4>2. n \in Nat \ {0} /\ n # 1
        BY <1>7, <2>2, <4>1
      <4>3. n > 1
        BY <4>2
      <4>4. QED BY <1>7, <4>1, <4>3
    <3>2. s = [l EXCEPT !.tells = Tail(l.tells)]
      BY <1>5, <2>2
    <3>3. /\ DOMAIN s = Fields /\ s.list = l.list /\ s.rows = l.rows
          /\ s.tells = Tail(l.tells) /\ s.pc = l.pc
      BY <1>1, <3>2 DEF Fields
    <3>4. QED BY <1>1, <1>6, <3>1, <3>3
  <2>3. QED BY <2>1, <2>2
<1>9. ListOK(s)
  <2>1. s.torn => DOMAIN s.rows = {}
    BY <1>8
  <2>2. QED BY <1>7, <1>8, <2>1, EmptyWord DEF ListOK
<1>10. ASSUME NEW d \in Devices \ misled' PROVE WordRight(s, d)'
  <2>1. WordRight(l, d)
    BY <1>1, <1>10
  <2>2. \A on : Says(s.tells, d, on) => Says(l.tells, d, on)
    BY <1>6, <1>8, TailWord
  <2>3. Seen(s, online, d) = Seen(l, online, d)
    BY <1>6, <1>8 DEF Seen
  <2>4. s.list = l.list /\ s.pc # "copy"
    BY <1>6, <1>8
  <2>5. QED BY <1>1, <2>1, <2>2, <2>3, <2>4 DEF WordRight, Connected
<1>11. ASSUME NEW u \in Owners \ untold', DevicesOf(u) \cap misled' = {}
       PROVE  FriendsTold(s, u)'
  <2>1. SUFFICES ASSUME SilentOf(notices, u), SilentOf(Tail(l.tells), u)
                 PROVE  told'[u] <=> AnyOnline(u)
    BY <1>1, <1>8 DEF FriendsTold, AnyOnline
  <2>2. CASE Kept(h) /\ Owner(h.dev) = u
    <3>1. told' = [told EXCEPT ![u] = NowOnline(h)]
      BY <1>4, <1>11, <2>2
    <3>2. told'[u] = NowOnline(h)
      BY <1>1, <1>11, <3>1 DEF OnlineTypes
    <3>3. h.on => online[h.dev]
      <4>1. SUFFICES ASSUME h.on PROVE online[h.dev]
        OBVIOUS
      <4>2. h.dev \in Devices \ misled /\ h.dev \in DevicesOf(u)
        BY <1>1, <1>7, <1>11, <2>2 DEF Notice, DevicesOf
      <4>3. Silent(notices, h.dev) /\ Silent(Tail(l.tells), h.dev) /\ Silent(l.list, h.dev)
        BY <1>6, <2>1, <2>2, EmptyWord DEF Silent, SilentOf
      <4>4. Says(l.tells, h.dev, h.on)
        BY <1>6, <1>7, <2>2, <4>3, TailWord
      <4>5. WordRight(l, h.dev) /\ h.on \in BOOLEAN
        BY <1>1, <1>7, <4>2 DEF Notice
      <4>6. Connected(h.dev) /\ Seen(l, online, h.dev)
        BY <4>1, <4>3, <4>4, <4>5 DEF WordRight
      <4>7. QED BY <1>6, <4>6 DEF Seen
    <3>4. h.on => AnyOnline(u)
      BY <1>7, <2>2, <3>3 DEF AnyOnline, DevicesOf, Notice
    <3>5. NowOnline(h) <=> AnyOnline(u)
      BY <2>2, <3>4 DEF NowOnline
    <3>6. QED BY <3>2, <3>5
  <2>3. CASE ~(Kept(h) /\ Owner(h.dev) = u)
    <3>1. SilentOf(l.tells, u)
      BY <1>6, <1>7, <2>1, <2>3, TailSilentOf
    <3>2. told'[u] = told[u] /\ u \notin untold
      BY <1>1, <1>4, <1>11, <2>3 DEF OnlineTypes
    <3>3. FriendsTold(l, u)
      BY <1>1, <1>2, <1>11, <3>2
    <3>4. QED BY <2>1, <3>1, <3>2, <3>3 DEF FriendsTold
  <2>4. QED BY <2>2, <2>3
<1>12. DOMAIN told' = Owners
  BY <1>1, <1>4 DEF OnlineTypes
<1>13. QED
  BY <1>1, <1>5, <1>8, <1>9, <1>10, <1>11, <1>12, ListenerTo DEF OnlineTypes

-----------------------------------------------------------------------------
\* A device connects or goes, and its notice says so.
LEMMA PostWord ==
  ASSUME WordInv, NEW e \in Notice, notices' = Append(notices, e),
         sockets' \in [Devices -> Nat],
         \A d \in Devices : IF Kept(e) /\ e.dev = d
                            THEN e.on <=> sockets'[d] > 0
                            ELSE sockets'[d] > 0 <=> sockets[d] > 0,
         UNCHANGED <<online, told, writer, misled, untold>>
  PROVE  WordInv'
<1> DEFINE l == writer["listener"]
<1>1. /\ OnlineTypes /\ ListOK(l) /\ CheckOK(writer["check"]) /\ notices \in Seq(Notice)
      /\ \A d \in Devices \ misled : WordRight(l, d)
      /\ \A u \in Owners \ untold : DevicesOf(u) \cap misled = {} => FriendsTold(l, u)
  BY DEF WordInv, OnlineTypes
<1>2. l' = l
  OBVIOUS
<1> HIDE DEF l
<1>3. notices' \in Seq(Notice)
  BY <1>1, AppendWord
<1>4. OnlineTypes'
  BY <1>1, <1>3 DEF OnlineTypes
<1>5. ASSUME NEW d \in Devices \ misled PROVE WordRight(l, d)'
  <2>1. /\ WordRight(l, d)
        /\ Silent(notices', d) => Silent(notices, d) /\ ~(Kept(e) /\ e.dev = d)
        /\ \A on : Says(notices', d, on) =>
             IF Kept(e) /\ e.dev = d THEN e.on = on ELSE Says(notices, d, on)
    BY <1>1, <1>5, AppendWord
  <2>2. CASE Kept(e) /\ e.dev = d
    <3>1. \A on \in BOOLEAN : Says(notices', d, on) => (on <=> sockets'[d] > 0)
      BY <2>1, <2>2
    <3>2. ~Silent(notices', d)
      BY <2>1, <2>2
    <3>3. QED BY <3>1, <3>2 DEF WordRight, Connected
  <2>3. CASE ~(Kept(e) /\ e.dev = d)
    <3>1. Connected(d)' <=> Connected(d)
      BY <1>5, <2>3 DEF Connected
    <3>2. \A on : Says(notices', d, on) => Says(notices, d, on)
      BY <2>1, <2>3
    <3>3. QED BY <1>2, <2>1, <3>1, <3>2 DEF WordRight
  <2>4. QED BY <2>2, <2>3
<1>6. ASSUME NEW u \in Owners \ untold, DevicesOf(u) \cap misled = {}
      PROVE  FriendsTold(l, u)'
  <2>1. SilentOf(notices', u) => SilentOf(notices, u)
    BY <1>1, AppendWord
  <2>2. FriendsTold(l, u)
    BY <1>1, <1>6
  <2>3. QED BY <1>2, <2>1, <2>2 DEF FriendsTold, AnyOnline
<1>7. QED BY <1>1, <1>2, <1>4, <1>5, <1>6 DEF WordInv, l

LEMMA ServerWord ==
  ASSUME WordInv, IMServer
  PROVE  WordInv'
<1>1. /\ OnlineTypes /\ UNCHANGED <<online, told, writer, untold>>
  BY DEF WordInv, IMServer
<1>2. ASSUME NEW d \in Devices, Connects(d) PROVE WordInv'
  <2> DEFINE e == [dev |-> d, on |-> TRUE, count |-> sockets[d] + 1]
  <2>1. /\ notices' = Append(notices, e) /\ sockets' = [sockets EXCEPT ![d] = @ + 1]
        /\ misled' = misled /\ sockets \in [Devices -> Nat]
    BY <1>1, <1>2 DEF Connects, Posts, OnlineTypes
  <2>2. e \in Notice /\ e.dev = d /\ e.on
    BY <2>1 DEF Notice
  <2>3. sockets' \in [Devices -> Nat] /\ sockets'[d] > 0
    BY <2>1
  <2>4. \A x \in Devices : x # d => sockets'[x] = sockets[x]
    BY <2>1
  <2>5. Kept(e)
    BY DEF Kept
  <2>6. PICK k : k = e
    OBVIOUS
  <2> HIDE DEF e
  <2>7. QED BY <1>1, <2>1, <2>2, <2>3, <2>4, <2>5, <2>6, PostWord
<1>3. ASSUME NEW d \in Devices, Disconnects(d) PROVE WordInv'
  <2> DEFINE e == [dev |-> d, on |-> FALSE, count |-> sockets[d] - 1]
  <2>1. /\ notices' = Append(notices, e) /\ sockets' = [sockets EXCEPT ![d] = @ - 1]
        /\ misled' = misled /\ sockets \in [Devices -> Nat] /\ sockets[d] > 0
    BY <1>1, <1>3 DEF Disconnects, Posts, OnlineTypes
  <2>2. e \in Notice /\ e.dev = d /\ ~e.on /\ e.count = sockets'[d]
    BY <2>1 DEF Notice
  <2>3. sockets' \in [Devices -> Nat]
    BY <2>1
  <2>4. \A x \in Devices : x # d => sockets'[x] = sockets[x]
    BY <2>1
  <2>5. Kept(e) <=> sockets'[d] = 0
    BY <2>2 DEF Kept
  <2>6. PICK k : k = e
    OBVIOUS
  <2> HIDE DEF e
  <2>7. \A x \in Devices : IF Kept(k) /\ k.dev = x
                           THEN k.on <=> sockets'[x] > 0
                           ELSE sockets'[x] > 0 <=> sockets[x] > 0
    BY <2>1, <2>2, <2>3, <2>4, <2>5, <2>6
  <2>8. k \in Notice /\ notices' = Append(notices, k)
    BY <2>1, <2>2, <2>6
  <2>9. QED BY <1>1, <2>1, <2>3, <2>7, <2>8, PostWord
<1>4. CASE Restarts
  <2>1. misled' = Devices /\ notices' = <<>> /\ sockets' \in [Devices -> Nat]
    BY <1>4 DEF Restarts
  <2>2. OnlineTypes'
    BY <1>1, <2>1 DEF OnlineTypes
  <2>3. \A u \in Owners : DevicesOf(u) # {}
    BY DEF Owners, DevicesOf
  <2>4. ListOK(writer'["listener"]) /\ CheckOK(writer'["check"])
    BY <1>1 DEF WordInv
  <2>5. Devices \ misled' = {} /\ \A u \in Owners : DevicesOf(u) \cap misled' # {}
    BY <2>1, <2>3 DEF DevicesOf
  <2>6. QED BY <2>2, <2>4, <2>5 DEF WordInv
<1>5. QED BY <1>2, <1>3, <1>4 DEF IMServer

LEMMA NextWord ==
  ASSUME WordInv, [OnlineNext]_onlineVars
  PROVE  WordInv'
<1>1. ASSUME UNCHANGED <<sockets, notices, online, told, writer, misled, untold>>
      PROVE  WordInv'
  BY <1>1 DEF WordInv, OnlineTypes, WordRight, FriendsTold, AnyOnline, Connected
<1>2. UNCHANGED onlineVars \/ (\E d \in Devices : MinutePasses(d)) =>
        UNCHANGED <<sockets, notices, online, told, writer, misled, untold>>
  BY DEF onlineVars, historyVars, MinutePasses
<1>3. ASSUME NEW w \in Writers, Writes(w) \/ Mistakes(w) PROVE WordInv'
  BY <1>3, WriteRowWord, PassOverWord, CopyWord, CommitWord, DeadlockWord, FailsWord
     DEF Writes, Mistakes
<1>4. QED
  BY <1>1, <1>2, <1>3, ServerWord, ListenWord, TellWord, ChecksWord DEF OnlineNext

LEMMA InitWord == OnlineInit => WordInv
<1>1. SUFFICES ASSUME OnlineInit PROVE WordInv
  OBVIOUS
<1>2. /\ sockets = [d \in Devices |-> 0] /\ notices = <<>>
      /\ online = [d \in Devices |-> FALSE] /\ told = [u \in Owners |-> FALSE]
      /\ \A w \in Writers : writer[w] = NoWriter
      /\ DOMAIN writer = Writers
  BY <1>1 DEF OnlineInit
<1>3. /\ DOMAIN NoWriter = Fields /\ NoWriter.list = <<>> /\ NoWriter.tells = <<>>
      /\ NoWriter.pc = "idle" /\ DOMAIN NoWriter.rows = {}
  BY DEF NoWriter, Fields
<1>4. OnlineTypes
  BY <1>2, <1>3 DEF OnlineTypes
<1>5. ListOK(NoWriter) /\ CheckOK(NoWriter)
  BY <1>3, EmptyWord DEF ListOK, CheckOK
<1>6. \A d \in Devices : WordRight(NoWriter, d)
  <2>1. ASSUME NEW d \in Devices PROVE WordRight(NoWriter, d)
    <3>1. ~Connected(d) /\ ~Seen(NoWriter, online, d)
      BY <1>2, <1>3 DEF Connected, Seen
    <3>2. \A on : ~Says(<<>>, d, on)
      BY EmptyWord
    <3>3. QED BY <1>2, <1>3, <3>1, <3>2 DEF WordRight
  <2>2. QED BY <2>1
<1>7. \A u \in Owners : FriendsTold(NoWriter, u)
  BY <1>2 DEF FriendsTold, AnyOnline, DevicesOf
<1>8. QED BY <1>2, <1>4, <1>5, <1>6, <1>7, WritersAre DEF WordInv

-----------------------------------------------------------------------------
(***************************************************************************)
(* Theorems                                                                *)
(***************************************************************************)
\* A user is shown online as long as one of his devices is, unless his copy
\* could not be written: whoever writes the copy of a user has read all rows of
\* his for update, and whoever goes on without a transaction, because MySQL has
\* rolled it back, takes the same locks for each statement
\* (insertOrUpdateUserOnlineTx).
THEOREM ShownAsOnline == OnlineSpec => []ShownWithAnyDevice
<1>1. ShownInv /\ [OnlineNext]_onlineVars => ShownInv'
  BY NextShown
<1>2. ShownInv => ShownWithAnyDevice
  BY DEF ShownInv
<1>3. QED BY <1>1, <1>2, InitShown, PTL DEF OnlineSpec

\* When every notice has been handled the rows say who is connected, a lost
\* notice and a check that asked too early aside.  The last notice of a device
\* that is kept says whether it is connected, wherever it waits: at the IM
\* server, in the list of listenOnlineStatus, or in the rows of its transaction
\* (insertOrUpdateUserOnlineTx).
THEOREM RowsAreRight == OnlineSpec => []HandledRowsRight
<1>1. WordInv /\ [OnlineNext]_onlineVars => WordInv'
  BY NextWord
<1>2. WordInv => HandledRowsRight
  <2>1. SUFFICES ASSUME WordInv, notices = <<>>, \A w \in Writers : WriterAt(w, "idle"),
                        NEW d \in Devices \ misled
                 PROVE  online[d] <=> Connected(d)
    BY DEF HandledRowsRight, Connected
  <2> DEFINE l == writer["listener"]
  <2>2. WordRight(l, d) /\ ListOK(l) /\ l.pc = "idle"
    BY <2>1, WritersAre DEF WordInv, WriterAt
  <2>3. Silent(notices, d) /\ Silent(l.list, d) /\ DOMAIN l.rows = {}
    BY <2>1, <2>2, EmptyWord DEF ListOK
  <2>4. QED BY <2>2, <2>3 DEF WordRight, Seen
<1>3. QED BY <1>1, <1>2, InitWord, PTL DEF OnlineSpec

\* When every notice has been handled the friends of a user know whether any of
\* his devices is online, a message that was not sent and a row that a check has
\* put off aside: handleOnlineStatus asks after the rows are written, and a main
\* device that a notice has online is so in its row unless a later notice of it
\* is still to be told.
THEOREM FriendsAreTold == OnlineSpec => []FriendsKnow
<1>1. WordInv /\ [OnlineNext]_onlineVars => WordInv'
  BY NextWord
<1>2. WordInv => FriendsKnow
  <2>1. SUFFICES ASSUME WordInv, notices = <<>>, \A w \in Writers : WriterAt(w, "idle"),
                        NEW u \in Owners \ untold, DevicesOf(u) \cap misled = {}
                 PROVE  told[u] <=> AnyOnline(u)
    BY DEF FriendsKnow
  <2> DEFINE l == writer["listener"]
  <2>2. FriendsTold(l, u) /\ ListOK(l) /\ l.pc = "idle"
    BY <2>1, WritersAre DEF WordInv, WriterAt
  <2>3. SilentOf(notices, u) /\ SilentOf(l.tells, u)
    BY <2>1, <2>2, EmptyWord DEF ListOK
  <2>4. QED BY <2>2, <2>3 DEF FriendsTold
<1>3. QED BY <1>1, <1>2, InitWord, PTL DEF OnlineSpec
=============================================================================
