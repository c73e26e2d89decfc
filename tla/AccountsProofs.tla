--------------------------- MODULE AccountsProofs ---------------------------
(***************************************************************************)
(* Theorems about Accounts for any users, devices, requests and bounds.    *)
(***************************************************************************)
EXTENDS Accounts, FiniteSetTheorems, SequenceTheorems, TLAPS

-----------------------------------------------------------------------------
(***************************************************************************)
(* The inductive invariant                                                 *)
(***************************************************************************)
Fields == {"op", "uid", "flag", "device", "tok", "old", "on", "todo"}
CallNames ==
  {"system", "helper", "insert", "setToken", "imToken", "device", "oldToken",
   "dropOldToken", "setUidToken", "pending", "freeIdentity", "email",
   "destroyRow", "freeIdentities", "quit", "status", "ban", "forgetToken",
   "renameToken"}

Has(todo, call) == \E i \in 1..Len(todo) : todo[i] = call

\* The order of the calls that matter: an identity is freed first, the email is
\* looked at before the one insert, a row is destroyed first, and a ban ends
\* with the devices.
CallsOK(op, todo) ==
  /\ todo \in Seq(CallNames)
  /\ \A i \in 1..Len(todo) :
       /\ todo[i] = "freeIdentity" => i = 1 /\ Has(todo, "email")
       /\ todo[i] = "destroyRow" => i = 1
       /\ todo[i] = "oldToken" => i < Len(todo)
       /\ \A j \in 1..Len(todo) :
            /\ todo[i] = "insert" /\ todo[j] = "insert" => i = j
            /\ todo[i] = "insert" /\ todo[j] = "email" => j < i
       /\ todo[i] = "freeIdentities" => op = "destroy"
       /\ todo[i] = "ban" => op = "liftBan"
       /\ op = "liftBan" => /\ todo[i] \in {"status", "ban", "quit"}
                            /\ todo[i] = "quit" <=> i = Len(todo)

RequestOK(r) ==
  /\ DOMAIN r = Fields
  /\ CallsOK(r.op, r.todo)
  /\ r.op = "none" <=> Len(r.todo) = 0

\* A Google login that has seen no account of its email and will insert one.
PastEmail(r) == r.op = "google" /\ Has(r.todo, "insert") /\ ~Has(r.todo, "email")

\* A request that will release the identity that stands for u.
Frees(r, u) ==
  \/ Has(r.todo, "freeIdentity")
  \/ r.uid = u /\ Has(r.todo, "freeIdentities") /\ ~Has(r.todo, "destroyRow")

GoogleAccount(acc, u) == acc[u].state = "live" /\ acc[u].way = "google"

RowsOK ==
  /\ DOMAIN account = Users /\ DOMAIN im = Users
  /\ \A u \in Users : /\ DOMAIN account[u] = {"state", "way", "disabled", "lock"}
                      /\ DOMAIN im[u] = {"ban", "tok"}
  /\ spent \in [requests : Nat, overlaps : Nat, faults : Nat]
  /\ DOMAIN request = Requests

RequestsOK == \A w \in Requests : RequestOK(request[w])

\* One overlap makes two requests, never three.
Overlaps ==
  /\ spent.overlaps = 0 => \A x, y \in Requests : Active(x) /\ Active(y) => x = y
  /\ spent.overlaps <= 1 =>
       \A x, y, z \in Requests :
         Active(x) /\ Active(y) /\ Active(z) => x = y \/ y = z \/ x = z

\* The identity stands for the Google account there is, and nobody frees it
\* beside a login that is past the email; or it is free and no login is.
IdentityFor(u) ==
  \/ /\ identity = u
     /\ \A x, y \in Requests : ~(Frees(request[x], u) /\ PastEmail(request[y]))
  \/ identity = Nobody /\ \A y \in Requests : ~PastEmail(request[y])

OneGoogle ==
  spent.overlaps <= 1 =>
    /\ \A u \in Users : GoogleAccount(account, u) => IdentityFor(u)
    /\ \A u, v \in Users :
         GoogleAccount(account, u) /\ GoogleAccount(account, v) => u = v

AccountsInv == RowsOK /\ RequestsOK /\ Overlaps /\ OneGoogle /\ BannedIsOff

-----------------------------------------------------------------------------
(***************************************************************************)
(* Requests and their calls                                                *)
(***************************************************************************)
LEMMA IdleIs ==
  /\ RequestOK(Idle) /\ Idle.op = "none"
  /\ ~PastEmail(Idle) /\ \A u : ~Frees(Idle, u)
<1>1. /\ DOMAIN Idle = Fields /\ Idle.op = "none" /\ Idle.todo = <<>>
  BY DEF Idle, Fields
<1>2. <<>> \in Seq(CallNames) /\ Len(<<>>) = 0 /\ \A c : ~Has(<<>>, c)
  BY DEF Has
<1>3. QED BY <1>1, <1>2 DEF RequestOK, CallsOK, PastEmail, Frees

\* What is left after the first call.
LEMMA TailIs ==
  ASSUME NEW todo \in Seq(CallNames), Len(todo) # 0, Len(todo) # 1
  PROVE  /\ Tail(todo) \in Seq(CallNames) /\ Len(Tail(todo)) = Len(todo) - 1
         /\ Len(todo) \in Nat /\ Len(Tail(todo)) # 0
         /\ \A i \in 1..Len(Tail(todo)) : i + 1 \in 1..Len(todo) /\ Tail(todo)[i] = todo[i + 1]
         /\ \A i \in 2..Len(todo) : i - 1 \in 1..Len(Tail(todo)) /\ todo[i] = Tail(todo)[i - 1]
         /\ Head(todo) = todo[1]
<1>1. /\ Len(todo) \in Nat /\ Head(todo) = todo[1] /\ todo # <<>>
  OBVIOUS
<1>2. /\ Tail(todo) \in Seq(CallNames) /\ Len(Tail(todo)) = Len(todo) - 1
      /\ \A i \in 1..Len(Tail(todo)) : Tail(todo)[i] = todo[i + 1]
  BY <1>1, HeadTailProperties
<1>3. QED BY <1>1, <1>2

LEMMA TailHas ==
  ASSUME NEW todo \in Seq(CallNames), Len(todo) # 0, Len(todo) # 1, NEW c
  PROVE  /\ Has(Tail(todo), c) => \E i \in 2..Len(todo) : todo[i] = c
         /\ Has(Tail(todo), c) => Has(todo, c)
         /\ Has(todo, c) /\ c # Head(todo) => Has(Tail(todo), c)
<1>1. ASSUME NEW i \in 1..Len(Tail(todo)), Tail(todo)[i] = c
      PROVE  i + 1 \in 2..Len(todo) /\ i + 1 \in 1..Len(todo) /\ todo[i + 1] = c
  BY <1>1, TailIs
<1>2. ASSUME NEW i \in 1..Len(todo), todo[i] = c, c # Head(todo)
      PROVE  i - 1 \in 1..Len(Tail(todo)) /\ Tail(todo)[i - 1] = c
  <2>1. i # 1
    BY <1>2, TailIs
  <2>2. i \in 2..Len(todo)
    BY <2>1, TailIs
  <2>3. QED BY <1>2, <2>2, TailIs
<1>3. QED BY <1>1, <1>2 DEF Has

LEMMA TailOK ==
  ASSUME NEW op, NEW todo, CallsOK(op, todo), Len(todo) # 0, Len(todo) # 1
  PROVE  CallsOK(op, Tail(todo))
<1> DEFINE t == Tail(todo)
<1>1. todo \in Seq(CallNames)
  BY DEF CallsOK
<1>2. /\ t \in Seq(CallNames) /\ Len(t) = Len(todo) - 1 /\ Len(todo) \in Nat
      /\ \A i \in 1..Len(t) : i + 1 \in 1..Len(todo) /\ t[i] = todo[i + 1]
  BY <1>1, TailIs
<1> HIDE DEF t
<1>3. ASSUME NEW i \in 1..Len(t)
      PROVE  /\ t[i] # "freeIdentity" /\ t[i] # "destroyRow"
             /\ t[i] = "freeIdentities" => op = "destroy"
             /\ t[i] = "ban" => op = "liftBan"
             /\ t[i] = "oldToken" => i < Len(t)
             /\ op = "liftBan" => /\ t[i] \in {"status", "ban", "quit"}
                                  /\ t[i] = "quit" <=> i = Len(t)
  <2>1. i + 1 \in 1..Len(todo) /\ t[i] = todo[i + 1] /\ i + 1 # 1
        /\ (i + 1 = Len(todo) <=> i = Len(t)) /\ (i + 1 < Len(todo) <=> i < Len(t))
    BY <1>2
  <2>2. QED BY <2>1 DEF CallsOK
<1>4. ASSUME NEW i \in 1..Len(t), NEW j \in 1..Len(t)
      PROVE  /\ t[i] = "insert" /\ t[j] = "insert" => i = j
             /\ t[i] = "insert" /\ t[j] = "email" => j < i
  <2>1. /\ i + 1 \in 1..Len(todo) /\ t[i] = todo[i + 1]
        /\ j + 1 \in 1..Len(todo) /\ t[j] = todo[j + 1]
    BY <1>2
  <2>2. /\ todo[i + 1] = "insert" /\ todo[j + 1] = "insert" => i + 1 = j + 1
        /\ todo[i + 1] = "insert" /\ todo[j + 1] = "email" => j + 1 < i + 1
    BY <2>1 DEF CallsOK
  <2>3. QED BY <2>1, <2>2
<1>5. QED BY <1>2, <1>3, <1>4 DEF CallsOK, t

\* A request after its first call, and what is no longer to come.
LEMMA FurtherIs ==
  ASSUME NEW r, RequestOK(r), r.todo # <<>>, NEW c, c = Head(r.todo)
  PROVE  /\ RequestOK(Further(r))
         /\ Further(r).op # "none" => Further(r).op = r.op /\ Further(r).uid = r.uid
         /\ r.op = "liftBan" /\ c # "quit" =>
              Further(r).op = "liftBan" /\ Further(r).uid = r.uid
         /\ c # "email" /\ PastEmail(Further(r)) => PastEmail(r)
         /\ \A u : c # "destroyRow" /\ Frees(Further(r), u) => Frees(r, u)
         /\ \A u : c = "destroyRow" /\ Frees(Further(r), u) =>
                     Frees(r, u) \/ u = r.uid
         /\ r.op # "none"
<1> DEFINE todo == r.todo
<1>1. /\ todo \in Seq(CallNames) /\ CallsOK(r.op, todo) /\ DOMAIN r = Fields
      /\ Len(todo) # 0 /\ r.op # "none"
  <2>1. todo \in Seq(CallNames) /\ CallsOK(r.op, todo) /\ DOMAIN r = Fields
    BY DEF RequestOK, CallsOK
  <2>2. Len(todo) # 0
    BY <2>1
  <2>3. QED BY <2>1, <2>2 DEF RequestOK
<1>2. CASE Len(todo) = 1
  <2>1. Further(r) = Idle
    BY <1>2 DEF Further
  <2>2. todo[1] = c
    BY <1>1
  <2>3. r.op = "liftBan" => c = "quit"
    BY <1>1, <1>2, <2>2 DEF CallsOK
  <2>4. QED BY <1>1, <2>1, <2>3, IdleIs
<1>3. CASE Len(todo) # 1
  <2> DEFINE t == Tail(todo)
  <2>1. /\ DOMAIN Further(r) = Fields /\ Further(r).op = r.op
        /\ Further(r).uid = r.uid /\ Further(r).todo = t
    BY <1>1, <1>3 DEF Further, Fields
  <2>2. CallsOK(r.op, t) /\ Len(t) # 0
    BY <1>1, <1>3, TailOK, TailIs
  <2>3. \A k : /\ Has(t, k) => Has(todo, k)
               /\ Has(todo, k) /\ k # c => Has(t, k)
    BY <1>1, <1>3, TailHas
  <2>4. RequestOK(Further(r))
    BY <1>1, <2>1, <2>2 DEF RequestOK
  <2> HIDE DEF t
  <2>5. c # "email" /\ PastEmail(Further(r)) => PastEmail(r)
    BY <2>1, <2>3 DEF PastEmail
  <2>6. ASSUME NEW u, Frees(Further(r), u)
        PROVE  Frees(r, u) \/ (u = r.uid /\ c = "destroyRow")
    BY <2>1, <2>3, <2>6 DEF Frees
  <2>7. QED BY <1>1, <2>1, <2>4, <2>5, <2>6
<1>4. QED BY <1>2, <1>3

\* The calls that can come first, and what is then over.
LEMMA FirstIs ==
  ASSUME NEW r, RequestOK(r), r.todo # <<>>, NEW c, c = Head(r.todo)
  PROVE  /\ c = "insert" => /\ r.op = "google" => PastEmail(r)
                            /\ ~PastEmail(Further(r))
         /\ c = "freeIdentity" => \A u : Frees(r, u)
         /\ c = "freeIdentities" => Frees(r, r.uid) /\ r.op = "destroy"
         /\ c = "ban" => r.op = "liftBan"
         /\ r.op = "liftBan" => c \in {"status", "ban", "quit"}
         /\ c = "oldToken" => Len(r.todo) # 1
         /\ \A u : ~(Frees(r, u) /\ PastEmail(r))
<1> DEFINE todo == r.todo
<1>1. /\ todo \in Seq(CallNames) /\ CallsOK(r.op, todo)
      /\ Len(todo) \in Nat /\ Len(todo) # 0
  <2>1. todo \in Seq(CallNames) /\ CallsOK(r.op, todo)
    BY DEF RequestOK, CallsOK
  <2>2. QED BY <2>1
<1>2. 1 \in 1..Len(todo) /\ todo[1] = c
  BY <1>1
<1>3. \A i, j \in 1..Len(todo) :
        /\ todo[i] = "destroyRow" => i = 1
        /\ todo[i] = "freeIdentity" => Has(todo, "email")
        /\ todo[i] = "freeIdentities" => r.op = "destroy"
        /\ todo[i] = "insert" /\ todo[j] = "insert" => i = j
        /\ todo[i] = "insert" /\ todo[j] = "email" => j < i
  BY <1>1 DEF CallsOK
<1>4. c = "insert" => Has(todo, "insert") /\ ~Has(todo, "email")
  BY <1>1, <1>2, <1>3 DEF Has
<1>5. c = "insert" => ~PastEmail(Further(r))
  <2>1. CASE Len(todo) = 1
    BY <2>1, IdleIs DEF Further
  <2>2. CASE Len(todo) # 1
    <3>1. Further(r).todo = Tail(todo)
      BY <2>2 DEF Further, RequestOK, Fields
    <3>2. Has(Tail(todo), "insert") => \E i \in 2..Len(todo) : todo[i] = "insert"
      BY <1>1, <2>2, TailHas
    <3>3. c = "insert" => ~Has(Tail(todo), "insert")
      BY <1>1, <1>2, <1>3, <3>2
    <3>4. QED BY <3>1, <3>3 DEF PastEmail
  <2>3. QED BY <2>1, <2>2
<1>6. c = "freeIdentity" => \A u : Frees(r, u)
  BY <1>2 DEF Frees, Has
<1>7. c = "freeIdentities" => Frees(r, r.uid) /\ r.op = "destroy"
  BY <1>1, <1>2, <1>3 DEF Frees, Has
<1>8. c = "ban" => r.op = "liftBan"
  BY <1>1, <1>2 DEF CallsOK
<1>9. r.op = "liftBan" => c \in {"status", "ban", "quit"}
  BY <1>1, <1>2 DEF CallsOK
<1>10. ASSUME NEW u, Frees(r, u), PastEmail(r) PROVE FALSE
  BY <1>3, <1>10 DEF Frees, PastEmail, Has
<1>11. c = "oldToken" => Len(todo) # 1
  BY <1>1, <1>2 DEF CallsOK
<1>12. QED BY <1>4, <1>5, <1>6, <1>7, <1>8, <1>9, <1>10, <1>11 DEF PastEmail

-----------------------------------------------------------------------------
(***************************************************************************)
(* What a step keeps                                                       *)
(***************************************************************************)

\* The request w becomes r, and the others stay.
Becomes(w, r) == request' = [request EXCEPT ![w] = r]

LEMMA BecomesIs ==
  ASSUME AccountsInv, NEW w \in Requests, NEW r, RequestOK(r), Becomes(w, r)
  PROVE  /\ DOMAIN request' = Requests /\ request'[w] = r
         /\ \A v \in Requests \ {w} : request'[v] = request[v]
         /\ RequestsOK'
<1>1. /\ DOMAIN request' = Requests /\ request'[w] = r
      /\ \A v \in Requests \ {w} : request'[v] = request[v]
  BY DEF AccountsInv, RowsOK, Becomes
<1>2. QED BY <1>1 DEF AccountsInv, RequestsOK

\* No request begins.
LEMMA OverlapsKept ==
  ASSUME AccountsInv, NEW w \in Requests, NEW r, RequestOK(r), Becomes(w, r),
         r.op # "none" => Active(w), spent'.overlaps = spent.overlaps
  PROVE  Overlaps'
<1>1. /\ request'[w] = r
      /\ \A v \in Requests \ {w} : request'[v] = request[v]
  BY BecomesIs
<1>2. \A v \in Requests : request'[v].op # "none" => Active(v)
  BY <1>1 DEF Active
<1>3. QED BY <1>2 DEF AccountsInv, Overlaps, Active

\* Nobody becomes able to free the identity or to insert an account, and there
\* is no new Google account.
LEMMA GoogleKept ==
  ASSUME AccountsInv, NEW w \in Requests, NEW r, RequestOK(r), Becomes(w, r),
         \A u \in Users :
           spent.overlaps <= 1 /\ Frees(r, u) /\ GoogleAccount(account', u)
             => Frees(request[w], u),
         PastEmail(r) => PastEmail(request[w]),
         identity' = identity,
         \A u \in Users : GoogleAccount(account', u) => GoogleAccount(account, u),
         spent.overlaps <= spent'.overlaps, spent'.overlaps \in Nat
  PROVE  OneGoogle'
<1>1. /\ request'[w] = r
      /\ \A v \in Requests \ {w} : request'[v] = request[v]
  BY BecomesIs
<1>2. /\ \A v \in Requests : PastEmail(request'[v]) => PastEmail(request[v])
      /\ \A v \in Requests, u \in Users :
           spent.overlaps <= 1 /\ Frees(request'[v], u) /\ GoogleAccount(account', u)
             => Frees(request[v], u)
  BY <1>1
<1>3. spent'.overlaps <= 1 => spent.overlaps <= 1
  BY DEF AccountsInv, RowsOK
<1>4. ASSUME NEW u \in Users, spent.overlaps <= 1, GoogleAccount(account', u), IdentityFor(u)
      PROVE  IdentityFor(u)'
  BY <1>2, <1>4 DEF IdentityFor
<1>5. QED BY <1>3, <1>4 DEF AccountsInv, OneGoogle

NoTokens == [f \in Flags |-> 0]
Lifts(r, u) == r.op = "liftBan" /\ r.uid = u

\* Whoever is banned stays without a token, or somebody puts out its devices.
LEMMA BanKept ==
  ASSUME AccountsInv, NEW w \in Requests, NEW r, RequestOK(r), Becomes(w, r),
         spent'.faults = 0 => spent.faults = 0,
         \A u \in Users : spent'.faults = 0 /\ im'[u].ban =>
           \/ im'[u].tok = NoTokens
           \/ Lifts(r, u)
           \/ im[u].ban /\ im'[u].tok = im[u].tok /\ ~Lifts(request[w], u)
  PROVE  BannedIsOff'
<1>1. /\ request'[w] = r
      /\ \A v \in Requests \ {w} : request'[v] = request[v]
  BY BecomesIs
<1>2. ASSUME NEW u \in Users, spent'.faults = 0, im'[u].ban,
             ~ \E v \in Requests : Lifts(request'[v], u)
      PROVE  im'[u].tok = NoTokens
  <2>1. ~Lifts(r, u)
    BY <1>1, <1>2
  <2>2. CASE im[u].ban /\ im'[u].tok = im[u].tok /\ ~Lifts(request[w], u)
    <3>1. \A v \in Requests : ~Lifts(request[v], u)
      BY <1>1, <1>2, <2>2
    <3>2. im[u].tok = NoTokens
      BY <1>2, <2>2, <3>1 DEF AccountsInv, BannedIsOff, Lifts, NoTokens
    <3>3. QED BY <2>2, <3>2
  <2>3. QED BY <1>2, <2>1, <2>2
<1>3. QED BY <1>2 DEF BannedIsOff, Lifts, NoTokens

LEMMA DoneIs ==
  ASSUME AccountsInv, NEW w \in Requests, NEW c, Due(w, c), Done(w)
  PROVE  /\ RequestOK(request[w]) /\ request[w].todo # <<>> /\ c = Head(request[w].todo)
         /\ RequestOK(Further(request[w])) /\ Becomes(w, Further(request[w]))
         /\ Active(w)
<1>1. RequestOK(request[w]) /\ request[w].todo # <<>> /\ c = Head(request[w].todo)
  BY DEF AccountsInv, RequestsOK, Due
<1>2. QED BY <1>1, FurtherIs DEF Done, Becomes, Active

\* The rows keep their fields.
RowsStay ==
  /\ DOMAIN account' = Users /\ DOMAIN im' = Users
  /\ \A u \in Users : /\ DOMAIN account'[u] = {"state", "way", "disabled", "lock"}
                      /\ DOMAIN im'[u] = {"ban", "tok"}
  /\ spent' \in [requests : Nat, overlaps : Nat, faults : Nat]

LEMMA SameRows ==
  ASSUME AccountsInv, UNCHANGED <<account, im, spent>>
  PROVE  RowsStay
BY DEF AccountsInv, RowsOK, RowsStay

\* A call that neither changes the Google accounts nor the IM server.
LEMMA DoneKept ==
  ASSUME AccountsInv, NEW w \in Requests, NEW c, Due(w, c), Done(w),
         c # "email", c # "destroyRow", c # "quit",
         RowsStay, UNCHANGED <<identity, spent, im>>,
         \A u \in Users : GoogleAccount(account', u) => GoogleAccount(account, u)
  PROVE  AccountsInv'
<1> DEFINE q == request[w]
           r == Further(q)
<1>1. /\ RequestOK(q) /\ q.todo # <<>> /\ c = Head(q.todo)
      /\ RequestOK(r) /\ Becomes(w, r) /\ Active(w)
  BY DoneIs
<1>2. /\ PastEmail(r) => PastEmail(q)
      /\ \A u : Frees(r, u) => Frees(q, u)
      /\ q.op = "liftBan" => r.op = "liftBan" /\ r.uid = q.uid
  BY <1>1, FurtherIs
<1> HIDE DEF r
<1>3. Overlaps'
  BY <1>1, OverlapsKept
<1>4. OneGoogle'
  <2>1. spent.overlaps <= spent'.overlaps /\ spent'.overlaps \in Nat
    BY DEF AccountsInv, RowsOK
  <2>2. QED BY <1>1, <1>2, <2>1, GoogleKept
<1>5. BannedIsOff'
  <2>1. \A u : Lifts(q, u) => Lifts(r, u)
    BY <1>2 DEF Lifts
  <2>2. ASSUME NEW u \in Users, im'[u].ban
        PROVE  Lifts(r, u) \/ (im[u].ban /\ im'[u].tok = im[u].tok /\ ~Lifts(q, u))
    BY <2>1, <2>2
  <2>3. QED BY <1>1, <2>2, BanKept
<1>6. RowsOK' /\ RequestsOK'
  BY <1>1, BecomesIs DEF RowsStay, RowsOK
<1>7. QED BY <1>3, <1>4, <1>5, <1>6 DEF AccountsInv

\* A request ends early.
LEMMA EndKept ==
  ASSUME AccountsInv, NEW w \in Requests, Active(w), Becomes(w, Idle),
         UNCHANGED <<account, identity, im>>, RowsStay,
         spent'.overlaps = spent.overlaps,
         spent'.faults = 0 => spent.faults = 0 /\ request[w].op # "liftBan"
  PROVE  AccountsInv'
<1>1. Overlaps'
  BY IdleIs, OverlapsKept
<1>2. OneGoogle'
  <2>1. spent.overlaps <= spent'.overlaps /\ spent'.overlaps \in Nat
    BY DEF AccountsInv, RowsOK
  <2>2. QED BY <2>1, IdleIs, GoogleKept
<1>3. BannedIsOff'
  <2>1. ASSUME NEW u \in Users, spent'.faults = 0, im'[u].ban
        PROVE  im[u].ban /\ im'[u].tok = im[u].tok /\ ~Lifts(request[w], u)
    BY <2>1 DEF Lifts
  <2>2. QED BY <2>1, IdleIs, BanKept
<1>4. RowsOK' /\ RequestsOK'
  BY IdleIs, BecomesIs DEF RowsStay, RowsOK
<1>5. QED BY <1>1, <1>2, <1>3, <1>4 DEF AccountsInv

\* Nobody is refused in the middle of a ban.
LEMMA RefuseKept ==
  ASSUME AccountsInv, NEW w \in Requests, NEW c \in {"insert", "email", "imToken"},
         Due(w, c), Refuse(w)
  PROVE  AccountsInv'
<1>1. RequestOK(request[w]) /\ request[w].todo # <<>> /\ c = Head(request[w].todo)
  BY DEF AccountsInv, RequestsOK, Due
<1>2. Active(w) /\ request[w].op # "liftBan"
  BY <1>1, FurtherIs, FirstIs DEF Active
<1>3. Becomes(w, Idle) /\ UNCHANGED <<account, identity, im, spent>> /\ RowsStay
  BY SameRows DEF Refuse, Becomes, database
<1>4. QED BY <1>2, <1>3, EndKept

LEMMA FailKept ==
  ASSUME AccountsInv, NEW w \in Requests, Fail(w)
  PROVE  AccountsInv'
<1> DEFINE n == [spent EXCEPT !.faults = spent.faults + 1]
<1>1. Active(w) /\ Becomes(w, Idle) /\ UNCHANGED <<account, identity, im>> /\ spent' = n
  BY DEF Fail, Becomes, database
<1>2. /\ n \in [requests : Nat, overlaps : Nat, faults : Nat]
      /\ n.overlaps = spent.overlaps /\ n.faults # 0
  BY DEF AccountsInv, RowsOK
<1> HIDE DEF n
<1>3. RowsStay
  BY <1>1, <1>2 DEF AccountsInv, RowsOK, RowsStay
<1>4. QED BY <1>1, <1>2, <1>3, EndKept

-----------------------------------------------------------------------------
(***************************************************************************)
(* The calls                                                               *)
(***************************************************************************)
LEMMA PlainKept ==
  ASSUME AccountsInv, NEW w \in Requests,
         \/ \E who \in {"system", "helper"} : Befriend(w, who)
         \/ PendDevice(w) \/ KnowDevice(w) \/ DropOldToken(w) \/ SetToken(w)
         \/ SetUidToken(w) \/ ForgetToken(w) \/ RenameToken(w)
  PROVE  AccountsInv'
<1>1. PICK c \in {"system", "helper", "pending", "device", "dropOldToken", "setToken",
                  "setUidToken", "forgetToken", "renameToken"} : Due(w, c) /\ Done(w)
  BY DEF Befriend, PendDevice, KnowDevice, DropOldToken, SetToken, SetUidToken,
         ForgetToken, RenameToken
<1>2. UNCHANGED <<account, identity, im, spent>>
  BY DEF Befriend, PendDevice, KnowDevice, DropOldToken, SetToken, SetUidToken,
         ForgetToken, RenameToken, database
<1>3. RowsStay
  BY <1>2, SameRows
<1>4. \A u \in Users : GoogleAccount(account', u) => GoogleAccount(account, u)
  BY <1>2
<1>5. c # "email" /\ c # "destroyRow" /\ c # "quit"
  OBVIOUS
<1>6. QED BY <1>1, <1>2, <1>3, <1>4, <1>5, DoneKept

\* The row of u as it is now, with its fields.
LEMMA RowIs ==
  ASSUME AccountsInv, NEW x, NEW row, NEW y, y = account[x],
         account' = [account EXCEPT ![x] = row],
         x \in Users => DOMAIN row = {"state", "way", "disabled", "lock"},
         UNCHANGED <<im, spent>>
  PROVE  /\ RowsStay /\ (x \in Users => account'[x] = row)
         /\ \A u \in Users : u # x => account'[u] = account[u]
BY DEF AccountsInv, RowsOK, RowsStay

LEMMA SetStatusKept ==
  ASSUME AccountsInv, NEW w \in Requests, SetStatus(w)
  PROVE  AccountsInv'
<1> DEFINE x == request[w].uid
           row == [account[x] EXCEPT !.disabled = request[w].on]
<1>1. /\ Due(w, "status") /\ Done(w) /\ UNCHANGED <<identity, im, spent>>
      /\ account' = [account EXCEPT ![x] = row]
  BY DEF SetStatus
<1>2. x \in Users => /\ DOMAIN row = {"state", "way", "disabled", "lock"}
                     /\ row.state = account[x].state /\ row.way = account[x].way
  BY DEF AccountsInv, RowsOK
<1> HIDE DEF row
<1>3. /\ RowsStay /\ (x \in Users => account'[x] = row)
      /\ \A u \in Users : u # x => account'[u] = account[u]
  BY <1>1, <1>2, RowIs
<1>4. \A u \in Users : GoogleAccount(account', u) => GoogleAccount(account, u)
  BY <1>2, <1>3 DEF GoogleAccount
<1>5. QED BY <1>1, <1>3, <1>4, DoneKept

LEMMA OldTokenKept ==
  ASSUME AccountsInv, NEW w \in Requests, OldToken(w)
  PROVE  AccountsInv'
<1> DEFINE q == request[w]
<1>1. PICK old, tok :
        /\ request' = [request EXCEPT ![w] =
             [q EXCEPT !.old = old, !.todo = Tail(q.todo), !.tok = tok]]
        /\ Due(w, "oldToken") /\ UNCHANGED <<account, identity, im, spent>>
  BY DEF OldToken, database
<1> DEFINE r == [q EXCEPT !.old = old, !.todo = Tail(q.todo), !.tok = tok]
<1>2. RequestOK(q) /\ q.todo # <<>> /\ "oldToken" = Head(q.todo)
  BY <1>1 DEF AccountsInv, RequestsOK, Due
<1>3. q.op # "none" /\ q.op # "liftBan"
  BY <1>2, FurtherIs, FirstIs
<1>4. Becomes(w, r)
  BY <1>1 DEF Becomes
<1>5. /\ DOMAIN r = Fields /\ DOMAIN Further(q) = Fields
      /\ r.op = q.op /\ r.uid = q.uid /\ r.todo = Tail(q.todo)
      /\ Further(q).op = q.op /\ Further(q).uid = q.uid /\ Further(q).todo = Tail(q.todo)
  BY <1>2, FirstIs DEF RequestOK, Fields, Further
<1> HIDE DEF r
<1>6. RequestOK(r)
  BY <1>2, <1>5, FurtherIs DEF RequestOK
<1>7. /\ PastEmail(r) => PastEmail(q)
      /\ \A u : Frees(r, u) => Frees(q, u)
  BY <1>2, <1>5, FurtherIs DEF PastEmail, Frees
<1>8. Overlaps'
  BY <1>1, <1>3, <1>4, <1>6, OverlapsKept DEF Active
<1>9. OneGoogle'
  <2>1. spent.overlaps <= spent'.overlaps /\ spent'.overlaps \in Nat
    BY <1>1 DEF AccountsInv, RowsOK
  <2>2. \A u \in Users : GoogleAccount(account', u) => GoogleAccount(account, u)
    BY <1>1
  <2>3. QED BY <1>1, <1>4, <1>6, <1>7, <2>1, <2>2, GoogleKept
<1>10. BannedIsOff'
  <2>1. \A u : ~Lifts(q, u)
    BY <1>3 DEF Lifts
  <2>2. QED BY <1>1, <1>4, <1>6, <2>1, BanKept
<1>11. RowsOK' /\ RequestsOK'
  BY <1>1, <1>4, <1>6, SameRows, BecomesIs DEF RowsStay, RowsOK
<1>12. QED BY <1>8, <1>9, <1>10, <1>11 DEF AccountsInv

\* The identity may be freed: no login is past the email then.
LEMMA FreeKept ==
  ASSUME AccountsInv, NEW w \in Requests, FreeIdentity(w) \/ FreeIdentities(w)
  PROVE  AccountsInv'
<1> DEFINE q == request[w]
           r == Further(q)
<1>1. PICK c \in {"freeIdentity", "freeIdentities"} : Due(w, c) /\ Done(w)
  BY DEF FreeIdentity, FreeIdentities
<1>2. /\ UNCHANGED <<account, im, spent>>
      /\ \/ identity' = identity
         \/ identity' = Nobody /\ (c = "freeIdentities" => identity = q.uid)
  BY <1>1 DEF FreeIdentity, FreeIdentities, Due
<1>3. /\ RequestOK(q) /\ q.todo # <<>> /\ c = Head(q.todo)
      /\ RequestOK(r) /\ Becomes(w, r) /\ Active(w)
  BY <1>1, DoneIs
<1>4. CASE identity' = identity
  <2>1. RowsStay
    BY <1>2, SameRows
  <2>2. \A u \in Users : GoogleAccount(account', u) => GoogleAccount(account, u)
    BY <1>2
  <2>3. QED BY <1>1, <1>2, <1>4, <2>1, <2>2, DoneKept
<1>5. CASE identity' = Nobody /\ (c = "freeIdentities" => identity = q.uid)
  <2>1. /\ PastEmail(r) => PastEmail(q)
        /\ q.op # "liftBan"
    BY <1>3, FurtherIs, FirstIs
  <2>2. \A u : identity = u => Frees(q, u)
    BY <1>3, <1>5, FirstIs
  <2> HIDE DEF r
  <2>3. /\ request'[w] = r
        /\ \A v \in Requests \ {w} : request'[v] = request[v]
    BY <1>3, BecomesIs
  <2>4. \A v \in Requests : PastEmail(request'[v]) => PastEmail(request[v])
    BY <2>1, <2>3
  <2>5. ASSUME NEW u \in Users, IdentityFor(u)
        PROVE  \A y \in Requests : ~PastEmail(request[y])
    BY <2>2, <2>5 DEF IdentityFor
  <2>6. OneGoogle'
    BY <1>2, <1>5, <2>4, <2>5 DEF AccountsInv, OneGoogle, IdentityFor
  <2>7. Overlaps'
    BY <1>2, <1>3, OverlapsKept
  <2>8. BannedIsOff'
    <3>1. \A u : ~Lifts(q, u)
      BY <2>1 DEF Lifts
    <3>2. QED BY <1>2, <1>3, <3>1, BanKept
  <2>9. RowsOK' /\ RequestsOK'
    BY <1>2, <1>3, SameRows, BecomesIs DEF RowsStay, RowsOK
  <2>10. QED BY <2>6, <2>7, <2>8, <2>9 DEF AccountsInv
<1>6. QED BY <1>2, <1>4, <1>5

\* Only a login that finds no Google account goes past the email.
LEMMA CheckEmailKept ==
  ASSUME AccountsInv, NEW w \in Requests, CheckEmail(w)
  PROVE  AccountsInv'
<1> DEFINE q == request[w]
           r == Further(q)
<1>1. Due(w, "email")
  BY DEF CheckEmail
<1>2. CASE Refuse(w)
  BY <1>1, <1>2, RefuseKept
<1>3. CASE /\ Done(w) /\ UNCHANGED <<database, cache, device, im, held, spent>>
           /\ ~ \E v \in Users : Live(v) /\ account[v].way = "google"
  <2>1. /\ RequestOK(q) /\ q.todo # <<>> /\ "email" = Head(q.todo)
        /\ RequestOK(r) /\ Becomes(w, r) /\ Active(w)
    BY <1>1, <1>3, DoneIs
  <2>2. UNCHANGED <<account, identity, im, spent>>
    BY <1>3 DEF database
  <2>3. OneGoogle'
    BY <1>3, <2>2 DEF OneGoogle, GoogleAccount, Live
  <2>4. q.op # "liftBan"
    BY <2>1, FirstIs
  <2> HIDE DEF r
  <2>5. Overlaps'
    BY <2>1, <2>2, OverlapsKept
  <2>6. BannedIsOff'
    <3>1. \A u : ~Lifts(q, u)
      BY <2>4 DEF Lifts
    <3>2. QED BY <2>1, <2>2, <3>1, BanKept
  <2>7. RowsOK' /\ RequestsOK'
    BY <2>1, <2>2, SameRows, BecomesIs DEF RowsStay, RowsOK
  <2>8. QED BY <2>3, <2>5, <2>6, <2>7 DEF AccountsInv
<1>4. QED BY <1>2, <1>3 DEF CheckEmail

\* The account of another way is none of Google.
LEMMA InsertOther ==
  ASSUME AccountsInv, NEW w \in Requests, Due(w, "insert"), InsertRow(w),
         request[w].op # "google"
  PROVE  AccountsInv'
<1> DEFINE x == request[w].uid
           row == [NoAccount EXCEPT !.state = "live", !.way = request[w].op]
<1>1. /\ account' = [account EXCEPT ![x] = row] /\ identity' = identity
      /\ UNCHANGED <<im, spent>> /\ Done(w)
  BY DEF InsertRow
<1>2. DOMAIN row = {"state", "way", "disabled", "lock"} /\ row.way # "google"
  BY DEF NoAccount
<1> HIDE DEF row
<1>3. /\ RowsStay /\ (x \in Users => account'[x] = row)
      /\ \A u \in Users : u # x => account'[u] = account[u]
  BY <1>1, <1>2, RowIs
<1>4. \A u \in Users : GoogleAccount(account', u) => GoogleAccount(account, u)
  BY <1>2, <1>3 DEF GoogleAccount
<1>5. QED BY <1>1, <1>3, <1>4, DoneKept

\* The identity is free and the login past the email: there is no other account.
LEMMA InsertGoogle ==
  ASSUME AccountsInv, NEW w \in Requests, Due(w, "insert"), InsertRow(w),
         request[w].op = "google", identity = Nobody
  PROVE  AccountsInv'
<1> DEFINE q == request[w]
           r == Further(q)
           x == q.uid
           row == [NoAccount EXCEPT !.state = "live", !.way = q.op]
<1>1. /\ account' = [account EXCEPT ![x] = row] /\ identity' = x
      /\ UNCHANGED <<im, spent>> /\ Done(w)
  BY DEF InsertRow
<1>2. DOMAIN row = {"state", "way", "disabled", "lock"}
  BY DEF NoAccount
<1> HIDE DEF row
<1>3. /\ RowsStay /\ \A u \in Users : u # x => account'[u] = account[u]
  BY <1>1, <1>2, RowIs
<1>4. /\ RequestOK(q) /\ q.todo # <<>> /\ "insert" = Head(q.todo)
      /\ RequestOK(r) /\ Becomes(w, r) /\ Active(w)
  BY <1>1, DoneIs
<1>5. PastEmail(q) /\ ~PastEmail(r) /\ \A u : ~Frees(q, u)
  BY <1>4, FirstIs
<1>6. \A u : ~Frees(r, u)
  BY <1>4, <1>5, FurtherIs
<1> HIDE DEF r
<1>7. /\ request'[w] = r
      /\ \A v \in Requests \ {w} : request'[v] = request[v]
  BY <1>4, BecomesIs
<1>8. OneGoogle'
  <2>1. SUFFICES ASSUME spent.overlaps <= 1
                 PROVE  /\ \A u \in Users : GoogleAccount(account', u) => IdentityFor(u)'
                        /\ \A u, v \in Users :
                             GoogleAccount(account', u) /\ GoogleAccount(account', v)
                               => u = v
    BY <1>1 DEF OneGoogle
  <2>2. \A u \in Users : ~GoogleAccount(account, u)
    <3>1. ASSUME NEW u \in Users, IdentityFor(u) PROVE FALSE
      BY <1>5, <3>1, AccountsAssumption DEF IdentityFor
    <3>2. QED BY <2>1, <3>1 DEF AccountsInv, OneGoogle
  <2>3. \A u \in Users : GoogleAccount(account', u) => u = x
    BY <1>3, <2>2 DEF GoogleAccount
  <2>4. ASSUME NEW a \in Requests, NEW b \in Requests,
               Frees(request'[a], x), PastEmail(request'[b])
        PROVE  FALSE
    <3>1. a # w /\ b # w /\ request'[a] = request[a] /\ request'[b] = request[b]
      BY <1>5, <1>6, <1>7, <2>4
    <3>2. RequestOK(request[a]) /\ RequestOK(request[b])
      BY DEF AccountsInv, RequestsOK
    <3>3. request[a].todo # <<>> /\ request[b].todo # <<>>
      BY <2>4, <3>1 DEF Frees, PastEmail, Has
    <3>4. Active(a) /\ Active(b) /\ a # b
      <4>1. \A s \in Requests : RequestOK(request[s]) /\ request[s].todo # <<>> =>
              Active(s) /\ ~(Frees(request[s], x) /\ PastEmail(request[s]))
        BY FurtherIs, FirstIs DEF Active
      <4>2. QED BY <2>4, <3>1, <3>2, <3>3, <4>1
    <3>5. QED BY <1>4, <2>1, <3>1, <3>4 DEF AccountsInv, Overlaps
  <2>5. \A u \in Users : GoogleAccount(account', u) => IdentityFor(u)'
    BY <1>1, <2>3, <2>4 DEF IdentityFor
  <2>6. QED BY <2>3, <2>5
<1>9. Overlaps'
  BY <1>1, <1>4, OverlapsKept
<1>10. BannedIsOff'
  <2>1. q.op # "liftBan"
    BY <1>4, FirstIs
  <2>2. \A u : ~Lifts(q, u)
    BY <2>1 DEF Lifts
  <2>3. QED BY <1>1, <1>4, <2>2, BanKept
<1>11. RowsOK' /\ RequestsOK'
  BY <1>3, <1>4, BecomesIs DEF RowsStay, RowsOK
<1>12. QED BY <1>8, <1>9, <1>10, <1>11 DEF AccountsInv

LEMMA InsertKept ==
  ASSUME AccountsInv, NEW w \in Requests, Insert(w)
  PROVE  AccountsInv'
<1>1. Due(w, "insert")
  BY DEF Insert
<1>2. CASE Refuse(w)
  BY <1>1, <1>2, RefuseKept
<1>3. CASE InsertRow(w) /\ (request[w].op = "google" => identity = Nobody)
  BY <1>1, <1>3, InsertOther, InsertGoogle
<1>4. QED BY <1>2, <1>3 DEF Insert

LEMMA DestroyRowKept ==
  ASSUME AccountsInv, NEW w \in Requests, DestroyRow(w)
  PROVE  AccountsInv'
<1> DEFINE q == request[w]
           r == Further(q)
           x == q.uid
           row == [account[x] EXCEPT !.state = "destroyed"]
<1>1. /\ Due(w, "destroyRow") /\ Done(w) /\ UNCHANGED <<identity, im, spent>>
      /\ account' = [account EXCEPT ![x] = row]
  BY DEF DestroyRow
<1>2. x \in Users => /\ DOMAIN row = {"state", "way", "disabled", "lock"}
                     /\ row.state = "destroyed"
  BY DEF AccountsInv, RowsOK
<1> HIDE DEF row
<1>3. /\ RowsStay /\ (x \in Users => account'[x] = row)
      /\ \A u \in Users : u # x => account'[u] = account[u]
  BY <1>1, <1>2, RowIs
<1>4. /\ RequestOK(q) /\ q.todo # <<>> /\ "destroyRow" = Head(q.todo)
      /\ RequestOK(r) /\ Becomes(w, r) /\ Active(w)
  BY <1>1, DoneIs
<1>5. /\ PastEmail(r) => PastEmail(q)
      /\ \A u : Frees(r, u) => Frees(q, u) \/ u = x
      /\ q.op # "liftBan"
  BY <1>4, FurtherIs, FirstIs
<1> HIDE DEF r
<1>6. OneGoogle'
  <2>1. spent.overlaps <= spent'.overlaps /\ spent'.overlaps \in Nat
    BY <1>1 DEF AccountsInv, RowsOK
  <2>2. \A u \in Users : GoogleAccount(account', u) => GoogleAccount(account, u) /\ u # x
    BY <1>2, <1>3 DEF GoogleAccount
  <2>3. /\ request'[w] = r
        /\ \A v \in Requests \ {w} : request'[v] = request[v]
    BY <1>4, BecomesIs
  <2>4. /\ \A v \in Requests : PastEmail(request'[v]) => PastEmail(request[v])
        /\ \A v \in Requests : \A u : Frees(request'[v], u) /\ u # x => Frees(request[v], u)
    BY <1>5, <2>3
  <2>5. ASSUME NEW u \in Users, u # x, IdentityFor(u) PROVE IdentityFor(u)'
    BY <1>1, <2>4, <2>5 DEF IdentityFor
  <2>6. QED BY <1>1, <2>2, <2>5 DEF AccountsInv, OneGoogle
<1>7. Overlaps'
  BY <1>1, <1>4, OverlapsKept
<1>8. BannedIsOff'
  <2>1. \A u : ~Lifts(q, u)
    BY <1>5 DEF Lifts
  <2>2. QED BY <1>1, <1>4, <2>1, BanKept
<1>9. RowsOK' /\ RequestsOK'
  BY <1>3, <1>4, BecomesIs DEF RowsStay, RowsOK
<1>10. QED BY <1>6, <1>7, <1>8, <1>9 DEF AccountsInv

-----------------------------------------------------------------------------
(***************************************************************************)
(* The calls of the IM server                                              *)
(***************************************************************************)
LEMMA CallIMKept ==
  ASSUME AccountsInv, NEW w \in Requests, NEW c \in {"imToken", "ban", "quit"},
         Due(w, c), Done(w), RowsStay, UNCHANGED <<account, identity, spent>>,
         BannedIsOff'
  PROVE  AccountsInv'
<1> DEFINE q == request[w]
           r == Further(q)
<1>1. /\ RequestOK(q) /\ q.todo # <<>> /\ c = Head(q.todo)
      /\ RequestOK(r) /\ Becomes(w, r) /\ Active(w)
  BY DoneIs
<1>2. /\ PastEmail(r) => PastEmail(q)
      /\ \A u : Frees(r, u) => Frees(q, u)
  BY <1>1, FurtherIs
<1> HIDE DEF r
<1>3. Overlaps'
  BY <1>1, OverlapsKept
<1>4. OneGoogle'
  <2>1. spent.overlaps <= spent'.overlaps /\ spent'.overlaps \in Nat
    BY DEF AccountsInv, RowsOK
  <2>2. QED BY <1>1, <1>2, <2>1, GoogleKept
<1>5. RowsOK' /\ RequestsOK'
  BY <1>1, BecomesIs DEF RowsStay, RowsOK
<1>6. QED BY <1>3, <1>4, <1>5 DEF AccountsInv

\* What the IM server knows of u becomes i.
LEMMA ImIs ==
  ASSUME AccountsInv, NEW x, NEW i, im' = [im EXCEPT ![x] = i],
         x \in Users => DOMAIN i = {"ban", "tok"}, UNCHANGED <<account, spent>>
  PROVE  /\ RowsStay /\ (x \in Users => im'[x] = i)
         /\ \A u \in Users : u # x => im'[u] = im[u]
BY DEF AccountsInv, RowsOK, RowsStay

LEMMA IMTokenKept ==
  ASSUME AccountsInv, NEW w \in Requests, IMToken(w)
  PROVE  AccountsInv'
<1> DEFINE q == request[w]
           r == Further(q)
           x == q.uid
           i == [im[x] EXCEPT !.tok = [im[x].tok EXCEPT ![q.flag] = q.tok]]
<1>1. Due(w, "imToken")
  BY DEF IMToken
<1>2. CASE Refuse(w)
  BY <1>1, <1>2, RefuseKept
<1>3. CASE Done(w) /\ UNCHANGED <<database, cache, device, im, held, spent>>
  <2>1. UNCHANGED <<account, identity, im, spent>> /\ RowsStay
    BY <1>3, SameRows DEF database
  <2>2. \A u \in Users : GoogleAccount(account', u) => GoogleAccount(account, u)
    BY <2>1
  <2>3. QED BY <1>1, <1>3, <2>1, <2>2, DoneKept
<1>4. CASE /\ ~im[x].ban /\ Done(w) /\ UNCHANGED <<account, identity, spent>>
           /\ im' = [im EXCEPT ![x] = i]
  <2>1. x \in Users => DOMAIN i = {"ban", "tok"} /\ i.ban = im[x].ban
    BY DEF AccountsInv, RowsOK
  <2> HIDE DEF i
  <2>2. /\ RowsStay /\ (x \in Users => im'[x] = i)
        /\ \A u \in Users : u # x => im'[u] = im[u]
    BY <1>4, <2>1, ImIs
  <2>3. /\ RequestOK(q) /\ q.todo # <<>> /\ "imToken" = Head(q.todo)
        /\ RequestOK(r) /\ Becomes(w, r) /\ Active(w)
    BY <1>1, <1>4, DoneIs
  <2>4. \A u : ~Lifts(q, u)
    BY <2>3, FirstIs DEF Lifts
  <2>5. ASSUME NEW u \in Users, im'[u].ban
        PROVE  im[u].ban /\ im'[u].tok = im[u].tok /\ ~Lifts(q, u)
    BY <1>4, <2>1, <2>2, <2>4, <2>5
  <2>6. BannedIsOff'
    BY <1>4, <2>3, <2>5, BanKept
  <2>7. QED BY <1>1, <1>4, <2>2, <2>6, CallIMKept
<1>5. QED BY <1>2, <1>3, <1>4 DEF IMToken, database

LEMMA SetBanKept ==
  ASSUME AccountsInv, NEW w \in Requests, SetBan(w)
  PROVE  AccountsInv'
<1> DEFINE q == request[w]
           r == Further(q)
           x == q.uid
           i == [im[x] EXCEPT !.ban = q.on]
<1>1. /\ Due(w, "ban") /\ Done(w) /\ UNCHANGED <<account, identity, spent>>
      /\ im' = [im EXCEPT ![x] = i]
  BY DEF SetBan, database
<1>2. x \in Users => DOMAIN i = {"ban", "tok"}
  BY DEF AccountsInv, RowsOK
<1> HIDE DEF i
<1>3. /\ RowsStay /\ \A u \in Users : u # x => im'[u] = im[u]
  BY <1>1, <1>2, ImIs
<1>4. /\ RequestOK(q) /\ q.todo # <<>> /\ "ban" = Head(q.todo)
      /\ RequestOK(r) /\ Becomes(w, r)
  BY <1>1, DoneIs
<1>5. q.op = "liftBan" /\ r.op = "liftBan" /\ r.uid = x
  BY <1>4, FirstIs, FurtherIs
<1> HIDE DEF r
<1>6. ASSUME NEW u \in Users, im'[u].ban
      PROVE  \/ Lifts(r, u)
             \/ im[u].ban /\ im'[u].tok = im[u].tok /\ ~Lifts(q, u)
  BY <1>3, <1>5, <1>6 DEF Lifts
<1>7. BannedIsOff'
  BY <1>1, <1>4, <1>6, BanKept
<1>8. QED BY <1>1, <1>3, <1>7, CallIMKept

LEMMA QuitDevicesKept ==
  ASSUME AccountsInv, NEW w \in Requests, QuitDevices(w)
  PROVE  AccountsInv'
<1> DEFINE q == request[w]
           r == Further(q)
           x == q.uid
           i == [im[x] EXCEPT !.tok = NoTokens]
<1>1. /\ Due(w, "quit") /\ Done(w) /\ UNCHANGED <<account, identity, spent>>
      /\ im' = [im EXCEPT ![x] = i]
  BY DEF QuitDevices, database, NoTokens
<1>2. x \in Users => DOMAIN i = {"ban", "tok"} /\ i.tok = NoTokens
  BY DEF AccountsInv, RowsOK
<1> HIDE DEF i
<1>3. /\ RowsStay /\ (x \in Users => im'[x] = i)
      /\ \A u \in Users : u # x => im'[u] = im[u]
  BY <1>1, <1>2, ImIs
<1>4. RequestOK(r) /\ Becomes(w, r)
  BY <1>1, DoneIs
<1> HIDE DEF r
<1>5. ASSUME NEW u \in Users, im'[u].ban
      PROVE  \/ im'[u].tok = NoTokens
             \/ im[u].ban /\ im'[u].tok = im[u].tok /\ ~Lifts(q, u)
  BY <1>2, <1>3, <1>5 DEF Lifts
<1>6. BannedIsOff'
  BY <1>1, <1>4, <1>5, BanKept
<1>7. QED BY <1>1, <1>3, <1>6, CallIMKept

-----------------------------------------------------------------------------
(***************************************************************************)
(* What is done at once                                                    *)
(***************************************************************************)

\* No request moves.
LEMMA StillKept ==
  ASSUME AccountsInv, UNCHANGED <<identity, request>>, RowsStay,
         spent'.overlaps = spent.overlaps, spent'.faults = spent.faults,
         \A u \in Users : GoogleAccount(account', u) => GoogleAccount(account, u),
         \A u \in Users : im'[u].ban =>
           im[u].ban /\ (im'[u].tok = im[u].tok \/ (im[u].tok = NoTokens => im'[u].tok = NoTokens))
  PROVE  AccountsInv'
<1>1. RowsOK'
  BY DEF AccountsInv, RowsOK, RowsStay
<1>2. RequestsOK' /\ Overlaps'
  BY DEF AccountsInv, RequestsOK, Overlaps, Active
<1>3. OneGoogle'
  BY DEF AccountsInv, OneGoogle, IdentityFor
<1>4. BannedIsOff'
  BY DEF AccountsInv, BannedIsOff, NoTokens
<1>5. QED BY <1>1, <1>2, <1>3, <1>4 DEF AccountsInv

LEMMA AtOnceIs ==
  ASSUME AccountsInv, AtOnce
  PROVE  /\ request' = request /\ spent'.overlaps = spent.overlaps
         /\ spent'.faults = spent.faults
         /\ spent' \in [requests : Nat, overlaps : Nat, faults : Nat]
BY DEF AccountsInv, RowsOK, AtOnce

LEMMA QuitKept ==
  ASSUME AccountsInv, NEW x \in Users, Quit(x)
  PROVE  AccountsInv'
<1> DEFINE t == [im[x].tok EXCEPT !["web"] = 0]
           i == [im[x] EXCEPT !.tok = t]
<1>1. im' = [im EXCEPT ![x] = i] /\ AtOnce /\ UNCHANGED <<account, identity>>
  BY DEF Quit, database
<1>2. im[x].tok = NoTokens => t = NoTokens
  BY DEF NoTokens, Flags
<1> HIDE DEF t
<1>3. DOMAIN i = {"ban", "tok"} /\ i.tok = t /\ i.ban = im[x].ban
  BY DEF AccountsInv, RowsOK
<1> HIDE DEF i
<1>4. /\ DOMAIN im' = Users /\ im'[x] = i
      /\ \A u \in Users : u # x => im'[u] = im[u]
  BY <1>1 DEF AccountsInv, RowsOK
<1>5. RowsStay
  BY <1>1, <1>3, <1>4, AtOnceIs DEF AccountsInv, RowsOK, RowsStay
<1>6. \A u \in Users : im'[u].ban =>
        im[u].ban /\ (im'[u].tok = im[u].tok \/ (im[u].tok = NoTokens => im'[u].tok = NoTokens))
  BY <1>2, <1>3, <1>4
<1>7. \A u \in Users : GoogleAccount(account', u) => GoogleAccount(account, u)
  BY <1>1
<1>8. QED BY <1>1, <1>5, <1>6, <1>7, AtOnceIs, StillKept

LEMMA SetDeviceLockKept ==
  ASSUME AccountsInv, NEW x \in Users, NEW on \in BOOLEAN, SetDeviceLock(x, on)
  PROVE  AccountsInv'
<1> DEFINE row == [account[x] EXCEPT !.lock = on]
<1>1. account' = [account EXCEPT ![x] = row] /\ UNCHANGED <<identity, im, request, spent>>
  BY DEF SetDeviceLock
<1>2. /\ DOMAIN row = {"state", "way", "disabled", "lock"}
      /\ row.state = account[x].state /\ row.way = account[x].way
  BY DEF AccountsInv, RowsOK
<1> HIDE DEF row
<1>3. /\ RowsStay /\ account'[x] = row
      /\ \A u \in Users : u # x => account'[u] = account[u]
  BY <1>1, <1>2, RowIs
<1>4. \A u \in Users : GoogleAccount(account', u) => GoogleAccount(account, u)
  BY <1>2, <1>3 DEF GoogleAccount
<1>5. QED BY <1>1, <1>3, <1>4, StillKept

LEMMA ElsewhereKept ==
  ASSUME AccountsInv,
         \/ \E u \in Users, d \in Devices : DeviceDelete(u, d)
         \/ \E u \in Users : ExpirePending(u)
         \/ \E t \in Tokens : Expire(t)
         \/ UNCHANGED accountVars
  PROVE  AccountsInv'
<1>1. /\ UNCHANGED <<account, identity, im, request>>
      /\ AtOnce \/ UNCHANGED spent
  BY DEF DeviceDelete, ExpirePending, Expire, AtOnce, database, accountVars
<1>2. /\ RowsStay /\ spent'.overlaps = spent.overlaps /\ spent'.faults = spent.faults
  BY <1>1, AtOnceIs DEF AccountsInv, RowsOK, RowsStay
<1>3. /\ \A u \in Users : GoogleAccount(account', u) => GoogleAccount(account, u)
      /\ \A u \in Users : im'[u].ban => im[u].ban /\ im'[u].tok = im[u].tok
  BY <1>1
<1>4. QED BY <1>1, <1>2, <1>3, StillKept

-----------------------------------------------------------------------------
(***************************************************************************)
(* The beginnings                                                          *)
(***************************************************************************)
LEMMA CallingIs ==
  ASSUME NEW r, DOMAIN r = Fields, NEW todo
  PROVE  /\ DOMAIN Calling(r, todo) = Fields /\ Calling(r, todo).op = r.op
         /\ Calling(r, todo).uid = r.uid /\ Calling(r, todo).todo = todo
BY DEF Calling, Fields

LEMMA OfIs ==
  ASSUME NEW op, NEW u, NEW f, NEW d
  PROVE  /\ DOMAIN Of(op, u, f, d) = Fields /\ Of(op, u, f, d).op = op
         /\ Of(op, u, f, d).uid = u
BY DEF Of, Idle, Fields

\* A request begins that, if there is a Google account, frees no identity, and
\* that has yet to look at the email.
LEMMA StartKept ==
  ASSUME AccountsInv, NEW w \in Requests, NEW r, NEW todo, Start(w, r, todo),
         DOMAIN r = Fields, r.op # "none", CallsOK(r.op, todo), Len(todo) # 0,
         r.op = "google" => Has(todo, "email"),
         Has(todo, "freeIdentity") /\ spent.overlaps <= 1 =>
           \A u \in Users : ~GoogleAccount(account, u),
         Has(todo, "freeIdentities") => Has(todo, "destroyRow")
  PROVE  AccountsInv'
<1> DEFINE n == Calling(r, todo)
           overlaps == \E v \in Requests : Active(v)
           m == IF overlaps THEN spent.overlaps + 1 ELSE spent.overlaps
           h == [spent EXCEPT !.requests = spent.requests + 1]
           s == [h EXCEPT !.overlaps = m]
<1>1. /\ Becomes(w, n) /\ ~Active(w) /\ spent' = s
      /\ UNCHANGED <<account, identity, im>>
  BY DEF Start, Becomes, database
<1>2. DOMAIN n = Fields /\ n.op = r.op /\ n.todo = todo
  BY CallingIs
<1> HIDE DEF n
<1>3. RequestOK(n)
  BY <1>2 DEF RequestOK
<1>4. /\ ~PastEmail(n)
      /\ \A u \in Users :
           ~(spent.overlaps <= 1 /\ Frees(n, u) /\ GoogleAccount(account', u))
  BY <1>1, <1>2 DEF PastEmail, Frees
<1>5. /\ s \in [requests : Nat, overlaps : Nat, faults : Nat]
      /\ s.faults = spent.faults
      /\ s.overlaps = IF overlaps THEN spent.overlaps + 1 ELSE spent.overlaps
      /\ spent.overlaps \in Nat
  <2>1. /\ spent \in [requests : Nat, overlaps : Nat, faults : Nat]
        /\ spent.overlaps \in Nat
    BY DEF AccountsInv, RowsOK
  <2>2. m \in Nat
    BY <2>1
  <2> HIDE DEF m
  <2>3. h \in [requests : Nat, overlaps : Nat, faults : Nat] /\ h.faults = spent.faults
    BY <2>1
  <2> HIDE DEF h
  <2>4. /\ s \in [requests : Nat, overlaps : Nat, faults : Nat]
        /\ s.faults = spent.faults /\ s.overlaps = m
    BY <2>2, <2>3
  <2>5. QED BY <2>1, <2>4 DEF m
<1> HIDE DEF s
<1>6. RowsStay
  BY <1>1, <1>5 DEF AccountsInv, RowsOK, RowsStay
<1>7. RowsOK' /\ RequestsOK'
  BY <1>1, <1>3, <1>6, BecomesIs DEF RowsStay, RowsOK
<1>8. OneGoogle'
  <2>1. spent.overlaps <= spent'.overlaps /\ spent'.overlaps \in Nat
    BY <1>1, <1>5
  <2>2. QED BY <1>1, <1>3, <1>4, <2>1, GoogleKept
<1>9. BannedIsOff'
  <2>1. \A u : ~Lifts(request[w], u)
    BY <1>1 DEF Lifts, Active
  <2>2. QED BY <1>1, <1>3, <1>5, <2>1, BanKept
<1>10. Overlaps'
  <2>1. /\ \A v \in Requests \ {w} : request'[v] = request[v]
    BY <1>1, <1>3, BecomesIs
  <2>2. \A v \in Requests : request'[v].op # "none" => v = w \/ Active(v)
    BY <2>1 DEF Active
  <2>3. CASE ~overlaps
    BY <2>2, <2>3 DEF Overlaps, Active
  <2>4. CASE overlaps /\ spent.overlaps = 0
    BY <1>1, <1>5, <2>2, <2>4 DEF AccountsInv, Overlaps, Active
  <2>5. CASE overlaps /\ spent.overlaps # 0
    BY <1>1, <1>5, <2>5 DEF Overlaps
  <2>6. QED BY <2>3, <2>4, <2>5
<1>11. QED BY <1>7, <1>8, <1>9, <1>10 DEF AccountsInv

\* The calls that neither free an identity nor ban.
Plain(todo) ==
  /\ \A op : op # "liftBan" => CallsOK(op, todo)
  /\ Len(todo) # 0
  /\ ~Has(todo, "freeIdentity") /\ ~Has(todo, "freeIdentities")

LEMMA PlainLists ==
  /\ Plain(InsertUser) /\ Plain(CreateUser) /\ Plain(<<"insert">>)
  /\ Plain(LoginCalls) /\ Plain(<<"pending">>)
  /\ Plain(<<"device", "setToken", "imToken">>)
  /\ Plain(<<"oldToken", "imToken", "setToken", "setUidToken">>)
  /\ Plain(<<"setToken", "setUidToken">>)
  /\ Plain(<<"destroyRow", "oldToken", "forgetToken">>)
  /\ Plain(<<"oldToken", "forgetToken">>) /\ Plain(<<"renameToken">>)
<1>1. Plain(InsertUser)
  BY DEF Plain, InsertUser, CallsOK, Has, CallNames
<1>2. Plain(CreateUser)
  BY DEF Plain, CreateUser, CallsOK, Has, CallNames
<1>3. Plain(<<"insert">>)
  BY DEF Plain, CallsOK, Has, CallNames
<1>4. Plain(LoginCalls)
  BY DEF Plain, LoginCalls, CallsOK, Has, CallNames
<1>5. Plain(<<"pending">>)
  BY DEF Plain, CallsOK, Has, CallNames
<1>6. Plain(<<"device", "setToken", "imToken">>)
  BY DEF Plain, CallsOK, Has, CallNames
<1>7. Plain(<<"oldToken", "imToken", "setToken", "setUidToken">>)
  BY DEF Plain, CallsOK, Has, CallNames
<1>8. Plain(<<"setToken", "setUidToken">>)
  BY DEF Plain, CallsOK, Has, CallNames
<1>9. Plain(<<"destroyRow", "oldToken", "forgetToken">>)
  BY DEF Plain, CallsOK, Has, CallNames
<1>10. Plain(<<"oldToken", "forgetToken">>)
  BY DEF Plain, CallsOK, Has, CallNames
<1>11. Plain(<<"renameToken">>)
  BY DEF Plain, CallsOK, Has, CallNames
<1>12. QED BY <1>1, <1>2, <1>3, <1>4, <1>5, <1>6, <1>7, <1>8, <1>9, <1>10, <1>11

LEMMA OtherLists ==
  /\ CallsOK("google", SignUp) /\ Len(SignUp) # 0
  /\ Has(SignUp, "email") /\ ~Has(SignUp, "freeIdentity")
  /\ ~Has(SignUp, "freeIdentities")
  /\ CallsOK("google", SignUpAgain) /\ Len(SignUpAgain) # 0
  /\ Has(SignUpAgain, "email") /\ ~Has(SignUpAgain, "freeIdentities")
  /\ CallsOK("destroy", <<"destroyRow", "freeIdentities", "quit">>)
  /\ Has(<<"destroyRow", "freeIdentities", "quit">>, "destroyRow")
  /\ ~Has(<<"destroyRow", "freeIdentities", "quit">>, "freeIdentity")
  /\ CallsOK("liftBan", <<"status", "ban", "quit">>)
  /\ ~Has(<<"status", "ban", "quit">>, "freeIdentity")
  /\ ~Has(<<"status", "ban", "quit">>, "freeIdentities")
  /\ Len(<<"destroyRow", "freeIdentities", "quit">>) # 0
  /\ Len(<<"status", "ban", "quit">>) # 0
<1>1. /\ CallsOK("google", SignUp) /\ Len(SignUp) # 0
      /\ Has(SignUp, "email") /\ ~Has(SignUp, "freeIdentity")
      /\ ~Has(SignUp, "freeIdentities")
  BY DEF SignUp, CallsOK, Has, CallNames
<1>2. /\ CallsOK("google", SignUpAgain) /\ Len(SignUpAgain) # 0
      /\ Has(SignUpAgain, "email") /\ ~Has(SignUpAgain, "freeIdentities")
  BY DEF SignUpAgain, CallsOK, Has, CallNames
<1>3. /\ CallsOK("destroy", <<"destroyRow", "freeIdentities", "quit">>)
      /\ Has(<<"destroyRow", "freeIdentities", "quit">>, "destroyRow")
      /\ ~Has(<<"destroyRow", "freeIdentities", "quit">>, "freeIdentity")
  BY DEF CallsOK, Has, CallNames
<1>4. /\ CallsOK("liftBan", <<"status", "ban", "quit">>)
      /\ ~Has(<<"status", "ban", "quit">>, "freeIdentity")
      /\ ~Has(<<"status", "ban", "quit">>, "freeIdentities")
  BY DEF CallsOK, Has, CallNames
<1>5. QED BY <1>1, <1>2, <1>3, <1>4

LEMMA PlainStart ==
  ASSUME AccountsInv, NEW w \in Requests, NEW r, NEW todo, Start(w, r, todo),
         DOMAIN r = Fields, r.op \notin {"none", "liftBan", "google"}, Plain(todo)
  PROVE  AccountsInv'
BY StartKept DEF Plain

LEMMA ExecLoginKept ==
  ASSUME AccountsInv, NEW w \in Requests, NEW u, NEW f, NEW d, ExecLogin(w, u, f, d)
  PROVE  AccountsInv'
<1>1. CASE Start(w, Of("pending", u, f, d), <<"pending">>)
  BY <1>1, OfIs, PlainLists, PlainStart
<1>2. CASE Start(w, Of("login", u, f, d), LoginCalls)
  BY <1>2, OfIs, PlainLists, PlainStart
<1>3. QED BY <1>1, <1>2 DEF ExecLogin

LEMMA RegistrationKept ==
  ASSUME AccountsInv, NEW w \in Requests, NEW u \in Users, Registration(w, u)
  PROVE  AccountsInv'
<1>1. ASSUME NEW way \in {"phone", "name", "wx", "github", "gitee", "admin"},
             NEW f, NEW d, NEW todo, Plain(todo), Start(w, Of(way, u, f, d), todo)
      PROVE  AccountsInv'
  <2>1. way \notin {"none", "liftBan", "google"}
    OBVIOUS
  <2>2. QED BY <1>1, <2>1, OfIs, PlainStart
<1>2. CASE AddUser(w, u) \/ AddAdminUser(w, u)
  BY <1>1, <1>2, PlainLists DEF AddUser, AddAdminUser
<1>3. CASE GithubRegister(w, u) \/ GiteeRegister(w, u)
  BY <1>1, <1>3, PlainLists DEF GithubRegister, GiteeRegister, RegisterThird
<1>4. ASSUME NEW f, NEW d, \/ RegisterPhone(w, u, f, d)
                           \/ UsernameRegister(w, u, f, d) \/ WxRegister(w, u, f, d)
      PROVE  AccountsInv'
  BY <1>1, <1>4, PlainLists
     DEF RegisterPhone, UsernameRegister, WxRegister, RegisterThird, Register
<1>5. QED BY <1>2, <1>3, <1>4 DEF Registration

LEMMA LoginOfKept ==
  ASSUME AccountsInv, NEW w \in Requests, NEW u \in Users, LoginOf(w, u)
  PROVE  AccountsInv'
<1>1. CASE GithubLogin(w, u) \/ GiteeLogin(w, u)
  BY <1>1, ExecLoginKept DEF GithubLogin, GiteeLogin
<1>2. CASE LoginCheckPhone(w, u)
  <2>1. Start(w, Of("check", u, "app", device[u].pending),
              <<"device", "setToken", "imToken">>)
    BY <1>2 DEF LoginCheckPhone
  <2>2. QED BY <2>1, OfIs, PlainLists, PlainStart
<1>3. CASE AdminLogin(w, u)
  <2>1. Start(w, Of("adminLogin", u, "web", Nobody), <<"setToken", "setUidToken">>)
    BY <1>3 DEF AdminLogin
  <2>2. QED BY <2>1, OfIs, PlainLists, PlainStart
<1>4. ASSUME NEW f, LoginWithAuthCode(w, u, f) PROVE AccountsInv'
  <2>1. Start(w, Of("qr", u, f, Nobody),
              <<"oldToken", "imToken", "setToken", "setUidToken">>)
    BY <1>4 DEF LoginWithAuthCode
  <2>2. QED BY <2>1, OfIs, PlainLists, PlainStart
<1>5. ASSUME NEW f, NEW d,
             Login(w, u, f, d) \/ UsernameLogin(w, u, f, d) \/ WxLogin(w, u, f, d)
      PROVE  AccountsInv'
  BY <1>5, ExecLoginKept DEF Login, UsernameLogin, WxLogin
<1>6. QED BY <1>1, <1>2, <1>3, <1>4, <1>5 DEF LoginOf

LEMMA AdministrationKept ==
  ASSUME AccountsInv, NEW w \in Requests, NEW u \in Users, Administration(w, u)
  PROVE  AccountsInv'
<1>1. CASE DestroyAccount(w, u)
  <2>1. Start(w, Of("destroy", u, "app", Nobody),
              <<"destroyRow", "freeIdentities", "quit">>)
    BY <1>1 DEF DestroyAccount
  <2>2. QED BY <2>1, OfIs, OtherLists, StartKept
<1>2. CASE DeleteAdminUsers(w, u)
  <2>1. Start(w, Of("deleteAdmin", u, "web", Nobody),
              <<"destroyRow", "oldToken", "forgetToken">>)
    BY <1>2 DEF DeleteAdminUsers
  <2>2. QED BY <2>1, OfIs, PlainLists, PlainStart
<1>3. CASE AdminUpdatePwd(w, u)
  <2>1. Start(w, Of("adminPwd", u, "web", Nobody), <<"oldToken", "forgetToken">>)
    BY <1>3 DEF AdminUpdatePwd
  <2>2. QED BY <2>1, OfIs, PlainLists, PlainStart
<1>4. ASSUME NEW on \in BOOLEAN, LiftBanUser(w, u, on) PROVE AccountsInv'
  <2> DEFINE r == [Of("liftBan", u, "app", Nobody) EXCEPT !.on = on]
  <2>1. Start(w, r, <<"status", "ban", "quit">>)
    BY <1>4 DEF LiftBanUser
  <2>2. DOMAIN r = Fields /\ r.op = "liftBan"
    BY OfIs DEF Fields
  <2> HIDE DEF r
  <2>3. QED BY <2>1, <2>2, OtherLists, StartKept
<1>5. ASSUME NEW t \in Tokens, UpdateName(w, u, t) PROVE AccountsInv'
  <2> DEFINE r == [Of("rename", u, "app", Nobody) EXCEPT !.tok = t]
  <2>1. Start(w, r, <<"renameToken">>)
    BY <1>5 DEF UpdateName
  <2>2. DOMAIN r = Fields /\ r.op = "rename"
    BY OfIs DEF Fields
  <2> HIDE DEF r
  <2>3. QED BY <2>1, <2>2, PlainLists, PlainStart
<1>6. QED BY <1>1, <1>2, <1>3, <1>4, <1>5 DEF Administration

\* The identity is freed by a login only if its account is gone.
LEMMA GoogleLoginKept ==
  ASSUME AccountsInv, NEW w \in Requests, NEW d, GoogleLogin(w, d)
  PROVE  AccountsInv'
<1>1. CASE ExecLogin(w, identity, "app", d)
  BY <1>1, ExecLoginKept
<1>2. ASSUME NEW u \in Users, Start(w, Of("google", u, "app", d), SignUp)
      PROVE  AccountsInv'
  BY <1>2, OfIs, OtherLists, StartKept
<1>3. ASSUME NEW u \in Users, Start(w, Of("google", u, "app", d), SignUpAgain),
             identity # Nobody, ~Live(identity)
      PROVE  AccountsInv'
  <2>1. spent.overlaps <= 1 => \A x \in Users : ~GoogleAccount(account, x)
    BY <1>3 DEF AccountsInv, OneGoogle, IdentityFor, GoogleAccount, Live
  <2>2. QED BY <1>3, <2>1, OfIs, OtherLists, StartKept
<1>4. QED BY <1>1, <1>2, <1>3 DEF GoogleLogin

-----------------------------------------------------------------------------
LEMMA InitAccountsInv == AccountsInit => AccountsInv
<1> SUFFICES ASSUME AccountsInit PROVE AccountsInv
  OBVIOUS
<1> DEFINE i == [ban |-> FALSE, tok |-> [f \in Flags |-> 0]]
<1>1. /\ DOMAIN NoAccount = {"state", "way", "disabled", "lock"}
      /\ NoAccount.state = "none"
  BY DEF NoAccount
<1>2. DOMAIN i = {"ban", "tok"} /\ ~i.ban
  OBVIOUS
<1>3. im = [u \in Users |-> i] /\ account = [u \in Users |-> NoAccount]
  BY DEF AccountsInit
<1> HIDE DEF i
<1>4. /\ spent = [requests |-> 0, overlaps |-> 0, faults |-> 0]
      /\ request = [w \in Requests |-> Idle]
  BY DEF AccountsInit
<1>5. RowsOK
  BY <1>1, <1>2, <1>3, <1>4 DEF RowsOK
<1>6. RequestsOK /\ Overlaps
  BY <1>4, IdleIs DEF RequestsOK, Overlaps, Active
<1>7. OneGoogle
  BY <1>1, <1>3 DEF OneGoogle, GoogleAccount
<1>8. BannedIsOff
  BY <1>2, <1>3 DEF BannedIsOff
<1>9. QED BY <1>5, <1>6, <1>7, <1>8 DEF AccountsInv

LEMMA NextAccountsInv ==
  ASSUME AccountsInv, [AccountsNext]_accountVars
  PROVE  AccountsInv'
<1>1. ASSUME NEW w \in Requests, Step(w) PROVE AccountsInv'
  <2>1. CASE Insert(w) \/ FreeIdentity(w) \/ FreeIdentities(w) \/ CheckEmail(w)
             \/ DestroyRow(w) \/ SetStatus(w) \/ OldToken(w)
    BY <2>1, InsertKept, FreeKept, CheckEmailKept, DestroyRowKept, SetStatusKept,
       OldTokenKept
  <2>2. CASE IMToken(w) \/ SetBan(w) \/ QuitDevices(w)
    BY <2>2, IMTokenKept, SetBanKept, QuitDevicesKept
  <2>3. QED BY <1>1, <2>1, <2>2, PlainKept DEF Step
<1>2. ASSUME NEW w \in Requests, NEW u \in Users,
             Registration(w, u) \/ LoginOf(w, u) \/ Administration(w, u)
      PROVE  AccountsInv'
  BY <1>2, RegistrationKept, LoginOfKept, AdministrationKept
<1>3. ASSUME NEW w \in Requests, NEW d \in Devices, GoogleLogin(w, d) PROVE AccountsInv'
  BY <1>3, GoogleLoginKept
<1>4. ASSUME NEW w \in Requests, Fail(w) PROVE AccountsInv'
  BY <1>4, FailKept
<1>5. ASSUME NEW u \in Users, Quit(u) \/ \E on \in BOOLEAN : SetDeviceLock(u, on)
      PROVE  AccountsInv'
  BY <1>5, QuitKept, SetDeviceLockKept
<1>6. CASE \/ \E u \in Users, d \in Devices : DeviceDelete(u, d)
           \/ \E u \in Users : ExpirePending(u)
           \/ \E t \in Tokens : Expire(t)
           \/ UNCHANGED accountVars
  BY <1>6, ElsewhereKept
<1>7. QED BY <1>1, <1>2, <1>3, <1>4, <1>5, <1>6 DEF AccountsNext

LEMMA AccountsInvKept == AccountsSpec => []AccountsInv
<1>1. AccountsInv /\ [AccountsNext]_accountVars => AccountsInv'
  BY NextAccountsInv
<1>2. QED BY <1>1, InitAccountsInv, PTL DEF AccountsSpec

-----------------------------------------------------------------------------
(***************************************************************************)
(* The theorems                                                            *)
(***************************************************************************)

\* However the logins, deletions and failures of googleLogin and destroyAccount
\* fall, one Google identity has one live account, while no more than one
\* request began beside another.
THEOREM OneAccount == AccountsSpec => []OneAccountPerPerson
<1>1. AccountsInv => OneAccountPerPerson
  <2> SUFFICES ASSUME AccountsInv, spent.overlaps <= 1
               PROVE  Cardinality({u \in Users : Live(u) /\ account[u].way = "google"}) <= 1
    BY DEF OneAccountPerPerson
  <2> DEFINE A == {u \in Users : Live(u) /\ account[u].way = "google"}
  <2>1. \A u, v \in A : u = v
    BY DEF AccountsInv, OneGoogle, GoogleAccount, Live
  <2> HIDE DEF A
  <2>2. A = {} => Cardinality(A) = 0
    BY FS_EmptySet
  <2>3. ASSUME NEW u \in A PROVE Cardinality(A) = 1
    <3>1. A = {u}
      BY <2>1, <2>3
    <3>2. Cardinality({u}) = 1
      BY FS_Singleton
    <3>3. QED BY <3>1, <3>2
  <2>4. Cardinality(A) <= 1
    BY <2>2, <2>3
  <2>5. QED BY <2>4 DEF A
<1>2. QED BY <1>1, AccountsInvKept, PTL

\* With no failure in between, a user whom the IM server bans keeps no token
\* there once liftBanUser is over, whatever logins ran beside it.
THEOREM BanHolds == AccountsSpec => []BannedIsOff
<1>1. AccountsInv => BannedIsOff
  BY DEF AccountsInv
<1>2. QED BY <1>1, AccountsInvKept, PTL

-----------------------------------------------------------------------------
(***************************************************************************)
(* The tokens of the app                                                   *)
(*                                                                         *)
(* AppTokensRevoked holds between two logins.  In the middle of one it     *)
(* rests on how far the login is: on the token it has read, on the token   *)
(* it has dropped, and on its own token being nobody's yet.                *)
(***************************************************************************)

\* What is left of a list of calls.
Rest(todo, plan) ==
  /\ Len(todo) <= Len(plan)
  /\ \A i \in 1..Len(todo) : todo[i] = plan[i + (Len(plan) - Len(todo))]

CodeCalls == <<"oldToken", "imToken", "setToken", "setUidToken">>
AdminCalls == <<"setToken", "setUidToken">>

\* A token that no login was given and that is recorded for nobody.
New(n, ut, hd) ==
  n # 0 /\ \A u \in Users : n \notin hd[u] /\ \A f \in Flags : ut[u][f] # n

Recorded(r, ut) == r.tok # 0 /\ r.tok = ut[r.uid][r.flag]

\* The app of u holds no token that expires.
Cleared(u, tk, hd) == \A t \in Tokens : t \in hd[u] => tk[t].life # "expires"

LoginOK(r, tk, ut, hd) ==
  /\ Rest(r.todo, LoginCalls)
  /\ Len(r.todo) > 1 => New(r.tok, ut, hd) \/ (r.flag # "app" /\ Recorded(r, ut))
  /\ Len(r.todo) > 4 => New(r.tok, ut, hd)
  /\ Len(r.todo) = 1 => Recorded(r, ut)
  /\ r.flag = "app" /\ Len(r.todo) = 4 => r.old = ut[r.uid][r.flag]
  /\ r.flag = "app" /\ Len(r.todo) < 4 => Cleared(r.uid, tk, hd)

CodeOK(r, ut, hd) ==
  /\ Rest(r.todo, CodeCalls)
  /\ Len(r.todo) = 4 => New(r.tok, ut, hd)
  /\ \/ New(r.tok, ut, hd) /\ (Len(r.todo) < 4 => ut[r.uid][r.flag] = 0)
     \/ Recorded(r, ut)

OtherOK(r, ut, hd) ==
  /\ ~Has(r.todo, "dropOldToken") /\ ~Has(r.todo, "setUidToken")
  /\ Has(r.todo, "setToken") => New(r.tok, ut, hd) /\ ~Has(r.todo, "oldToken")

\* The requests that record a token.
Makers == {"login", "qr", "adminLogin"}

\* How far the request is, and what then holds of its tokens.
StageOK(r, tk, ut, hd) ==
  r.op # "none" =>
    /\ r.uid \in Users /\ r.flag \in Flags
    /\ r.op = "login" => LoginOK(r, tk, ut, hd)
    /\ r.op = "qr" => CodeOK(r, ut, hd)
    /\ r.op = "adminLogin" =>
         Rest(r.todo, AdminCalls) /\ New(r.tok, ut, hd) /\ r.flag = "web"
    /\ r.op \notin Makers => OtherOK(r, ut, hd)

TokenTypes ==
  /\ DOMAIN token = Tokens
  /\ uidToken \in [Users -> [Flags -> Nat]]
  /\ held \in [Users -> SUBSET Nat]
  /\ identity \in Users \cup {Nobody}

\* Tokens are numbered by the requests that make them.
Numbered ==
  \A u \in Users : /\ \A t \in held[u] : 0 < t /\ t <= spent.requests
                   /\ \A f \in Flags : uidToken[u][f] <= spent.requests

Carried ==
  \A w \in Requests : request[w].op \in Makers =>
    request[w].tok \in Nat /\ request[w].tok <= spent.requests

\* No token is recorded twice, and none of another user or for a browser is
\* held by the app.
Apart ==
  \A u, v \in Users, f \in Flags : uidToken[u][f] # 0 =>
    /\ \A g \in Flags : uidToken[u][f] = uidToken[v][g] => u = v /\ f = g
    /\ uidToken[u][f] \in held[v] => u = v /\ f = "app"

Revoked ==
  \A u \in Users, t \in Tokens :
    t \in held[u] /\ token[t].life = "expires" => t = uidToken[u]["app"]

Stages == \A w \in Requests : StageOK(request[w], token, uidToken, held)

TokensOK == TokenTypes /\ Numbered /\ Carried /\ Apart /\ Revoked /\ Stages

\* While no request has begun beside another.
TokensInv == spent.overlaps = 0 => TokensOK

-----------------------------------------------------------------------------
LEMMA RestIs ==
  ASSUME NEW todo \in Seq(CallNames), NEW n \in Nat, NEW plan, Len(plan) = n,
         Len(todo) # 0, Rest(todo, plan)
  PROVE  /\ Len(todo) \in 1..n /\ Head(todo) = plan[1 + (n - Len(todo))]
         /\ Len(todo) # 1 => Rest(Tail(todo), plan) /\ Len(Tail(todo)) = Len(todo) - 1
<1>1. Len(todo) \in 1..n /\ Head(todo) = todo[1]
  BY DEF Rest
<1>2. todo[1] = plan[1 + (n - Len(todo))]
  BY <1>1 DEF Rest
<1>3. ASSUME Len(todo) # 1 PROVE Rest(Tail(todo), plan) /\ Len(Tail(todo)) = Len(todo) - 1
  <2> DEFINE t == Tail(todo)
  <2>1. /\ Len(t) = Len(todo) - 1
        /\ \A i \in 1..Len(t) : i + 1 \in 1..Len(todo) /\ t[i] = todo[i + 1]
    BY <1>1, <1>3, TailIs
  <2> HIDE DEF t
  <2>2. ASSUME NEW i \in 1..Len(t) PROVE t[i] = plan[i + (n - Len(t))]
    <3>1. i + 1 \in 1..Len(todo) /\ t[i] = todo[i + 1]
      BY <2>1, <2>2
    <3>2. todo[i + 1] = plan[(i + 1) + (n - Len(todo))]
      BY <3>1 DEF Rest
    <3>3. (i + 1) + (n - Len(todo)) = i + (n - Len(t))
      BY <1>1, <2>1
    <3>4. QED BY <3>1, <3>2, <3>3
  <2>3. Len(t) <= n
    BY <1>1, <2>1
  <2>4. Rest(t, plan)
    BY <2>2, <2>3 DEF Rest
  <2>5. QED BY <2>1, <2>4 DEF t
<1>4. QED BY <1>1, <1>2, <1>3

\* The call that is due says how far a login is.
LEMMA LoginStage ==
  ASSUME NEW todo \in Seq(CallNames), Len(todo) # 0, Rest(todo, LoginCalls)
  PROVE  /\ Len(todo) \in 1..6
         /\ Head(todo) = "device" => Len(todo) = 6
         /\ Head(todo) = "oldToken" => Len(todo) = 5
         /\ Head(todo) = "dropOldToken" => Len(todo) = 4
         /\ Head(todo) = "setToken" => Len(todo) = 3
         /\ Head(todo) = "setUidToken" => Len(todo) = 2
         /\ Head(todo) = "imToken" => Len(todo) = 1
         /\ Head(todo) \in {"device", "oldToken", "dropOldToken", "setToken",
                            "setUidToken", "imToken"}
<1>1. /\ Len(LoginCalls) = 6 /\ LoginCalls[1] = "device" /\ LoginCalls[2] = "oldToken"
      /\ LoginCalls[3] = "dropOldToken" /\ LoginCalls[4] = "setToken"
      /\ LoginCalls[5] = "setUidToken" /\ LoginCalls[6] = "imToken"
  BY DEF LoginCalls
<1>2. Len(todo) \in 1..6 /\ Head(todo) = LoginCalls[7 - Len(todo)]
  <2>1. Len(todo) \in 1..6 /\ Head(todo) = LoginCalls[1 + (6 - Len(todo))]
    BY <1>1, RestIs
  <2>2. QED BY <2>1
<1>3. ASSUME NEW n \in 1..6, NEW h, h = LoginCalls[7 - n]
      PROVE  /\ h = "device" => n = 6
             /\ h = "oldToken" => n = 5
             /\ h = "dropOldToken" => n = 4
             /\ h = "setToken" => n = 3
             /\ h = "setUidToken" => n = 2
             /\ h = "imToken" => n = 1
             /\ h \in {"device", "oldToken", "dropOldToken", "setToken",
                       "setUidToken", "imToken"}
  <2>1. n \in {1, 2, 3, 4, 5, 6}
    OBVIOUS
  <2>2. QED BY <1>1, <1>3, <2>1
<1>4. QED BY <1>2, <1>3

LEMMA CodeStage ==
  ASSUME NEW todo \in Seq(CallNames), Len(todo) # 0, Rest(todo, CodeCalls)
  PROVE  /\ Len(todo) \in 1..4
         /\ Head(todo) = "oldToken" => Len(todo) = 4
         /\ Head(todo) = "imToken" => Len(todo) = 3
         /\ Head(todo) = "setToken" => Len(todo) = 2
         /\ Head(todo) = "setUidToken" => Len(todo) = 1
         /\ Head(todo) \in {"oldToken", "imToken", "setToken", "setUidToken"}
<1>1. /\ Len(CodeCalls) = 4 /\ CodeCalls[1] = "oldToken" /\ CodeCalls[2] = "imToken"
      /\ CodeCalls[3] = "setToken" /\ CodeCalls[4] = "setUidToken"
  BY DEF CodeCalls
<1>2. Len(todo) \in 1..4 /\ Head(todo) = CodeCalls[5 - Len(todo)]
  <2>1. Len(todo) \in 1..4 /\ Head(todo) = CodeCalls[1 + (4 - Len(todo))]
    BY <1>1, RestIs
  <2>2. QED BY <2>1
<1>3. ASSUME NEW n \in 1..4, NEW h, h = CodeCalls[5 - n]
      PROVE  /\ h = "oldToken" => n = 4
             /\ h = "imToken" => n = 3
             /\ h = "setToken" => n = 2
             /\ h = "setUidToken" => n = 1
             /\ h \in {"oldToken", "imToken", "setToken", "setUidToken"}
  <2>1. n \in {1, 2, 3, 4}
    OBVIOUS
  <2>2. QED BY <1>1, <1>3, <2>1
<1>4. QED BY <1>2, <1>3

LEMMA AdminStage ==
  ASSUME NEW todo \in Seq(CallNames), Len(todo) # 0, Rest(todo, AdminCalls)
  PROVE  /\ Len(todo) \in 1..2
         /\ Head(todo) = "setToken" => Len(todo) = 2
         /\ Head(todo) = "setUidToken" => Len(todo) = 1
         /\ Head(todo) \in {"setToken", "setUidToken"}
<1>1. Len(AdminCalls) = 2 /\ AdminCalls[1] = "setToken" /\ AdminCalls[2] = "setUidToken"
  BY DEF AdminCalls
<1>2. Len(todo) \in 1..2 /\ Head(todo) = AdminCalls[3 - Len(todo)]
  <2>1. Len(todo) \in 1..2 /\ Head(todo) = AdminCalls[1 + (2 - Len(todo))]
    BY <1>1, RestIs
  <2>2. QED BY <2>1
<1>3. ASSUME NEW n \in 1..2, NEW h, h = AdminCalls[3 - n]
      PROVE  /\ h = "setToken" => n = 2
             /\ h = "setUidToken" => n = 1
             /\ h \in {"setToken", "setUidToken"}
  <2>1. n \in {1, 2}
    OBVIOUS
  <2>2. QED BY <1>1, <1>3, <2>1
<1>4. QED BY <1>2, <1>3

LEMMA FurtherStage ==
  ASSUME NEW r, RequestOK(r), r.todo # <<>>
  PROVE  /\ r.todo \in Seq(CallNames) /\ Len(r.todo) # 0 /\ r.op # "none"
         /\ Len(r.todo) = 1 => Further(r) = Idle
         /\ Len(r.todo) # 1 =>
              /\ Further(r).op = r.op /\ Further(r).uid = r.uid
              /\ Further(r).flag = r.flag /\ Further(r).tok = r.tok
              /\ Further(r).old = r.old /\ Further(r).todo = Tail(r.todo)
              /\ Len(Tail(r.todo)) = Len(r.todo) - 1 /\ Len(Tail(r.todo)) # 0
<1>1. r.todo \in Seq(CallNames) /\ DOMAIN r = Fields
  BY DEF RequestOK, CallsOK
<1>2. Len(r.todo) # 0
  BY <1>1
<1>3. r.op # "none"
  BY <1>2 DEF RequestOK
<1>4. CASE Len(r.todo) = 1
  BY <1>1, <1>2, <1>3, <1>4 DEF Further
<1>5. CASE Len(r.todo) # 1
  <2>1. Further(r) = [r EXCEPT !.todo = Tail(r.todo)]
    BY <1>5 DEF Further
  <2>2. Len(Tail(r.todo)) = Len(r.todo) - 1 /\ Len(Tail(r.todo)) # 0
    BY <1>1, <1>2, <1>5, TailIs
  <2>3. QED BY <1>1, <1>2, <1>3, <1>5, <2>1, <2>2 DEF Fields
<1>6. QED BY <1>4, <1>5

LEMMA IdleStage ==
  ASSUME NEW tk, NEW ut, NEW hd
  PROVE  StageOK(Idle, tk, ut, hd)
BY IdleIs DEF StageOK

\* A stage after the call c.
LEMMA OtherStage ==
  ASSUME NEW r, RequestOK(r), r.todo # <<>>, Len(r.todo) # 1, NEW ut, NEW hd,
         OtherOK(r, ut, hd)
  PROVE  OtherOK(Further(r), ut, hd)
<1>1. r.todo \in Seq(CallNames) /\ Len(r.todo) # 0
      /\ Further(r).todo = Tail(r.todo) /\ Further(r).tok = r.tok
  BY FurtherStage
<1>2. \A k : Has(Tail(r.todo), k) => Has(r.todo, k)
  BY <1>1, TailHas
<1>3. QED BY <1>1, <1>2 DEF OtherOK

LEMMA StageGoesOn ==
  ASSUME NEW r, RequestOK(r), r.todo # <<>>, NEW tk, NEW ut, NEW hd,
         StageOK(r, tk, ut, hd),
         Head(r.todo) \notin {"oldToken", "dropOldToken", "setToken", "setUidToken"}
  PROVE  StageOK(Further(r), tk, ut, hd)
<1>1. /\ r.todo \in Seq(CallNames) /\ Len(r.todo) # 0 /\ r.op # "none"
  BY FurtherStage
<1>2. CASE Len(r.todo) = 1
  BY <1>2, FurtherStage, IdleStage
<1>3. CASE Len(r.todo) # 1
  <2> DEFINE q == Further(r)
             t == Tail(r.todo)
  <2>1. /\ q.op = r.op /\ q.uid = r.uid /\ q.flag = r.flag /\ q.tok = r.tok
        /\ q.old = r.old /\ q.todo = t
        /\ Len(t) = Len(r.todo) - 1 /\ Len(t) # 0
    BY <1>3, FurtherStage
  <2> HIDE DEF q, t
  <2>2. CASE r.op = "login"
    <3>1. LoginOK(r, tk, ut, hd) /\ Rest(r.todo, LoginCalls) /\ Len(LoginCalls) = 6
      BY <1>1, <2>2 DEF StageOK, LoginOK, LoginCalls
    <3>2. Rest(t, LoginCalls) /\ Len(r.todo) = 6
      BY <1>1, <1>3, <3>1, LoginStage, RestIs DEF t
    <3>3. New(r.tok, ut, hd)
      BY <3>1, <3>2 DEF LoginOK
    <3>4. LoginOK(q, tk, ut, hd)
      BY <2>1, <3>2, <3>3 DEF LoginOK
    <3>5. QED BY <1>1, <2>1, <2>2, <3>4 DEF StageOK, Makers, q
  <2>3. CASE r.op = "qr"
    <3>1. CodeOK(r, ut, hd) /\ Rest(r.todo, CodeCalls) /\ Len(CodeCalls) = 4
      BY <1>1, <2>3 DEF StageOK, CodeOK, CodeCalls
    <3>2. Rest(t, CodeCalls) /\ Len(r.todo) = 3
      BY <1>1, <1>3, <3>1, CodeStage, RestIs DEF t
    <3>3. CodeOK(q, ut, hd)
      BY <2>1, <3>1, <3>2 DEF CodeOK, Recorded
    <3>4. QED BY <1>1, <2>1, <2>3, <3>3 DEF StageOK, Makers, q
  <2>4. CASE r.op = "adminLogin"
    BY <1>1, <2>4, AdminStage DEF StageOK
  <2>5. CASE r.op \notin Makers
    <3>1. OtherOK(q, ut, hd)
      BY <1>1, <1>3, <2>5, OtherStage DEF StageOK, Makers, q
    <3>2. QED BY <1>1, <2>1, <2>5, <3>1 DEF StageOK, Makers, q
  <2>6. QED BY <2>2, <2>3, <2>4, <2>5 DEF Makers
<1>4. QED BY <1>2, <1>3

\* The token of the request is written.
LEMMA StageSets ==
  ASSUME NEW r, RequestOK(r), r.todo # <<>>, NEW tk, NEW ut, NEW hd, NEW tk2,
         StageOK(r, tk, ut, hd), Head(r.todo) = "setToken",
         \A n \in Tokens : n # r.tok => tk2[n] = tk[n]
  PROVE  /\ StageOK(Further(r), tk2, ut, hd)
         /\ New(r.tok, ut, hd) \/ Recorded(r, ut)
         /\ r.uid \in Users /\ r.flag \in Flags
<1>1. /\ r.todo \in Seq(CallNames) /\ Len(r.todo) # 0 /\ r.op # "none"
      /\ r.uid \in Users /\ r.flag \in Flags
  BY FurtherStage DEF StageOK
<1> DEFINE q == Further(r)
           t == Tail(r.todo)
<1>2. Len(r.todo) # 1 =>
        /\ q.op = r.op /\ q.uid = r.uid /\ q.flag = r.flag /\ q.tok = r.tok
        /\ q.old = r.old /\ q.todo = t
        /\ Len(t) = Len(r.todo) - 1 /\ Len(t) # 0
  BY FurtherStage
<1>3. Len(r.todo) = 1 => StageOK(q, tk2, ut, hd)
  BY FurtherStage, IdleStage
<1> HIDE DEF q, t
<1>4. CASE r.op = "login"
  <2>1. LoginOK(r, tk, ut, hd) /\ Rest(r.todo, LoginCalls) /\ Len(LoginCalls) = 6
    BY <1>1, <1>4 DEF StageOK, LoginOK, LoginCalls
  <2>2. Len(r.todo) = 3 /\ Len(r.todo) # 1
    <3>1. Len(r.todo) = 3
      BY <1>1, <2>1, LoginStage
    <3>2. QED BY <3>1
  <2>3. Rest(t, LoginCalls)
    BY <1>1, <2>1, <2>2, RestIs DEF t
  <2>4. /\ New(r.tok, ut, hd) \/ (r.flag # "app" /\ Recorded(r, ut))
        /\ r.flag = "app" => Cleared(r.uid, tk, hd)
    BY <2>1, <2>2 DEF LoginOK
  <2>5. r.flag = "app" => Cleared(r.uid, tk2, hd)
    BY <1>1, <2>4 DEF Cleared, New
  <2>6. LoginOK(q, tk2, ut, hd)
    <3>1. /\ q.uid = r.uid /\ q.flag = r.flag /\ q.tok = r.tok /\ q.todo = t
          /\ Len(t) = 2
      BY <1>2, <2>2
    <3>2. QED BY <2>3, <2>4, <2>5, <3>1 DEF LoginOK, Recorded
  <2>7. QED BY <1>1, <1>2, <1>4, <2>2, <2>4, <2>6 DEF StageOK, Makers, q
<1>5. CASE r.op = "qr"
  <2>1. CodeOK(r, ut, hd) /\ Rest(r.todo, CodeCalls) /\ Len(CodeCalls) = 4
    BY <1>1, <1>5 DEF StageOK, CodeOK, CodeCalls
  <2>2. Len(r.todo) = 2 /\ Len(r.todo) # 1
    <3>1. Len(r.todo) = 2
      BY <1>1, <2>1, CodeStage
    <3>2. QED BY <3>1
  <2>3. Rest(t, CodeCalls)
    BY <1>1, <2>1, <2>2, RestIs DEF t
  <2>4. CodeOK(q, ut, hd) /\ (New(r.tok, ut, hd) \/ Recorded(r, ut))
    <3>1. /\ q.uid = r.uid /\ q.flag = r.flag /\ q.tok = r.tok /\ q.todo = t
          /\ Len(t) = 1
      BY <1>2, <2>2
    <3>2. QED BY <2>1, <2>2, <2>3, <3>1 DEF CodeOK, Recorded
  <2>5. QED BY <1>1, <1>2, <1>5, <2>2, <2>4 DEF StageOK, Makers, q
<1>6. CASE r.op = "adminLogin"
  <2>1. /\ Rest(r.todo, AdminCalls) /\ Len(AdminCalls) = 2
        /\ New(r.tok, ut, hd) /\ r.flag = "web"
    BY <1>1, <1>6 DEF StageOK, AdminCalls
  <2>2. Len(r.todo) = 2 /\ Len(r.todo) # 1
    <3>1. Len(r.todo) = 2
      BY <1>1, <2>1, AdminStage
    <3>2. QED BY <3>1
  <2>3. Rest(t, AdminCalls)
    BY <1>1, <2>1, <2>2, RestIs DEF t
  <2>4. QED BY <1>1, <1>2, <1>6, <2>1, <2>2, <2>3 DEF StageOK, Makers, q
<1>7. CASE r.op \notin Makers
  <2>1. OtherOK(r, ut, hd) /\ Has(r.todo, "setToken")
    BY <1>1, <1>7 DEF StageOK, Has
  <2>2. Len(r.todo) # 1 => OtherOK(q, ut, hd)
    BY <2>1, OtherStage DEF q
  <2>3. QED BY <1>1, <1>2, <1>3, <1>7, <2>1, <2>2 DEF StageOK, Makers, q, OtherOK
<1>8. QED BY <1>4, <1>5, <1>6, <1>7 DEF Makers

LEMMA Lengths ==
  /\ \A n : n = 4 => ~(n > 4) /\ n # 1 /\ ~(n < 4)
  /\ \A n : n = 3 => n # 4 /\ n # 1
OBVIOUS

\* The recorded token is read; it is kept, or replaced by a new one.
LEMMA StageReads ==
  ASSUME NEW q, RequestOK(q), q.todo # <<>>, Head(q.todo) = "oldToken",
         NEW tk, NEW ut, NEW hd, StageOK(q, tk, ut, hd), NEW r,
         r.op = q.op, r.uid = q.uid, r.flag = q.flag, r.todo = Tail(q.todo),
         r.old = ut[q.uid][q.flag],
         r.tok = IF r.old # 0 /\ (q.op = "qr" \/ q.flag = "web") THEN r.old ELSE q.tok
  PROVE  StageOK(r, tk, ut, hd)
<1>1. /\ q.todo \in Seq(CallNames) /\ Len(q.todo) # 0 /\ q.op # "none"
      /\ q.uid \in Users /\ q.flag \in Flags /\ Len(q.todo) # 1
  BY FurtherStage, FirstIs DEF StageOK
<1>2. /\ Len(r.todo) = Len(q.todo) - 1
      /\ \A k : Has(r.todo, k) => Has(q.todo, k)
  BY <1>1, TailIs, TailHas
<1>3. CASE q.op = "login"
  <2>1. LoginOK(q, tk, ut, hd) /\ Rest(q.todo, LoginCalls) /\ Len(LoginCalls) = 6
    BY <1>1, <1>3 DEF StageOK, LoginOK, LoginCalls
  <2>2. Len(q.todo) = 5
    BY <1>1, <2>1, LoginStage
  <2>3. Rest(r.todo, LoginCalls)
    BY <1>1, <2>1, RestIs
  <2>8. Len(r.todo) = 4
    BY <1>2, <2>2
  <2>4. New(q.tok, ut, hd)
    BY <2>1, <2>2 DEF LoginOK
  <2>5. New(r.tok, ut, hd) \/ (r.flag # "app" /\ Recorded(r, ut))
    <3>1. CASE r.old # 0 /\ q.flag = "web"
      BY <3>1 DEF Recorded
    <3>2. CASE ~(r.old # 0 /\ q.flag = "web")
      BY <1>3, <2>4, <3>2
    <3>3. QED BY <3>1, <3>2
  <2>6. LoginOK(r, tk, ut, hd)
    <3>1. /\ ~(Len(r.todo) > 4) /\ Len(r.todo) # 1 /\ ~(Len(r.todo) < 4)
      BY <2>8, Lengths, Zenon
    <3>2. QED BY <2>3, <2>5, <2>8, <3>1 DEF LoginOK
  <2>7. QED BY <1>1, <1>3, <2>6 DEF StageOK, Makers
<1>4. CASE q.op = "qr"
  <2>1. CodeOK(q, ut, hd) /\ Rest(q.todo, CodeCalls) /\ Len(CodeCalls) = 4
    BY <1>1, <1>4 DEF StageOK, CodeOK, CodeCalls
  <2>2. Len(q.todo) = 4
    BY <1>1, <2>1, CodeStage
  <2>3. Rest(r.todo, CodeCalls)
    BY <1>1, <2>1, RestIs
  <2>8. Len(r.todo) = 3
    BY <1>2, <2>2
  <2>4. New(q.tok, ut, hd)
    BY <2>1, <2>2 DEF CodeOK
  <2>5. \/ New(r.tok, ut, hd) /\ ut[r.uid][r.flag] = 0
        \/ Recorded(r, ut)
    BY <1>4, <2>4 DEF Recorded
  <2>6. CodeOK(r, ut, hd)
    <3>1. Len(r.todo) # 4
      BY <2>8, Lengths, Zenon
    <3>2. QED BY <2>3, <2>5, <2>8, <3>1 DEF CodeOK
  <2>7. QED BY <1>1, <1>4, <2>6 DEF StageOK, Makers
<1>5. CASE q.op = "adminLogin"
  BY <1>1, <1>5, AdminStage DEF StageOK
<1>6. CASE q.op \notin Makers
  <2>1. OtherOK(q, ut, hd) /\ Has(q.todo, "oldToken")
    BY <1>1, <1>6 DEF StageOK, Has
  <2>2. OtherOK(r, ut, hd)
    BY <1>2, <2>1 DEF OtherOK
  <2>3. QED BY <1>1, <1>6, <2>2 DEF StageOK, Makers
<1>7. QED BY <1>3, <1>4, <1>5, <1>6 DEF Makers

\* The token that was read is dropped: a login of the app, then, has left none
\* that opens the API.
LEMMA StageDrops ==
  ASSUME NEW r, RequestOK(r), r.todo # <<>>, Head(r.todo) = "dropOldToken",
         NEW tk, NEW ut, NEW hd, StageOK(r, tk, ut, hd), NEW tk2,
         r.flag = "app" /\ r.old = ut[r.uid][r.flag] => Cleared(r.uid, tk2, hd)
  PROVE  StageOK(Further(r), tk2, ut, hd)
<1>1. /\ r.todo \in Seq(CallNames) /\ Len(r.todo) # 0 /\ r.op # "none"
      /\ r.uid \in Users /\ r.flag \in Flags
  BY FurtherStage DEF StageOK
<1> DEFINE q == Further(r)
<1>2. r.op = "login"
  BY <1>1, CodeStage, AdminStage DEF StageOK, CodeOK, OtherOK, Has, Makers
<1>3. LoginOK(r, tk, ut, hd) /\ Rest(r.todo, LoginCalls) /\ Len(LoginCalls) = 6
  BY <1>1, <1>2 DEF StageOK, LoginOK, LoginCalls
<1>4. Len(r.todo) = 4
  BY <1>1, <1>3, LoginStage
<1>5. Len(r.todo) # 1
  BY <1>4
<1>6. Rest(Tail(r.todo), LoginCalls)
  BY <1>1, <1>3, <1>5, RestIs
<1>7. /\ q.op = r.op /\ q.uid = r.uid /\ q.flag = r.flag /\ q.tok = r.tok
      /\ q.todo = Tail(r.todo) /\ Len(q.todo) = Len(r.todo) - 1
  BY <1>5, FurtherStage
<1> HIDE DEF q
<1>8. /\ New(r.tok, ut, hd) \/ (r.flag # "app" /\ Recorded(r, ut))
      /\ r.flag = "app" => Cleared(r.uid, tk2, hd)
  BY <1>3, <1>4 DEF LoginOK
<1>9. Len(q.todo) = 3
  BY <1>4, <1>7
<1>10. LoginOK(q, tk2, ut, hd)
  <2>1. /\ ~(Len(q.todo) > 4) /\ Len(q.todo) # 1 /\ Len(q.todo) # 4
    BY <1>9
  <2>2. QED BY <1>6, <1>7, <1>8, <2>1 DEF LoginOK, Recorded
<1>11. QED BY <1>1, <1>2, <1>7, <1>10 DEF StageOK, q, Makers

\* The token of the request is recorded.
LEMMA StageRecords ==
  ASSUME NEW r, RequestOK(r), r.todo # <<>>, Head(r.todo) = "setUidToken",
         NEW tk, NEW ut \in [Users -> [Flags -> Nat]], NEW hd, StageOK(r, tk, ut, hd),
         r.tok \in Nat, NEW ut2, ut2 = [ut EXCEPT ![r.uid][r.flag] = r.tok]
  PROVE  /\ r.uid \in Users /\ r.flag \in Flags /\ r.op \in Makers
         /\ \/ New(r.tok, ut, hd) /\ (r.op = "qr" => ut[r.uid][r.flag] = 0)
            \/ r.op # "adminLogin" /\ Recorded(r, ut)
         /\ r.op = "login" /\ r.flag = "app" =>
              New(r.tok, ut, hd) /\ Cleared(r.uid, tk, hd)
         /\ r.op = "adminLogin" => r.flag = "web"
         /\ r.op = "login" => Len(r.todo) # 1
         /\ StageOK(Further(r), tk, ut2, hd)
         /\ Len(r.todo) = 1 => Further(r) = Idle
<1>1. /\ r.todo \in Seq(CallNames) /\ Len(r.todo) # 0 /\ r.op # "none"
      /\ r.uid \in Users /\ r.flag \in Flags
      /\ Len(r.todo) = 1 => Further(r) = Idle
  BY FurtherStage DEF StageOK
<1>2. r.op \in Makers
  BY <1>1 DEF StageOK, OtherOK, Has
<1>3. CASE r.op = "login"
  <2> DEFINE q == Further(r)
  <2>1. LoginOK(r, tk, ut, hd) /\ Rest(r.todo, LoginCalls) /\ Len(LoginCalls) = 6
    BY <1>1, <1>3 DEF StageOK, LoginOK, LoginCalls
  <2>2. Len(r.todo) = 2
    BY <1>1, <2>1, LoginStage
  <2>3. Len(r.todo) # 1
    BY <2>2
  <2>4. Rest(Tail(r.todo), LoginCalls)
    BY <1>1, <2>1, <2>3, RestIs
  <2>5. /\ q.op = r.op /\ q.uid = r.uid /\ q.flag = r.flag /\ q.tok = r.tok
        /\ q.todo = Tail(r.todo) /\ Len(q.todo) = Len(r.todo) - 1
    BY <2>3, FurtherStage
  <2> HIDE DEF q
  <2>6. /\ New(r.tok, ut, hd) \/ (r.flag # "app" /\ Recorded(r, ut))
        /\ r.flag = "app" => Cleared(r.uid, tk, hd)
    BY <2>1, <2>2 DEF LoginOK
  <2>7. Len(q.todo) = 1 /\ r.tok # 0 /\ ut2[r.uid][r.flag] = r.tok
    BY <1>1, <2>2, <2>5, <2>6 DEF New, Recorded
  <2>8. LoginOK(q, tk, ut2, hd)
    <3>1. /\ ~(Len(q.todo) > 4) /\ ~(Len(q.todo) > 1) /\ Len(q.todo) # 4
      BY <2>7
    <3>2. QED BY <2>4, <2>5, <2>6, <2>7, <3>1 DEF LoginOK, Recorded
  <2>9. StageOK(q, tk, ut2, hd)
    BY <1>1, <1>3, <2>5, <2>8 DEF StageOK, Makers
  <2>10. QED BY <1>1, <1>2, <1>3, <2>3, <2>6, <2>9 DEF q
<1>4. CASE r.op = "qr"
  <2>1. CodeOK(r, ut, hd) /\ Rest(r.todo, CodeCalls)
    BY <1>1, <1>4 DEF StageOK, CodeOK
  <2>2. Len(r.todo) = 1
    BY <1>1, <2>1, CodeStage
  <2>3. \/ New(r.tok, ut, hd) /\ ut[r.uid][r.flag] = 0
        \/ Recorded(r, ut)
    BY <2>1, <2>2 DEF CodeOK
  <2>4. QED BY <1>1, <1>2, <1>4, <2>2, <2>3, IdleStage
<1>5. CASE r.op = "adminLogin"
  <2>1. /\ Rest(r.todo, AdminCalls) /\ New(r.tok, ut, hd) /\ r.flag = "web"
    BY <1>1, <1>5 DEF StageOK
  <2>2. Len(r.todo) = 1
    BY <1>1, <2>1, AdminStage
  <2>3. QED BY <1>1, <1>2, <1>5, <2>1, <2>2, IdleStage
<1>6. QED BY <1>2, <1>3, <1>4, <1>5 DEF Makers

-----------------------------------------------------------------------------
(***************************************************************************)
(* The stages of a request that is alone                                   *)
(***************************************************************************)
LEMMA OnlyOne ==
  ASSUME AccountsInv, spent.overlaps = 0, NEW w \in Requests, Active(w)
  PROVE  \A v \in Requests \ {w} : request[v].op = "none"
BY DEF AccountsInv, Overlaps, Active

LEMMA StagesAfter ==
  ASSUME AccountsInv, NEW w \in Requests, NEW r, RequestOK(r), Becomes(w, r),
         \A v \in Requests \ {w} : request[v].op = "none",
         StageOK(r, token', uidToken', held'),
         r.op \in Makers => r.tok \in Nat /\ r.tok <= spent'.requests
  PROVE  Stages' /\ Carried'
<1>1. /\ request'[w] = r
      /\ \A v \in Requests \ {w} : request'[v].op = "none"
  BY BecomesIs
<1>2. \A v \in Requests \ {w} : StageOK(request'[v], token', uidToken', held')
  BY <1>1 DEF StageOK
<1>3. \A v \in Requests : StageOK(request'[v], token', uidToken', held')
  BY <1>1, <1>2
<1>4. \A v \in Requests : request'[v].op \in Makers =>
        request'[v].tok \in Nat /\ request'[v].tok <= spent'.requests
  BY <1>1 DEF Makers
<1>5. QED BY <1>3, <1>4 DEF Stages, Carried

\* What a request has when the call c is due.
LEMMA CallIs ==
  ASSUME AccountsInv, TokensOK, spent.overlaps = 0, NEW w \in Requests, NEW c, Due(w, c)
  PROVE  /\ RequestOK(request[w]) /\ request[w].todo # <<>>
         /\ Head(request[w].todo) = c
         /\ StageOK(request[w], token, uidToken, held)
         /\ request[w].uid \in Users /\ request[w].flag \in Flags
         /\ request[w].op # "none"
         /\ \A v \in Requests \ {w} : request[v].op = "none"
         /\ request[w].op \in Makers =>
              request[w].tok \in Nat /\ request[w].tok <= spent.requests
         /\ RequestOK(Further(request[w]))
         /\ Further(request[w]).op \in Makers =>
              Further(request[w]).tok \in Nat /\ Further(request[w]).tok <= spent.requests
<1> DEFINE r == request[w]
<1>1. RequestOK(r) /\ r.todo # <<>> /\ Head(r.todo) = c
  BY DEF AccountsInv, RequestsOK, Due
<1>2. StageOK(r, token, uidToken, held) /\ r.op # "none" /\ RequestOK(Further(r))
  BY <1>1, FurtherIs DEF TokensOK, Stages
<1>3. r.uid \in Users /\ r.flag \in Flags
  BY <1>2 DEF StageOK
<1>4. \A v \in Requests \ {w} : request[v].op = "none"
  BY <1>2, OnlyOne DEF Active
<1>5. r.op \in Makers => r.tok \in Nat /\ r.tok <= spent.requests
  BY DEF TokensOK, Carried
<1>6. Further(r).op \in Makers => Further(r).op = r.op /\ Further(r).tok = r.tok
  BY <1>1, FurtherStage, IdleIs DEF Makers
<1>7. QED BY <1>1, <1>2, <1>3, <1>4, <1>5, <1>6

\* Fewer tokens expire.
LEMMA StageForgets ==
  ASSUME NEW r, NEW tk, NEW ut, NEW hd, StageOK(r, tk, ut, hd), NEW tk2,
         \A t \in Tokens : tk2[t].life = "expires" => tk[t].life = "expires"
  PROVE  StageOK(r, tk2, ut, hd)
<1>1. \A u : Cleared(u, tk, hd) => Cleared(u, tk2, hd)
  BY DEF Cleared
<1>2. LoginOK(r, tk, ut, hd) => LoginOK(r, tk2, ut, hd)
  BY <1>1 DEF LoginOK
<1>3. QED BY <1>2 DEF StageOK

\* A call that records, hands out and renews no token.
LEMMA CallTokens ==
  ASSUME AccountsInv, TokensOK, spent.overlaps = 0, NEW w \in Requests, NEW c,
         Due(w, c), Done(w),
         c \notin {"oldToken", "dropOldToken", "setToken", "setUidToken"},
         uidToken' = uidToken, held' = held, spent' = spent,
         identity' \in Users \cup {Nobody}, DOMAIN token' = Tokens,
         \A t \in Tokens : token'[t].life = "expires" => token[t].life = "expires"
  PROVE  TokensOK'
<1> DEFINE r == Further(request[w])
<1>1. /\ StageOK(request[w], token, uidToken, held)
      /\ RequestOK(request[w]) /\ request[w].todo # <<>> /\ Head(request[w].todo) = c
      /\ RequestOK(r) /\ Becomes(w, r)
      /\ \A v \in Requests \ {w} : request[v].op = "none"
      /\ r.op \in Makers => r.tok \in Nat /\ r.tok <= spent.requests
  BY CallIs DEF Done, Becomes
<1>2. StageOK(r, token, uidToken, held)
  BY <1>1, StageGoesOn
<1> HIDE DEF r
<1>3. StageOK(r, token', uidToken', held')
  BY <1>2, StageForgets
<1>4. Stages' /\ Carried'
  BY <1>1, <1>3, StagesAfter
<1>5. TokenTypes' /\ Numbered' /\ Apart' /\ Revoked'
  BY DEF TokensOK, TokenTypes, Numbered, Apart, Revoked
<1>6. QED BY <1>4, <1>5 DEF TokensOK

\* A request ends.
LEMMA EndTokens ==
  ASSUME AccountsInv, TokensOK, spent.overlaps = 0, NEW w \in Requests, Active(w),
         Becomes(w, Idle), UNCHANGED <<token, uidToken, held, identity>>,
         spent'.requests = spent.requests
  PROVE  TokensOK'
<1>1. \A v \in Requests \ {w} : request[v].op = "none"
  BY OnlyOne
<1>2. Stages' /\ Carried'
  BY <1>1, IdleIs, IdleStage, StagesAfter DEF Makers
<1>3. TokenTypes' /\ Numbered' /\ Apart' /\ Revoked'
  BY DEF TokensOK, TokenTypes, Numbered, Apart, Revoked
<1>4. QED BY <1>2, <1>3 DEF TokensOK

-----------------------------------------------------------------------------
(***************************************************************************)
(* The calls and the tokens                                                *)
(***************************************************************************)
LEMMA PlainTokens ==
  ASSUME AccountsInv, TokensOK, spent.overlaps = 0, NEW w \in Requests,
         \/ \E who \in {"system", "helper"} : Befriend(w, who)
         \/ FreeIdentity(w) \/ PendDevice(w) \/ KnowDevice(w) \/ DestroyRow(w)
         \/ FreeIdentities(w) \/ SetStatus(w) \/ SetBan(w) \/ QuitDevices(w)
  PROVE  TokensOK'
<1>1. PICK c \in {"system", "helper", "freeIdentity", "pending", "device", "destroyRow",
                  "freeIdentities", "status", "ban", "quit"} : Due(w, c) /\ Done(w)
  BY DEF Befriend, FreeIdentity, PendDevice, KnowDevice, DestroyRow, FreeIdentities,
         SetStatus, SetBan, QuitDevices
<1>2. token' = token /\ uidToken' = uidToken /\ held' = held /\ spent' = spent
  BY DEF Befriend, FreeIdentity, PendDevice, KnowDevice, DestroyRow, FreeIdentities,
         SetStatus, SetBan, QuitDevices, cache
<1>3. identity' \in Users \cup {Nobody}
  <2>1. identity' = identity \/ identity' = Nobody
    BY DEF Befriend, FreeIdentity, PendDevice, KnowDevice, DestroyRow, FreeIdentities,
           SetStatus, SetBan, QuitDevices, database
  <2>2. QED BY <2>1 DEF TokensOK, TokenTypes
<1>4. DOMAIN token' = Tokens
  BY <1>2 DEF TokensOK, TokenTypes
<1>5. c \notin {"oldToken", "dropOldToken", "setToken", "setUidToken"}
  OBVIOUS
<1>6. QED BY <1>1, <1>2, <1>3, <1>4, <1>5, CallTokens

LEMMA RefuseTokens ==
  ASSUME AccountsInv, TokensOK, spent.overlaps = 0, NEW w \in Requests, NEW c,
         Due(w, c), Refuse(w)
  PROVE  TokensOK'
<1>1. Active(w)
  BY CallIs DEF Active
<1>2. Becomes(w, Idle) /\ UNCHANGED <<token, uidToken, held, identity>>
      /\ spent'.requests = spent.requests
  BY DEF Refuse, Becomes, database, cache
<1>3. QED BY <1>1, <1>2, EndTokens

LEMMA FailTokens ==
  ASSUME AccountsInv, TokensOK, spent.overlaps = 0, NEW w \in Requests, Fail(w)
  PROVE  TokensOK'
<1>1. Active(w) /\ Becomes(w, Idle) /\ UNCHANGED <<token, uidToken, held, identity>>
  BY DEF Fail, Becomes, database, cache
<1>2. spent'.requests = spent.requests
  <2>1. spent' = [spent EXCEPT !.faults = spent.faults + 1]
    BY DEF Fail
  <2>2. QED BY <2>1 DEF AccountsInv, RowsOK
<1>3. QED BY <1>1, <1>2, EndTokens

LEMMA InsertTokens ==
  ASSUME AccountsInv, TokensOK, spent.overlaps = 0, NEW w \in Requests,
         Insert(w) \/ CheckEmail(w)
  PROVE  TokensOK'
<1>1. PICK c \in {"insert", "email"} : Due(w, c) /\ (Refuse(w) \/ Done(w))
  BY DEF Insert, CheckEmail, InsertRow
<1>2. CASE Refuse(w)
  BY <1>1, <1>2, RefuseTokens
<1>3. CASE ~Refuse(w)
  <2>1. Done(w)
    BY <1>1, <1>3
  <2>2. token' = token /\ uidToken' = uidToken /\ held' = held /\ spent' = spent
    BY <1>3 DEF Insert, CheckEmail, InsertRow, cache
  <2>3. identity' = identity \/ identity' = request[w].uid
    BY <1>3 DEF Insert, CheckEmail, InsertRow, database
  <2>4. request[w].uid \in Users
    BY <1>1, CallIs
  <2>5. identity' \in Users \cup {Nobody} /\ DOMAIN token' = Tokens
    BY <2>2, <2>3, <2>4 DEF TokensOK, TokenTypes
  <2>6. c \notin {"oldToken", "dropOldToken", "setToken", "setUidToken"}
    OBVIOUS
  <2>7. QED BY <1>1, <2>1, <2>2, <2>5, <2>6, CallTokens
<1>4. QED BY <1>2, <1>3

\* A token that is forgotten, or made permanent, no longer expires.
LEMMA ForgetTokens ==
  ASSUME AccountsInv, TokensOK, spent.overlaps = 0, NEW w \in Requests,
         ForgetToken(w) \/ RenameToken(w)
  PROVE  TokensOK'
<1>1. PICK c \in {"forgetToken", "renameToken"} : Due(w, c) /\ Done(w)
  BY DEF ForgetToken, RenameToken
<1>2. uidToken' = uidToken /\ held' = held /\ spent' = spent /\ identity' = identity
  BY DEF ForgetToken, RenameToken, database
<1>3. DOMAIN token = Tokens
  BY DEF TokensOK, TokenTypes
<1>4. /\ DOMAIN token' = Tokens
      /\ \A t \in Tokens : token'[t].life = "expires" => token[t].life = "expires"
  <2>1. PICK n, x : x.life # "expires" /\ token' \in {token, [token EXCEPT ![n] = x]}
    <3>1. NoToken.life # "expires"
      BY DEF NoToken
    <3>2. [uid |-> request[w].uid, life |-> "for ever"].life # "expires"
      OBVIOUS
    <3>3. CASE ForgetToken(w)
      BY <3>1, <3>3 DEF ForgetToken
    <3>4. CASE RenameToken(w)
      BY <3>2, <3>4 DEF RenameToken
    <3>5. QED BY <3>3, <3>4
  <2>2. QED BY <1>3, <2>1
<1>5. identity' \in Users \cup {Nobody}
  BY <1>2 DEF TokensOK, TokenTypes
<1>6. c \notin {"oldToken", "dropOldToken", "setToken", "setUidToken"}
  OBVIOUS
<1>7. QED BY <1>1, <1>2, <1>4, <1>5, <1>6, CallTokens

LEMMA OldTokenTokens ==
  ASSUME AccountsInv, TokensOK, spent.overlaps = 0, NEW w \in Requests, OldToken(w)
  PROVE  TokensOK'
<1> DEFINE q == request[w]
           n == uidToken[q.uid][q.flag]
           t == IF n # 0 /\ (q.op = "qr" \/ q.flag = "web") THEN n ELSE q.tok
           r1 == [q EXCEPT !.old = n, !.todo = Tail(q.todo)]
           r == [r1 EXCEPT !.tok = t]
<1>1. /\ RequestOK(q) /\ q.todo # <<>> /\ Head(q.todo) = "oldToken"
      /\ StageOK(q, token, uidToken, held)
      /\ q.uid \in Users /\ q.flag \in Flags
      /\ \A v \in Requests \ {w} : request[v].op = "none"
      /\ q.op \in Makers => q.tok \in Nat /\ q.tok <= spent.requests
  BY CallIs DEF OldToken
<1>2. n \in Nat /\ n <= spent.requests
  BY <1>1 DEF TokensOK, TokenTypes, Numbered
<1>3. UNCHANGED <<token, uidToken, held, identity, spent>>
  BY DEF OldToken, cache, database
<1>4. DOMAIN q = Fields
  BY <1>1 DEF RequestOK
<1>5. request' = [request EXCEPT ![w] = [q EXCEPT !.old = n, !.todo = Tail(q.todo),
                                                 !.tok = t]]
  BY DEF OldToken
<1> HIDE DEF n, t
<1>6. /\ r1.op = q.op /\ r1.uid = q.uid /\ r1.flag = q.flag /\ r1.old = n
      /\ r1.todo = Tail(q.todo) /\ DOMAIN r1 = Fields
  BY <1>4 DEF Fields
<1>7. [q EXCEPT !.old = n, !.todo = Tail(q.todo), !.tok = t] = r
  BY <1>4 DEF Fields
<1> HIDE DEF r1
<1>8. /\ r.op = q.op /\ r.uid = q.uid /\ r.flag = q.flag /\ r.old = n
      /\ r.todo = Tail(q.todo) /\ r.tok = t /\ DOMAIN r = Fields
  BY <1>6 DEF Fields
<1>9. Becomes(w, r)
  BY <1>5, <1>7 DEF Becomes
<1> HIDE DEF r
<1>10. RequestOK(r)
  <2>1. Len(q.todo) # 0 /\ Len(q.todo) # 1
    BY <1>1, FurtherStage, FirstIs
  <2>2. CallsOK(q.op, q.todo) /\ q.todo \in Seq(CallNames)
    BY <1>1 DEF RequestOK, CallsOK
  <2>3. CallsOK(q.op, Tail(q.todo)) /\ Len(Tail(q.todo)) # 0
    BY <2>1, <2>2, TailOK, TailIs
  <2>4. q.op # "none"
    BY <1>1, <2>1 DEF RequestOK
  <2>5. QED BY <1>8, <2>3, <2>4 DEF RequestOK
<1>11. r.tok = IF r.old # 0 /\ (q.op = "qr" \/ q.flag = "web") THEN r.old ELSE q.tok
  BY <1>8 DEF t
<1>12. r.old = uidToken[q.uid][q.flag]
  BY <1>8 DEF n
<1>13. StageOK(r, token, uidToken, held)
  BY <1>1, <1>8, <1>11, <1>12, StageReads
<1>14. r.op \in Makers => r.tok \in Nat /\ r.tok <= spent.requests
  BY <1>1, <1>2, <1>8 DEF t
<1>15. Stages' /\ Carried'
  BY <1>1, <1>3, <1>9, <1>10, <1>13, <1>14, StagesAfter
<1>16. TokenTypes' /\ Numbered' /\ Apart' /\ Revoked'
  BY <1>3 DEF TokensOK, TokenTypes, Numbered, Apart, Revoked
<1>17. QED BY <1>15, <1>16 DEF TokensOK

LEMMA DropTokens ==
  ASSUME AccountsInv, TokensOK, spent.overlaps = 0, NEW w \in Requests, DropOldToken(w)
  PROVE  TokensOK'
<1> DEFINE q == request[w]
           r == Further(q)
<1>1. /\ RequestOK(q) /\ q.todo # <<>> /\ Head(q.todo) = "dropOldToken"
      /\ StageOK(q, token, uidToken, held) /\ q.uid \in Users
      /\ \A v \in Requests \ {w} : request[v].op = "none"
      /\ RequestOK(r) /\ Becomes(w, r)
      /\ r.op \in Makers => r.tok \in Nat /\ r.tok <= spent.requests
  BY CallIs DEF DropOldToken, Done, Becomes
<1>2. UNCHANGED <<uidToken, held, identity, spent>>
  BY DEF DropOldToken, database
<1>3. token' = IF q.flag = "app" /\ q.old # 0
               THEN [token EXCEPT ![q.old] = NoToken] ELSE token
  BY DEF DropOldToken
<1>4. DOMAIN token = Tokens
  BY DEF TokensOK, TokenTypes
<1>5. NoToken.life # "expires"
  BY DEF NoToken
<1>6. /\ DOMAIN token' = Tokens
      /\ \A t \in Tokens : token'[t].life = "expires" => token[t].life = "expires"
  BY <1>3, <1>4, <1>5
<1>7. ASSUME q.flag = "app", q.old = uidToken[q.uid][q.flag]
      PROVE  Cleared(q.uid, token', held)
  <2>1. ASSUME NEW t \in Tokens, t \in held[q.uid], token'[t].life = "expires"
        PROVE  FALSE
    <3>1. t = uidToken[q.uid]["app"]
      BY <1>1, <1>6, <2>1 DEF TokensOK, Revoked
    <3>2. t = q.old /\ t # 0
      BY <1>7, <3>1 DEF Tokens
    <3>3. token'[t] = NoToken
      BY <1>3, <1>4, <1>7, <3>2
    <3>4. QED BY <1>5, <2>1, <3>3
  <2>2. QED BY <2>1 DEF Cleared
<1> HIDE DEF r
<1>8. StageOK(r, token', uidToken, held)
  BY <1>1, <1>7, StageDrops DEF r
<1>9. Stages' /\ Carried'
  BY <1>1, <1>2, <1>8, StagesAfter
<1>10. TokenTypes' /\ Numbered' /\ Apart' /\ Revoked'
  BY <1>2, <1>6 DEF TokensOK, TokenTypes, Numbered, Apart, Revoked
<1>11. QED BY <1>9, <1>10 DEF TokensOK

LEMMA SetTokens ==
  ASSUME AccountsInv, TokensOK, spent.overlaps = 0, NEW w \in Requests, SetToken(w)
  PROVE  TokensOK'
<1> DEFINE q == request[w]
           r == Further(q)
<1>1. /\ RequestOK(q) /\ q.todo # <<>> /\ Head(q.todo) = "setToken"
      /\ StageOK(q, token, uidToken, held)
      /\ \A v \in Requests \ {w} : request[v].op = "none"
      /\ RequestOK(r) /\ Becomes(w, r)
      /\ r.op \in Makers => r.tok \in Nat /\ r.tok <= spent.requests
  BY CallIs DEF SetToken, Done, Becomes
<1>2. UNCHANGED <<uidToken, held, identity, spent>>
  BY DEF SetToken, database
<1>3. /\ DOMAIN token' = Tokens
      /\ \A n \in Tokens : n # q.tok => token'[n] = token[n]
  BY DEF SetToken, TokensOK, TokenTypes
<1> HIDE DEF r
<1>4. /\ StageOK(r, token', uidToken, held)
      /\ New(q.tok, uidToken, held) \/ Recorded(q, uidToken)
      /\ q.uid \in Users /\ q.flag \in Flags
  BY <1>1, <1>3, StageSets DEF r
<1>5. Stages' /\ Carried'
  BY <1>1, <1>2, <1>4, StagesAfter
<1>6. ASSUME NEW u \in Users, NEW t \in Tokens, t \in held[u], token'[t].life = "expires"
      PROVE  t = uidToken[u]["app"]
  <2>1. CASE t # q.tok
    BY <1>3, <1>6, <2>1 DEF TokensOK, Revoked
  <2>2. CASE t = q.tok
    <3>1. ~New(q.tok, uidToken, held)
      BY <1>6, <2>2 DEF New
    <3>2. uidToken[q.uid][q.flag] # 0 /\ uidToken[q.uid][q.flag] = t
      BY <1>4, <2>2, <3>1 DEF Recorded
    <3>3. q.uid = u /\ q.flag = "app"
      BY <1>4, <1>6, <3>2 DEF TokensOK, Apart
    <3>4. QED BY <3>2, <3>3
  <2>3. QED BY <2>1, <2>2
<1>7. Revoked'
  BY <1>2, <1>6 DEF Revoked
<1>8. TokenTypes' /\ Numbered' /\ Apart'
  BY <1>2, <1>3 DEF TokensOK, TokenTypes, Numbered, Apart
<1>9. QED BY <1>5, <1>7, <1>8 DEF TokensOK

\* What is handed out is the recorded token of the app, or a new one that is
\* recorded with it, of a user who has no other.
Hands(hd, u, n) == [hd EXCEPT ![u] = hd[u] \cup {n}]

LEMMA HandsRecorded ==
  ASSUME TokensOK, NEW u \in Users, NEW n \in Nat, n # 0, n = uidToken[u]["app"],
         held' = Hands(held, u, n), token' = token, uidToken' = uidToken,
         identity' = identity, spent'.requests = spent.requests
  PROVE  TokenTypes' /\ Numbered' /\ Apart' /\ Revoked'
<1>0. "app" \in Flags
  BY DEF Flags
<1>1. /\ DOMAIN held' = Users
      /\ \A v \in Users : held'[v] = IF v = u THEN held[v] \cup {n} ELSE held[v]
      /\ held' \in [Users -> SUBSET Nat]
  BY DEF TokensOK, TokenTypes, Hands
<1>2. n <= spent.requests /\ 0 < n
  BY <1>0 DEF TokensOK, Numbered
<1>3. TokenTypes'
  BY <1>1 DEF TokensOK, TokenTypes
<1>4. Numbered'
  <2>1. ASSUME NEW v \in Users, NEW t \in held'[v]
        PROVE  0 < t /\ t <= spent.requests
    BY <1>1, <1>2, <2>1 DEF TokensOK, Numbered
  <2>2. \A v \in Users, f \in Flags : uidToken[v][f] <= spent.requests
    BY DEF TokensOK, Numbered
  <2>3. QED BY <2>1, <2>2 DEF Numbered
<1>5. Apart'
  <2>1. ASSUME NEW x \in Users, NEW v \in Users, NEW f \in Flags,
               uidToken[x][f] # 0, uidToken[x][f] \in held'[v]
        PROVE  x = v /\ f = "app"
    <3>1. CASE uidToken[x][f] \in held[v]
      BY <2>1, <3>1 DEF TokensOK, Apart
    <3>2. CASE uidToken[x][f] \notin held[v]
      <4>1. v = u /\ uidToken[x][f] = uidToken[u]["app"]
        BY <1>1, <2>1, <3>2
      <4>2. QED BY <1>0, <2>1, <4>1 DEF TokensOK, Apart
    <3>3. QED BY <3>1, <3>2
  <2>2. QED BY <2>1 DEF TokensOK, Apart
<1>6. Revoked'
  <2>1. ASSUME NEW v \in Users, NEW t \in Tokens, t \in held'[v],
               token[t].life = "expires"
        PROVE  t = uidToken[v]["app"]
    <3>1. t \in held[v] \/ (v = u /\ t = n)
      BY <1>1, <2>1
    <3>2. CASE t \in held[v]
      BY <2>1, <3>2 DEF TokensOK, Revoked
    <3>3. QED BY <3>1, <3>2
  <2>2. QED BY <2>1 DEF Revoked
<1>7. QED BY <1>3, <1>4, <1>5, <1>6

LEMMA HandOutIs ==
  ASSUME TokensOK, NEW r, r.uid \in Users
  PROVE  /\ r.flag = "app" /\ r.op \in {"login", "qr"} =>
              HandOut(r) = Hands(held, r.uid, r.tok)
         /\ ~(r.flag = "app" /\ r.op \in {"login", "qr"}) => HandOut(r) = held
BY DEF TokensOK, TokenTypes, HandOut, Hands

LEMMA IMTokens ==
  ASSUME AccountsInv, TokensOK, spent.overlaps = 0, NEW w \in Requests, IMToken(w)
  PROVE  TokensOK'
<1> DEFINE q == request[w]
<1>1. Due(w, "imToken")
  BY DEF IMToken
<1>2. /\ RequestOK(q) /\ q.todo # <<>> /\ Head(q.todo) = "imToken"
      /\ StageOK(q, token, uidToken, held) /\ q.uid \in Users /\ q.op # "none"
      /\ \A v \in Requests \ {w} : request[v].op = "none"
      /\ q.op \in Makers => q.tok \in Nat /\ q.tok <= spent.requests
  BY <1>1, CallIs
<1>3. DOMAIN token = Tokens /\ identity \in Users \cup {Nobody}
  BY DEF TokensOK, TokenTypes
<1>4. CASE Refuse(w)
  BY <1>1, <1>4, RefuseTokens
<1>5. CASE Done(w) /\ held' = held /\ UNCHANGED <<token, uidToken, identity, spent>>
  BY <1>1, <1>3, <1>5, CallTokens
<1>6. CASE /\ Done(w) /\ UNCHANGED <<token, uidToken, identity, spent>>
           /\ Len(q.todo) = 1 /\ held' = HandOut(q) /\ held' # held
  <2>1. /\ q.flag = "app" /\ q.op \in {"login", "qr"}
        /\ held' = Hands(held, q.uid, q.tok)
    BY <1>2, <1>6, HandOutIs
  <2>2. q.todo \in Seq(CallNames) /\ Len(q.todo) # 0
    BY <1>2, FurtherStage
  <2>3. q.op = "login"
    <3>1. q.op = "qr" => Rest(q.todo, CodeCalls)
      BY <1>2 DEF StageOK, CodeOK
    <3>2. q.op = "qr" => Len(q.todo) = 3
      BY <1>2, <2>2, <3>1, CodeStage
    <3>3. QED BY <1>6, <2>1, <3>2
  <2>4. q.tok # 0 /\ q.tok = uidToken[q.uid]["app"]
    BY <1>2, <1>6, <2>1, <2>3 DEF StageOK, LoginOK, Recorded
  <2>5. q.tok \in Nat
    BY <1>2, <2>3 DEF Makers
  <2>6. TokenTypes' /\ Numbered' /\ Apart' /\ Revoked'
    BY <1>2, <1>6, <2>1, <2>4, <2>5, HandsRecorded
  <2>7. Further(q) = Idle
    BY <1>6 DEF Further
  <2>8. Becomes(w, Idle)
    BY <1>6, <2>7 DEF Done, Becomes
  <2>9. Stages' /\ Carried'
    BY <1>2, <2>8, IdleIs, IdleStage, StagesAfter DEF Makers
  <2>10. QED BY <2>6, <2>9 DEF TokensOK
<1>7. QED BY <1>4, <1>5, <1>6 DEF IMToken, database, cache

LEMMA RecordsMakers ==
  ASSUME NEW r, RequestOK(r), r.todo # <<>>, Head(r.todo) = "setUidToken",
         NEW tk, NEW ut, NEW hd, StageOK(r, tk, ut, hd)
  PROVE  r.op \in Makers
<1>1. r.todo \in Seq(CallNames) /\ Len(r.todo) # 0 /\ r.op # "none"
  BY FurtherStage
<1>2. Has(r.todo, "setUidToken")
  BY <1>1 DEF Has
<1>3. QED BY <1>1, <1>2 DEF StageOK, OtherOK

\* A new token is recorded, and perhaps handed out: the app of its user holds
\* no other that expires.
LEMMA NewRecorded ==
  ASSUME TokensOK, NEW q, q.uid \in Users, q.flag \in Flags, q.op \in Makers,
         q.tok \in Nat, q.tok <= spent.requests,
         uidToken' = [uidToken EXCEPT ![q.uid][q.flag] = q.tok],
         UNCHANGED <<token, identity, spent>>,
         New(q.tok, uidToken, held),
         q.op = "qr" => uidToken[q.uid][q.flag] = 0,
         q.op = "login" /\ q.flag = "app" => Cleared(q.uid, token, held),
         q.op = "adminLogin" => q.flag = "web",
         \/ held' = held
         \/ q.op = "qr" /\ q.flag = "app" /\ Len(q.todo) = 1
            /\ held' = Hands(held, q.uid, q.tok)
  PROVE  TokenTypes' /\ Numbered' /\ Apart' /\ Revoked'
<1> DEFINE n == q.tok
<1>1. /\ uidToken \in [Users -> [Flags -> Nat]] /\ held \in [Users -> SUBSET Nat]
      /\ "app" \in Flags
  BY DEF TokensOK, TokenTypes, Flags
<1>2. /\ uidToken' \in [Users -> [Flags -> Nat]]
      /\ \A u \in Users, f \in Flags :
           uidToken'[u][f] = IF u = q.uid /\ f = q.flag THEN n ELSE uidToken[u][f]
  BY <1>1
<1>3. n # 0 /\ \A u \in Users : n \notin held[u] /\ \A f \in Flags : uidToken[u][f] # n
  BY DEF New
<1>4. /\ held' \in [Users -> SUBSET Nat]
      /\ \A u \in Users, t \in Nat :
           t \in held'[u] =>
             \/ t \in held[u] /\ t # n
             \/ t = n /\ u = q.uid /\ q.flag = "app"
  <2>1. CASE held' = held
    BY <1>1, <1>3, <2>1
  <2>2. CASE q.flag = "app" /\ held' = Hands(held, q.uid, n)
    BY <1>1, <1>3, <2>2 DEF Hands
  <2>3. QED BY <2>1, <2>2
<1> HIDE DEF n
<1>5. n \in Nat /\ 0 < n /\ n <= spent.requests
  BY <1>3 DEF n
<1>6. TokenTypes'
  BY <1>2, <1>4 DEF TokensOK, TokenTypes
<1>7. Numbered'
  <2>1. ASSUME NEW u \in Users, NEW t \in held'[u]
        PROVE  0 < t /\ t <= spent.requests
    <3>1. t \in Nat
      BY <1>4, <2>1
    <3>2. t \in held[u] \/ t = n
      BY <1>4, <2>1, <3>1
    <3>3. QED BY <1>5, <3>2 DEF TokensOK, Numbered
  <2>2. ASSUME NEW u \in Users, NEW f \in Flags
        PROVE  uidToken'[u][f] <= spent.requests
    BY <1>2, <1>5 DEF TokensOK, Numbered
  <2>3. QED BY <2>1, <2>2 DEF Numbered
<1>8. Apart'
  <2>1. ASSUME NEW u \in Users, NEW v \in Users, NEW f \in Flags, NEW g \in Flags,
               uidToken'[u][f] # 0, uidToken'[u][f] = uidToken'[v][g]
        PROVE  u = v /\ f = g
    <3>1. CASE u = q.uid /\ f = q.flag
      BY <1>2, <1>3, <2>1, <3>1
    <3>2. CASE v = q.uid /\ g = q.flag
      BY <1>2, <1>3, <2>1, <3>2
    <3>3. CASE ~(u = q.uid /\ f = q.flag) /\ ~(v = q.uid /\ g = q.flag)
      <4>1. uidToken[u][f] # 0 /\ uidToken[u][f] = uidToken[v][g]
        BY <1>2, <2>1, <3>3
      <4>2. QED BY <4>1 DEF TokensOK, Apart
    <3>4. QED BY <3>1, <3>2, <3>3
  <2>2. ASSUME NEW u \in Users, NEW v \in Users, NEW f \in Flags,
               uidToken'[u][f] # 0, uidToken'[u][f] \in held'[v]
        PROVE  u = v /\ f = "app"
    <3>1. uidToken'[u][f] \in Nat
      BY <1>2
    <3>2. CASE u = q.uid /\ f = q.flag
      <4>1. uidToken'[u][f] = n
        BY <1>2, <3>2
      <4>2. v = q.uid /\ q.flag = "app"
        BY <1>4, <2>2, <3>1, <4>1
      <4>3. QED BY <3>2, <4>2
    <3>3. CASE ~(u = q.uid /\ f = q.flag)
      <4>1. uidToken'[u][f] = uidToken[u][f] /\ uidToken[u][f] # n
        BY <1>2, <1>3, <3>3
      <4>2. uidToken[u][f] \in held[v]
        BY <1>4, <2>2, <3>1, <4>1
      <4>3. QED BY <2>2, <4>1, <4>2 DEF TokensOK, Apart
    <3>4. QED BY <3>2, <3>3
  <2>3. QED BY <2>1, <2>2 DEF Apart
<1>9. Revoked'
  <2>1. ASSUME NEW u \in Users, NEW t \in Tokens, t \in held'[u],
               token[t].life = "expires"
        PROVE  t = uidToken'[u]["app"]
    <3>1. t \in Nat /\ t # 0
      BY AccountsAssumption DEF Tokens
    <3>2. CASE t = n /\ u = q.uid /\ q.flag = "app"
      BY <1>1, <1>2, <3>2
    <3>3. CASE t \in held[u]
      <4>1. t = uidToken[u]["app"]
        BY <2>1, <3>3 DEF TokensOK, Revoked
      <4>2. CASE u = q.uid /\ q.flag = "app"
        <5>1. q.op # "login"
          BY <2>1, <3>3, <4>2 DEF Cleared
        <5>2. q.op # "qr"
          BY <3>1, <4>1, <4>2
        <5>3. q.op # "adminLogin"
          BY <4>2
        <5>4. QED BY <5>1, <5>2, <5>3 DEF Makers
      <4>3. CASE ~(u = q.uid /\ q.flag = "app")
        BY <1>1, <1>2, <4>1, <4>3
      <4>4. QED BY <4>2, <4>3
    <3>4. QED BY <1>4, <2>1, <3>1, <3>2, <3>3
  <2>2. QED BY <2>1 DEF Revoked
<1>10. QED BY <1>6, <1>7, <1>8, <1>9

LEMMA RecordTokens ==
  ASSUME AccountsInv, TokensOK, spent.overlaps = 0, NEW w \in Requests, SetUidToken(w)
  PROVE  TokensOK'
<1> DEFINE q == request[w]
           r == Further(q)
<1>1. /\ RequestOK(q) /\ q.todo # <<>> /\ Head(q.todo) = "setUidToken"
      /\ StageOK(q, token, uidToken, held) /\ q.uid \in Users /\ q.flag \in Flags
      /\ \A v \in Requests \ {w} : request[v].op = "none"
      /\ q.op \in Makers => q.tok \in Nat /\ q.tok <= spent.requests
      /\ RequestOK(r) /\ Becomes(w, r)
      /\ r.op \in Makers => r.tok \in Nat /\ r.tok <= spent.requests
  BY CallIs DEF SetUidToken, Done, Becomes
<1>2. UNCHANGED <<token, identity, spent>>
  BY DEF SetUidToken, database
<1>3. /\ uidToken' = [uidToken EXCEPT ![q.uid][q.flag] = q.tok]
      /\ held' = IF Len(q.todo) = 1 THEN HandOut(q) ELSE held
  BY DEF SetUidToken
<1>4. uidToken \in [Users -> [Flags -> Nat]] /\ held \in [Users -> SUBSET Nat]
  BY DEF TokensOK, TokenTypes
<1>5. q.op \in Makers
  BY <1>1, RecordsMakers
<1>6. q.tok \in Nat /\ q.tok <= spent.requests
  BY <1>1, <1>5
<1>7. /\ \/ New(q.tok, uidToken, held) /\ (q.op = "qr" => uidToken[q.uid][q.flag] = 0)
         \/ q.op # "adminLogin" /\ Recorded(q, uidToken)
      /\ q.op = "login" /\ q.flag = "app" =>
           New(q.tok, uidToken, held) /\ Cleared(q.uid, token, held)
      /\ q.op = "adminLogin" => q.flag = "web"
      /\ q.op = "login" => Len(q.todo) # 1
      /\ StageOK(r, token, uidToken', held)
      /\ Len(q.todo) = 1 => r = Idle
  BY <1>1, <1>3, <1>4, <1>6, StageRecords
<1>8. \/ held' = held
      \/ q.op = "qr" /\ q.flag = "app" /\ Len(q.todo) = 1
         /\ held' = Hands(held, q.uid, q.tok)
  BY <1>1, <1>3, <1>7, HandOutIs
<1> HIDE DEF r
<1>9. StageOK(r, token', uidToken', held')
  <2>1. CASE held' = held
    BY <1>2, <1>7, <2>1
  <2>2. CASE Len(q.todo) = 1
    BY <1>7, <2>2, IdleStage
  <2>3. QED BY <1>8, <2>1, <2>2
<1>10. Stages' /\ Carried'
  BY <1>1, <1>2, <1>9, StagesAfter
<1>11. CASE Recorded(q, uidToken)
  <2>1. uidToken' = uidToken /\ q.tok # 0
    BY <1>3, <1>4, <1>11 DEF Recorded
  <2>2. CASE held' = held
    <3>1. TokenTypes' /\ Numbered' /\ Apart' /\ Revoked'
      BY <1>2, <2>1, <2>2 DEF TokensOK, TokenTypes, Numbered, Apart, Revoked
    <3>2. QED BY <1>10, <3>1 DEF TokensOK
  <2>3. CASE q.flag = "app" /\ held' = Hands(held, q.uid, q.tok)
    <3>1. q.tok = uidToken[q.uid]["app"]
      BY <1>11, <2>3 DEF Recorded
    <3>2. TokenTypes' /\ Numbered' /\ Apart' /\ Revoked'
      BY <1>1, <1>2, <1>6, <2>1, <2>3, <3>1, HandsRecorded
    <3>3. QED BY <1>10, <3>2 DEF TokensOK
  <2>4. QED BY <1>8, <2>2, <2>3
<1>12. CASE ~Recorded(q, uidToken)
  <2>1. /\ New(q.tok, uidToken, held)
        /\ q.op = "qr" => uidToken[q.uid][q.flag] = 0
        /\ q.op = "login" /\ q.flag = "app" => Cleared(q.uid, token, held)
    BY <1>7, <1>12
  <2>2. TokenTypes' /\ Numbered' /\ Apart' /\ Revoked'
    BY <1>1, <1>2, <1>3, <1>5, <1>6, <1>7, <1>8, <2>1, NewRecorded
  <2>3. QED BY <1>10, <2>2 DEF TokensOK
<1>13. QED BY <1>11, <1>12

-----------------------------------------------------------------------------
(***************************************************************************)
(* The beginnings and the tokens                                           *)
(***************************************************************************)

\* A list of calls that neither drops nor records a token, and writes none that
\* it has read.
Harmless(todo) ==
  /\ ~Has(todo, "dropOldToken") /\ ~Has(todo, "setUidToken")
  /\ Has(todo, "setToken") => ~Has(todo, "oldToken")

LEMMA WholePlan ==
  ASSUME NEW plan, Len(plan) \in Nat
  PROVE  Rest(plan, plan)
BY DEF Rest

\* The calls of a request that begins are all to come.
LEMMA StageStarts ==
  ASSUME NEW r, NEW tk, NEW ut, NEW hd, r.uid \in Users, r.flag \in Flags,
         r.op \in Makers \/ Has(r.todo, "setToken") => New(r.tok, ut, hd),
         r.op = "login" => r.todo = LoginCalls,
         r.op = "qr" => r.todo = CodeCalls,
         r.op = "adminLogin" => r.todo = AdminCalls /\ r.flag = "web",
         r.op \notin Makers => Harmless(r.todo)
  PROVE  StageOK(r, tk, ut, hd)
<1>1. CASE r.op = "login"
  <2>1. Len(LoginCalls) = 6
    BY DEF LoginCalls
  <2>2. Rest(r.todo, LoginCalls) /\ Len(r.todo) = 6 /\ New(r.tok, ut, hd)
    BY <1>1, <2>1, WholePlan DEF Makers
  <2>3. /\ Len(r.todo) # 1 /\ Len(r.todo) # 4 /\ ~(Len(r.todo) < 4)
    BY <2>2
  <2>4. LoginOK(r, tk, ut, hd)
    BY <2>2, <2>3 DEF LoginOK
  <2>5. QED BY <1>1, <2>4 DEF StageOK, Makers
<1>2. CASE r.op = "qr"
  <2>1. Len(CodeCalls) = 4
    BY DEF CodeCalls
  <2>2. Rest(r.todo, CodeCalls) /\ Len(r.todo) = 4 /\ New(r.tok, ut, hd)
    BY <1>2, <2>1, WholePlan DEF Makers
  <2>3. ~(Len(r.todo) < 4)
    BY <2>2
  <2>4. CodeOK(r, ut, hd)
    BY <2>2, <2>3 DEF CodeOK
  <2>5. QED BY <1>2, <2>4 DEF StageOK, Makers
<1>3. CASE r.op = "adminLogin"
  <2>1. Len(AdminCalls) = 2
    BY DEF AdminCalls
  <2>2. Rest(r.todo, AdminCalls) /\ New(r.tok, ut, hd)
    BY <1>3, <2>1, WholePlan DEF Makers
  <2>3. QED BY <1>3, <2>2 DEF StageOK, Makers
<1>4. CASE r.op \notin Makers
  BY <1>4 DEF StageOK, OtherOK, Harmless, Makers
<1>5. QED BY <1>1, <1>2, <1>3, <1>4 DEF Makers

LEMMA CallingHas ==
  ASSUME NEW r, DOMAIN r = Fields, NEW todo
  PROVE  /\ Calling(r, todo).flag = r.flag
         /\ Calling(r, todo).tok = IF r.tok = 0 THEN spent.requests + 1 ELSE r.tok
BY DEF Calling, Fields

LEMMA OfHas ==
  ASSUME NEW op, NEW u, NEW f, NEW d
  PROVE  Of(op, u, f, d).flag = f /\ Of(op, u, f, d).tok = 0
BY DEF Of, Idle, Fields

\* The bounds are counted up: a request that begins beside another is not
\* forgotten.
LEMMA StartCounts ==
  ASSUME AccountsInv, NEW w \in Requests, NEW r, NEW todo, Start(w, r, todo)
  PROVE  /\ spent'.requests = spent.requests + 1
         /\ spent'.overlaps = 0 => spent.overlaps = 0 /\ \A v \in Requests : ~Active(v)
<1> DEFINE overlaps == \E v \in Requests : Active(v)
           m == IF overlaps THEN spent.overlaps + 1 ELSE spent.overlaps
           h == [spent EXCEPT !.requests = spent.requests + 1]
           s == [h EXCEPT !.overlaps = m]
<1>1. spent' = s
  BY DEF Start
<1>2. /\ spent \in [requests : Nat, overlaps : Nat, faults : Nat]
      /\ spent.overlaps \in Nat /\ spent.requests \in Nat
  BY DEF AccountsInv, RowsOK
<1> HIDE DEF m
<1>3. h.requests = spent.requests + 1 /\ DOMAIN h = {"requests", "overlaps", "faults"}
  BY <1>2
<1> HIDE DEF h
<1>4. s.requests = h.requests /\ s.overlaps = m
  BY <1>3
<1> HIDE DEF s
<1>5. m = 0 => ~overlaps /\ spent.overlaps = 0
  BY <1>2 DEF m
<1>6. QED BY <1>1, <1>3, <1>4, <1>5

\* A request that begins alone: the others are over, and its token is new.
LEMMA StartTokens ==
  ASSUME AccountsInv, TokensInv, NEW w \in Requests, NEW r, NEW todo, Start(w, r, todo),
         DOMAIN r = Fields, r.op # "none", CallsOK(r.op, todo), Len(todo) # 0,
         r.uid \in Users, r.flag \in Flags,
         r.tok = 0 \/ (r.op \notin Makers /\ ~Has(todo, "setToken")),
         r.op = "login" => todo = LoginCalls,
         r.op = "qr" => todo = CodeCalls,
         r.op = "adminLogin" => todo = AdminCalls /\ r.flag = "web",
         r.op \notin Makers => Harmless(todo)
  PROVE  TokensInv'
<1> SUFFICES ASSUME spent'.overlaps = 0 PROVE TokensOK'
  BY DEF TokensInv
<1> DEFINE n == Calling(r, todo)
<1>1. /\ Becomes(w, n)
      /\ UNCHANGED <<token, uidToken, held, identity>>
  BY DEF Start, Becomes, database, cache
<1>2. /\ DOMAIN n = Fields /\ n.op = r.op /\ n.todo = todo /\ n.uid = r.uid
      /\ n.flag = r.flag
      /\ n.tok = IF r.tok = 0 THEN spent.requests + 1 ELSE r.tok
  BY CallingIs, CallingHas
<1> HIDE DEF n
<1>3. RequestOK(n)
  BY <1>2 DEF RequestOK
<1>4. spent.requests \in Nat
  BY DEF AccountsInv, RowsOK
<1>5. /\ spent.overlaps = 0 /\ \A v \in Requests : ~Active(v)
      /\ spent'.requests = spent.requests + 1
  BY StartCounts
<1>6. TokensOK /\ \A v \in Requests \ {w} : request[v].op = "none"
  BY <1>5 DEF TokensInv, Active
<1>8. New(spent.requests + 1, uidToken, held)
  <2>1. /\ \A u \in Users : \A t \in held[u] : t <= spent.requests
        /\ \A u \in Users : \A f \in Flags : uidToken[u][f] <= spent.requests
    BY <1>6 DEF TokensOK, Numbered
  <2>2. ~(spent.requests + 1 <= spent.requests) /\ spent.requests + 1 # 0
    BY <1>4
  <2>3. QED BY <2>1, <2>2 DEF New
<1>9. n.op \in Makers \/ Has(n.todo, "setToken") => n.tok = spent.requests + 1
  BY <1>2
<1>10. StageOK(n, token', uidToken', held')
  BY <1>1, <1>2, <1>8, <1>9, StageStarts
<1>11. n.op \in Makers => n.tok \in Nat /\ n.tok <= spent'.requests
  BY <1>4, <1>5, <1>9
<1>12. Stages' /\ Carried'
  BY <1>1, <1>3, <1>6, <1>10, <1>11, StagesAfter
<1>13. Numbered'
  <2>1. ASSUME NEW u \in Users
        PROVE  /\ \A t \in held[u] : 0 < t /\ t <= spent.requests + 1
               /\ \A f \in Flags : uidToken[u][f] <= spent.requests + 1
    <3>1. /\ \A t \in held[u] : t \in Nat /\ 0 < t /\ t <= spent.requests
          /\ \A f \in Flags : uidToken[u][f] \in Nat /\ uidToken[u][f] <= spent.requests
      BY <1>6 DEF TokensOK, TokenTypes, Numbered
    <3>2. \A t \in Nat : t <= spent.requests => t <= spent.requests + 1
      BY <1>4
    <3>3. QED BY <3>1, <3>2
  <2>2. QED BY <1>1, <1>5, <2>1 DEF Numbered
<1>14. TokenTypes' /\ Apart' /\ Revoked'
  BY <1>1, <1>6 DEF TokensOK, TokenTypes, Apart, Revoked
<1>15. QED BY <1>12, <1>13, <1>14 DEF TokensOK

LEMMA HarmlessLists ==
  /\ Harmless(InsertUser) /\ Harmless(CreateUser) /\ Harmless(<<"insert">>)
  /\ Harmless(SignUp) /\ Harmless(SignUpAgain) /\ Harmless(<<"pending">>)
  /\ Harmless(<<"device", "setToken", "imToken">>)
  /\ Harmless(<<"destroyRow", "freeIdentities", "quit">>)
  /\ Harmless(<<"destroyRow", "oldToken", "forgetToken">>)
  /\ Harmless(<<"oldToken", "forgetToken">>)
  /\ Harmless(<<"status", "ban", "quit">>)
  /\ Harmless(<<"renameToken">>) /\ ~Has(<<"renameToken">>, "setToken")
<1>1. Harmless(InsertUser) /\ Harmless(CreateUser) /\ Harmless(<<"insert">>)
  BY DEF Harmless, Has, InsertUser, CreateUser
<1>2. Harmless(SignUp) /\ Harmless(SignUpAgain) /\ Harmless(<<"pending">>)
  BY DEF Harmless, Has, SignUp, SignUpAgain
<1>3. /\ Harmless(<<"device", "setToken", "imToken">>)
      /\ Harmless(<<"destroyRow", "freeIdentities", "quit">>)
      /\ Harmless(<<"destroyRow", "oldToken", "forgetToken">>)
  BY DEF Harmless, Has
<1>4. /\ Harmless(<<"oldToken", "forgetToken">>)
      /\ Harmless(<<"status", "ban", "quit">>)
      /\ Harmless(<<"renameToken">>) /\ ~Has(<<"renameToken">>, "setToken")
  BY DEF Harmless, Has
<1>5. QED BY <1>1, <1>2, <1>3, <1>4

\* A request that brings no token and records none.
LEMMA HarmlessStart ==
  ASSUME AccountsInv, TokensInv, NEW w \in Requests, NEW r, NEW todo, Start(w, r, todo),
         DOMAIN r = Fields, r.op \notin Makers \cup {"none"}, CallsOK(r.op, todo),
         Len(todo) # 0, r.uid \in Users, r.flag \in Flags,
         r.tok = 0 \/ ~Has(todo, "setToken"), Harmless(todo)
  PROVE  TokensInv'
BY StartTokens DEF Makers

LEMMA PlainOfTokens ==
  ASSUME AccountsInv, TokensInv, NEW w \in Requests, NEW op, NEW u \in Users,
         NEW f \in Flags, NEW d, NEW todo, Start(w, Of(op, u, f, d), todo),
         op \notin Makers \cup {"none", "liftBan"}, Plain(todo), Harmless(todo)
  PROVE  TokensInv'
<1>1. /\ DOMAIN Of(op, u, f, d) = Fields /\ Of(op, u, f, d).op = op
      /\ Of(op, u, f, d).uid = u /\ Of(op, u, f, d).flag = f /\ Of(op, u, f, d).tok = 0
  BY OfIs, OfHas
<1>2. CallsOK(op, todo) /\ Len(todo) # 0
  BY DEF Plain
<1>3. QED BY <1>1, <1>2, HarmlessStart

LEMMA ExecLoginTokens ==
  ASSUME AccountsInv, TokensInv, NEW w \in Requests, NEW u \in Users, NEW f \in Flags,
         NEW d, ExecLogin(w, u, f, d)
  PROVE  TokensInv'
<1>1. CASE Start(w, Of("pending", u, f, d), <<"pending">>)
  BY <1>1, PlainLists, HarmlessLists, PlainOfTokens DEF Makers
<1>2. CASE Start(w, Of("login", u, f, d), LoginCalls)
  <2> DEFINE r == Of("login", u, f, d)
  <2>1. /\ DOMAIN r = Fields /\ r.op = "login" /\ r.uid = u /\ r.flag = f /\ r.tok = 0
    BY OfIs, OfHas
  <2> HIDE DEF r
  <2>2. CallsOK("login", LoginCalls) /\ Len(LoginCalls) # 0
    BY PlainLists DEF Plain
  <2>3. Start(w, r, LoginCalls)
    BY <1>2 DEF r
  <2>4. QED BY <2>1, <2>2, <2>3, StartTokens DEF Makers
<1>3. QED BY <1>1, <1>2 DEF ExecLogin

LEMMA RegistrationTokens ==
  ASSUME AccountsInv, TokensInv, NEW w \in Requests, NEW u \in Users, Registration(w, u)
  PROVE  TokensInv'
<1>1. ASSUME NEW way \in {"phone", "name", "wx", "github", "gitee", "admin"},
             NEW f \in Flags, NEW d, NEW todo, Plain(todo), Harmless(todo),
             Start(w, Of(way, u, f, d), todo)
      PROVE  TokensInv'
  <2>1. way \notin Makers \cup {"none", "liftBan"}
    BY DEF Makers
  <2>2. QED BY <1>1, <2>1, PlainOfTokens
<1>2. "app" \in Flags /\ "web" \in Flags
  BY DEF Flags
<1>3. CASE AddUser(w, u) \/ AddAdminUser(w, u)
  BY <1>1, <1>2, <1>3, PlainLists, HarmlessLists DEF AddUser, AddAdminUser
<1>4. CASE GithubRegister(w, u) \/ GiteeRegister(w, u)
  BY <1>1, <1>2, <1>4, PlainLists, HarmlessLists
     DEF GithubRegister, GiteeRegister, RegisterThird
<1>5. ASSUME NEW f \in Flags, NEW d, \/ RegisterPhone(w, u, f, d)
                                     \/ UsernameRegister(w, u, f, d)
                                     \/ WxRegister(w, u, f, d)
      PROVE  TokensInv'
  BY <1>1, <1>5, PlainLists, HarmlessLists
     DEF RegisterPhone, UsernameRegister, WxRegister, RegisterThird, Register
<1>6. QED BY <1>3, <1>4, <1>5 DEF Registration

LEMMA LoginOfTokens ==
  ASSUME AccountsInv, TokensInv, NEW w \in Requests, NEW u \in Users, LoginOf(w, u)
  PROVE  TokensInv'
<1>1. "app" \in Flags /\ "web" \in Flags
  BY DEF Flags
<1>2. CASE GithubLogin(w, u) \/ GiteeLogin(w, u)
  BY <1>1, <1>2, ExecLoginTokens DEF GithubLogin, GiteeLogin
<1>3. CASE LoginCheckPhone(w, u)
  <2>1. Start(w, Of("check", u, "app", device[u].pending),
              <<"device", "setToken", "imToken">>)
    BY <1>3 DEF LoginCheckPhone
  <2>2. QED BY <1>1, <2>1, PlainLists, HarmlessLists, PlainOfTokens DEF Makers
<1>4. CASE AdminLogin(w, u)
  <2> DEFINE r == Of("adminLogin", u, "web", Nobody)
  <2>1. Start(w, r, AdminCalls)
    BY <1>4 DEF AdminLogin, AdminCalls
  <2>2. DOMAIN r = Fields /\ r.op = "adminLogin" /\ r.uid = u /\ r.flag = "web" /\ r.tok = 0
    BY OfIs, OfHas
  <2> HIDE DEF r
  <2>3. CallsOK("adminLogin", AdminCalls) /\ Len(AdminCalls) # 0
    BY PlainLists DEF Plain, AdminCalls
  <2>4. QED BY <1>1, <2>1, <2>2, <2>3, StartTokens DEF Makers
<1>5. ASSUME NEW f \in Flags, LoginWithAuthCode(w, u, f) PROVE TokensInv'
  <2> DEFINE r == Of("qr", u, f, Nobody)
  <2>1. Start(w, r, CodeCalls)
    BY <1>5 DEF LoginWithAuthCode, CodeCalls
  <2>2. DOMAIN r = Fields /\ r.op = "qr" /\ r.uid = u /\ r.flag = f /\ r.tok = 0
    BY OfIs, OfHas
  <2> HIDE DEF r
  <2>3. CallsOK("qr", CodeCalls) /\ Len(CodeCalls) # 0
    BY PlainLists DEF Plain, CodeCalls
  <2>4. QED BY <2>1, <2>2, <2>3, StartTokens DEF Makers
<1>6. ASSUME NEW f \in Flags, NEW d,
             Login(w, u, f, d) \/ UsernameLogin(w, u, f, d) \/ WxLogin(w, u, f, d)
      PROVE  TokensInv'
  BY <1>6, ExecLoginTokens DEF Login, UsernameLogin, WxLogin
<1>7. QED BY <1>2, <1>3, <1>4, <1>5, <1>6 DEF LoginOf

LEMMA AdministrationTokens ==
  ASSUME AccountsInv, TokensInv, NEW w \in Requests, NEW u \in Users, Administration(w, u)
  PROVE  TokensInv'
<1>1. "app" \in Flags /\ "web" \in Flags
  BY DEF Flags
<1>2. CASE DestroyAccount(w, u)
  <2> DEFINE r == Of("destroy", u, "app", Nobody)
             todo == <<"destroyRow", "freeIdentities", "quit">>
  <2>1. Start(w, r, todo)
    BY <1>2 DEF DestroyAccount
  <2>2. DOMAIN r = Fields /\ r.op = "destroy" /\ r.uid = u /\ r.flag = "app" /\ r.tok = 0
    BY OfIs, OfHas
  <2>3. CallsOK("destroy", todo) /\ Len(todo) # 0 /\ Harmless(todo)
    BY OtherLists, HarmlessLists
  <2> HIDE DEF r, todo
  <2>4. QED BY <1>1, <2>1, <2>2, <2>3, HarmlessStart DEF Makers
<1>3. CASE DeleteAdminUsers(w, u)
  <2>1. Start(w, Of("deleteAdmin", u, "web", Nobody),
              <<"destroyRow", "oldToken", "forgetToken">>)
    BY <1>3 DEF DeleteAdminUsers
  <2>2. QED BY <1>1, <2>1, PlainLists, HarmlessLists, PlainOfTokens DEF Makers
<1>4. CASE AdminUpdatePwd(w, u)
  <2>1. Start(w, Of("adminPwd", u, "web", Nobody), <<"oldToken", "forgetToken">>)
    BY <1>4 DEF AdminUpdatePwd
  <2>2. QED BY <1>1, <2>1, PlainLists, HarmlessLists, PlainOfTokens DEF Makers
<1>5. ASSUME NEW on \in BOOLEAN, LiftBanUser(w, u, on) PROVE TokensInv'
  <2> DEFINE b == Of("liftBan", u, "app", Nobody)
             r == [b EXCEPT !.on = on]
             todo == <<"status", "ban", "quit">>
  <2>1. Start(w, r, todo)
    BY <1>5 DEF LiftBanUser
  <2>2. DOMAIN b = Fields /\ b.op = "liftBan" /\ b.uid = u /\ b.flag = "app" /\ b.tok = 0
    BY OfIs, OfHas
  <2>3. CallsOK("liftBan", todo) /\ Len(todo) # 0 /\ Harmless(todo)
    BY OtherLists, HarmlessLists
  <2> HIDE DEF b, todo
  <2>4. DOMAIN r = Fields /\ r.op = "liftBan" /\ r.uid = u /\ r.flag = "app" /\ r.tok = 0
    BY <2>2 DEF Fields
  <2> HIDE DEF r
  <2>5. QED BY <1>1, <2>1, <2>3, <2>4, HarmlessStart DEF Makers
<1>6. ASSUME NEW t \in Tokens, UpdateName(w, u, t) PROVE TokensInv'
  <2> DEFINE b == Of("rename", u, "app", Nobody)
             r == [b EXCEPT !.tok = t]
             todo == <<"renameToken">>
  <2>1. Start(w, r, todo)
    BY <1>6 DEF UpdateName
  <2>2. DOMAIN b = Fields /\ b.op = "rename" /\ b.uid = u /\ b.flag = "app"
    BY OfIs, OfHas
  <2>3. CallsOK("rename", todo) /\ Len(todo) # 0 /\ Harmless(todo) /\ ~Has(todo, "setToken")
    BY PlainLists, HarmlessLists DEF Plain
  <2> HIDE DEF b, todo
  <2>4. DOMAIN r = Fields /\ r.op = "rename" /\ r.uid = u /\ r.flag = "app"
    BY <2>2 DEF Fields
  <2> HIDE DEF r
  <2>5. QED BY <1>1, <2>1, <2>3, <2>4, HarmlessStart DEF Makers
<1>7. QED BY <1>2, <1>3, <1>4, <1>5, <1>6 DEF Administration

LEMMA GoogleLoginTokens ==
  ASSUME AccountsInv, TokensInv, NEW w \in Requests, NEW d, GoogleLogin(w, d)
  PROVE  TokensInv'
<1>1. "app" \in Flags
  BY DEF Flags
<1>2. ASSUME identity # Nobody, ExecLogin(w, identity, "app", d) PROVE TokensInv'
  <2>1. CASE identity \in Users
    BY <1>1, <1>2, <2>1, ExecLoginTokens
  <2>2. CASE identity \notin Users
    <3>1. spent.overlaps # 0
      BY <1>2, <2>2 DEF TokensInv, TokensOK, TokenTypes
    <3>2. spent'.overlaps # 0
      BY <1>2, <3>1, StartCounts DEF ExecLogin
    <3>3. QED BY <3>2 DEF TokensInv
  <2>3. QED BY <2>1, <2>2
<1>3. ASSUME NEW u \in Users, NEW todo, todo \in {SignUp, SignUpAgain},
             Start(w, Of("google", u, "app", d), todo)
      PROVE  TokensInv'
  <2> DEFINE r == Of("google", u, "app", d)
  <2>1. DOMAIN r = Fields /\ r.op = "google" /\ r.uid = u /\ r.flag = "app" /\ r.tok = 0
    BY OfIs, OfHas
  <2>2. CallsOK("google", todo) /\ Len(todo) # 0 /\ Harmless(todo)
    BY <1>3, OtherLists, HarmlessLists
  <2>3. Start(w, r, todo)
    BY <1>3
  <2> HIDE DEF r
  <2>4. QED BY <1>1, <2>1, <2>2, <2>3, HarmlessStart DEF Makers
<1>4. QED BY <1>2, <1>3 DEF GoogleLogin

-----------------------------------------------------------------------------
(***************************************************************************)
(* What happens beside the requests, and the tokens                        *)
(***************************************************************************)

\* No token, request or identity moves.
LEMMA StillTokens ==
  ASSUME AccountsInv, TokensInv, UNCHANGED <<token, uidToken, held, identity, request>>,
         spent'.overlaps = spent.overlaps, spent'.requests \in Nat,
         spent.requests <= spent'.requests
  PROVE  TokensInv'
<1> SUFFICES ASSUME spent.overlaps = 0 PROVE TokensOK'
  BY DEF TokensInv
<1>1. TokensOK
  BY DEF TokensInv
<1>2. spent.requests \in Nat
  BY DEF AccountsInv, RowsOK
<1>3. \A n \in Nat : n <= spent.requests => n <= spent'.requests
  BY <1>2
<1>4. Numbered'
  <2>1. \A u \in Users :
          /\ \A t \in held[u] : t \in Nat /\ 0 < t /\ t <= spent.requests
          /\ \A f \in Flags : uidToken[u][f] \in Nat /\ uidToken[u][f] <= spent.requests
    BY <1>1 DEF TokensOK, TokenTypes, Numbered
  <2>2. QED BY <1>3, <2>1 DEF Numbered
<1>5. Carried'
  BY <1>1, <1>3 DEF TokensOK, Carried
<1>6. TokenTypes' /\ Apart' /\ Revoked' /\ Stages'
  BY <1>1 DEF TokensOK, TokenTypes, Apart, Revoked, Stages
<1>7. QED BY <1>4, <1>5, <1>6 DEF TokensOK

\* A token and its record expire together.
LEMMA ExpireTokens ==
  ASSUME AccountsInv, TokensInv, NEW n \in Tokens, Expire(n)
  PROVE  TokensInv'
<1> SUFFICES ASSUME spent.overlaps = 0 PROVE TokensOK'
  BY DEF TokensInv, Expire
<1>1. TokensOK
  BY DEF TokensInv
<1>2. /\ UNCHANGED <<held, identity, request, spent>>
      /\ \A w \in Requests : request[w].op = "none"
  BY DEF Expire, Quiet, Active, database
<1>3. /\ DOMAIN token' = Tokens
      /\ \A t \in Tokens : t # n => token'[t] = token[t]
      /\ token'[n].life # "expires"
  <2>1. NoToken.life # "expires"
    BY DEF NoToken
  <2>2. DOMAIN token = Tokens
    BY <1>1 DEF TokensOK, TokenTypes
  <2>3. token' = [token EXCEPT ![n] = IF token[n].life = "expires" THEN NoToken ELSE token[n]]
    BY DEF Expire
  <2>4. QED BY <2>1, <2>2, <2>3
<1>4. /\ uidToken' \in [Users -> [Flags -> Nat]]
      /\ \A u \in Users, f \in Flags :
           uidToken'[u][f] = IF uidToken[u][f] = n THEN 0 ELSE uidToken[u][f]
  <2>1. uidToken \in [Users -> [Flags -> Nat]]
    BY <1>1 DEF TokensOK, TokenTypes
  <2>2. uidToken' = [u \in Users |-> [f \in Flags |->
                       IF uidToken[u][f] = n THEN 0 ELSE uidToken[u][f]]]
    BY DEF Expire
  <2>3. QED BY <2>1, <2>2
<1>5. TokenTypes' /\ Stages' /\ Carried'
  BY <1>1, <1>2, <1>3, <1>4 DEF TokensOK, TokenTypes, Stages, StageOK, Carried, Makers
<1>6. Numbered'
  <2>1. 0 <= spent.requests
    BY DEF AccountsInv, RowsOK
  <2>2. QED BY <1>1, <1>2, <1>4, <2>1 DEF TokensOK, Numbered
<1>7. \A u \in Users, f \in Flags :
        uidToken'[u][f] # 0 => uidToken'[u][f] = uidToken[u][f]
  BY <1>4
<1>8. Apart'
  BY <1>1, <1>2, <1>7 DEF TokensOK, Apart
<1>9. ASSUME NEW u \in Users, NEW t \in Tokens, t \in held[u], token'[t].life = "expires"
      PROVE  t = uidToken'[u]["app"]
  <2>1. t # n /\ token[t].life = "expires"
    BY <1>3, <1>9
  <2>2. t = uidToken[u]["app"]
    BY <1>1, <1>9, <2>1 DEF TokensOK, Revoked
  <2>3. QED BY <1>4, <2>1, <2>2 DEF Flags
<1>10. Revoked'
  BY <1>2, <1>9 DEF Revoked
<1>11. QED BY <1>5, <1>6, <1>8, <1>10 DEF TokensOK

LEMMA ElsewhereTokens ==
  ASSUME AccountsInv, TokensInv,
         \/ \E u \in Users : Quit(u)
         \/ \E u \in Users, on \in BOOLEAN : SetDeviceLock(u, on)
         \/ \E u \in Users, d \in Devices : DeviceDelete(u, d)
         \/ \E u \in Users : ExpirePending(u)
         \/ UNCHANGED accountVars
  PROVE  TokensInv'
<1>1. /\ UNCHANGED <<token, uidToken, held, identity, request>>
      /\ AtOnce \/ UNCHANGED spent
  BY DEF Quit, SetDeviceLock, DeviceDelete, ExpirePending, AtOnce, database, cache,
         accountVars
<1>2. /\ spent'.overlaps = spent.overlaps /\ spent'.requests \in Nat
      /\ spent.requests <= spent'.requests
  <2>1. spent \in [requests : Nat, overlaps : Nat, faults : Nat]
    BY DEF AccountsInv, RowsOK
  <2>2. CASE AtOnce
    <3>1. spent' = [spent EXCEPT !.requests = spent.requests + 1]
      BY <2>2 DEF AtOnce
    <3>2. QED BY <2>1, <3>1
  <2>3. CASE UNCHANGED spent
    BY <2>1, <2>3
  <2>4. QED BY <1>1, <2>2, <2>3
<1>3. QED BY <1>1, <1>2, StillTokens

-----------------------------------------------------------------------------
LEMMA InitTokens == AccountsInit => TokensInv
<1> SUFFICES ASSUME AccountsInit PROVE TokensOK
  BY DEF TokensInv
<1>1. /\ DOMAIN token = Tokens /\ identity = Nobody
      /\ uidToken = [u \in Users |-> [f \in Flags |-> 0]]
      /\ held = [u \in Users |-> {}]
      /\ \A w \in Requests : request[w] = Idle
      /\ spent.requests = 0
  BY DEF AccountsInit
<1>2. \A u \in Users, f \in Flags : uidToken[u][f] = 0
  BY <1>1
<1>3. TokenTypes
  BY <1>1 DEF TokenTypes
<1>4. Numbered /\ Apart /\ Revoked
  BY <1>1, <1>2 DEF Numbered, Apart, Revoked
<1>5. Stages /\ Carried
  BY <1>1, IdleIs, IdleStage DEF Stages, Carried, Makers
<1>6. QED BY <1>3, <1>4, <1>5 DEF TokensOK

\* A call, or its failure, keeps the count of the overlaps.
LEMMA StepTokens ==
  ASSUME AccountsInv, TokensInv, NEW w \in Requests, Step(w) \/ Fail(w)
  PROVE  TokensInv'
<1>1. spent'.overlaps = spent.overlaps
  <2>1. CASE Step(w)
    BY <2>1 DEF Step, Befriend, Insert, InsertRow, Refuse, FreeIdentity, CheckEmail,
       PendDevice, KnowDevice, OldToken, DropOldToken, SetToken, SetUidToken, IMToken,
       DestroyRow, FreeIdentities, SetStatus, SetBan, QuitDevices, ForgetToken, RenameToken
  <2>2. CASE Fail(w)
    <3>1. spent' = [spent EXCEPT !.faults = spent.faults + 1]
      BY <2>2 DEF Fail
    <3>2. QED BY <3>1 DEF AccountsInv, RowsOK
  <2>3. QED BY <2>1, <2>2
<1> SUFFICES ASSUME spent.overlaps = 0, TokensOK PROVE TokensOK'
  BY <1>1 DEF TokensInv
<1>2. CASE Insert(w) \/ CheckEmail(w) \/ ForgetToken(w) \/ RenameToken(w) \/ Fail(w)
  BY <1>2, InsertTokens, ForgetTokens, FailTokens
<1>3. CASE OldToken(w) \/ DropOldToken(w) \/ SetToken(w) \/ SetUidToken(w) \/ IMToken(w)
  BY <1>3, OldTokenTokens, DropTokens, SetTokens, RecordTokens, IMTokens
<1>4. QED BY <1>2, <1>3, PlainTokens DEF Step

LEMMA NextTokens ==
  ASSUME AccountsInv, TokensInv, [AccountsNext]_accountVars
  PROVE  TokensInv'
<1>1. ASSUME NEW w \in Requests, NEW u \in Users,
             Registration(w, u) \/ LoginOf(w, u) \/ Administration(w, u)
      PROVE  TokensInv'
  BY <1>1, RegistrationTokens, LoginOfTokens, AdministrationTokens
<1>2. ASSUME NEW w \in Requests, NEW d \in Devices, GoogleLogin(w, d) PROVE TokensInv'
  BY <1>2, GoogleLoginTokens
<1>3. ASSUME NEW w \in Requests, Step(w) \/ Fail(w) PROVE TokensInv'
  BY <1>3, StepTokens
<1>4. ASSUME NEW n \in Tokens, Expire(n) PROVE TokensInv'
  BY <1>4, ExpireTokens
<1>5. CASE \/ \E u \in Users : Quit(u)
           \/ \E u \in Users, on \in BOOLEAN : SetDeviceLock(u, on)
           \/ \E u \in Users, d \in Devices : DeviceDelete(u, d)
           \/ \E u \in Users : ExpirePending(u)
           \/ UNCHANGED accountVars
  BY <1>5, ElsewhereTokens
<1>6. QED BY <1>1, <1>2, <1>3, <1>4, <1>5 DEF AccountsNext

\* While no request begins beside another, a login of the app leaves the app of
\* its user one token that expires, the recorded one: the token of the login
\* before it is taken out of the cache (api.go:1095-1103) before the new one is
\* written and handed out, whichever calls fail.
THEOREM AppTokensKept == AccountsSpec => []AppTokensRevoked
<1>1. AccountsInit => AccountsInv /\ TokensInv
  BY InitAccountsInv, InitTokens
<1>2. AccountsInv /\ TokensInv /\ [AccountsNext]_accountVars => (AccountsInv /\ TokensInv)'
  BY NextAccountsInv, NextTokens
<1>3. TokensInv => AppTokensRevoked
  BY DEF TokensInv, TokensOK, Revoked, AppTokensRevoked
<1>4. QED BY <1>1, <1>2, <1>3, PTL DEF AccountsSpec
=============================================================================
