----------------------------- MODULE FeedProofs -----------------------------
(***************************************************************************)
(* Theorems about Feed for any users, requests and failures and any limit  *)
(* of reports.                                                             *)
(***************************************************************************)
EXTENDS Feed, FiniteSetTheorems, TLAPS

-----------------------------------------------------------------------------
(***************************************************************************)
(* What a request has left to do                                           *)
(***************************************************************************)
Copying == <<"sync", "forget">>
CountedWrites ==
  {<<"like", "sync", "forget">>, <<"comment", "sync", "forget">>,
   <<"share", "sync", "forget">>, <<"report", "sync", "forget">>}
Ends == {<<>>, <<"forget">>, <<"list">>, <<"black">>, <<"im">>}
Others ==
  {<<"delete">>, <<"follow", "forget">>, <<"unfollow", "forget">>,
   <<"store", "list">>, <<"load", "store", "list">>, <<"im", "black">>,
   <<"black", "im">>, <<"writeBack">>}
Todos == CountedWrites \cup Ends \cup Others \cup {Copying}

LEMMA TailOfOne == ASSUME NEW a PROVE Tail(<<a>>) = <<>> /\ Head(<<a>>) = a /\ Len(<<a>>) = 1
OBVIOUS
LEMMA TailOfTwo ==
  ASSUME NEW a, NEW b
  PROVE  Tail(<<a, b>>) = <<b>> /\ Head(<<a, b>>) = a /\ Len(<<a, b>>) = 2
OBVIOUS
LEMMA TailOfThree ==
  ASSUME NEW a, NEW b, NEW c
  PROVE  Tail(<<a, b, c>>) = <<b, c>> /\ Head(<<a, b, c>>) = a /\ Len(<<a, b, c>>) = 3
OBVIOUS

LEMMA TodoNext ==
  ASSUME NEW t \in Todos, t # <<>>
  PROVE  /\ Tail(t) \in Ends \cup {Copying, <<"store", "list">>}
         /\ Len(t) = 1 <=> Tail(t) = <<>>
         /\ t \in CountedWrites => Tail(t) = Copying
         /\ Tail(t) = Copying => t \in CountedWrites
         /\ Tail(t) = <<"list">> => t = <<"store", "list">>
         /\ Tail(t) = <<"store", "list">> => t = <<"load", "store", "list">>
         /\ Head(t) = "sync" <=> t = Copying
         /\ Head(t) = "forget" <=> t = <<"forget">>
         /\ Head(t) = "list" <=> t = <<"list">>
         /\ Head(t) = "store" <=> t = <<"store", "list">>
         /\ Head(t) = "load" <=> t = <<"load", "store", "list">>
         /\ Head(t) = "delete" <=> t = <<"delete">>
         /\ Head(t) \in {"like", "comment", "share", "report"} <=> t \in CountedWrites
<1> USE TailOfOne, TailOfTwo, TailOfThree DEF Todos, CountedWrites, Ends, Others, Copying
<1>1. CASE t = <<"like", "sync", "forget">>
  BY <1>1
<1>2. CASE t = <<"comment", "sync", "forget">>
  BY <1>2
<1>3. CASE t = <<"share", "sync", "forget">>
  BY <1>3
<1>4. CASE t = <<"report", "sync", "forget">>
  BY <1>4
<1>5. CASE t = <<"forget">>
  BY <1>5
<1>6. CASE t = <<"list">>
  BY <1>6
<1>7. CASE t = <<"black">>
  BY <1>7
<1>8. CASE t = <<"im">>
  BY <1>8
<1>9. CASE t = <<"delete">>
  BY <1>9
<1>10. CASE t = <<"writeBack">>
  BY <1>10
<1>11. CASE t = <<"follow", "forget">>
  BY <1>11
<1>12. CASE t = <<"unfollow", "forget">>
  BY <1>12
<1>13. CASE t = <<"store", "list">>
  BY <1>13
<1>14. CASE t = <<"load", "store", "list">>
  BY <1>14
<1>15. CASE t = <<"im", "black">>
  BY <1>15
<1>16. CASE t = <<"black", "im">>
  BY <1>16
<1>17. CASE t = Copying
  BY <1>17
<1>18. QED
  BY <1>1, <1>2, <1>3, <1>4, <1>5, <1>6, <1>7, <1>8, <1>9, <1>10, <1>11,
     <1>12, <1>13, <1>14, <1>15, <1>16, <1>17

-----------------------------------------------------------------------------
(***************************************************************************)
(* The inductive invariant                                                 *)
(***************************************************************************)
Counts == [likes : Nat, comments : Nat, shares : Nat]
RequestRecord ==
  [uid : Users, to : Users, on : BOOLEAN, mode : Modes, todo : Todos]

RequestsOK ==
  /\ request \in [Requests -> RequestRecord]
  /\ spent \in [requests : Nat, overlaps : Nat, faults : Nat]

RowsOK ==
  /\ post \in [status : {"none", "live", "hidden", "deleted"}, count : Counts]
  /\ IsFiniteSet(likes) /\ IsFiniteSet(shares) /\ IsFiniteSet(reports)
  /\ comments \in Nat /\ reports \subseteq Users
  /\ stats \in [row : BOOLEAN, count : Counts, reports : Nat]
  /\ lists \in [Users -> [Modes -> {"none", "with", "without"}]]

\* Nothing is written about a post that is not there yet.
Unpublished ==
  post.status = "none" =>
    /\ post.count = NoCount /\ stats = NoStats
    /\ likes = {} /\ shares = {} /\ reports = {} /\ comments = 0
    /\ \A w \in Requests :
         request[w].todo \notin CountedWrites \cup {Copying, <<"delete">>}

\* Where the copy of the counters is behind, a request has still to make it.
Catching ==
  spent.faults = 0 /\ LivePost =>
    \/ stats.count = post.count /\ stats.reports = Cardinality(reports)
    \/ \E w \in Requests : request[w].todo = Copying

OneActive ==
  spent.overlaps = 0 =>
    \A w, x \in Requests :
      request[w].todo # <<>> /\ request[x].todo # <<>> => w = x

\* A discovery list with the post is only that of a user who has not reported
\* it, or whose report is about to drop it.
Serves(w) ==
  /\ request[w].todo \in {<<"list">>, <<"store", "list">>}
  /\ request[w].mode = "discover" /\ request[w].on
Dropping(w) == request[w].todo \in {Copying, <<"forget">>}
Serving ==
  spent.overlaps = 0 /\ spent.faults = 0 =>
    /\ \A w \in Requests : Serves(w) => request[w].uid \notin reports
    /\ \A u \in reports :
         lists[u]["discover"] = "with" =>
           \E w \in Requests : request[w].uid = u /\ Dropping(w)

FeedInv ==
  /\ RequestsOK /\ RowsOK /\ Unpublished
  /\ CountsAreRows /\ EnoughReportsHide
  /\ Catching /\ OneActive /\ Serving

-----------------------------------------------------------------------------
(***************************************************************************)
(* Steps of a request                                                      *)
(***************************************************************************)
LEMMA IdleTyped == Idle \in RequestRecord /\ Idle.todo = <<>>
BY FeedAssumption DEF Idle, RequestRecord, Modes, Todos, Ends

\* The request w gives way to r, and the others stay.
Moves(w, r) ==
  /\ request' = [request EXCEPT ![w] = r]
  /\ request'[w] = r
  /\ \A x \in Requests \ {w} : request'[x] = request[x]

\* What is left of a request after its first call.
LEMMA DoneGives ==
  ASSUME RequestsOK, NEW w \in Requests, Active(w), Done(w)
  PROVE  \E r \in RequestRecord :
           /\ Moves(w, r) /\ UNCHANGED spent
           /\ r.todo = Tail(request[w].todo)
           /\ r.todo # <<>> => r = [request[w] EXCEPT !.todo = Tail(@)]
<1> DEFINE t == request[w].todo
<1>1. t \in Todos /\ t # <<>> /\ request[w] \in RequestRecord
  BY DEF RequestsOK, RequestRecord, Active
<1>2. CASE Len(t) = 1
  <2>1. request' = [request EXCEPT ![w] = Idle] /\ UNCHANGED spent
    BY <1>2 DEF Done
  <2>2. Tail(t) = <<>>
    BY <1>1, <1>2, TodoNext
  <2>3. Moves(w, Idle)
    BY <2>1 DEF Moves, RequestsOK
  <2>4. QED BY <2>1, <2>2, <2>3, IdleTyped
<1>3. CASE Len(t) # 1
  <2> DEFINE r == [request[w] EXCEPT !.todo = Tail(@)]
  <2>1. request' = [request EXCEPT ![w] = r] /\ UNCHANGED spent
    BY <1>3 DEF Done
  <2>2. Tail(t) \in Todos
    BY <1>1, TodoNext DEF Todos, Ends, Others
  <2>3. r \in RequestRecord /\ r.todo = Tail(t)
    BY <1>1, <2>2 DEF RequestRecord
  <2>4. Moves(w, r)
    BY <2>1 DEF Moves, RequestsOK
  <2>5. QED BY <2>1, <2>3, <2>4
<1>4. QED BY <1>2, <1>3

LEMMA DueTells ==
  ASSUME RequestsOK, NEW w \in Requests, NEW call, Due(w, call)
  PROVE  /\ Active(w) /\ request[w].todo \in Todos /\ request[w].todo # <<>>
         /\ Head(request[w].todo) = call /\ request[w] \in RequestRecord
BY DEF Due, Active, RequestsOK, RequestRecord

LEMMA QuietIs == Quiet <=> \A w \in Requests : request[w].todo = <<>>
BY DEF Quiet, Active

LEMMA StartSpends ==
  ASSUME RequestsOK, NEW w, NEW r, NEW t, Start(w, r, t)
  PROVE  /\ spent'.faults = spent.faults
         /\ spent' \in [requests : Nat, overlaps : Nat, faults : Nat]
         /\ spent'.overlaps = 0 => spent.overlaps = 0 /\ Quiet
<1>1. spent \in [requests : Nat, overlaps : Nat, faults : Nat]
  BY DEF RequestsOK
<1> DEFINE n == IF Quiet THEN spent.overlaps ELSE spent.overlaps + 1
<1>2. n \in Nat /\ (n = 0 => spent.overlaps = 0 /\ Quiet)
  BY <1>1
<1>3. spent' = [spent EXCEPT !.requests = spent.requests + 1, !.overlaps = n]
  BY DEF Start
<1> HIDE DEF n
<1>4. spent'.faults = spent.faults /\ spent'.overlaps = n
  BY <1>1, <1>3
<1>5. spent' \in [requests : Nat, overlaps : Nat, faults : Nat]
  <2>1. spent' = [requests |-> spent.requests + 1, overlaps |-> n, faults |-> spent.faults]
    BY <1>1, <1>3
  <2>2. QED BY <1>1, <1>2, <2>1
<1>6. QED BY <1>2, <1>4, <1>5

\* A request that begins: what it may do first, and when.
LEMMA BeginKept ==
  ASSUME FeedInv, NEW w \in Requests, NEW r \in RequestRecord, NEW t \in Todos,
         Start(w, r, t),
         t # Copying, t # <<"store", "list">>,
         t \in CountedWrites \cup {<<"delete">>} => post.status # "none",
         t = <<"list">> /\ r.on /\ r.mode = "discover"
           => lists[r.uid]["discover"] = "with"
  PROVE  FeedInv'
<1> DEFINE n == [r EXCEPT !.todo = t]
<1>1. /\ n.todo = t /\ n.uid = r.uid /\ n.mode = r.mode /\ n.on = r.on
      /\ n \in RequestRecord
  BY DEF RequestRecord
<1>2. /\ request' = [request EXCEPT ![w] = n] /\ request[w].todo = <<>>
      /\ UNCHANGED <<post, likes, shares, comments, reports, stats, lists>>
      /\ spent' = [spent EXCEPT !.requests = @ + 1,
                                !.overlaps = IF Quiet THEN @ ELSE @ + 1]
  BY DEF Start, postVars, Active
<1> HIDE DEF n
<1>3. /\ request'[w] = n
      /\ \A x \in Requests \ {w} : request'[x] = request[x]
  BY <1>2 DEF FeedInv, RequestsOK
<1>4. /\ spent'.faults = spent.faults
      /\ spent' \in [requests : Nat, overlaps : Nat, faults : Nat]
      /\ spent'.overlaps = 0 => spent.overlaps = 0 /\ Quiet
  BY StartSpends DEF FeedInv
<1>5. RequestsOK' /\ RowsOK'
  BY <1>1, <1>2, <1>4 DEF FeedInv, RequestsOK, RowsOK
<1>6. Unpublished'
  BY <1>1, <1>2, <1>3 DEF FeedInv, Unpublished
<1>7. CountsAreRows' /\ EnoughReportsHide'
  BY <1>2 DEF FeedInv, CountsAreRows, EnoughReportsHide, LivePost
<1>8. Catching'
  <2>1. \A x \in Requests : request[x].todo = Copying => x # w
    BY <1>2 DEF Copying
  <2>2. QED BY <1>2, <1>3, <1>4, <2>1 DEF FeedInv, Catching, LivePost
<1>9. OneActive'
  BY <1>3, <1>4, QuietIs DEF OneActive
<1>10. Serving'
  <2>1. SUFFICES ASSUME spent'.overlaps = 0, spent'.faults = 0 PROVE Serving'
    BY DEF Serving
  <2>2. \A u \in reports : lists[u]["discover"] # "with"
    <3>1. \A x \in Requests : ~Dropping(x)
      <4>1. \A x \in Requests : request[x].todo = <<>>
        BY <1>4, <2>1, QuietIs
      <4>2. <<>> \notin {Copying, <<"forget">>}
        BY DEF Copying
      <4>3. QED BY <4>1, <4>2 DEF Dropping
    <3>2. QED BY <1>4, <2>1, <3>1 DEF FeedInv, Serving
  <2>3. ASSUME NEW x \in Requests, Serves(x)' PROVE request'[x].uid \notin reports
    <3>1. CASE x = w
      BY <1>1, <1>3, <2>2, <2>3, <3>1 DEF Serves
    <3>2. CASE x # w
      BY <1>3, <1>4, <2>1, <2>3, <3>2 DEF Serves, FeedInv, Serving
    <3>3. QED BY <3>1, <3>2
  <2>4. QED BY <1>2, <2>2, <2>3 DEF Serving
<1>11. QED
  BY <1>5, <1>6, <1>7, <1>8, <1>9, <1>10 DEF FeedInv

LEMMA OfTyped ==
  ASSUME NEW u \in Users, NEW v \in Users, NEW on \in BOOLEAN, NEW mode \in Modes
  PROVE  /\ Of(u) \in RequestRecord
         /\ [Of(u) EXCEPT !.on = on] \in RequestRecord
         /\ Between(u, v) \in RequestRecord
         /\ [Between(u, v) EXCEPT !.on = on] \in RequestRecord
         /\ Of(u).on = FALSE
         /\ [Of(u) EXCEPT !.mode = mode, !.on = on].on = on
         /\ [Of(u) EXCEPT !.mode = mode, !.on = on].uid = u
         /\ [Of(u) EXCEPT !.mode = mode, !.on = on].mode = mode
<1> USE IdleTyped DEF RequestRecord
<1>1. Of(u) \in RequestRecord /\ Of(u).on = FALSE /\ Of(u).uid = u
  BY DEF Of, Idle
<1>2. Between(u, v) \in RequestRecord
  BY DEF Between, Idle
<1>3. /\ [Of(u) EXCEPT !.on = on] \in RequestRecord
      /\ [Between(u, v) EXCEPT !.on = on] \in RequestRecord
  BY <1>1, <1>2
<1>4. /\ [Of(u) EXCEPT !.mode = mode] \in RequestRecord
      /\ [Of(u) EXCEPT !.mode = mode].mode = mode
      /\ [Of(u) EXCEPT !.mode = mode].uid = u
  BY <1>1
<1> DEFINE m == [Of(u) EXCEPT !.mode = mode]
<1> HIDE DEF m
<1>5. /\ [m EXCEPT !.on = on] \in RequestRecord /\ [m EXCEPT !.on = on].on = on
      /\ [m EXCEPT !.on = on].uid = u /\ [m EXCEPT !.on = on].mode = mode
  BY <1>4 DEF m
<1>6. [Of(u) EXCEPT !.mode = mode, !.on = on] = [m EXCEPT !.on = on]
  BY DEF m
<1>7. QED BY <1>1, <1>2, <1>3, <1>5, <1>6

\* The request of recommend.
Asking(u, mode, on) == [Of(u) EXCEPT !.mode = mode, !.on = on]

LEMMA AskTyped ==
  ASSUME NEW u \in Users, NEW on \in BOOLEAN, NEW mode \in Modes
  PROVE  /\ Asking(u, mode, on) \in RequestRecord
         /\ Asking(u, mode, on).on = on /\ Asking(u, mode, on).uid = u
         /\ Asking(u, mode, on).mode = mode
<1>1. Of(u) \in RequestRecord /\ Of(u).uid = u
  BY IdleTyped DEF Of, Idle, RequestRecord
<1> DEFINE m == [Of(u) EXCEPT !.mode = mode]
           q == [m EXCEPT !.on = on]
<1>2. m \in RequestRecord /\ m.mode = mode /\ m.uid = u
  BY <1>1 DEF RequestRecord
<1>3. q = Asking(u, mode, on)
  BY DEF Asking
<1> HIDE DEF m
<1>4. q \in RequestRecord /\ q.on = on /\ q.uid = u /\ q.mode = mode
  BY <1>2 DEF RequestRecord
<1>5. QED BY <1>3, <1>4

\* What a request can begin with.
LEMMA FirstTodos ==
  /\ {<<"forget">>, <<"delete">>, <<"list">>, <<"load", "store", "list">>,
      <<"follow", "forget">>, <<"unfollow", "forget">>, <<"im", "black">>,
      <<"black", "im">>, <<"writeBack">>} \subseteq Todos
  /\ CountedWrites \subseteq Todos
  /\ \A t \in CountedWrites \cup
       {<<"forget">>, <<"delete">>, <<"list">>, <<"load", "store", "list">>,
        <<"follow", "forget">>, <<"unfollow", "forget">>, <<"im", "black">>,
        <<"black", "im">>, <<"writeBack">>} :
       t # Copying /\ t # <<"store", "list">>
  /\ \A t \in {<<"forget">>, <<"list">>, <<"load", "store", "list">>,
        <<"follow", "forget">>, <<"unfollow", "forget">>, <<"im", "black">>,
        <<"black", "im">>, <<"writeBack">>} :
       t \notin CountedWrites \cup {<<"delete">>}
  /\ \A t \in CountedWrites \cup
       {<<"forget">>, <<"delete">>, <<"load", "store", "list">>,
        <<"follow", "forget">>, <<"unfollow", "forget">>, <<"im", "black">>,
        <<"black", "im">>, <<"writeBack">>} : t # <<"list">>
<1> USE DEF Todos, CountedWrites, Ends, Others, Copying
<1>1. QED OBVIOUS

LEMMA RequestsBegin ==
  ASSUME FeedInv, NEW w \in Requests,
         \/ DeletePost(w)
         \/ \E u \in Users : OnPost(w, u) \/ \E v \in Users : OnUser(w, u, v)
  PROVE  FeedInv'
<1> DEFINE Calm == {<<"forget">>, <<"load", "store", "list">>,
             <<"follow", "forget">>, <<"unfollow", "forget">>, <<"im", "black">>,
             <<"black", "im">>, <<"writeBack">>}
<1>1. ASSUME NEW r \in RequestRecord, NEW t, Start(w, r, t),
             \/ t \in Calm
             \/ t \in CountedWrites \cup {<<"delete">>} /\ post.status # "none"
      PROVE  FeedInv'
  BY <1>1, FirstTodos, BeginKept
<1>2. CASE DeletePost(w)
  <2>1. Of(Author) \in RequestRecord
    BY FeedAssumption, OfTyped DEF Modes
  <2>2. QED BY <1>1, <1>2, <2>1 DEF DeletePost
<1>3. ASSUME NEW u \in Users, OnPost(w, u) PROVE FeedInv'
  <2>1. Of(u) \in RequestRecord /\ \A on \in BOOLEAN : [Of(u) EXCEPT !.on = on] \in RequestRecord
    BY OfTyped DEF Modes
  <2>2. LivePost => post.status # "none"
    BY DEF LivePost
  <2>3. CASE AddComment(w, u)
    BY <1>1, <2>1, <2>2, <2>3 DEF AddComment, CountedWrites
  <2>4. CASE Share(w, u)
    BY <1>1, <2>1, <2>2, <2>4 DEF Share, CountedWrites
  <2>5. CASE Report(w, u)
    BY <1>1, <2>1, <2>2, <2>5 DEF Report, CountedWrites
  <2>6. ASSUME NEW on \in BOOLEAN, SetLike(w, u, on) PROVE FeedInv'
    BY <1>1, <2>1, <2>2, <2>6 DEF SetLike, CountedWrites
  <2>7. ASSUME NEW mode \in Modes, NEW used \in BOOLEAN, Recommend(w, u, mode, used)
        PROVE  FeedInv'
    <3>1. PICK on \in BOOLEAN : on = (used /\ lists[u][mode] = "with")
      OBVIOUS
    <3> DEFINE r == Asking(u, mode, on)
    <3>2. r \in RequestRecord /\ r.on = on /\ r.uid = u /\ r.mode = mode
      BY AskTyped
    <3>3. Start(w, r, IF used THEN <<"list">> ELSE <<"load", "store", "list">>)
      BY <2>7, <3>1, Zenon DEF Recommend, Asking
    <3> HIDE DEF r
    <3>4. CASE used
      <4>1. on => lists[u][mode] = "with"
        BY <3>1
      <4>2. <<"list">> \in Todos /\ <<"list">> # Copying /\ <<"list">> # <<"store", "list">>
        BY FirstTodos
      <4>3. <<"list">> \notin CountedWrites \cup {<<"delete">>}
        BY FirstTodos
      <4>4. Start(w, r, <<"list">>)
        BY <3>3, <3>4
      <4>5. QED BY <3>2, <4>1, <4>2, <4>3, <4>4, BeginKept
    <3>5. CASE ~used
      BY <1>1, <3>2, <3>3, <3>5
    <3>6. QED BY <3>4, <3>5
  <2>8. QED BY <1>3, <2>3, <2>4, <2>5, <2>6, <2>7 DEF OnPost
<1>4. ASSUME NEW u \in Users, NEW v \in Users, OnUser(w, u, v) PROVE FeedInv'
  <2>1. /\ Between(u, v) \in RequestRecord
        /\ \A on \in BOOLEAN : [Between(u, v) EXCEPT !.on = on] \in RequestRecord
    BY OfTyped DEF Modes
  <2>2. CASE Follow(w, u, v) \/ Unfollow(w, u, v)
    BY <1>1, <2>1, <2>2 DEF Follow, Unfollow
  <2>3. CASE DeleteFriend(w, u, v)
    <3>1. (<<u, v>> \in black) \in BOOLEAN
      OBVIOUS
    <3>2. QED BY <1>1, <2>1, <2>3, <3>1 DEF DeleteFriend
  <2>4. CASE AddBlacklist(w, u, v) \/ RemoveBlacklist(w, u, v)
    BY <1>1, <2>1, <2>4 DEF AddBlacklist, RemoveBlacklist
  <2>5. ASSUME NEW on \in BOOLEAN, SetBlacklist(w, u, v, on) PROVE FeedInv'
    BY <1>1, <2>1, <2>5 DEF SetBlacklist
  <2>6. QED BY <1>4, <2>2, <2>3, <2>4, <2>5 DEF OnUser
<1>5. QED BY <1>2, <1>3, <1>4

-----------------------------------------------------------------------------
(***************************************************************************)
(* A request whose call fails                                              *)
(***************************************************************************)
LEMMA FailKept ==
  ASSUME FeedInv, NEW w \in Requests, Fail(w)
  PROVE  FeedInv'
<1> DEFINE t == request[w].todo
<1>1. t \in Todos /\ t # <<>> /\ request[w] \in RequestRecord
  BY DEF FeedInv, RequestsOK, RequestRecord, Fail, Active
<1>2. /\ UNCHANGED <<post, likes, shares, comments, reports, stats, lists>>
      /\ spent \in [requests : Nat, overlaps : Nat, faults : Nat]
  BY DEF Fail, postVars, FeedInv, RequestsOK
<1>3. /\ spent' \in [requests : Nat, overlaps : Nat, faults : Nat]
      /\ spent'.faults # 0 /\ spent'.overlaps = spent.overlaps
  <2>1. spent' = [spent EXCEPT !.faults = spent.faults + 1]
    BY DEF Fail
  <2>2. QED BY <1>2, <2>1
<1>4. PICK r \in RequestRecord :
        /\ Moves(w, r)
        /\ r.todo \in {<<>>, <<"forget">>, <<"list">>}
  <2>1. CASE Head(t) \in {"sync", "store"}
    <3> DEFINE r == [request[w] EXCEPT !.todo = Tail(t)]
    <3>1. Tail(t) \in {<<"forget">>, <<"list">>}
      <4>1. t = <<"sync", "forget">> \/ t = <<"store", "list">>
        BY <1>1, <2>1, TodoNext DEF Copying
      <4>2. /\ Tail(<<"sync", "forget">>) = <<"forget">>
            /\ Tail(<<"store", "list">>) = <<"list">>
        BY TailOfTwo
      <4>3. QED BY <4>1, <4>2
    <3>2. <<"forget">> \in Todos /\ <<"list">> \in Todos
      BY FirstTodos
    <3>3. r \in RequestRecord /\ r.todo = Tail(t)
      BY <1>1, <3>1, <3>2 DEF RequestRecord
    <3>4. request' = [request EXCEPT ![w] = r]
      BY <2>1 DEF Fail
    <3>5. Moves(w, r)
      BY <3>4 DEF Moves, FeedInv, RequestsOK
    <3>6. QED BY <3>1, <3>3, <3>5
  <2>2. CASE Head(t) \notin {"sync", "store"}
    <3>1. request' = [request EXCEPT ![w] = Idle]
      BY <2>2 DEF Fail
    <3>2. Moves(w, Idle)
      BY <3>1 DEF Moves, FeedInv, RequestsOK
    <3>3. QED BY <3>2, IdleTyped
  <2>3. QED BY <2>1, <2>2
<1>5. RequestsOK' /\ RowsOK'
  BY <1>2, <1>3, <1>4 DEF FeedInv, RequestsOK, RowsOK, Moves
<1>6. Unpublished'
  <2>1. r.todo \notin CountedWrites \cup {Copying, <<"delete">>}
    BY <1>4, FirstTodos DEF CountedWrites, Copying
  <2>2. QED BY <1>2, <1>4, <2>1 DEF FeedInv, Unpublished, Moves
<1>7. CountsAreRows' /\ EnoughReportsHide'
  BY <1>2 DEF FeedInv, CountsAreRows, EnoughReportsHide, LivePost
<1>8. Catching' /\ Serving'
  BY <1>3 DEF Catching, Serving
<1>9. OneActive'
  BY <1>1, <1>3, <1>4 DEF FeedInv, OneActive, Moves
<1>10. QED BY <1>5, <1>6, <1>7, <1>8, <1>9 DEF FeedInv

-----------------------------------------------------------------------------
(***************************************************************************)
(* A request whose first call is done                                      *)
(***************************************************************************)
\* What holds of the requests after any call.
LEMMA StepCommon ==
  ASSUME FeedInv, NEW w \in Requests, NEW r \in RequestRecord,
         Moves(w, r), UNCHANGED spent, Active(w),
         r.todo \in Ends \cup {Copying, <<"store", "list">>},
         r.todo = Copying => request[w].todo \in CountedWrites
  PROVE  /\ RequestsOK' /\ OneActive'
         /\ post.status = "none" =>
              \A x \in Requests :
                request'[x].todo \notin CountedWrites \cup {Copying, <<"delete">>}
<1>1. RequestsOK'
  BY DEF FeedInv, RequestsOK, Moves
<1>2. OneActive'
  BY DEF FeedInv, OneActive, Moves, Active
<1>3. ASSUME post.status = "none", NEW x \in Requests
      PROVE  request'[x].todo \notin CountedWrites \cup {Copying, <<"delete">>}
  <2>1. \A t \in Ends \cup {<<"store", "list">>} :
          t \notin CountedWrites \cup {Copying, <<"delete">>}
    BY DEF Ends, CountedWrites, Copying
  <2>2. \A y \in Requests :
          request[y].todo \notin CountedWrites \cup {Copying, <<"delete">>}
    BY <1>3 DEF FeedInv, Unpublished
  <2>3. CASE x = w
    BY <2>1, <2>2, <2>3 DEF Moves
  <2>4. CASE x # w
    BY <2>2, <2>4 DEF Moves
  <2>5. QED BY <2>3, <2>4
<1>4. QED BY <1>1, <1>2, <1>3

\* A call that ends no duty of its request and touches neither the post nor
\* the lists: following, blocking and the answer.
LEMMA AsideKept ==
  ASSUME FeedInv, NEW w \in Requests,
         NEW call \in {"follow", "unfollow", "list", "black", "im", "writeBack"},
         Due(w, call), Done(w), UNCHANGED <<postVars, stats, lists>>
  PROVE  FeedInv'
<1> DEFINE t == request[w].todo
<1>1. /\ Active(w) /\ t \in Todos /\ t # <<>> /\ Head(t) = call
      /\ request[w] \in RequestRecord
  BY DueTells DEF FeedInv
<1>2. PICK r \in RequestRecord :
        Moves(w, r) /\ UNCHANGED spent /\ r.todo = Tail(t)
  BY <1>1, DoneGives DEF FeedInv
<1>3. /\ t \notin CountedWrites /\ t # Copying /\ t # <<"forget">>
      /\ t # <<"store", "list">> /\ t # <<"load", "store", "list">>
  BY <1>1, TodoNext
<1>4. /\ r.todo \in Ends \cup {Copying, <<"store", "list">>}
      /\ r.todo # Copying /\ r.todo # <<"list">> /\ r.todo # <<"store", "list">>
  BY <1>1, <1>2, <1>3, TodoNext
<1>5. /\ RequestsOK' /\ OneActive'
      /\ post.status = "none" =>
           \A x \in Requests :
             request'[x].todo \notin CountedWrites \cup {Copying, <<"delete">>}
  BY <1>1, <1>2, <1>4, StepCommon
<1>6. UNCHANGED <<post, likes, shares, comments, reports, stats, lists>>
  BY DEF postVars
<1>7. RowsOK' /\ Unpublished'
  BY <1>5, <1>6 DEF FeedInv, RowsOK, Unpublished
<1>8. CountsAreRows' /\ EnoughReportsHide'
  BY <1>6 DEF FeedInv, CountsAreRows, EnoughReportsHide, LivePost
<1>9. \A x \in Requests : request[x].todo = Copying \/ Dropping(x) => x # w
  BY <1>3 DEF Dropping
<1>10. Catching'
  BY <1>2, <1>6, <1>9 DEF FeedInv, Catching, LivePost, Moves
<1>11. Serving'
  <2>1. SUFFICES ASSUME spent'.overlaps = 0, spent'.faults = 0 PROVE Serving'
    BY DEF Serving
  <2>2. /\ \A x \in Requests : Serves(x) => request[x].uid \notin reports
        /\ \A u \in reports :
             lists[u]["discover"] = "with" =>
               \E x \in Requests : request[x].uid = u /\ Dropping(x)
    BY <1>2, <2>1 DEF FeedInv, Serving
  <2>3. ASSUME NEW x \in Requests, Serves(x)' PROVE request'[x].uid \notin reports
    <3>1. x # w
      BY <1>2, <1>4, <2>3 DEF Serves, Moves
    <3>2. QED BY <1>2, <2>2, <2>3, <3>1 DEF Serves, Moves
  <2>4. ASSUME NEW u \in reports, lists[u]["discover"] = "with"
        PROVE  \E x \in Requests : request'[x].uid = u /\ Dropping(x)'
    <3>1. PICK x \in Requests : request[x].uid = u /\ Dropping(x)
      BY <2>2, <2>4
    <3>2. request'[x] = request[x]
      BY <1>2, <1>9, <3>1 DEF Moves
    <3>3. QED BY <3>1, <3>2 DEF Dropping
  <2>5. QED BY <1>6, <2>3, <2>4 DEF Serving
<1>12. QED BY <1>5, <1>7, <1>8, <1>10, <1>11 DEF FeedInv

\* A row is written, and the counters have to be copied next.
LEMMA CountedKept ==
  ASSUME FeedInv, NEW w \in Requests, NEW r \in RequestRecord,
         Active(w), request[w].todo \in CountedWrites, r.todo = Copying,
         Moves(w, r), UNCHANGED spent, UNCHANGED <<reports, stats, lists>>,
         post'.status = post.status, RowsOK', CountsAreRows'
  PROVE  FeedInv'
<1>1. /\ RequestsOK' /\ OneActive'
      /\ post.status = "none" =>
           \A x \in Requests :
             request'[x].todo \notin CountedWrites \cup {Copying, <<"delete">>}
  BY StepCommon
<1>2. post.status # "none"
  BY DEF FeedInv, Unpublished
<1>3. Unpublished'
  BY <1>2 DEF Unpublished
<1>4. EnoughReportsHide'
  BY DEF FeedInv, EnoughReportsHide, LivePost
<1>5. Catching'
  BY DEF Catching, Moves
<1>6. /\ request[w].todo \notin {Copying, <<"forget">>}
      /\ r.todo \notin {<<"list">>, <<"store", "list">>}
  BY DEF CountedWrites, Copying
<1>7. Serving'
  <2>1. SUFFICES ASSUME spent'.overlaps = 0, spent'.faults = 0 PROVE Serving'
    BY DEF Serving
  <2>2. /\ \A x \in Requests : Serves(x) => request[x].uid \notin reports
        /\ \A u \in reports :
             lists[u]["discover"] = "with" =>
               \E x \in Requests : request[x].uid = u /\ Dropping(x)
    BY <2>1 DEF FeedInv, Serving
  <2>3. ASSUME NEW x \in Requests, Serves(x)' PROVE request'[x].uid \notin reports
    <3>1. x # w
      BY <1>6, <2>3 DEF Serves, Moves
    <3>2. QED BY <2>2, <2>3, <3>1 DEF Serves, Moves
  <2>4. ASSUME NEW u \in reports, lists[u]["discover"] = "with"
        PROVE  \E x \in Requests : request'[x].uid = u /\ Dropping(x)'
    <3>1. PICK x \in Requests : request[x].uid = u /\ Dropping(x)
      BY <2>2, <2>4
    <3>2. request'[x] = request[x]
      BY <1>6, <3>1 DEF Moves, Dropping
    <3>3. QED BY <3>1, <3>2 DEF Dropping
  <2>5. QED BY <2>3, <2>4 DEF Serving
<1>8. QED BY <1>1, <1>3, <1>4, <1>5, <1>7 DEF FeedInv

\* The request of a counted write that is done.
LEMMA CountedDone ==
  ASSUME FeedInv, NEW w \in Requests,
         NEW call \in {"like", "comment", "share"}, Due(w, call), Done(w)
  PROVE  /\ Active(w) /\ request[w].todo \in CountedWrites
         /\ request[w] \in RequestRecord /\ UNCHANGED spent
         /\ \E r \in RequestRecord : Moves(w, r) /\ r.todo = Copying
<1>1. /\ Active(w) /\ request[w].todo \in Todos /\ request[w].todo # <<>>
      /\ Head(request[w].todo) = call /\ request[w] \in RequestRecord
  BY DueTells DEF FeedInv
<1>2. request[w].todo \in CountedWrites
  BY <1>1, TodoNext
<1>3. Tail(request[w].todo) = Copying
  BY <1>1, <1>2, TodoNext
<1>4. QED BY <1>1, <1>2, <1>3, DoneGives DEF FeedInv

\* A counter of the post after it moved.
LEMMA CountedGives ==
  ASSUME RowsOK, NEW counter \in {"likes", "comments", "shares"}, NEW n \in Nat,
         Counted(counter, n)
  PROVE  /\ post' \in [status : {"none", "live", "hidden", "deleted"}, count : Counts]
         /\ post'.status = post.status
         /\ LivePost => /\ post'.count[counter] = n
                        /\ \A d \in {"likes", "comments", "shares"} \ {counter} :
                             post'.count[d] = post.count[d]
<1>1. /\ post \in [status : {"none", "live", "hidden", "deleted"}, count : Counts]
      /\ post.count \in Counts
  BY DEF RowsOK
<1>2. CASE LivePost
  <2> DEFINE c == [post.count EXCEPT ![counter] = n]
  <2>1. post' = [post EXCEPT !.count = c]
    BY <1>2 DEF Counted
  <2>2. c \in Counts /\ c[counter] = n
    BY <1>1 DEF Counts
  <2>3. \A d \in {"likes", "comments", "shares"} \ {counter} : c[d] = post.count[d]
    BY <1>1 DEF Counts
  <2> HIDE DEF c
  <2>4. /\ post'.count = c /\ post'.status = post.status
        /\ post' \in [status : {"none", "live", "hidden", "deleted"}, count : Counts]
    BY <1>1, <2>1, <2>2
  <2>5. QED BY <2>2, <2>3, <2>4
<1>3. CASE ~LivePost
  BY <1>1, <1>3 DEF Counted
<1>4. QED BY <1>2, <1>3

LEMMA WriteLikeKept ==
  ASSUME FeedInv, NEW w \in Requests, WriteLike(w)
  PROVE  FeedInv'
<1> DEFINE u == request[w].uid
           n == post.count.likes
           m == IF request[w].on THEN n + 1 ELSE IF n > 0 THEN n - 1 ELSE 0
<1>1. /\ Due(w, "like") /\ Done(w)
      /\ likes' = IF request[w].on THEN likes \cup {u} ELSE likes \ {u}
      /\ IF likes' = likes THEN UNCHANGED post ELSE Counted("likes", m)
      /\ UNCHANGED <<shares, comments, reports, stats, lists>>
  BY DEF WriteLike
<1>2. /\ Active(w) /\ request[w].todo \in CountedWrites
      /\ request[w] \in RequestRecord /\ UNCHANGED spent
      /\ \E r \in RequestRecord : Moves(w, r) /\ r.todo = Copying
  BY <1>1, CountedDone
<1>3. /\ post \in [status : {"none", "live", "hidden", "deleted"}, count : Counts]
      /\ n \in Nat /\ IsFiniteSet(likes) /\ Cardinality(likes) \in Nat
  BY FS_CardinalityType DEF FeedInv, RowsOK, Counts
<1>4. m \in Nat
  BY <1>3
<1> HIDE DEF m
<1>5. IsFiniteSet(likes')
  BY <1>1, <1>3, FS_AddElement, FS_RemoveElement
<1>6. /\ post' \in [status : {"none", "live", "hidden", "deleted"}, count : Counts]
      /\ post'.status = post.status
  BY <1>1, <1>3, <1>4, CountedGives DEF FeedInv
<1>7. RowsOK'
  BY <1>1, <1>5, <1>6 DEF FeedInv, RowsOK
<1>8. CountsAreRows'
  <2>1. SUFFICES ASSUME LivePost
                 PROVE  /\ post'.count.likes = Cardinality(likes')
                        /\ post'.count.comments = comments
                        /\ post'.count.shares = Cardinality(shares)
    BY <1>1, <1>6 DEF CountsAreRows, LivePost
  <2>2. /\ n = Cardinality(likes) /\ post.count.comments = comments
        /\ post.count.shares = Cardinality(shares)
    BY <2>1 DEF FeedInv, CountsAreRows
  <2>3. CASE likes' = likes
    BY <1>1, <2>2, <2>3
  <2>4. CASE likes' # likes
    <3>1. /\ post'.count["likes"] = m
          /\ post'.count["comments"] = post.count["comments"]
          /\ post'.count["shares"] = post.count["shares"]
      BY <1>1, <1>4, <2>1, <2>4, CountedGives DEF FeedInv
    <3>2. CASE request[w].on
      <4>1. likes' = likes \cup {u} /\ u \notin likes
        BY <1>1, <2>4, <3>2
      <4>2. Cardinality(likes') = n + 1
        BY <1>3, <2>2, <4>1, FS_AddElement
      <4>3. QED BY <2>2, <3>1, <3>2, <4>2 DEF m
    <3>3. CASE ~request[w].on
      <4>1. likes' = likes \ {u} /\ u \in likes
        BY <1>1, <2>4, <3>3
      <4>2. Cardinality(likes') = n - 1 /\ Cardinality(likes') \in Nat
        BY <1>3, <1>5, <2>2, <4>1, FS_RemoveElement, FS_CardinalityType
      <4>3. m = n - 1
        BY <1>3, <3>3, <4>2 DEF m
      <4>4. QED BY <2>2, <3>1, <4>2, <4>3
    <3>4. QED BY <3>2, <3>3
  <2>5. QED BY <2>3, <2>4
<1>9. QED BY <1>1, <1>2, <1>6, <1>7, <1>8, CountedKept

LEMMA WriteCommentKept ==
  ASSUME FeedInv, NEW w \in Requests, WriteComment(w)
  PROVE  FeedInv'
<1> DEFINE n == post.count.comments + 1
<1>1. /\ Due(w, "comment") /\ Done(w) /\ comments' = comments + 1
      /\ Counted("comments", n)
      /\ UNCHANGED <<likes, shares, reports, stats, lists>>
  BY DEF WriteComment
<1>2. /\ Active(w) /\ request[w].todo \in CountedWrites
      /\ request[w] \in RequestRecord /\ UNCHANGED spent
      /\ \E r \in RequestRecord : Moves(w, r) /\ r.todo = Copying
  BY <1>1, CountedDone
<1>3. n \in Nat /\ comments \in Nat
  BY DEF FeedInv, RowsOK, Counts
<1> HIDE DEF n
<1>4. /\ post' \in [status : {"none", "live", "hidden", "deleted"}, count : Counts]
      /\ post'.status = post.status
      /\ LivePost => /\ post'.count["comments"] = n
                     /\ post'.count["likes"] = post.count["likes"]
                     /\ post'.count["shares"] = post.count["shares"]
  BY <1>1, <1>3, CountedGives DEF FeedInv
<1>5. RowsOK'
  BY <1>1, <1>3, <1>4 DEF FeedInv, RowsOK
<1>6. CountsAreRows'
  <2>1. SUFFICES ASSUME LivePost
                 PROVE  /\ post'.count.likes = Cardinality(likes)
                        /\ post'.count.comments = comments + 1
                        /\ post'.count.shares = Cardinality(shares)
    BY <1>1, <1>4 DEF CountsAreRows, LivePost
  <2>2. QED BY <1>4, <2>1 DEF FeedInv, CountsAreRows, n
<1>7. QED BY <1>1, <1>2, <1>4, <1>5, <1>6, CountedKept

LEMMA WriteShareKept ==
  ASSUME FeedInv, NEW w \in Requests, WriteShare(w)
  PROVE  FeedInv'
<1> DEFINE u == request[w].uid
           n == post.count.shares + 1
<1>1. /\ Due(w, "share") /\ Done(w) /\ shares' = shares \cup {u}
      /\ IF u \in shares THEN UNCHANGED post ELSE Counted("shares", n)
      /\ UNCHANGED <<likes, comments, reports, stats, lists>>
  BY DEF WriteShare
<1>2. /\ Active(w) /\ request[w].todo \in CountedWrites
      /\ request[w] \in RequestRecord /\ UNCHANGED spent
      /\ \E r \in RequestRecord : Moves(w, r) /\ r.todo = Copying
  BY <1>1, CountedDone
<1>3. n \in Nat /\ IsFiniteSet(shares) /\ Cardinality(shares) \in Nat
  BY FS_CardinalityType DEF FeedInv, RowsOK, Counts
<1> HIDE DEF n
<1>4. /\ post' \in [status : {"none", "live", "hidden", "deleted"}, count : Counts]
      /\ post'.status = post.status
      /\ LivePost /\ u \notin shares =>
           /\ post'.count["shares"] = n
           /\ post'.count["likes"] = post.count["likes"]
           /\ post'.count["comments"] = post.count["comments"]
  <2>1. CASE u \in shares
    BY <1>1, <2>1 DEF FeedInv, RowsOK
  <2>2. CASE u \notin shares
    BY <1>1, <1>3, <2>2, CountedGives DEF FeedInv
  <2>3. QED BY <2>1, <2>2
<1>5. IsFiniteSet(shares') /\ (u \notin shares => Cardinality(shares') = Cardinality(shares) + 1)
  BY <1>1, <1>3, FS_AddElement
<1>6. RowsOK'
  BY <1>1, <1>4, <1>5 DEF FeedInv, RowsOK
<1>7. CountsAreRows'
  <2>1. SUFFICES ASSUME LivePost
                 PROVE  /\ post'.count.likes = Cardinality(likes)
                        /\ post'.count.comments = comments
                        /\ post'.count.shares = Cardinality(shares')
    BY <1>1, <1>4 DEF CountsAreRows, LivePost
  <2>2. /\ post.count.likes = Cardinality(likes) /\ post.count.comments = comments
        /\ post.count.shares = Cardinality(shares)
    BY <2>1 DEF FeedInv, CountsAreRows
  <2>3. CASE u \in shares
    <3>1. shares' = shares /\ post' = post
      BY <1>1, <2>3
    <3>2. QED BY <2>2, <3>1
  <2>4. CASE u \notin shares
    BY <1>4, <1>5, <2>1, <2>2, <2>4 DEF n
  <2>5. QED BY <2>3, <2>4
<1>8. QED BY <1>1, <1>2, <1>4, <1>6, <1>7, CountedKept

LEMMA WriteReportKept ==
  ASSUME FeedInv, NEW w \in Requests, WriteReport(w)
  PROVE  FeedInv'
<1> DEFINE u == request[w].uid
           t == request[w].todo
           next == IF u \in reports THEN <<"forget">> ELSE Copying
           r == [request[w] EXCEPT !.todo = next]
<1>1. /\ Due(w, "report") /\ reports' = reports \cup {u}
      /\ post' = IF u \notin reports /\ LivePost /\ Cardinality(reports') >= HideLimit
                 THEN [post EXCEPT !.status = "hidden"] ELSE post
      /\ UNCHANGED <<likes, shares, comments, stats, lists, spent>>
  BY DEF WriteReport
<1>2. /\ Active(w) /\ t \in CountedWrites /\ request[w] \in RequestRecord
      /\ Tail(t) = Copying
  <2>1. /\ Active(w) /\ t \in Todos /\ t # <<>> /\ Head(t) = "report"
        /\ request[w] \in RequestRecord
    BY <1>1, DueTells DEF FeedInv
  <2>2. t \in CountedWrites
    BY <2>1, TodoNext
  <2>3. QED BY <2>1, <2>2, TodoNext
<1>3. /\ next \in {<<"forget">>, Copying} /\ next \in Todos
      /\ <<"forget">> # Copying /\ <<"forget">> \in Ends
  BY DEF Todos, Ends, Copying
<1>4. r \in RequestRecord /\ r.todo = next /\ r.uid = u
  BY <1>2, <1>3 DEF RequestRecord
<1>5. request' = [request EXCEPT ![w] = r]
  BY <1>2 DEF WriteReport
<1>6. Moves(w, r)
  BY <1>5 DEF Moves, FeedInv, RequestsOK
<1>7. /\ RequestsOK' /\ OneActive'
      /\ post.status = "none" =>
           \A x \in Requests :
             request'[x].todo \notin CountedWrites \cup {Copying, <<"delete">>}
  BY <1>1, <1>2, <1>3, <1>4, <1>6, StepCommon
<1>8. /\ post \in [status : {"none", "live", "hidden", "deleted"}, count : Counts]
      /\ IsFiniteSet(reports) /\ reports \subseteq Users /\ u \in Users
  BY <1>2 DEF FeedInv, RowsOK, RequestRecord
<1>9. /\ post' \in [status : {"none", "live", "hidden", "deleted"}, count : Counts]
      /\ post'.count = post.count
      /\ post' = post \/ post'.status = "hidden"
  BY <1>1, <1>8
<1>10. IsFiniteSet(reports') /\ reports' \subseteq Users
  BY <1>1, <1>8, FS_AddElement
<1>11. RowsOK'
  BY <1>1, <1>9, <1>10 DEF FeedInv, RowsOK
<1>12. Unpublished'
  <2>1. post.status # "none"
    BY <1>2 DEF FeedInv, Unpublished
  <2>2. QED BY <1>9, <2>1 DEF Unpublished
<1>13. CountsAreRows'
  BY <1>1, <1>9 DEF FeedInv, CountsAreRows, LivePost
<1>14. EnoughReportsHide'
  <2>1. CASE u \in reports
    <3>1. reports' = reports /\ post' = post
      BY <1>1, <2>1
    <3>2. QED BY <3>1 DEF FeedInv, EnoughReportsHide, LivePost
  <2>2. CASE u \notin reports /\ LivePost
    BY <1>1, <1>8, <2>2 DEF EnoughReportsHide, LivePost
  <2>3. CASE ~LivePost
    BY <1>9, <2>3 DEF EnoughReportsHide, LivePost
  <2>4. QED BY <2>1, <2>2, <2>3
<1>15. t \notin {Copying, <<"forget">>, <<"list">>, <<"store", "list">>} /\ t # <<>>
  BY <1>2 DEF CountedWrites, Copying
<1>16. Catching'
  <2>1. CASE u \in reports
    <3>1. reports' = reports /\ post' = post
      BY <1>1, <2>1
    <3>2. QED BY <1>1, <1>6, <1>15, <3>1 DEF FeedInv, Catching, LivePost, Moves
  <2>2. CASE u \notin reports
    BY <1>4, <1>6, <2>2 DEF Catching, Moves
  <2>3. QED BY <2>1, <2>2
<1>17. Serving'
  <2>1. SUFFICES ASSUME spent.overlaps = 0, spent.faults = 0 PROVE Serving'
    BY <1>1 DEF Serving
  <2>2. \A x \in Requests \ {w} : request'[x] = request[x] /\ request[x].todo = <<>>
    BY <1>6, <1>15, <2>1 DEF FeedInv, OneActive, Moves
  <2>3. \A x \in Requests : ~Serves(x)'
    <3>1. /\ <<>> \notin {<<"list">>, <<"store", "list">>}
          /\ next \notin {<<"list">>, <<"store", "list">>}
      BY <1>3 DEF Copying
    <3>2. ASSUME NEW x \in Requests
          PROVE  request'[x].todo \notin {<<"list">>, <<"store", "list">>}
      <4>1. CASE x = w
        <5>1. request'[x].todo = next
          BY <1>4, <1>6, <4>1 DEF Moves
        <5>2. QED BY <3>1, <5>1
      <4>2. CASE x # w
        <5>1. request'[x].todo = <<>>
          BY <2>2, <4>2
        <5>2. QED BY <3>1, <5>1
      <4>3. QED BY <4>1, <4>2
    <3>3. QED BY <3>2 DEF Serves
  <2>4. ASSUME NEW v \in reports', lists'[v]["discover"] = "with"
        PROVE  \E x \in Requests : request'[x].uid = v /\ Dropping(x)'
    <3>1. CASE v = u
      BY <1>3, <1>4, <1>6, <3>1 DEF Moves, Dropping
    <3>2. CASE v # u
      <4>1. v \in reports /\ lists[v]["discover"] = "with"
        BY <1>1, <2>4, <3>2
      <4>2. PICK x \in Requests : request[x].uid = v /\ Dropping(x)
        BY <2>1, <4>1 DEF FeedInv, Serving
      <4>3. x # w
        BY <3>2, <4>2
      <4>4. QED BY <2>2, <4>2, <4>3 DEF Dropping
    <3>3. QED BY <3>1, <3>2
  <2>5. QED BY <2>3, <2>4 DEF Serving
<1>18. QED
  BY <1>7, <1>11, <1>12, <1>13, <1>14, <1>16, <1>17 DEF FeedInv

LEMMA FromRowTyped ==
  ASSUME RowsOK
  PROVE  /\ FromRow \in [row : BOOLEAN, count : Counts, reports : Nat]
         /\ post.status \in {"live", "hidden"} =>
              FromRow.count = post.count /\ FromRow.reports = Cardinality(reports)
         /\ post.status \notin {"live", "hidden"} => FromRow = stats
BY FS_CardinalityType DEF RowsOK, FromRow

LEMMA SyncKept ==
  ASSUME FeedInv, NEW w \in Requests, SyncRecommendCounters(w)
  PROVE  FeedInv'
<1> DEFINE t == request[w].todo
<1>1. /\ Due(w, "sync") /\ Done(w) /\ stats' = FromRow
      /\ UNCHANGED <<post, likes, shares, comments, reports, lists>>
  BY DEF SyncRecommendCounters, postVars
<1>2. /\ Active(w) /\ t \in Todos /\ t # <<>> /\ Head(t) = "sync"
      /\ request[w] \in RequestRecord
  BY <1>1, DueTells DEF FeedInv
<1>3. t = Copying /\ Tail(t) = <<"forget">> /\ <<"forget">> # Copying
  <2>1. t = Copying
    BY <1>2, TodoNext
  <2>2. Tail(<<"sync", "forget">>) = <<"forget">>
    BY TailOfTwo
  <2>3. QED BY <2>1, <2>2 DEF Copying
<1>4. PICK r \in RequestRecord :
        /\ Moves(w, r) /\ UNCHANGED spent /\ r.todo = Tail(t)
        /\ r.todo # <<>> => r = [request[w] EXCEPT !.todo = Tail(@)]
  BY <1>1, <1>2, DoneGives DEF FeedInv
<1>5. r.todo = <<"forget">> /\ r.uid = request[w].uid
  <2>1. <<"forget">> # <<>>
    OBVIOUS
  <2>2. r = [request[w] EXCEPT !.todo = <<"forget">>]
    BY <1>3, <1>4, <2>1
  <2>3. QED BY <1>2, <2>2 DEF RequestRecord
<1>6. /\ RequestsOK' /\ OneActive'
      /\ post.status = "none" =>
           \A x \in Requests :
             request'[x].todo \notin CountedWrites \cup {Copying, <<"delete">>}
  BY <1>2, <1>3, <1>4, <1>5, StepCommon DEF Ends
<1>7. RowsOK'
  BY <1>1, FromRowTyped DEF FeedInv, RowsOK
<1>8. Unpublished'
  <2>1. post.status # "none"
    BY <1>3 DEF FeedInv, Unpublished
  <2>2. QED BY <1>1, <2>1 DEF Unpublished
<1>9. CountsAreRows' /\ EnoughReportsHide'
  BY <1>1 DEF FeedInv, CountsAreRows, EnoughReportsHide, LivePost
<1>10. Catching'
  BY <1>1, FromRowTyped DEF FeedInv, Catching, LivePost
<1>11. Serving'
  <2>1. SUFFICES ASSUME spent'.overlaps = 0, spent'.faults = 0 PROVE Serving'
    BY DEF Serving
  <2>2. /\ \A x \in Requests : Serves(x) => request[x].uid \notin reports
        /\ \A u \in reports :
             lists[u]["discover"] = "with" =>
               \E x \in Requests : request[x].uid = u /\ Dropping(x)
    BY <1>4, <2>1 DEF FeedInv, Serving
  <2>3. ASSUME NEW x \in Requests, Serves(x)' PROVE request'[x].uid \notin reports
    <3>1. <<"forget">> \notin {<<"list">>, <<"store", "list">>}
      OBVIOUS
    <3>2. x # w
      BY <1>4, <1>5, <2>3, <3>1 DEF Serves, Moves
    <3>3. QED BY <1>4, <2>2, <2>3, <3>2 DEF Serves, Moves
  <2>4. ASSUME NEW u \in reports, lists[u]["discover"] = "with"
        PROVE  \E x \in Requests : request'[x].uid = u /\ Dropping(x)'
    <3>1. PICK x \in Requests : request[x].uid = u /\ Dropping(x)
      BY <2>2, <2>4
    <3>2. request'[x].uid = u /\ request'[x].todo \in {Copying, <<"forget">>}
      BY <1>4, <1>5, <3>1 DEF Moves, Dropping
    <3>3. QED BY <3>2 DEF Dropping
  <2>5. QED BY <1>1, <2>3, <2>4 DEF Serving
<1>12. QED BY <1>6, <1>7, <1>8, <1>9, <1>10, <1>11 DEF FeedInv

LEMMA ForgetKept ==
  ASSUME FeedInv, NEW w \in Requests, InvalidateCandidateCache(w)
  PROVE  FeedInv'
<1> DEFINE t == request[w].todo
           u == request[w].uid
<1>1. /\ Due(w, "forget") /\ Done(w)
      /\ lists' = [lists EXCEPT ![u] = NoList]
      /\ UNCHANGED <<post, likes, shares, comments, reports, stats>>
  BY DEF InvalidateCandidateCache, postVars
<1>2. /\ Active(w) /\ t \in Todos /\ t # <<>> /\ Head(t) = "forget"
      /\ request[w] \in RequestRecord
  BY <1>1, DueTells DEF FeedInv
<1>3. t = <<"forget">> /\ Tail(t) = <<>>
  BY <1>2, TodoNext, TailOfOne
<1>4. PICK r \in RequestRecord :
        Moves(w, r) /\ UNCHANGED spent /\ r.todo = <<>>
  BY <1>1, <1>2, <1>3, DoneGives DEF FeedInv
<1>5. <<>> \notin {Copying, <<"list">>, <<"store", "list">>} /\ t # Copying
  BY <1>3 DEF Copying
<1>6. /\ RequestsOK' /\ OneActive'
      /\ post.status = "none" =>
           \A x \in Requests :
             request'[x].todo \notin CountedWrites \cup {Copying, <<"delete">>}
  BY <1>2, <1>4, <1>5, StepCommon DEF Ends
<1>7. u \in Users /\ lists \in [Users -> [Modes -> {"none", "with", "without"}]]
  BY <1>2 DEF FeedInv, RowsOK, RequestRecord
<1>8. NoList \in [Modes -> {"none", "with", "without"}] /\ NoList["discover"] = "none"
  BY DEF NoList, Modes
<1>9. RowsOK'
  BY <1>1, <1>7, <1>8 DEF FeedInv, RowsOK
<1>10. Unpublished'
  BY <1>1, <1>6 DEF FeedInv, Unpublished
<1>11. CountsAreRows' /\ EnoughReportsHide'
  BY <1>1 DEF FeedInv, CountsAreRows, EnoughReportsHide, LivePost
<1>12. Catching'
  BY <1>1, <1>4, <1>5 DEF FeedInv, Catching, LivePost, Moves
<1>13. Serving'
  <2>1. SUFFICES ASSUME spent'.overlaps = 0, spent'.faults = 0 PROVE Serving'
    BY DEF Serving
  <2>2. /\ \A x \in Requests : Serves(x) => request[x].uid \notin reports
        /\ \A v \in reports :
             lists[v]["discover"] = "with" =>
               \E x \in Requests : request[x].uid = v /\ Dropping(x)
    BY <1>4, <2>1 DEF FeedInv, Serving
  <2>3. ASSUME NEW x \in Requests, Serves(x)' PROVE request'[x].uid \notin reports
    <3>1. x # w
      BY <1>4, <1>5, <2>3 DEF Serves, Moves
    <3>2. QED BY <1>4, <2>2, <2>3, <3>1 DEF Serves, Moves
  <2>4. ASSUME NEW v \in reports, lists'[v]["discover"] = "with"
        PROVE  \E x \in Requests : request'[x].uid = v /\ Dropping(x)'
    <3>1. v # u /\ v \in Users
      BY <1>1, <1>7, <1>8, <2>4 DEF FeedInv, RowsOK
    <3>2. lists[v]["discover"] = "with"
      BY <1>1, <1>7, <2>4, <3>1
    <3>3. PICK x \in Requests : request[x].uid = v /\ Dropping(x)
      BY <2>2, <3>2
    <3>4. request'[x] = request[x]
      BY <1>4, <3>1, <3>3 DEF Moves
    <3>5. QED BY <3>3, <3>4 DEF Dropping
  <2>5. QED BY <1>1, <2>3, <2>4 DEF Serving
<1>14. QED BY <1>6, <1>9, <1>10, <1>11, <1>12, <1>13 DEF FeedInv

LEMMA DeleteKept ==
  ASSUME FeedInv, NEW w \in Requests, HardDeletePost(w)
  PROVE  FeedInv'
<1> DEFINE t == request[w].todo
<1>1. /\ Due(w, "delete") /\ Done(w)
      /\ post' = [status |-> "deleted", count |-> NoCount]
      /\ likes' = {} /\ shares' = {} /\ comments' = 0 /\ reports' = {}
      /\ stats' = NoStats /\ UNCHANGED lists
  BY DEF HardDeletePost
<1>2. /\ Active(w) /\ t \in Todos /\ t # <<>> /\ Head(t) = "delete"
      /\ request[w] \in RequestRecord
  BY <1>1, DueTells DEF FeedInv
<1>3. t = <<"delete">> /\ Tail(t) = <<>>
  BY <1>2, TodoNext, TailOfOne
<1>4. PICK r \in RequestRecord :
        Moves(w, r) /\ UNCHANGED spent /\ r.todo = <<>>
  BY <1>1, <1>2, <1>3, DoneGives DEF FeedInv
<1>5. <<>> # Copying /\ <<>> \in Ends
  BY DEF Copying, Ends
<1>6. RequestsOK' /\ OneActive'
  BY <1>2, <1>4, <1>5, StepCommon
<1>7. NoCount \in Counts
  BY DEF NoCount, Counts
<1>8. NoStats \in [row : BOOLEAN, count : Counts, reports : Nat]
  BY <1>7 DEF NoStats
<1>9. /\ post' \in [status : {"none", "live", "hidden", "deleted"}, count : Counts]
      /\ post'.status = "deleted"
  BY <1>1, <1>7
<1>10. RowsOK'
  BY <1>1, <1>8, <1>9, FS_EmptySet DEF FeedInv, RowsOK
<1>11. Unpublished' /\ CountsAreRows' /\ EnoughReportsHide' /\ Catching'
  BY <1>9 DEF Unpublished, CountsAreRows, EnoughReportsHide, Catching, LivePost
<1>12. Serving'
  BY <1>1 DEF Serving
<1>13. QED BY <1>6, <1>10, <1>11, <1>12 DEF FeedInv

\* What is loaded for the discovery list is asked for its reports here.
LEMMA LoadKept ==
  ASSUME FeedInv, NEW w \in Requests, NEW with \in BOOLEAN, Load(w, with)
  PROVE  FeedInv'
<1> DEFINE t == request[w].todo
           o == [request[w] EXCEPT !.on = with]
           r == [o EXCEPT !.todo = <<"store", "list">>]
<1>1. /\ Due(w, "load")
      /\ with => Candidate(request[w].uid, request[w].mode)
      /\ UNCHANGED <<post, likes, shares, comments, reports, stats, lists, spent>>
  BY DEF Load, postVars
<1>2. /\ Active(w) /\ t \in Todos /\ t # <<>> /\ Head(t) = "load"
      /\ request[w] \in RequestRecord
  BY <1>1, DueTells DEF FeedInv
<1>3. t = <<"load", "store", "list">> /\ Tail(t) = <<"store", "list">>
  <2>1. t = <<"load", "store", "list">>
    BY <1>2, TodoNext
  <2>2. QED BY <2>1, TailOfThree
<1>4. /\ o \in RequestRecord /\ o.on = with /\ o.uid = request[w].uid
      /\ o.mode = request[w].mode /\ o.todo = t
  BY <1>2 DEF RequestRecord
<1>5. request' = [request EXCEPT ![w] = r]
  <2>1. request' = [request EXCEPT ![w] = [o EXCEPT !.todo = Tail(t)]]
    BY <1>4 DEF Load, FeedInv, RequestsOK
  <2>2. QED BY <1>3, <2>1
<1> HIDE DEF o
<1>6. <<"store", "list">> \in Todos /\ <<"store", "list">> # Copying
  BY DEF Todos, Others, Copying
<1>7. /\ r \in RequestRecord /\ r.on = with /\ r.uid = request[w].uid
      /\ r.mode = request[w].mode /\ r.todo = <<"store", "list">>
  BY <1>4, <1>6 DEF RequestRecord
<1>8. Moves(w, r)
  BY <1>5 DEF Moves, FeedInv, RequestsOK
<1> HIDE DEF r
<1>9. /\ RequestsOK' /\ OneActive'
      /\ post.status = "none" =>
           \A x \in Requests :
             request'[x].todo \notin CountedWrites \cup {Copying, <<"delete">>}
  BY <1>1, <1>2, <1>6, <1>7, <1>8, StepCommon
<1>10. RowsOK' /\ Unpublished'
  BY <1>1, <1>9 DEF FeedInv, RowsOK, Unpublished
<1>11. CountsAreRows' /\ EnoughReportsHide'
  BY <1>1 DEF FeedInv, CountsAreRows, EnoughReportsHide, LivePost
<1>12. t \notin {Copying, <<"forget">>}
  BY <1>3 DEF Copying
<1>13. Catching'
  BY <1>1, <1>8, <1>12 DEF FeedInv, Catching, LivePost, Moves
<1>14. Serving'
  <2>1. SUFFICES ASSUME spent'.overlaps = 0, spent'.faults = 0 PROVE Serving'
    BY DEF Serving
  <2>2. /\ \A x \in Requests : Serves(x) => request[x].uid \notin reports
        /\ \A u \in reports :
             lists[u]["discover"] = "with" =>
               \E x \in Requests : request[x].uid = u /\ Dropping(x)
    BY <1>1, <2>1 DEF FeedInv, Serving
  <2>3. ASSUME NEW x \in Requests, Serves(x)' PROVE request'[x].uid \notin reports
    <3>1. CASE x = w
      <4>1. r.on /\ r.mode = "discover"
        BY <1>8, <2>3, <3>1 DEF Serves, Moves
      <4>2. Candidate(request[w].uid, "discover")
        BY <1>1, <1>7, <4>1
      <4>3. QED BY <1>7, <1>8, <3>1, <4>2 DEF Candidate, Moves
    <3>2. CASE x # w
      BY <1>8, <2>2, <2>3, <3>2 DEF Serves, Moves
    <3>3. QED BY <3>1, <3>2
  <2>4. ASSUME NEW u \in reports, lists[u]["discover"] = "with"
        PROVE  \E x \in Requests : request'[x].uid = u /\ Dropping(x)'
    <3>1. PICK x \in Requests : request[x].uid = u /\ Dropping(x)
      BY <2>2, <2>4
    <3>2. request'[x] = request[x]
      BY <1>8, <1>12, <3>1 DEF Moves, Dropping
    <3>3. QED BY <3>1, <3>2 DEF Dropping
  <2>5. QED BY <1>1, <2>3, <2>4 DEF Serving
<1>15. QED BY <1>9, <1>10, <1>11, <1>13, <1>14 DEF FeedInv

LEMMA StoreKept ==
  ASSUME FeedInv, NEW w \in Requests, Store(w)
  PROVE  FeedInv'
<1> DEFINE t == request[w].todo
           u == request[w].uid
           mode == request[w].mode
           mark == IF request[w].on THEN "with" ELSE "without"
<1>1. /\ Due(w, "store") /\ Done(w)
      /\ lists' = [lists EXCEPT ![u][mode] = mark]
      /\ UNCHANGED <<post, likes, shares, comments, reports, stats>>
  BY DEF Store, postVars
<1>2. /\ Active(w) /\ t \in Todos /\ t # <<>> /\ Head(t) = "store"
      /\ request[w] \in RequestRecord /\ u \in Users /\ mode \in Modes
  BY <1>1, DueTells DEF FeedInv, RequestRecord
<1>3. t = <<"store", "list">> /\ Tail(t) = <<"list">>
  <2>1. t = <<"store", "list">>
    BY <1>2, TodoNext
  <2>2. QED BY <2>1, TailOfTwo
<1>4. PICK r \in RequestRecord :
        /\ Moves(w, r) /\ UNCHANGED spent /\ r.todo = Tail(t)
        /\ r.todo # <<>> => r = [request[w] EXCEPT !.todo = Tail(@)]
  BY <1>1, <1>2, DoneGives DEF FeedInv
<1>5. r.todo = <<"list">> /\ r.uid = u /\ r.mode = mode /\ r.on = request[w].on
  <2>1. <<"list">> # <<>>
    OBVIOUS
  <2>2. r = [request[w] EXCEPT !.todo = <<"list">>]
    BY <1>3, <1>4, <2>1
  <2>3. QED BY <1>2, <2>2 DEF RequestRecord
<1>6. /\ <<"list">> \in Ends /\ <<"list">> # Copying
      /\ t \notin {Copying, <<"forget">>}
  BY <1>3 DEF Ends, Copying
<1>7. /\ RequestsOK' /\ OneActive'
      /\ post.status = "none" =>
           \A x \in Requests :
             request'[x].todo \notin CountedWrites \cup {Copying, <<"delete">>}
  BY <1>2, <1>4, <1>5, <1>6, StepCommon
<1>8. /\ mark \in {"none", "with", "without"}
      /\ lists \in [Users -> [Modes -> {"none", "with", "without"}]]
  BY DEF FeedInv, RowsOK
<1>9. mark = "with" <=> request[w].on
  OBVIOUS
<1> HIDE DEF mark
<1>10. RowsOK'
  BY <1>1, <1>2, <1>8 DEF FeedInv, RowsOK
<1>11. Unpublished'
  BY <1>1, <1>7 DEF FeedInv, Unpublished
<1>12. CountsAreRows' /\ EnoughReportsHide'
  BY <1>1 DEF FeedInv, CountsAreRows, EnoughReportsHide, LivePost
<1>13. Catching'
  BY <1>1, <1>4, <1>6 DEF FeedInv, Catching, LivePost, Moves
<1>14. Serving'
  <2>1. SUFFICES ASSUME spent'.overlaps = 0, spent'.faults = 0 PROVE Serving'
    BY DEF Serving
  <2>2. /\ \A x \in Requests : Serves(x) => request[x].uid \notin reports
        /\ \A v \in reports :
             lists[v]["discover"] = "with" =>
               \E x \in Requests : request[x].uid = v /\ Dropping(x)
    BY <1>4, <2>1 DEF FeedInv, Serving
  <2>3. ASSUME NEW x \in Requests, Serves(x)' PROVE request'[x].uid \notin reports
    <3>1. Serves(x) /\ request'[x].uid = request[x].uid
      BY <1>3, <1>4, <1>5, <2>3 DEF Serves, Moves
    <3>2. QED BY <2>2, <3>1
  <2>4. ASSUME NEW v \in reports, lists'[v]["discover"] = "with"
        PROVE  \E x \in Requests : request'[x].uid = v /\ Dropping(x)'
    <3>1. v \in Users /\ "discover" \in Modes
      BY DEF FeedInv, RowsOK, Modes
    <3>2. ~(v = u /\ mode = "discover")
      <4>1. SUFFICES ASSUME v = u, mode = "discover" PROVE FALSE
        OBVIOUS
      <4>2. lists'[u]["discover"] = mark
        BY <1>1, <1>2, <1>8, <3>1, <4>1
      <4>3. Serves(w)
        BY <1>3, <1>9, <2>4, <4>1, <4>2 DEF Serves
      <4>4. QED BY <2>2, <4>1, <4>3
    <3>3. lists[v]["discover"] = "with"
      BY <1>1, <1>2, <1>8, <2>4, <3>1, <3>2
    <3>4. PICK x \in Requests : request[x].uid = v /\ Dropping(x)
      BY <2>2, <3>3
    <3>5. request'[x] = request[x]
      BY <1>4, <1>6, <3>4 DEF Moves, Dropping
    <3>6. QED BY <3>4, <3>5 DEF Dropping
  <2>5. QED BY <1>1, <2>3, <2>4 DEF Serving
<1>15. QED BY <1>7, <1>10, <1>11, <1>12, <1>13, <1>14 DEF FeedInv

LEMMA StepKept ==
  ASSUME FeedInv, NEW w \in Requests, Step(w)
  PROVE  FeedInv'
<1>1. ASSUME NEW call \in {"follow", "unfollow", "list", "black", "im", "writeBack"},
             Due(w, call), Done(w), UNCHANGED <<postVars, stats, lists>>
      PROVE  FeedInv'
  BY <1>1, AsideKept
<1>2. CASE WriteFollow(w)
  BY <1>1, <1>2 DEF WriteFollow
<1>3. CASE WriteUnfollow(w)
  BY <1>1, <1>3 DEF WriteUnfollow
<1>4. CASE ListByFeedIDs(w)
  BY <1>1, <1>4 DEF ListByFeedIDs
<1>5. CASE WriteBlacklist(w)
  BY <1>1, <1>5 DEF WriteBlacklist
<1>6. CASE IMBlacklist(w)
  BY <1>1, <1>6 DEF IMBlacklist
<1>7. CASE WriteBack(w)
  BY <1>1, <1>7 DEF WriteBack
<1>8. QED
  BY <1>2, <1>3, <1>4, <1>5, <1>6, <1>7, WriteLikeKept, WriteCommentKept,
     WriteShareKept, WriteReportKept, SyncKept, ForgetKept, DeleteKept,
     LoadKept, StoreKept DEF Step

-----------------------------------------------------------------------------
(***************************************************************************)
(* What happens without a caller that waits                                *)
(***************************************************************************)
LEMMA PublishKept ==
  ASSUME FeedInv, Publish
  PROVE  FeedInv'
<1>1. /\ post.status = "none" /\ post' = [post EXCEPT !.status = "live"]
      /\ lists' = [lists EXCEPT ![Author] = NoList]
      /\ UNCHANGED <<likes, shares, comments, reports, stats, request, spent>>
  BY DEF Publish
<1>2. /\ post.count = NoCount /\ stats = NoStats
      /\ likes = {} /\ shares = {} /\ reports = {} /\ comments = 0
  BY <1>1 DEF FeedInv, Unpublished
<1>3. /\ post \in [status : {"none", "live", "hidden", "deleted"}, count : Counts]
      /\ lists \in [Users -> [Modes -> {"none", "with", "without"}]]
  BY DEF FeedInv, RowsOK
<1>4. /\ post' \in [status : {"none", "live", "hidden", "deleted"}, count : Counts]
      /\ post'.status = "live" /\ post'.count = NoCount
  BY <1>1, <1>2, <1>3
<1>5. NoList \in [Modes -> {"none", "with", "without"}]
  BY DEF NoList
<1>6. RequestsOK' /\ RowsOK'
  BY <1>1, <1>3, <1>4, <1>5, FeedAssumption DEF FeedInv, RequestsOK, RowsOK
<1>7. Unpublished'
  BY <1>4 DEF Unpublished
<1>8. Cardinality({}) = 0
  BY FS_EmptySet
<1>9. NoCount.likes = 0 /\ NoCount.comments = 0 /\ NoCount.shares = 0
  BY DEF NoCount
<1>10. CountsAreRows'
  BY <1>1, <1>2, <1>4, <1>8, <1>9 DEF CountsAreRows, LivePost
<1>11. EnoughReportsHide'
  BY <1>1, <1>2, <1>8, FeedAssumption DEF EnoughReportsHide
<1>12. Catching'
  BY <1>1, <1>2, <1>4, <1>8 DEF Catching, NoStats
<1>13. OneActive' /\ Serving'
  BY <1>1, <1>2 DEF FeedInv, OneActive, Serving, Serves
<1>14. QED BY <1>6, <1>7, <1>10, <1>11, <1>12, <1>13 DEF FeedInv

\* The statistics change, and nothing else.
LEMMA StatsKept ==
  ASSUME FeedInv, Event \/ RebuildRecommendStats
  PROVE  FeedInv'
<1>1. UNCHANGED <<post, likes, shares, comments, reports, lists, request, spent>>
  BY DEF Event, RebuildRecommendStats, postVars
<1>2. stats \in [row : BOOLEAN, count : Counts, reports : Nat]
  BY DEF FeedInv, RowsOK
<1>3. /\ stats' \in [row : BOOLEAN, count : Counts, reports : Nat]
      /\ post.status = "none" => stats' = stats
      /\ LivePost => \/ stats'.count = stats.count /\ stats'.reports = stats.reports
                     \/ stats'.count = post.count /\ stats'.reports = Cardinality(reports)
  <2>1. CASE Event
    BY <1>2, <2>1 DEF Event
  <2>2. CASE RebuildRecommendStats
    BY <2>2, FromRowTyped DEF FeedInv, RebuildRecommendStats, LivePost
  <2>3. QED BY <2>1, <2>2
<1>4. RequestsOK' /\ RowsOK'
  BY <1>1, <1>3 DEF FeedInv, RequestsOK, RowsOK
<1>5. Unpublished'
  BY <1>1, <1>3 DEF FeedInv, Unpublished
<1>6. CountsAreRows' /\ EnoughReportsHide'
  BY <1>1 DEF FeedInv, CountsAreRows, EnoughReportsHide, LivePost
<1>7. Catching'
  BY <1>1, <1>3 DEF FeedInv, Catching, LivePost
<1>8. OneActive' /\ Serving'
  BY <1>1 DEF FeedInv, OneActive, Serving, Serves, Dropping
<1>9. QED BY <1>4, <1>5, <1>6, <1>7, <1>8 DEF FeedInv

LEMMA ExpireKept ==
  ASSUME FeedInv, NEW u \in Users, NEW mode \in Modes, ExpireList(u, mode)
  PROVE  FeedInv'
<1>1. /\ UNCHANGED <<post, likes, shares, comments, reports, stats, request, spent>>
      /\ lists' = [lists EXCEPT ![u][mode] = "none"]
  BY DEF ExpireList, postVars
<1>2. lists \in [Users -> [Modes -> {"none", "with", "without"}]]
  BY DEF FeedInv, RowsOK
<1>3. /\ lists' \in [Users -> [Modes -> {"none", "with", "without"}]]
      /\ \A v \in Users : lists'[v]["discover"] = "with" => lists[v]["discover"] = "with"
  BY <1>1, <1>2 DEF Modes
<1>4. RequestsOK' /\ RowsOK'
  BY <1>1, <1>3 DEF FeedInv, RequestsOK, RowsOK
<1>5. Unpublished' /\ CountsAreRows' /\ EnoughReportsHide' /\ Catching' /\ OneActive'
  BY <1>1 DEF FeedInv, Unpublished, CountsAreRows, EnoughReportsHide, Catching,
              OneActive, LivePost
<1>6. Serving'
  <2>1. reports \subseteq Users
    BY DEF FeedInv, RowsOK
  <2>2. QED BY <1>1, <1>3, <2>1 DEF FeedInv, Serving, Serves, Dropping
<1>7. QED BY <1>4, <1>5, <1>6 DEF FeedInv

-----------------------------------------------------------------------------
(***************************************************************************)
(* The theorems                                                            *)
(***************************************************************************)
LEMMA FeedInitInv == FeedInit => FeedInv
<1> SUFFICES ASSUME FeedInit PROVE FeedInv
  OBVIOUS
<1>1. /\ post.status = "none" /\ post.count = NoCount /\ post = [status |-> "none", count |-> NoCount]
      /\ likes = {} /\ shares = {} /\ comments = 0 /\ reports = {}
      /\ stats = NoStats /\ lists = [u \in Users |-> NoList]
      /\ request = [w \in Requests |-> Idle]
      /\ spent = [requests |-> 0, overlaps |-> 0, faults |-> 0]
  BY DEF FeedInit
<1>2. RequestsOK
  BY <1>1, IdleTyped DEF RequestsOK
<1>3. NoCount \in Counts /\ NoList \in [Modes -> {"none", "with", "without"}]
  BY DEF NoCount, Counts, NoList
<1>4. RowsOK
  BY <1>1, <1>3, FS_EmptySet DEF RowsOK, NoStats
<1>5. \A w \in Requests : request[w].todo = <<>>
  BY <1>1, IdleTyped
<1>6. <<>> \notin CountedWrites \cup {Copying, <<"delete">>}
  BY DEF CountedWrites, Copying
<1>7. Unpublished /\ OneActive
  BY <1>1, <1>5, <1>6 DEF Unpublished, OneActive
<1>8. CountsAreRows /\ Catching
  BY <1>1 DEF CountsAreRows, Catching, LivePost
<1>9. EnoughReportsHide /\ Serving
  BY <1>1 DEF EnoughReportsHide, LivePost, Serving
<1>10. QED BY <1>2, <1>4, <1>7, <1>8, <1>9 DEF FeedInv

LEMMA FeedNextInv == FeedInv /\ [FeedNext]_feedVars => FeedInv'
<1> SUFFICES ASSUME FeedInv, [FeedNext]_feedVars PROVE FeedInv'
  OBVIOUS
<1>1. CASE FeedNext
  BY <1>1, RequestsBegin, StepKept, FailKept, PublishKept, StatsKept, ExpireKept
  DEF FeedNext
<1>2. CASE UNCHANGED feedVars
  <2>1. UNCHANGED <<post, likes, shares, comments, reports, stats, lists, request, spent>>
    BY <1>2 DEF feedVars, postVars
  <2>2. RequestsOK' /\ RowsOK' /\ Unpublished'
    BY <2>1 DEF FeedInv, RequestsOK, RowsOK, Unpublished
  <2>3. CountsAreRows' /\ EnoughReportsHide' /\ Catching' /\ OneActive' /\ Serving'
    BY <2>1 DEF FeedInv, CountsAreRows, EnoughReportsHide, Catching, OneActive,
                Serving, Serves, Dropping, LivePost
  <2>4. QED BY <2>2, <2>3 DEF FeedInv
<1>3. QED BY <1>1, <1>2

LEMMA FeedInvHolds == FeedSpec => []FeedInv
BY FeedInitInv, FeedNextInv, PTL DEF FeedSpec

\* The counters of a live post are the numbers of its rows, however many
\* requests overlap and fail (feed/db.go:732-760).
THEOREM CountersAreRows == FeedSpec => []CountsAreRows
<1>1. FeedInv => CountsAreRows
  BY DEF FeedInv
<1>2. QED BY <1>1, FeedInvHolds, PTL

\* Enough reports hide the post for any limit: no two reports miss each other
\* (feed/db.go:1030-1056).
THEOREM ReportsHide == FeedSpec => []EnoughReportsHide
<1>1. FeedInv => EnoughReportsHide
  BY DEF FeedInv
<1>2. QED BY <1>1, FeedInvHolds, PTL

\* When no request is under way and none has failed, the statistics are those
\* of the post, in whatever order the copies were made (feed/db.go:1139-1154).
THEOREM StatisticsCatchUp == FeedSpec => []CountsCatchUp
<1>1. FeedInv => CountsCatchUp
  <2>1. Quiet => \A w \in Requests : request[w].todo # Copying
    BY QuietIs DEF Copying
  <2>2. QED BY <2>1 DEF FeedInv, Catching, CountsCatchUp
<1>2. QED BY <1>1, FeedInvHolds, PTL

\* Where requests do not overlap and none fails, who has reported the post is
\* not served it by the discovery list (feed/service.go:166-172).
THEOREM ReporterIsSpared == FeedSpec => []ReportedIsNotServed
<1>1. FeedInv => ReportedIsNotServed
  <2>1. SUFFICES ASSUME FeedInv, spent.overlaps = 0, spent.faults = 0,
                        NEW w \in Requests, Due(w, "list"),
                        request[w].mode = "discover", request[w].on
                 PROVE  request[w].uid \notin reports
    BY DEF ReportedIsNotServed
  <2>2. /\ request[w].todo \in Todos /\ request[w].todo # <<>>
        /\ Head(request[w].todo) = "list"
    BY <2>1, DueTells DEF FeedInv
  <2>3. request[w].todo = <<"list">>
    BY <2>2, TodoNext
  <2>4. QED BY <2>1, <2>3 DEF FeedInv, Serving, Serves
<1>2. QED BY <1>1, FeedInvHolds, PTL
=============================================================================
