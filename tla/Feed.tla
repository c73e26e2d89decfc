-------------------------------- MODULE Feed --------------------------------
(***************************************************************************)
(* One public post of modules/feed, what other users do to it, who follows *)
(* and who blocks whom, and the lists of candidates in the cache from      *)
(* which the post is served.                                               *)
(*                                                                         *)
(* A handler checks the post and the blacklist first, then commits one     *)
(* transaction, then copies the counters into the statistics, and at last  *)
(* drops the caller's lists.  A request is the calls it has left to make.  *)
(***************************************************************************)
EXTENDS Integers, FiniteSets, Sequences

CONSTANTS
  Users,        \* the users
  Author,       \* the one whose post is followed
  Requests,     \* the requests that are worked on
  HideLimit,    \* the open reports that hide a post: 10 in the code
  MaxRequests,  \* bound: the requests besides the publication
  MaxTroubles   \* bound: requests that start while another is under way,
                \* failed calls and crashes together

ASSUME FeedAssumption ==
  /\ Author \in Users
  /\ HideLimit \in Nat \ {0}
  /\ MaxRequests \in Nat /\ MaxTroubles \in Nat

VARIABLES
  post,      \* feed_posts: the status of the row and its counters
  likes,     \* feed_likes: who likes the post
  shares,    \* feed_shares: who has shared it
  comments,  \* feed_comments: the number of its rows
  reports,   \* feed_reports: who has reported it
  stats,     \* feed_recommend_stats: the copy of the counters
  lists,     \* Redis: is the post among the candidates of a user
  follows,   \* feed_follows: <<follower, followed>>
  black,     \* user_setting: <<who blocks, whom>>
  imBlack,   \* the same at the IM server
  request,   \* the requests
  spent      \* requests, overlaps and faults so far

postVars == <<post, likes, shares, comments, reports>>
blockVars == <<black, imBlack>>
feedVars == <<postVars, stats, lists, follows, blockVars, request, spent>>

Modes == {"discover", "following"}
NoCount == [likes |-> 0, comments |-> 0, shares |-> 0]
NoStats == [row |-> FALSE, count |-> NoCount, reports |-> 0]
NoList == [m \in Modes |-> "none"]
Idle == [uid |-> Author, to |-> Author, on |-> FALSE, mode |-> "discover",
         todo |-> <<>>]

FeedInit ==
  /\ post = [status |-> "none", count |-> NoCount]
  /\ likes = {} /\ shares = {} /\ comments = 0 /\ reports = {}
  /\ stats = NoStats
  /\ lists = [u \in Users |-> NoList]
  /\ follows = {}
  /\ black = {} /\ imBlack = {}
  /\ request = [w \in Requests |-> Idle]
  /\ spent = [requests |-> 0, overlaps |-> 0, faults |-> 0]

Active(w) == request[w].todo # <<>>
Quiet == \A w \in Requests : ~Active(w)

\* activePostAuthor.
LivePost == post.status = "live"

\* blockedBetween, in either direction.
BlockedBetween(u, v) == <<u, v>> \in black \/ <<v, u>> \in black

-----------------------------------------------------------------------------
(***************************************************************************)
(* Requests and their calls                                                *)
(***************************************************************************)
Of(u) == [Idle EXCEPT !.uid = u]
Between(u, v) == [Idle EXCEPT !.uid = u, !.to = v]

Troubles == spent.overlaps + spent.faults

Start(w, r, todo) ==
  /\ ~Active(w)
  /\ spent.requests < MaxRequests
  /\ ~Quiet => Troubles < MaxTroubles
  /\ spent' = [spent EXCEPT !.requests = @ + 1,
                            !.overlaps = IF Quiet THEN @ ELSE @ + 1]
  /\ request' = [request EXCEPT ![w] = [r EXCEPT !.todo = todo]]
  /\ UNCHANGED <<postVars, stats, lists, follows, blockVars>>

Due(w, call) == Active(w) /\ Head(request[w].todo) = call

\* The first call is done; one that returned an error to the client, or had
\* nothing left to do, ends the request.
Done(w) ==
  /\ request' = [request EXCEPT ![w] =
       IF Len(@.todo) = 1 THEN Idle
       ELSE [request[w] EXCEPT !.todo = Tail(request[w].todo)]]
  /\ UNCHANGED spent

\* A call fails or the process dies; what was committed stays.  The errors of
\* the statistics and of the cache are dropped, and the request goes on.
Fail(w) ==
  /\ Active(w)
  /\ Troubles < MaxTroubles
  /\ spent' = [spent EXCEPT !.faults = @ + 1]
  /\ request' = [request EXCEPT ![w] =
       IF Head(@.todo) \in {"sync", "store"}
       THEN [request[w] EXCEPT !.todo = Tail(request[w].todo)] ELSE Idle]
  /\ UNCHANGED <<postVars, stats, lists, follows, blockVars>>

-----------------------------------------------------------------------------
(***************************************************************************)
(* The handlers: what they check before they write                         *)
(***************************************************************************)
\* publish: the post, and the lists of its author dropped.
Publish ==
  /\ post.status = "none"
  /\ post' = [post EXCEPT !.status = "live"]
  /\ lists' = [lists EXCEPT ![Author] = NoList]
  /\ UNCHANGED <<likes, shares, comments, reports, stats, follows, blockVars,
                 request, spent>>

\* setLike: the client sends the state it wants.
SetLike(w, u, on) ==
  /\ LivePost /\ ~BlockedBetween(u, Author)
  /\ Start(w, [Of(u) EXCEPT !.on = on],
           IF (u \in likes) = on THEN <<"forget">>
                                 ELSE <<"like", "sync", "forget">>)

AddComment(w, u) ==
  /\ LivePost /\ ~BlockedBetween(u, Author)
  /\ Start(w, Of(u), <<"comment", "sync", "forget">>)

Share(w, u) ==
  /\ LivePost /\ ~BlockedBetween(u, Author)
  /\ Start(w, Of(u), IF u \in shares THEN <<"forget">>
                                     ELSE <<"share", "sync", "forget">>)

\* Fault: the lists of the reporter are kept.
ReportKeepsLists(w, u) ==
  /\ LivePost /\ u # Author
  /\ Start(w, Of(u), IF u \in reports THEN <<"forget">>
                                      ELSE <<"report", "sync">>)

Report(w, u) ==
  /\ LivePost /\ u # Author
  /\ Start(w, Of(u), IF u \in reports THEN <<"forget">>
                                      ELSE <<"report", "sync", "forget">>)

Follow(w, u, v) ==
  /\ u # v /\ ~BlockedBetween(u, v)
  /\ Start(w, Between(u, v), <<"follow", "forget">>)

Unfollow(w, u, v) ==
  u # v /\ Start(w, Between(u, v), <<"unfollow", "forget">>)

DeletePost(w) ==
  /\ post.status \in {"live", "hidden"}
  /\ Start(w, Of(Author), <<"delete">>)

\* listCachedCandidates: a list that is there and long enough is used as it
\* is, else the candidates are loaded and stored.
Recommend(w, u, mode, used) ==
  /\ used => lists[u][mode] # "none"
  /\ Start(w, [Of(u) EXCEPT !.mode = mode,
                            !.on = used /\ lists[u][mode] = "with"],
           IF used THEN <<"list">> ELSE <<"load", "store", "list">>)

\* addBlacklist of user/api.go: the IM server first.
AddBlacklist(w, u, v) ==
  u # v /\ Start(w, [Between(u, v) EXCEPT !.on = TRUE], <<"im", "black">>)

RemoveBlacklist(w, u, v) == u # v /\ Start(w, Between(u, v), <<"black", "im">>)

\* SetBlacklist of user/service.go: the database first, either way.
SetBlacklist(w, u, v, on) ==
  u # v /\ Start(w, [Between(u, v) EXCEPT !.on = on], <<"black", "im">>)

\* delete of user/api_friend.go resets the settings of the friend, and writes
\* the blacklist back as it has read it.
DeleteFriend(w, u, v) ==
  u # v /\ Start(w, [Between(u, v) EXCEPT !.on = <<u, v>> \in black],
                 <<"writeBack">>)

-----------------------------------------------------------------------------
(***************************************************************************)
(* The calls                                                               *)
(***************************************************************************)
\* A counter moves with its row, while the post is still live.
Counted(counter, n) ==
  post' = IF LivePost THEN [post EXCEPT !.count[counter] = n] ELSE post

\* Fault: the counter moves whether or not a row did.
WriteLikeAlways(w) ==
  LET r == request[w]
      n == post.count.likes
  IN
  /\ Due(w, "like")
  /\ likes' = IF r.on THEN likes \cup {r.uid} ELSE likes \ {r.uid}
  /\ Counted("likes", IF r.on THEN n + 1 ELSE IF n > 0 THEN n - 1 ELSE 0)
  /\ Done(w)
  /\ UNCHANGED <<shares, comments, reports, stats, lists, follows, blockVars>>

WriteLike(w) ==
  LET r == request[w]
      n == post.count.likes
  IN
  /\ Due(w, "like")
  /\ likes' = IF r.on THEN likes \cup {r.uid} ELSE likes \ {r.uid}
  /\ IF likes' = likes
     THEN UNCHANGED post
     ELSE Counted("likes", IF r.on THEN n + 1 ELSE IF n > 0 THEN n - 1 ELSE 0)
  /\ Done(w)
  /\ UNCHANGED <<shares, comments, reports, stats, lists, follows, blockVars>>

WriteComment(w) ==
  /\ Due(w, "comment")
  /\ comments' = comments + 1
  /\ Counted("comments", post.count.comments + 1)
  /\ Done(w)
  /\ UNCHANGED <<likes, shares, reports, stats, lists, follows, blockVars>>

WriteShare(w) ==
  LET u == request[w].uid IN
  /\ Due(w, "share")
  /\ shares' = shares \cup {u}
  /\ IF u \in shares THEN UNCHANGED post
                     ELSE Counted("shares", post.count.shares + 1)
  /\ Done(w)
  /\ UNCHANGED <<likes, comments, reports, stats, lists, follows, blockVars>>

\* Fault: the limit itself is not enough.
WriteReportBeyond(w) ==
  LET u == request[w].uid IN
  /\ Due(w, "report")
  /\ reports' = reports \cup {u}
  /\ post' = IF u \notin reports /\ LivePost
                /\ Cardinality(reports') > HideLimit
             THEN [post EXCEPT !.status = "hidden"] ELSE post
  /\ Done(w)
  /\ UNCHANGED <<likes, shares, comments, stats, lists, follows, blockVars>>

\* The transaction updates the row of the post before it counts the reports,
\* so two of them cannot miss each other.  A repeated report is left as it is,
\* and its statistics are not copied.
WriteReport(w) ==
  LET u == request[w].uid IN
  /\ Due(w, "report")
  /\ reports' = reports \cup {u}
  /\ post' = IF u \notin reports /\ LivePost
                /\ Cardinality(reports') >= HideLimit
             THEN [post EXCEPT !.status = "hidden"] ELSE post
  /\ request' = [request EXCEPT ![w].todo =
       IF u \in reports THEN <<"forget">> ELSE Tail(@)]
  /\ UNCHANGED <<likes, shares, comments, stats, lists, follows, blockVars,
                 spent>>

WriteFollow(w) ==
  /\ Due(w, "follow")
  /\ follows' = follows \cup {<<request[w].uid, request[w].to>>}
  /\ Done(w)
  /\ UNCHANGED <<postVars, stats, lists, blockVars>>

WriteUnfollow(w) ==
  /\ Due(w, "unfollow")
  /\ follows' = follows \ {<<request[w].uid, request[w].to>>}
  /\ Done(w)
  /\ UNCHANGED <<postVars, stats, lists, blockVars>>

\* The counters and the reports as the row has them now.
FromRow ==
  IF post.status \in {"live", "hidden"}
  THEN [row |-> TRUE, count |-> post.count, reports |-> Cardinality(reports)]
  ELSE stats

\* Fault: a copy only makes the row of the statistics, and never updates it.
SyncOnce(w) ==
  /\ Due(w, "sync")
  /\ stats' = IF stats.row THEN stats ELSE FromRow
  /\ Done(w)
  /\ UNCHANGED <<postVars, lists, follows, blockVars>>

SyncRecommendCounters(w) ==
  /\ Due(w, "sync")
  /\ stats' = FromRow
  /\ Done(w)
  /\ UNCHANGED <<postVars, lists, follows, blockVars>>

InvalidateCandidateCache(w) ==
  /\ Due(w, "forget")
  /\ lists' = [lists EXCEPT ![request[w].uid] = NoList]
  /\ Done(w)
  /\ UNCHANGED <<postVars, stats, follows, blockVars>>

\* hardDeletePost leaves the lists alone: they are filtered when served.
HardDeletePost(w) ==
  /\ Due(w, "delete")
  /\ post' = [status |-> "deleted", count |-> NoCount]
  /\ likes' = {} /\ shares' = {} /\ comments' = 0 /\ reports' = {}
  /\ stats' = NoStats
  /\ Done(w)
  /\ UNCHANGED <<lists, follows, blockVars>>

\* The candidates of a user; ranking and the limit may leave the post out.
\* The list of those one follows does not ask for reports.
Candidate(u, mode) ==
  /\ LivePost
  /\ IF mode = "discover" THEN u \notin reports ELSE <<u, Author>> \in follows

Load(w, with) ==
  LET r == request[w] IN
  /\ Due(w, "load")
  /\ with => Candidate(r.uid, r.mode)
  /\ request' = [request EXCEPT ![w].on = with, ![w].todo = Tail(@)]
  /\ UNCHANGED <<postVars, stats, lists, follows, blockVars, spent>>

Store(w) ==
  LET r == request[w] IN
  /\ Due(w, "store")
  /\ lists' = [lists EXCEPT ![r.uid][r.mode] =
                 IF r.on THEN "with" ELSE "without"]
  /\ Done(w)
  /\ UNCHANGED <<postVars, stats, follows, blockVars>>

\* listByFeedIDs: a post that is no longer live is not served.
ListByFeedIDs(w) ==
  /\ Due(w, "list")
  /\ Done(w)
  /\ UNCHANGED <<postVars, stats, lists, follows, blockVars>>

\* In one transaction the block, and the end of following both ways.
WriteBlacklist(w) ==
  LET u == request[w].uid
      v == request[w].to
  IN
  /\ Due(w, "black")
  /\ black' = IF request[w].on THEN black \cup {<<u, v>>}
                               ELSE black \ {<<u, v>>}
  /\ follows' = IF request[w].on THEN follows \ {<<u, v>>, <<v, u>>}
                                 ELSE follows
  /\ Done(w)
  /\ UNCHANGED <<postVars, stats, lists, imBlack>>

IMBlacklist(w) ==
  LET pair == <<request[w].uid, request[w].to>> IN
  /\ Due(w, "im")
  /\ imBlack' = IF request[w].on THEN imBlack \cup {pair} ELSE imBlack \ {pair}
  /\ Done(w)
  /\ UNCHANGED <<postVars, stats, lists, follows, black>>

WriteBack(w) ==
  LET pair == <<request[w].uid, request[w].to>> IN
  /\ Due(w, "writeBack")
  /\ black' = IF request[w].on THEN black \cup {pair} ELSE black \ {pair}
  /\ Done(w)
  /\ UNCHANGED <<postVars, stats, lists, follows, imBlack>>

-----------------------------------------------------------------------------
(***************************************************************************)
(* What happens without a caller that waits                                *)
(***************************************************************************)
\* event: a watch or a skip makes the row of the statistics, of whatever post,
\* with counters of 0.
Event ==
  /\ post.status # "none"
  /\ stats' = [stats EXCEPT !.row = TRUE]
  /\ UNCHANGED <<postVars, lists, follows, blockVars, request, spent>>

\* Once a day.
RebuildRecommendStats ==
  /\ stats' = FromRow
  /\ UNCHANGED <<postVars, lists, follows, blockVars, request, spent>>

\* The lists live for 45 and 30 seconds, longer than a request; a request that
\* finds one too short passes it over in any case.
ExpireList(u, mode) ==
  /\ Quiet
  /\ lists' = [lists EXCEPT ![u][mode] = "none"]
  /\ UNCHANGED <<postVars, stats, follows, blockVars, request, spent>>

-----------------------------------------------------------------------------
OnPost(w, u) ==
  \/ AddComment(w, u) \/ Share(w, u) \/ Report(w, u)
  \/ \E on \in BOOLEAN : SetLike(w, u, on)
  \/ \E mode \in Modes, used \in BOOLEAN : Recommend(w, u, mode, used)

OnUser(w, u, v) ==
  \/ Follow(w, u, v) \/ Unfollow(w, u, v) \/ DeleteFriend(w, u, v)
  \/ AddBlacklist(w, u, v) \/ RemoveBlacklist(w, u, v)
  \/ \E on \in BOOLEAN : SetBlacklist(w, u, v, on)

Step(w) ==
  \/ WriteLike(w) \/ WriteComment(w) \/ WriteShare(w)
  \/ WriteReport(w) \/ WriteFollow(w) \/ WriteUnfollow(w)
  \/ SyncRecommendCounters(w) \/ InvalidateCandidateCache(w)
  \/ HardDeletePost(w) \/ Store(w) \/ ListByFeedIDs(w)
  \/ \E with \in BOOLEAN : Load(w, with)
  \/ WriteBlacklist(w) \/ IMBlacklist(w) \/ WriteBack(w)

FeedNext ==
  \/ \E w \in Requests :
       \/ DeletePost(w)
       \/ \E u \in Users : OnPost(w, u) \/ \E v \in Users : OnUser(w, u, v)
       \/ Step(w)
       \/ Fail(w)
  \/ Publish
  \/ Event
  \/ RebuildRecommendStats
  \/ \E u \in Users, mode \in Modes : ExpireList(u, mode)

FeedSpec == FeedInit /\ [][FeedNext]_feedVars

-----------------------------------------------------------------------------
(***************************************************************************)
(* Properties                                                              *)
(***************************************************************************)
\* Rows, lists and requests have the fields of the tables and the cache.
FeedTypeOK ==
  LET Counts == [likes : Nat, comments : Nat, shares : Nat] IN
  /\ post.status \in {"none", "live", "hidden", "deleted"}
  /\ post.count \in Counts
  /\ likes \subseteq Users /\ shares \subseteq Users /\ reports \subseteq Users
  /\ comments \in 0..MaxRequests
  /\ stats.row \in BOOLEAN /\ stats.count \in Counts
  /\ stats.reports \in 0..Cardinality(Users)
  /\ lists \in [Users -> [Modes -> {"none", "with", "without"}]]
  /\ follows \subseteq Users \X Users
  /\ black \subseteq Users \X Users /\ imBlack \subseteq Users \X Users
  /\ \A w \in Requests : /\ request[w].uid \in Users
                         /\ request[w].to \in Users
                         /\ request[w].mode \in Modes
  /\ spent.requests \in 0..MaxRequests /\ Troubles \in 0..MaxTroubles

\* The counters of a live post are the numbers of its rows, whatever overlaps
\* and whatever fails: a like, a comment or a share is checked before its
\* transaction, and only a row that is really written moves the counter
\* (feed/db.go:732-760).
CountsAreRows ==
  LivePost => /\ post.count.likes = Cardinality(likes)
              /\ post.count.comments = comments
              /\ post.count.shares = Cardinality(shares)

\* The statistics are copied after the commits, in any order; once the
\* requests are over they are the counters of the post, even if an event made
\* their row in between (feed/db.go:1139-1154).
CountsCatchUp ==
  Quiet /\ spent.faults = 0 /\ LivePost =>
    /\ stats.count = post.count
    /\ stats.reports = Cardinality(reports)

\* Who has reported the post is not served it again by the discovery list,
\* although listByFeedIDs does not ask for reports (feed/service.go:166-172),
\* if no requests overlap and the cache answers.
ReportedIsNotServed ==
  spent.overlaps = 0 /\ spent.faults = 0 =>
    \A w \in Requests :
      Due(w, "list") /\ request[w].mode = "discover" /\ request[w].on
        => request[w].uid \notin reports

\* Enough reports hide the post, also when the last two arrive together: each
\* transaction holds the row of the post when it counts (feed/db.go:1030-1056).
EnoughReportsHide == Cardinality(reports) >= HideLimit => ~LivePost
=============================================================================
