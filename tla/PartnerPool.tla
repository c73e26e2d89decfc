----------------------------- MODULE PartnerPool -----------------------------
(***************************************************************************)
(* The shared pool of candidates of modules/partnerlist: versions of it in *)
(* Redis that a build replaces once a day, and the three ways by which a   *)
(* changed profile reaches them: the queue of changed users, the activity  *)
(* of a user, and the job that folds in what changed since its cursor.     *)
(*                                                                         *)
(* Of a profile only its eligibility and the second of its last change are *)
(* kept, of a version the set of its users.                                *)
(***************************************************************************)
EXTENDS Integers, FiniteSets, Sequences

CONSTANTS
  People,      \* the users
  Syncs,       \* the goroutines that bring a user up to date
  ReplayWindow,  \* ten seconds: what a build and a fold replay
  QueueCap,    \* the capacity of activeWriteQueue
  SpillMax,    \* activeWriteSpillMax
  MaxSecond,   \* bound: time
  MaxTasks,    \* bound: builds, changes of profiles and heartbeats
  MaxMishaps   \* bound: failed calls and crashes

ASSUME PartnerPoolAssumption ==
  /\ {ReplayWindow, QueueCap, SpillMax, MaxSecond} \subseteq Nat
  /\ {MaxTasks, MaxMishaps} \subseteq Nat
  /\ SpillMax > 0

VARIABLES
  profile,    \* partner_profiles: eligible, updated_at, last_active_at
  pool,       \* the users of a version
  current,    \* poolCurrentVersionKey
  building,   \* poolBuildingVersionKey; 0 when there is none
  build,      \* rebuild: how far it is, and the rows it has read
  dirty,      \* poolDirtyQueueKey
  cursor,     \* poolChangeCursorKey; whole when it names no user
  fold,       \* foldChangedProfiles
  guarded,    \* activeWriteLockKey: whose activity was written lately
  writes,     \* activeWriteQueue
  spill,      \* activeWriteSpillKey
  sync,       \* the goroutines in syncUserE
  second,
  unfolded,   \* history: who changed since the last full pass, and whether
              \* before the present one began
  skewed,     \* history: who has to wait for another change or build
  made        \* tasks and mishaps so far

poolVars == <<pool, current, building, build>>
foldVars == <<cursor, fold>>
beatVars == <<guarded, writes, spill>>
allPoolVars == <<profile, poolVars, dirty, foldVars, beatVars, sync, second,
                 unfolded, skewed, made>>

Free == [pc |-> "free", from |-> "none", uid |-> "none", at |-> 0,
         versions |-> {}, ok |-> FALSE, unwritten |-> FALSE, rest |-> <<>>]
NoBuild == [pc |-> "none", from |-> 0, rows |-> {}]
NoFold == [pc |-> "none", versions |-> {}, rows |-> {}, last |-> 0]
Versions == 1..(MaxTasks + 1)

PoolInit ==
  /\ profile = [u \in People |-> [ok |-> TRUE, changed |-> 0, active |-> 0]]
  /\ pool = [v \in Versions |-> IF v = 1 THEN People ELSE {}]
  /\ current = 1 /\ building = 0 /\ build = NoBuild
  /\ dirty = <<>> /\ cursor = [at |-> 0, whole |-> TRUE] /\ fold = NoFold
  /\ guarded = {} /\ writes = <<>> /\ spill = <<>>
  /\ sync = [t \in Syncs |-> Free]
  /\ second = 1
  /\ unfolded = [u \in People |-> "no"] /\ skewed = {}
  /\ made = [tasks |-> 0, mishaps |-> 0]

MayAct == made.tasks < MaxTasks
Act == made' = [made EXCEPT !.tasks = @ + 1]
MayMiss == made.mishaps < MaxMishaps
Mishap == made' = [made EXCEPT !.mishaps = @ + 1]
Greater(i, j) == IF i > j THEN i ELSE j

-----------------------------------------------------------------------------
(***************************************************************************)
(* syncUserE                                                               *)
(***************************************************************************)
SyncAt(t, pc) == sync[t].pc = pc
SyncGoes(t, s) == sync' = [sync EXCEPT ![t] = s]
SyncBegins(t, u, from, at, pc, rest) ==
  /\ SyncAt(t, "free")
  /\ SyncGoes(t, [Free EXCEPT !.pc = pc, !.from = from, !.uid = u, !.at = at,
                              !.rest = rest])

\* activeVersions, in two reads.
ReadCurrent(t) ==
  /\ SyncAt(t, "versions")
  /\ SyncGoes(t, [sync[t] EXCEPT !.pc = "building", !.versions = {current}])
  /\ UNCHANGED <<profile, pool, dirty, beatVars, unfolded, skewed, made>>

\* A version that is published between the two reads is not seen.
ReadBuilding(t) ==
  LET versions == (sync[t].versions \cup {building}) \ {0} IN
  /\ SyncAt(t, "building")
  /\ SyncGoes(t, [sync[t] EXCEPT !.pc = "profile", !.versions = versions])
  /\ skewed' = IF current \in versions THEN skewed ELSE skewed \cup {sync[t].uid}
  /\ UNCHANGED <<profile, pool, dirty, beatVars, unfolded, made>>

PoolProfile(t) ==
  /\ SyncAt(t, "profile")
  /\ SyncGoes(t, [sync[t] EXCEPT !.pc = "remove", !.ok = profile[sync[t].uid].ok])
  /\ UNCHANGED <<profile, pool, dirty, beatVars, unfolded, skewed, made>>

Without(u, versions) ==
  [v \in Versions |-> IF v \in versions THEN pool[v] \ {u} ELSE pool[v]]
With(u, versions) ==
  [v \in Versions |-> IF v \in versions THEN pool[v] \cup {u} ELSE pool[v]]

UsersOf(tasks) == {tasks[i].uid : i \in 1..Len(tasks)}

\* PushBoundedDetailed drops the oldest.
SpillGets(tasks) ==
  LET all == spill \o tasks
      over == Greater(0, Len(all) - SpillMax) IN
  /\ spill' = SubSeq(all, over + 1, Len(all))
  /\ skewed' = skewed \cup UsersOf(SubSeq(all, 1, over))

\* An activity that could not be written, with the rest of its batch.
Remaining(s) == <<[uid |-> s.uid, at |-> s.at]>> \o s.rest

\* A batch of spilled writes goes on with the next one.
Ends(t) ==
  LET rest == sync[t].rest IN
  IF sync[t].unwritten
  THEN SyncGoes(t, Free) /\ SpillGets(Remaining(sync[t]))
  ELSE /\ SyncGoes(t, IF rest = <<>> THEN Free
                      ELSE [Free EXCEPT !.pc = "touch", !.from = "spill",
                              !.uid = Head(rest).uid, !.at = Head(rest).at,
                              !.rest = Tail(rest)])
       /\ UNCHANGED <<spill, skewed>>

RemoveUser(t) ==
  /\ SyncAt(t, "remove")
  /\ pool' = Without(sync[t].uid, sync[t].versions)
  /\ IF sync[t].ok
     THEN SyncGoes(t, [sync[t] EXCEPT !.pc = "add"]) /\ UNCHANGED <<spill, skewed>>
     ELSE Ends(t)
  /\ UNCHANGED <<profile, dirty, guarded, writes, unfolded, made>>

AddProfileToVersion(t) ==
  /\ SyncAt(t, "add")
  /\ pool' = With(sync[t].uid, sync[t].versions)
  /\ Ends(t)
  /\ UNCHANGED <<profile, dirty, guarded, writes, unfolded, made>>

\* A call fails, with some versions written; the user is removed also when his
\* profile cannot be read.  A user of the queue is put back, a written activity
\* spilled, unless that fails too; SetEnabled drops the error.
SyncFails(t) ==
  LET s == sync[t] IN
  /\ ~SyncAt(t, "free") /\ ~SyncAt(t, "touch") /\ MayMiss /\ Mishap
  /\ \E V \in SUBSET s.versions :
       pool' = CASE s.pc \in {"profile", "remove"} -> Without(s.uid, V)
                 [] s.pc = "add" -> With(s.uid, V)
                 [] OTHER -> pool
  /\ SyncGoes(t, Free)
  /\ \/ /\ s.from = "queue"
        /\ dirty' = Append(dirty, s.uid) /\ UNCHANGED <<spill, skewed>>
     \/ /\ s.from \in {"write", "spill"}
        /\ SpillGets(Remaining(s)) /\ UNCHANGED dirty
     \/ /\ skewed' = skewed \cup UsersOf(Remaining(s))
        /\ UNCHANGED <<dirty, spill>>
  /\ UNCHANGED <<profile, guarded, writes, unfolded>>

-----------------------------------------------------------------------------
(***************************************************************************)
(* Changes of profiles, and the queue of changed users                     *)
(***************************************************************************)
\* Somebody has read the row of the user and not yet written what it says.
IsRead(u) ==
  \/ \E t \in Syncs : sync[t].uid = u /\ sync[t].pc \in {"remove", "add"}
  \/ build.pc = "catchUp" /\ \E row \in build.rows : row.uid = u

\* A pass that failed has left the cursor at a row, without the overlap of a
\* pass that ended, and this change is stamped no later.
IsBehind(stamp) == fold.pc # "apply" /\ ~cursor.whole /\ stamp <= cursor.at

\* A profile is edited, reviewed, switched on or off (SetEnabled, which then
\* goes on itself), or its user banned, which queues nobody.  A row bears the
\* time of its statement, and is committed a little later.
EditProfile(u) ==
  /\ MayAct /\ Act
  /\ \E stamp \in Greater(0, second - ReplayWindow)..second :
       /\ profile' = [profile EXCEPT ![u] =
                         [profile[u] EXCEPT !.ok = ~profile[u].ok, !.changed = stamp]]
       /\ skewed' = IF IsRead(u) \/ IsBehind(stamp) THEN skewed \cup {u} ELSE skewed
  /\ dirty' = <<u>> \o dirty \/ UNCHANGED dirty
  /\ \/ UNCHANGED sync
     \/ \E t \in Syncs : SyncBegins(t, u, "enable", 0, "versions", <<>>)
  /\ unfolded' = [unfolded EXCEPT ![u] = "changed"]
  /\ UNCHANGED <<pool, beatVars>>

\* The loop takes the next user when it is done with the last.
PopDirty(t) ==
  /\ dirty # <<>>
  /\ \A s \in Syncs : sync[s].from # "queue"
  /\ SyncBegins(t, Head(dirty), "queue", 0, "versions", <<>>)
  /\ dirty' = Tail(dirty)
  /\ UNCHANGED <<profile, pool, beatVars, unfolded, skewed, made>>

-----------------------------------------------------------------------------
(***************************************************************************)
(* Activity                                                                *)
(***************************************************************************)
\* Heartbeat: the first in ten minutes is written through the queue, or else
\* spilled.
Heartbeat(u) ==
  LET task == [uid |-> u, at |-> second] IN
  /\ u \notin guarded /\ MayAct /\ Act
  /\ guarded' = guarded \cup {u}
  /\ IF Len(writes) < QueueCap
     THEN writes' = Append(writes, task) /\ UNCHANGED <<spill, skewed>>
     ELSE SpillGets(<<task>>) /\ UNCHANGED writes
  /\ UNCHANGED <<profile, pool, dirty, sync, unfolded>>

\* The guard runs out, or is released when a task could not be spilled; only
\* as long as another heartbeat may come, since nothing else looks at it.
GuardEnds(u) ==
  /\ u \in guarded /\ MayAct
  /\ guarded' = guarded \ {u}
  /\ UNCHANGED <<profile, pool, dirty, writes, spill, sync, unfolded, skewed,
                 made>>

TakeWrite(t) ==
  /\ writes # <<>>
  /\ SyncBegins(t, Head(writes).uid, "write", Head(writes).at, "touch", <<>>)
  /\ writes' = Tail(writes)
  /\ UNCHANGED <<profile, pool, dirty, guarded, spill, unfolded, skewed, made>>

\* drainActiveWriteSpill: one batch at a time.
DrainSpill(t) ==
  /\ spill # <<>>
  /\ \A s \in Syncs : sync[s].from # "spill"
  /\ SyncBegins(t, Head(spill).uid, "spill", Head(spill).at, "touch", Tail(spill))
  /\ spill' = <<>>
  /\ UNCHANGED <<profile, pool, dirty, guarded, writes, unfolded, skewed, made>>

\* Fault: the time of the task is written as it is.
WithoutGreatest(u, at) == [profile[u] EXCEPT !.active = at, !.changed = second]

\* touchActive; the row is stamped if it changes.
Touched(u, at) ==
  IF at > profile[u].active
  THEN [profile[u] EXCEPT !.active = at, !.changed = second] ELSE profile[u]

\* processActiveWrite syncs the user also when the row could not be written.
TouchActive(t) ==
  LET u == sync[t].uid IN
  /\ SyncAt(t, "touch")
  /\ \/ /\ profile' = [profile EXCEPT ![u] = Touched(u, sync[t].at)]
        /\ SyncGoes(t, [sync[t] EXCEPT !.pc = "versions"])
        /\ UNCHANGED made
     \/ /\ MayMiss /\ Mishap
        /\ SyncGoes(t, [sync[t] EXCEPT !.pc = "versions", !.unwritten = TRUE])
        /\ UNCHANGED profile
  /\ UNCHANGED <<pool, dirty, beatVars, unfolded, skewed>>

-----------------------------------------------------------------------------
(***************************************************************************)
(* foldChangedProfiles and rebuild                                         *)
(***************************************************************************)
\* changedProfilesAfter: the rows with their eligibility.  The order of those
\* of one second, by uid, is left out.
Rows(after) ==
  {[uid |-> u, ok |-> profile[u].ok, at |-> profile[u].changed] :
     u \in {p \in People : profile[p].changed >= after}}

\* applyChangedProfileE
Applied(versions, row) ==
  IF row.ok THEN With(row.uid, versions) ELSE Without(row.uid, versions)

Turned(from, to) ==
  [u \in People |-> IF unfolded[u] = from THEN to ELSE unfolded[u]]

\* The job holds a lock; the pass reads one batch.
FoldStart ==
  /\ fold = NoFold
  /\ fold' = [NoFold EXCEPT !.pc = "building", !.versions = {current}]
  /\ unfolded' = IF cursor.whole THEN Turned("changed", "begun") ELSE unfolded
  /\ UNCHANGED <<pool, cursor, skewed, made>>

FoldVersions ==
  /\ fold.pc = "building"
  /\ fold' = [fold EXCEPT !.pc = "read", !.versions = (@ \cup {building}) \ {0}]
  /\ UNCHANGED <<pool, cursor, unfolded, skewed, made>>

\* A version that was published or announced meanwhile is not folded into.
FoldRead ==
  /\ fold.pc = "read"
  /\ fold' = [fold EXCEPT !.pc = "apply", !.rows = Rows(cursor.at), !.last = cursor.at]
  /\ skewed' = IF {current, building} \ {0} \subseteq fold.versions THEN skewed
               ELSE skewed \cup {u \in People : unfolded[u] # "no"}
  /\ UNCHANGED <<pool, cursor, unfolded, made>>

\* In the order of the changes; the cursor follows.
FoldApply ==
  /\ fold.pc = "apply"
  /\ \E row \in fold.rows :
       /\ \A other \in fold.rows : row.at <= other.at
       /\ pool' = Applied(fold.versions, row)
       /\ fold' = [fold EXCEPT !.rows = @ \ {row}, !.last = row.at]
       /\ cursor' = [at |-> row.at, whole |-> FALSE]
  /\ UNCHANGED <<unfolded, skewed, made>>

\* Where the next pass starts.
Overlapped(last) == IF last > ReplayWindow THEN last - ReplayWindow ELSE 0

FoldEnd ==
  /\ fold.pc = "apply" /\ fold.rows = {}
  /\ cursor' = [at |-> Overlapped(fold.last), whole |-> TRUE]
  /\ fold' = NoFold
  /\ unfolded' = Turned("begun", "no")
  /\ UNCHANGED <<pool, skewed, made>>

\* Who changed since the pass began, behind the row it has come to.
Overtaken ==
  {u \in People : /\ fold.pc = "apply" /\ ~cursor.whole
                  /\ unfolded[u] = "changed" /\ profile[u].changed <= cursor.at}

FoldFails ==
  /\ fold # NoFold /\ MayMiss /\ Mishap
  /\ fold' = NoFold
  /\ unfolded' = Turned("begun", "changed")
  /\ skewed' = skewed \cup Overtaken
  /\ UNCHANGED <<pool, cursor>>

\* rebuild, with its lock: the next version is announced before the scan.
BuildStart ==
  /\ build = NoBuild /\ MayAct /\ Act
  /\ building' = made.tasks + 2
  /\ build' = [NoBuild EXCEPT !.pc = "scan", !.from = second]
  /\ UNCHANGED <<pool, current>>

\* eligibleProfilesBatch
BuildScan ==
  /\ build.pc = "scan"
  /\ build' = [build EXCEPT !.pc = "fill", !.rows = {u \in People : profile[u].ok}]
  /\ UNCHANGED <<pool, current, building, made>>

BuildFill ==
  /\ build.pc = "fill"
  /\ pool' = [pool EXCEPT ![building] = @ \cup build.rows]
  /\ build' = [build EXCEPT !.pc = "replay", !.rows = {}]
  /\ UNCHANGED <<current, building, made>>

\* Fault: nothing is replayed.
ReplayNothing == {}

\* The rows that changed since shortly before the start.
Replay == Rows(build.from - ReplayWindow)

BuildReplay ==
  /\ build.pc = "replay"
  /\ build' = [build EXCEPT !.pc = "catchUp", !.rows = Replay]
  /\ UNCHANGED <<pool, current, building, made>>

BuildCatchUp ==
  /\ build.pc = "catchUp"
  /\ \E row \in build.rows :
       /\ pool' = Applied({building}, row)
       /\ build' = [build EXCEPT !.rows = @ \ {row}]
  /\ UNCHANGED <<current, building, made>>

BuildPublish ==
  /\ build.pc = "catchUp" /\ build.rows = {}
  /\ current' = building /\ building' = 0 /\ build' = NoBuild
  /\ UNCHANGED <<pool, made>>

\* The version may have been published although the answer is lost.
BuildFails ==
  /\ build # NoBuild /\ MayMiss /\ Mishap
  /\ \/ UNCHANGED current
     \/ build.pc = "catchUp" /\ build.rows = {} /\ current' = building
  /\ building' = 0 /\ build' = NoBuild
  /\ UNCHANGED pool

-----------------------------------------------------------------------------
\* The process dies with what it holds in memory; the announced version stays
\* until the next build, the locks run out.
ProcessCrash ==
  /\ MayMiss /\ Mishap
  /\ sync' = [t \in Syncs |-> Free]
  /\ writes' = <<>>
  /\ fold' = NoFold /\ unfolded' = Turned("begun", "changed")
  /\ build' = NoBuild
  /\ skewed' = skewed \cup Overtaken
                 \cup UNION {UsersOf(Remaining(sync[t])) :
                               t \in {s \in Syncs : ~SyncAt(s, "free")}}
  /\ UNCHANGED <<profile, pool, current, building, dirty, cursor, guarded, spill,
                 second>>

SecondPasses ==
  /\ second < MaxSecond
  /\ second' = second + 1
  /\ UNCHANGED <<profile, poolVars, dirty, foldVars, beatVars, sync, unfolded,
                 skewed, made>>

Syncing ==
  /\ \/ \E u \in People : EditProfile(u) \/ Heartbeat(u) \/ GuardEnds(u)
     \/ \E t \in Syncs :
          \/ ReadCurrent(t) \/ ReadBuilding(t) \/ PoolProfile(t) \/ RemoveUser(t)
          \/ AddProfileToVersion(t) \/ SyncFails(t)
          \/ PopDirty(t) \/ TakeWrite(t) \/ DrainSpill(t) \/ TouchActive(t)
  /\ UNCHANGED <<current, building, build, foldVars, second>>

Folding ==
  /\ FoldStart \/ FoldVersions \/ FoldRead \/ FoldApply \/ FoldEnd \/ FoldFails
  /\ UNCHANGED <<profile, current, building, build, dirty, beatVars, sync, second>>

Building ==
  /\ \/ BuildStart \/ BuildScan \/ BuildFill \/ BuildReplay \/ BuildCatchUp
     \/ BuildPublish \/ BuildFails
  /\ UNCHANGED <<profile, dirty, foldVars, beatVars, sync, second, unfolded,
                 skewed>>

PoolNext == Syncing \/ Folding \/ Building \/ ProcessCrash \/ SecondPasses

PoolSpec == PoolInit /\ [][PoolNext]_allPoolVars

-----------------------------------------------------------------------------
(***************************************************************************)
(* What the pool promises                                                  *)
(***************************************************************************)
\* Nothing is under way, and a pass of the fold has begun and ended since the
\* last change, one that did not follow a pass that failed.
PoolSettled ==
  /\ \A t \in Syncs : SyncAt(t, "free")
  /\ dirty = <<>> /\ writes = <<>> /\ spill = <<>>
  /\ fold = NoFold /\ build = NoBuild
  /\ \A u \in People : unfolded[u] = "no"

\* Once things have settled the current version holds the eligible users and
\* nobody else: no change is lost between the scan of a build and its
\* publication, nor on the second at which a pass of the fold ends.  Exceptions
\* are a user whose row changed between the read and the write of a sync or of
\* a replay; whose sync was cut off, or its retry dropped from the full spill or
\* lost with its batch; who was synced or folded into versions that were read
\* while one was published or announced; and whose change was committed behind
\* the row at which a pass broke off.  He waits for another change or build.
SettledPoolIsRight ==
  PoolSettled =>
    \A u \in People \ skewed : u \in pool[current] <=> profile[u].ok

\* The last activity of a user never falls back, although writes that were
\* spilled come after later ones.
ActivityNeverFalls ==
  [][\A u \in People : profile'[u].active >= profile[u].active]_allPoolVars
=============================================================================
