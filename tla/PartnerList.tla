----------------------------- MODULE PartnerList -----------------------------
(***************************************************************************)
(* The list of language partners that modules/partnerlist gives one viewer *)
(* for one recommendation day: its row, the copy in Redis, the requests    *)
(* that make, repair and rotate it, and the outbox from which a job counts *)
(* each assignment in Redis.                                               *)
(*                                                                         *)
(* A request works on a copy of the day and writes it back if the version  *)
(* is still the one it read; the copy in Redis is written without a        *)
(* comparison.  Scores and the order of a list are left out: which of the  *)
(* eligible users are taken, and which are dropped, is any choice.         *)
(***************************************************************************)
EXTENDS Integers, FiniteSets

CONSTANTS
  Candidates,    \* the users that may be shown
  Readers,       \* the requests of the viewer
  NoReader,      \* a lock nobody holds
  InitialLimit,  \* InitialListLimit: the length of a list
  AddLimit,      \* RotationAddLimit: the users of one rotation
  DailyLimit,    \* DailyUniqueLimit: the users of one day
  RotateAfter,   \* rotateAfter: five hours
  RetryAfter,    \* twenty minutes
  Boundary,      \* the end of the day, after which nothing is modelled
  MaxRecommendations,  \* bound: requests
  MaxTurns,      \* bound: changes of who is eligible
  MaxSlips       \* bound: failed calls, locks that run out and crashes

ASSUME PartnerListAssumption ==
  /\ IsFiniteSet(Candidates) /\ NoReader \notin Readers
  /\ {InitialLimit, AddLimit, DailyLimit} \subseteq Nat \ {0}
  /\ AddLimit <= InitialLimit /\ InitialLimit <= DailyLimit
  /\ {RotateAfter, RetryAfter, Boundary} \subseteq Nat \ {0}
  /\ {MaxRecommendations, MaxTurns, MaxSlips} \subseteq Nat

VARIABLES
  dayRow,      \* partner_list_recommendation_day
  dayCache,    \* recommendationCacheKey
  generating,  \* generationLockKey
  rotating,    \* rotationLockKey
  eligible,    \* who passes profilesByUIDs
  reader,      \* the requests
  outbox,      \* partner_list_assignment_outbox: the status of a row
  applied,     \* assignmentAppliedKey: the ids the script has seen
  exposure,    \* assignmentGlobalKey
  flush,       \* the job: the rows it has still to apply, and those it has
  hour,        \* the time
  tally        \* requests, turns and slips so far

counterVars == <<applied, exposure, flush>>
listVars == <<dayRow, dayCache, generating, rotating, eligible, reader, outbox,
              counterVars, hour, tally>>

NoDay == [version |-> 0, current |-> {}, all |-> {}, done |-> FALSE,
          due |-> 0, retry |-> 0]
NoJob == [rows |-> {}, done |-> {}]
Resting == [pc |-> "idle", on |-> "first", at |-> 0, day |-> NoDay, new |-> {}]

ListInit ==
  /\ dayRow = NoDay /\ dayCache = NoDay
  /\ generating = NoReader /\ rotating = NoReader
  /\ eligible = Candidates
  /\ reader = [h \in Readers |-> Resting]
  /\ outbox = [c \in Candidates |-> "none"]
  /\ applied = {} /\ exposure = [c \in Candidates |-> 0]
  /\ flush = NoJob
  /\ hour = 1
  /\ tally = [calls |-> 0, turns |-> 0, slips |-> 0]

-----------------------------------------------------------------------------
MaySlip == tally.slips < MaxSlips
Slip == tally' = [tally EXCEPT !.slips = @ + 1]

ReaderAt(h, pc) == reader[h].pc = pc
Moves(h, r) == reader' = [reader EXCEPT ![h] = r]
GoesTo(h, pc) == Moves(h, [reader[h] EXCEPT !.pc = pc])
Answers(h) == Moves(h, Resting)

\* releaseLock compares the token.
Releases(h) ==
  /\ generating' = IF generating = h THEN NoReader ELSE generating
  /\ rotating' = IF rotating = h THEN NoReader ELSE rotating
KeepsLocks == UNCHANGED <<generating, rotating>>

Smaller(i, j) == IF i < j THEN i ELSE j
Left(day) == DailyLimit - Cardinality(day.all)

\* selectCandidates: the pools may lag behind, so any of the eligible.
Picks(excluded, limit) ==
  {S \in SUBSET (eligible \ excluded) : Cardinality(S) <= limit}

-----------------------------------------------------------------------------
(***************************************************************************)
(* Recommendations: loading the day, or making it                          *)
(***************************************************************************)
Recommendations(h) ==
  /\ ReaderAt(h, "idle") /\ tally.calls < MaxRecommendations
  /\ tally' = [tally EXCEPT !.calls = @ + 1]
  /\ Moves(h, [Resting EXCEPT !.pc = "load", !.at = hour])
  /\ KeepsLocks /\ UNCHANGED <<dayRow, dayCache>>

\* loadDay asks Redis, then the table; what it found there it caches.
LoadCached(h) ==
  /\ ReaderAt(h, "load")
  /\ IF dayCache = NoDay
     THEN GoesTo(h, "read") /\ KeepsLocks
     ELSE Moves(h, [reader[h] EXCEPT !.pc = "check", !.day = dayCache])
          /\ Releases(h)
  /\ UNCHANGED <<dayRow, dayCache, tally>>

LoadDay(h) ==
  /\ ReaderAt(h, "read")
  /\ Moves(h, IF dayRow # NoDay
              THEN [reader[h] EXCEPT !.pc = "save", !.day = dayRow]
              ELSE [reader[h] EXCEPT !.pc =
                     CASE reader[h].on = "first" -> "lock"
                       [] reader[h].on = "locked" -> "select"
                       [] reader[h].on = "poll" -> "poll"])
  /\ KeepsLocks /\ UNCHANGED <<dayRow, dayCache, tally>>

\* cacheDay, whatever Redis holds by now; an error is dropped.
CacheDay(h) ==
  /\ ReaderAt(h, "save") \/ ReaderAt(h, "saveRepaired") \/ ReaderAt(h, "saveRotated")
  /\ \/ dayCache' = reader[h].day /\ UNCHANGED tally
     \/ MaySlip /\ Slip /\ UNCHANGED dayCache
  /\ CASE ReaderAt(h, "save") -> GoesTo(h, "check")
       [] ReaderAt(h, "saveRepaired") -> GoesTo(h, "turn")
       [] ReaderAt(h, "saveRotated") -> Answers(h)
  /\ Releases(h)
  /\ UNCHANGED dayRow

\* generateInitial: the one who gets the lock looks again, the others poll.
LockGeneration(h) ==
  /\ ReaderAt(h, "lock")
  /\ generating' = IF generating = NoReader THEN h ELSE generating
  /\ Moves(h, [reader[h] EXCEPT !.pc = "load",
                 !.on = IF generating = NoReader THEN "locked" ELSE "poll"])
  /\ UNCHANGED <<dayRow, dayCache, rotating, tally>>

\* Twenty times, then ErrRecommendationBusy.
Poll(h) ==
  /\ ReaderAt(h, "poll")
  /\ GoesTo(h, "load") \/ Answers(h)
  /\ KeepsLocks /\ UNCHANGED <<dayRow, dayCache, tally>>

SelectInitial(h) ==
  /\ ReaderAt(h, "select")
  /\ \E S \in Picks({}, InitialLimit) :
       Moves(h, [reader[h] EXCEPT !.pc = "insert", !.new = S,
                   !.day = [NoDay EXCEPT !.version = 1, !.current = S, !.all = S,
                              !.due = Smaller(reader[h].at + RotateAfter, Boundary)]])
  /\ KeepsLocks /\ UNCHANGED <<dayRow, dayCache, tally>>

\* enqueueAssignments: INSERT IGNORE.
Enqueued(box, S) ==
  [c \in Candidates |-> IF c \in S /\ box[c] = "none" THEN "waiting" ELSE box[c]]

\* Fault: the rows of the outbox are no part of the transaction.
InsertDayAlone(h) ==
  /\ ReaderAt(h, "insert")
  /\ IF dayRow = NoDay
     THEN dayRow' = reader[h].day /\ GoesTo(h, "save")
     ELSE GoesTo(h, "existing") /\ UNCHANGED dayRow
  /\ KeepsLocks /\ UNCHANGED <<dayCache, outbox, tally>>

\* insertDay: the index on viewer and day lets one through.
InsertDay(h) ==
  /\ ReaderAt(h, "insert")
  /\ IF dayRow = NoDay
     THEN /\ dayRow' = reader[h].day
          /\ outbox' = Enqueued(outbox, reader[h].new)
          /\ GoesTo(h, "save")
     ELSE GoesTo(h, "existing") /\ UNCHANGED <<dayRow, outbox>>
  /\ KeepsLocks /\ UNCHANGED <<dayCache, tally>>

LoadExisting(h) ==
  /\ ReaderAt(h, "existing")
  /\ IF dayRow = NoDay
     THEN Answers(h) /\ Releases(h)
     ELSE Moves(h, [reader[h] EXCEPT !.pc = "save", !.day = dayRow]) /\ KeepsLocks
  /\ UNCHANGED <<dayRow, dayCache, tally>>

-----------------------------------------------------------------------------
(***************************************************************************)
(* Repairing and rotating the list                                         *)
(***************************************************************************)
\* repairInvalid
RepairInvalid(h) ==
  LET day == reader[h].day
      kept == day.current \cap eligible
      missing == Smaller(InitialLimit - Cardinality(kept), Left(day))
  IN
  /\ ReaderAt(h, "check")
  /\ IF kept = day.current THEN GoesTo(h, "turn")
     ELSE \E S \in Picks(day.all, missing) :
            Moves(h, [reader[h] EXCEPT !.pc = "update", !.new = S,
                        !.day = [day EXCEPT !.version = @ + 1,
                                   !.current = kept \cup S, !.all = @ \cup S]])
  /\ KeepsLocks /\ UNCHANGED <<dayRow, dayCache, tally>>

\* The condition of updateDay.
SameVersion(day) == dayRow.version = day.version - 1

\* updateDay, in one transaction with the rows of the outbox.
UpdateDay(h) ==
  LET day == reader[h].day IN
  IF SameVersion(day)
  THEN dayRow' = day /\ outbox' = Enqueued(outbox, reader[h].new)
  ELSE UNCHANGED <<dayRow, outbox>>

\* A lost update is answered with the row, which is not cached.
UpdateRepaired(h) ==
  /\ ReaderAt(h, "update")
  /\ UpdateDay(h)
  /\ GoesTo(h, IF SameVersion(reader[h].day) THEN "saveRepaired" ELSE "reload")
  /\ KeepsLocks /\ UNCHANGED <<dayCache, tally>>

Reload(h) ==
  /\ ReaderAt(h, "reload")
  /\ Moves(h, [reader[h] EXCEPT !.pc = "turn", !.day = dayRow])
  /\ KeepsLocks /\ UNCHANGED <<dayRow, dayCache, tally>>

IsDue(day, at) == ~day.done /\ at >= day.due /\ at >= day.retry

\* rotate, with the lock or not at all.
LockRotation(h) ==
  /\ ReaderAt(h, "turn")
  /\ IF IsDue(reader[h].day, reader[h].at) /\ rotating = NoReader
     THEN rotating' = h /\ GoesTo(h, "fresh")
     ELSE Answers(h) /\ UNCHANGED rotating
  /\ UNCHANGED <<dayRow, dayCache, generating, tally>>

\* The day has no room for anybody new.
NothingLeft(day) ==
  [day EXCEPT !.version = @ + 1, !.done = TRUE, !.retry = 0]

\* With nobody new the day is tried again, unless it ends before.
NothingNew(day, at) ==
  IF at + RetryAfter >= Boundary
  THEN NothingLeft(day)
  ELSE [day EXCEPT !.version = @ + 1, !.retry = at + RetryAfter]

\* The lowest scores of those still eligible make room for the new ones.
Rotated(day, S, drop) ==
  [day EXCEPT !.version = @ + 1, !.done = TRUE, !.retry = 0,
              !.current = ((@ \cap eligible) \ drop) \cup S, !.all = @ \cup S]

Drops(day, S) ==
  LET room == Cardinality(day.current \cap eligible) + Cardinality(S) - InitialLimit IN
  {D \in SUBSET (day.current \cap eligible) :
     Cardinality(D) = IF room < 0 THEN 0 ELSE room}

Rotate(h) ==
  LET limit == Smaller(AddLimit, Left(dayRow))
      with(day, S) == Moves(h, [reader[h] EXCEPT !.pc = "rotate", !.day = day,
                                                 !.new = S])
  IN
  /\ ReaderAt(h, "fresh")
  /\ IF ~IsDue(dayRow, reader[h].at)
     THEN Answers(h) /\ Releases(h)
     ELSE /\ KeepsLocks
          /\ \/ Left(dayRow) <= 0 /\ with(NothingLeft(dayRow), {})
             \/ Left(dayRow) > 0 /\ with(NothingNew(dayRow, reader[h].at), {})
             \/ /\ Left(dayRow) > 0
                /\ \E S \in Picks(dayRow.all, limit) \ {{}} :
                     \E D \in Drops(dayRow, S) : with(Rotated(dayRow, S, D), S)
  /\ UNCHANGED <<dayRow, dayCache, tally>>

UpdateRotated(h) ==
  /\ ReaderAt(h, "rotate")
  /\ UpdateDay(h)
  /\ IF SameVersion(reader[h].day)
     THEN GoesTo(h, "saveRotated") /\ KeepsLocks
     ELSE Answers(h) /\ Releases(h)
  /\ UNCHANGED <<dayCache, tally>>

-----------------------------------------------------------------------------
(***************************************************************************)
(* Failures and the world around                                           *)
(***************************************************************************)
\* A call of a request fails; a transaction may have been committed although
\* its answer is lost.  Only a failed insertion looks at the table again.
ReaderFails(h) ==
  /\ ~ReaderAt(h, "idle") /\ MaySlip /\ Slip
  /\ \/ UNCHANGED <<dayRow, outbox>>
     \/ (ReaderAt(h, "update") \/ ReaderAt(h, "rotate")) /\ UpdateDay(h)
     \/ /\ ReaderAt(h, "insert") /\ dayRow = NoDay
        /\ dayRow' = reader[h].day /\ outbox' = Enqueued(outbox, reader[h].new)
  /\ IF ReaderAt(h, "insert") THEN GoesTo(h, "existing") /\ KeepsLocks
     ELSE Answers(h) /\ Releases(h)
  /\ UNCHANGED dayCache

\* The locks last 30 seconds.
LockExpires ==
  /\ MaySlip /\ Slip
  /\ \/ generating # NoReader /\ generating' = NoReader /\ UNCHANGED rotating
     \/ rotating # NoReader /\ rotating' = NoReader /\ UNCHANGED generating
  /\ UNCHANGED <<dayRow, dayCache, reader>>

\* The process dies; what is in Redis stays, the locks until they run out.
ServerCrash ==
  /\ MaySlip /\ Slip
  /\ reader' = [h \in Readers |-> Resting]
  /\ flush' = NoJob
  /\ UNCHANGED <<dayRow, dayCache, generating, rotating, eligible, outbox,
                 applied, exposure, hour>>

\* A profile is changed, switched off or reviewed; a user blocks the viewer.
EligibilityTurns(c) ==
  /\ tally.turns < MaxTurns
  /\ tally' = [tally EXCEPT !.turns = @ + 1]
  /\ eligible' = IF c \in eligible THEN eligible \ {c} ELSE eligible \cup {c}
  /\ UNCHANGED <<dayRow, dayCache, generating, rotating, reader, outbox,
                 counterVars, hour>>

HourPasses ==
  /\ hour < Boundary
  /\ hour' = hour + 1
  /\ UNCHANGED <<dayRow, dayCache, generating, rotating, eligible, reader,
                 outbox, counterVars, tally>>

-----------------------------------------------------------------------------
(***************************************************************************)
(* flushAssignmentOutbox                                                   *)
(***************************************************************************)
Waiting == {c \in Candidates : outbox[c] \in {"waiting", "retry"}}

\* pendingAssignmentOutbox.  The lock of the job and its flag in the process
\* let one run at a time; if the lock runs out, another instance takes rows
\* that the first has not marked.
TakeRows ==
  /\ Waiting # {}
  /\ \/ flush = NoJob /\ UNCHANGED tally
     \/ flush # NoJob /\ MaySlip /\ Slip
  /\ flush' = [flush EXCEPT !.rows = @ \cup Waiting]
  /\ UNCHANGED <<applied, exposure, outbox>>

\* Fault: the script does not look whether the row was applied.
CountAgain(c) ==
  /\ applied' = applied \cup {c}
  /\ exposure' = [exposure EXCEPT ![c] = @ + 1]

\* The script: SADD and HINCRBY in one.
CountOnce(c) ==
  /\ applied' = applied \cup {c}
  /\ exposure' = IF c \in applied THEN exposure
                 ELSE [exposure EXCEPT ![c] = @ + 1]

ApplyRow(c) ==
  /\ c \in flush.rows
  /\ CountOnce(c)
  /\ flush' = [rows |-> flush.rows \ {c}, done |-> flush.done \cup {c}]
  /\ UNCHANGED <<outbox, tally>>

\* markAssignmentOutboxRetry; the script may have run.
ApplyFails(c) ==
  /\ c \in flush.rows /\ MaySlip /\ Slip
  /\ CountOnce(c) \/ UNCHANGED <<applied, exposure>>
  /\ outbox' = [outbox EXCEPT ![c] = "retry"]
  /\ flush' = [flush EXCEPT !.rows = @ \ {c}]

\* markAssignmentOutboxDoneBatch; its error is dropped.
MarkDone ==
  /\ flush.rows = {} /\ flush.done # {}
  /\ \/ /\ outbox' = [c \in Candidates |->
                       IF c \in flush.done THEN "done" ELSE outbox[c]]
        /\ UNCHANGED tally
     \/ UNCHANGED outbox /\ MaySlip /\ Slip
  /\ flush' = NoJob
  /\ UNCHANGED <<applied, exposure>>

-----------------------------------------------------------------------------
Reading(h) ==
  /\ \/ /\ \/ Recommendations(h) \/ LoadCached(h) \/ LoadDay(h) \/ CacheDay(h)
           \/ LockGeneration(h) \/ Poll(h) \/ SelectInitial(h) \/ LoadExisting(h)
           \/ RepairInvalid(h) \/ Reload(h) \/ LockRotation(h) \/ Rotate(h)
        /\ UNCHANGED outbox
     \/ InsertDay(h) \/ UpdateRepaired(h) \/ UpdateRotated(h) \/ ReaderFails(h)
  /\ UNCHANGED <<eligible, counterVars, hour>>

Counting ==
  /\ TakeRows \/ MarkDone \/ \E c \in Candidates : ApplyRow(c) \/ ApplyFails(c)
  /\ UNCHANGED <<dayRow, dayCache, generating, rotating, eligible, reader, hour>>

ListNext ==
  \/ \E h \in Readers : Reading(h)
  \/ Counting
  \/ \E c \in Candidates : EligibilityTurns(c)
  \/ LockExpires /\ UNCHANGED <<eligible, outbox, counterVars, hour>>
  \/ ServerCrash
  \/ HourPasses

ListSpec == ListInit /\ [][ListNext]_listVars

-----------------------------------------------------------------------------
(***************************************************************************)
(* What the list promises                                                  *)
(***************************************************************************)
\* The viewer is shown at most DailyLimit users a day, however many requests
\* make, repair and rotate the list at once, and each of them was queued to
\* be counted: a write that would lose another's additions is refused.
AssignedWithinLimit ==
  /\ Cardinality(dayRow.all) <= DailyLimit
  /\ dayRow.current \subseteq dayRow.all
  /\ {c \in Candidates : outbox[c] # "none"} = dayRow.all

\* An assignment is counted once, also if the job dies, or runs twice, between
\* the script and the mark of the row; a row that is marked was counted.
AssignmentCountedOnce ==
  \A c \in Candidates :
    /\ exposure[c] <= 1
    /\ outbox[c] = "done" => exposure[c] = 1
    /\ outbox[c] = "none" => exposure[c] = 0
=============================================================================
