-------------------------- MODULE PartnerListProofs --------------------------
(***************************************************************************)
(* Theorems about the lists of partners: about PartnerList for any         *)
(* candidates, requests, limits and failures, and about PartnerPool, which *)
(* shares no state with it, for any users, goroutines, windows and bounds. *)
(***************************************************************************)
EXTENDS PartnerList, PartnerPool, FiniteSetTheorems, SequenceTheorems, TLAPS

-----------------------------------------------------------------------------
(***************************************************************************)
(* The inductive invariant                                                 *)
(***************************************************************************)
DayRecord ==
  [version : Nat, current : SUBSET Candidates, all : SUBSET Candidates,
   done : BOOLEAN, due : Nat, retry : Nat]

Copying == {"save", "check", "turn", "fresh", "saveRepaired", "saveRotated"}
Drafting == {"update", "rotate", "reload"}
Pcs == {"idle", "load", "read", "lock", "poll", "select", "insert", "existing"}
         \cup Copying \cup Drafting

ReaderRecord ==
  [pc : Pcs, on : {"first", "locked", "poll"}, at : Nat, day : DayRecord,
   new : SUBSET Candidates]

\* A list is part of its day, and the day is within its limit.
Fits(day) ==
  day.current \subseteq day.all /\ Cardinality(day.all) <= DailyLimit

\* What was read of the day is an older version, or the row itself.
CopyOf(row, day) ==
  /\ Fits(day)
  /\ 1 <= day.version /\ day.version <= row.version
  /\ day.version = row.version => day = row

\* What is to be written follows a version that was there, and if that is
\* still the row then the new users are all that is added.
DraftOf(row, day, S) ==
  /\ Fits(day)
  /\ 2 <= day.version /\ day.version - 1 <= row.version
  /\ day.version - 1 = row.version => day.all = row.all \cup S

\* The first version of the day.
FirstOf(day, S) == Fits(day) /\ day.version = 1 /\ day.all = S

Right(row, r) ==
  /\ r.pc \in Copying => CopyOf(row, r.day)
  /\ r.pc \in Drafting => DraftOf(row, r.day, r.new)
  /\ r.pc = "insert" => FirstOf(r.day, r.new)

RowOK ==
  /\ dayRow \in DayRecord /\ Fits(dayRow)
  /\ dayRow = NoDay \/ 1 <= dayRow.version
CacheOK == dayCache \in DayRecord /\ (dayCache = NoDay \/ CopyOf(dayRow, dayCache))
ReadersOK ==
  /\ reader \in [Readers -> ReaderRecord]
  /\ \A h \in Readers : Right(dayRow, reader[h])
Assigned == {c \in Candidates : outbox[c] # "none"}

DayInv ==
  /\ RowOK /\ CacheOK /\ ReadersOK
  /\ eligible \subseteq Candidates /\ hour \in Nat
  /\ Assigned = dayRow.all

\* The script counts what it has not seen, and a row is marked after it.
CountInv ==
  /\ outbox \in [Candidates -> {"none", "waiting", "retry", "done"}]
  /\ applied \subseteq Candidates
  /\ exposure \in [Candidates -> Nat]
  /\ \A c \in Candidates :
       /\ exposure[c] = IF c \in applied THEN 1 ELSE 0
       /\ outbox[c] = "done" => c \in applied
       /\ outbox[c] = "none" => c \notin applied
  /\ flush.rows \cup flush.done \subseteq Assigned
  /\ flush.done \subseteq applied

ListInv == DayInv /\ CountInv

-----------------------------------------------------------------------------
(***************************************************************************)
(* Versions                                                                *)
(***************************************************************************)
LEMMA NoDayIs ==
  /\ NoDay \in DayRecord /\ NoDay.version = 0 /\ NoDay.all = {} /\ NoDay.current = {}
  /\ Fits(NoDay)
<1>1. NoDay \in DayRecord /\ NoDay.version = 0 /\ NoDay.all = {} /\ NoDay.current = {}
  BY DEF NoDay, DayRecord
<1>2. QED BY <1>1, FS_EmptySet, PartnerListAssumption DEF Fits

LEMMA FiniteDay ==
  ASSUME NEW S \in SUBSET Candidates
  PROVE  IsFiniteSet(S) /\ Cardinality(S) \in Nat
BY PartnerListAssumption, FS_Subset, FS_CardinalityType

\* The row that was read is a copy of itself.
LEMMA RowIsCopy ==
  ASSUME RowOK, dayRow # NoDay
  PROVE  dayRow \in DayRecord /\ CopyOf(dayRow, dayRow)
BY DEF RowOK, CopyOf, DayRecord

\* The row moves on by one version, and the others fall behind.
LEMMA NewerRow ==
  ASSUME NEW row \in DayRecord, NEW next \in DayRecord,
         next.version = row.version + 1
  PROVE  /\ \A d \in DayRecord : CopyOf(row, d) => CopyOf(next, d)
         /\ \A d \in DayRecord, S \in SUBSET Candidates :
              DraftOf(row, d, S) => DraftOf(next, d, S)
         /\ \A r \in ReaderRecord : Right(row, r) => Right(next, r)
<1>1. ASSUME NEW d \in DayRecord, CopyOf(row, d) PROVE CopyOf(next, d)
  BY <1>1 DEF CopyOf, DayRecord
<1>2. ASSUME NEW d \in DayRecord, NEW S \in SUBSET Candidates, DraftOf(row, d, S)
      PROVE  DraftOf(next, d, S)
  BY <1>2 DEF DraftOf, DayRecord
<1>3. ASSUME NEW r \in ReaderRecord, Right(row, r) PROVE Right(next, r)
  <2>1. r.day \in DayRecord /\ r.new \in SUBSET Candidates
    BY DEF ReaderRecord
  <2>2. QED BY <1>1, <1>2, <1>3, <2>1 DEF Right
<1>4. QED BY <1>1, <1>2, <1>3

\* New users in the room that is left.
LEMMA RoomIsEnough ==
  ASSUME NEW A \in SUBSET Candidates, NEW S \in SUBSET Candidates,
         Cardinality(A) <= DailyLimit,
         Cardinality(S) <= DailyLimit - Cardinality(A)
  PROVE  Cardinality(A \cup S) <= DailyLimit
<1>1. IsFiniteSet(A) /\ IsFiniteSet(S) /\ IsFiniteSet(A \cap S)
  BY FiniteDay
<1>2. /\ Cardinality(A) \in Nat /\ Cardinality(S) \in Nat
      /\ Cardinality(A \cap S) \in Nat
  BY <1>1, FS_CardinalityType
<1>3. Cardinality(A \cup S) = Cardinality(A) + Cardinality(S) - Cardinality(A \cap S)
  BY <1>1, FS_Union
<1>4. DailyLimit \in Nat
  BY PartnerListAssumption
<1>5. QED BY <1>2, <1>3, <1>4

-----------------------------------------------------------------------------
(***************************************************************************)
(* Steps of a request                                                      *)
(***************************************************************************)
LEMMA ReaderMoves ==
  ASSUME ReadersOK, NEW h \in Readers, NEW r \in ReaderRecord, Moves(h, r)
  PROVE  /\ reader' \in [Readers -> ReaderRecord] /\ reader'[h] = r
         /\ \A x \in Readers \ {h} : reader'[x] = reader[x]
BY DEF ReadersOK, Moves

\* A request goes on and leaves the row and the outbox alone.
LEMMA ReadKept ==
  ASSUME DayInv, NEW h \in Readers, NEW r \in ReaderRecord, Moves(h, r),
         Right(dayRow, r), UNCHANGED <<dayRow, outbox, eligible, hour>>,
         dayCache' = dayCache \/ CacheOK'
  PROVE  DayInv'
<1>1. RowOK' /\ CacheOK'
  BY DEF DayInv, RowOK, CacheOK
<1>2. ReadersOK'
  BY ReaderMoves DEF DayInv, ReadersOK
<1>3. Assigned' = dayRow'.all
  BY DEF DayInv, Assigned
<1>4. QED BY <1>1, <1>2, <1>3 DEF DayInv

\* A request writes the row and its new users to the outbox.
LEMMA WriteKept ==
  ASSUME DayInv, CountInv, NEW h \in Readers, NEW r \in ReaderRecord, Moves(h, r),
         NEW day \in DayRecord, NEW S \in SUBSET Candidates,
         dayRow' = day, outbox' = Enqueued(outbox, S),
         Fits(day), day.version = dayRow.version + 1, day.all = dayRow.all \cup S,
         Right(day, r), UNCHANGED <<dayCache, eligible, hour>>
  PROVE  DayInv'
<1>1. dayRow \in DayRecord
  BY DEF DayInv, RowOK
<1>2. RowOK'
  BY <1>1 DEF RowOK, DayRecord
<1>3. CacheOK'
  BY <1>1, NewerRow DEF DayInv, CacheOK
<1>4. ReadersOK'
  <2>1. /\ reader' \in [Readers -> ReaderRecord] /\ reader'[h] = r
        /\ \A x \in Readers \ {h} : reader'[x] = reader[x]
    BY ReaderMoves DEF DayInv
  <2>2. \A x \in Readers : reader[x] \in ReaderRecord /\ Right(dayRow, reader[x])
    BY DEF DayInv, ReadersOK
  <2>3. \A x \in Readers : Right(day, reader'[x])
    BY <1>1, <2>1, <2>2, NewerRow
  <2>4. QED BY <2>1, <2>3 DEF ReadersOK
<1>5. Assigned' = dayRow'.all
  <2>1. \A c \in Candidates : outbox'[c] # "none" <=> outbox[c] # "none" \/ c \in S
    BY DEF Enqueued
  <2>2. \A c : c \in Assigned' <=> c \in Assigned \/ c \in S
    BY <2>1 DEF Assigned
  <2>3. Assigned' = Assigned \cup S
    BY <2>2
  <2>4. QED BY <2>3 DEF DayInv
<1>6. QED BY <1>2, <1>3, <1>4, <1>5 DEF DayInv

\* What is newly in the outbox has not been counted.
LEMMA EnqueuedKept ==
  ASSUME CountInv, NEW S, outbox' = outbox \/ outbox' = Enqueued(outbox, S),
         UNCHANGED counterVars
  PROVE  CountInv'
<1>1. UNCHANGED <<applied, exposure, flush>>
  BY DEF counterVars
<1>2. CASE outbox' = outbox
  BY <1>1, <1>2 DEF CountInv, Assigned
<1>3. CASE outbox' = Enqueued(outbox, S)
  <2>1. /\ outbox' \in [Candidates -> {"none", "waiting", "retry", "done"}]
        /\ \A c \in Candidates :
             /\ outbox'[c] = "done" => outbox[c] = "done"
             /\ outbox'[c] = "none" => outbox[c] = "none"
    BY <1>3 DEF CountInv, Enqueued
  <2>2. Assigned \subseteq Assigned'
    BY <2>1 DEF Assigned
  <2>3. QED BY <1>1, <2>1, <2>2 DEF CountInv
<1>4. QED BY <1>2, <1>3

LEMMA RestingIs ==
  /\ Resting \in ReaderRecord /\ Resting.pc = "idle"
  /\ \A row : Right(row, Resting)
<1>1. Resting \in ReaderRecord /\ Resting.pc = "idle"
  BY NoDayIs DEF Resting, ReaderRecord, Pcs
<1>2. QED BY <1>1 DEF Right, Copying, Drafting

LEMMA PcKinds ==
  /\ Copying \subseteq Pcs /\ Drafting \subseteq Pcs
  /\ {"idle", "load", "read", "lock", "poll", "select", "insert", "existing"} \subseteq Pcs
  /\ \A pc \in Copying : pc \notin Drafting \cup {"insert"}
  /\ \A pc \in Drafting : pc \notin Copying \cup {"insert"}
  /\ \A pc \in {"idle", "load", "read", "lock", "poll", "select", "existing"} :
       pc \notin Copying \cup Drafting \cup {"insert"}
  /\ "insert" \notin Copying \cup Drafting
BY DEF Pcs, Copying, Drafting

LEMMA ReaderIs ==
  ASSUME DayInv, NEW h \in Readers
  PROVE  /\ reader[h] \in ReaderRecord /\ reader[h].day \in DayRecord
         /\ reader[h].new \in SUBSET Candidates /\ reader[h].at \in Nat
         /\ Right(dayRow, reader[h])
BY DEF DayInv, ReadersOK, ReaderRecord

\* Only the counter goes on, and what the request knows is right for it.
LEMMA GoesKept ==
  ASSUME DayInv, NEW h \in Readers, NEW pc \in Pcs, GoesTo(h, pc),
         pc \in Copying => CopyOf(dayRow, reader[h].day),
         pc \in Drafting => DraftOf(dayRow, reader[h].day, reader[h].new),
         pc # "insert",
         UNCHANGED <<dayRow, outbox, eligible, hour>>, dayCache' = dayCache \/ CacheOK'
  PROVE  DayInv'
<1> DEFINE r == [reader[h] EXCEPT !.pc = pc]
<1>1. /\ r \in ReaderRecord /\ r.pc = pc /\ r.day = reader[h].day
      /\ r.new = reader[h].new
  BY ReaderIs DEF ReaderRecord
<1>2. Moves(h, r)
  BY DEF GoesTo
<1> HIDE DEF r
<1>3. Right(dayRow, r)
  BY <1>1 DEF Right
<1>4. QED BY <1>1, <1>2, <1>3, ReadKept

LEMMA AnswersKept ==
  ASSUME DayInv, NEW h \in Readers, Answers(h),
         UNCHANGED <<dayRow, outbox, eligible, hour>>, dayCache' = dayCache \/ CacheOK'
  PROVE  DayInv'
BY RestingIs, ReadKept DEF Answers

\* The request takes a copy of the day.
LEMMA TakesKept ==
  ASSUME DayInv, NEW h \in Readers, NEW pc \in Copying, NEW day \in DayRecord,
         CopyOf(dayRow, day), Moves(h, [reader[h] EXCEPT !.pc = pc, !.day = day]),
         UNCHANGED <<dayRow, dayCache, outbox, eligible, hour>>
  PROVE  DayInv'
<1> DEFINE q == [reader[h] EXCEPT !.pc = pc]
           r == [q EXCEPT !.day = day]
<1>1. q \in ReaderRecord /\ q.pc = pc
  BY ReaderIs, PcKinds DEF ReaderRecord
<1>2. Moves(h, r)
  OBVIOUS
<1> HIDE DEF q
<1>3. r \in ReaderRecord /\ r.pc = pc /\ r.day = day
  BY <1>1 DEF ReaderRecord
<1> HIDE DEF r
<1>4. Right(dayRow, r)
  BY <1>3, PcKinds DEF Right
<1>5. QED BY <1>2, <1>3, <1>4, ReadKept

-----------------------------------------------------------------------------
(***************************************************************************)
(* Loading and making the day                                              *)
(***************************************************************************)
LEMMA RecommendationsKept ==
  ASSUME DayInv, NEW h \in Readers, Recommendations(h),
         UNCHANGED <<outbox, eligible, hour>>
  PROVE  DayInv'
<1> DEFINE q == [Resting EXCEPT !.pc = "load"]
           r == [q EXCEPT !.at = hour]
<1>1. hour \in Nat
  BY DEF DayInv
<1>2. q \in ReaderRecord /\ q.pc = "load"
  BY RestingIs, PcKinds DEF ReaderRecord
<1>3. Moves(h, r) /\ UNCHANGED <<dayRow, dayCache>>
  BY DEF Recommendations
<1> HIDE DEF q
<1>4. r \in ReaderRecord /\ r.pc = "load"
  BY <1>1, <1>2 DEF ReaderRecord
<1> HIDE DEF r
<1>5. Right(dayRow, r)
  BY <1>4, PcKinds DEF Right
<1>6. QED BY <1>3, <1>4, <1>5, ReadKept

LEMMA LoadCachedKept ==
  ASSUME DayInv, NEW h \in Readers, LoadCached(h),
         UNCHANGED <<outbox, eligible, hour>>
  PROVE  DayInv'
<1>1. UNCHANGED <<dayRow, dayCache>>
  BY DEF LoadCached
<1>2. CASE dayCache = NoDay
  <2>1. GoesTo(h, "read")
    BY <1>2 DEF LoadCached
  <2>2. QED BY <1>1, <2>1, PcKinds, GoesKept
<1>3. CASE dayCache # NoDay
  <2>1. Moves(h, [reader[h] EXCEPT !.pc = "check", !.day = dayCache])
    BY <1>3 DEF LoadCached
  <2>2. dayCache \in DayRecord /\ CopyOf(dayRow, dayCache) /\ "check" \in Copying
    BY <1>3 DEF DayInv, CacheOK, Copying
  <2>3. QED BY <1>1, <2>1, <2>2, TakesKept
<1>4. QED BY <1>2, <1>3

LEMMA LoadDayKept ==
  ASSUME DayInv, NEW h \in Readers, LoadDay(h), UNCHANGED <<outbox, eligible, hour>>
  PROVE  DayInv'
<1>1. UNCHANGED <<dayRow, dayCache>>
  BY DEF LoadDay
<1>2. CASE dayRow # NoDay
  <2>1. Moves(h, [reader[h] EXCEPT !.pc = "save", !.day = dayRow])
    BY <1>2 DEF LoadDay
  <2>2. dayRow \in DayRecord /\ CopyOf(dayRow, dayRow) /\ "save" \in Copying
    BY <1>2, RowIsCopy DEF DayInv, Copying
  <2>3. QED BY <1>1, <2>1, <2>2, TakesKept
<1>3. CASE dayRow = NoDay
  <2>1. reader[h].on \in {"first", "locked", "poll"}
    BY ReaderIs DEF ReaderRecord
  <2>2. GoesTo(h, "lock") \/ GoesTo(h, "select") \/ GoesTo(h, "poll")
    BY <1>3, <2>1 DEF LoadDay, GoesTo
  <2>3. QED BY <1>1, <2>2, PcKinds, GoesKept
<1>4. QED BY <1>2, <1>3

LEMMA CacheDayKept ==
  ASSUME DayInv, NEW h \in Readers, CacheDay(h), UNCHANGED <<outbox, eligible, hour>>
  PROVE  DayInv'
<1>1. UNCHANGED dayRow /\ reader[h].pc \in {"save", "saveRepaired", "saveRotated"}
  BY DEF CacheDay, ReaderAt
<1>2. reader[h].day \in DayRecord /\ CopyOf(dayRow, reader[h].day)
  BY <1>1, ReaderIs DEF Right, Copying
<1>3. dayCache' = dayCache \/ CacheOK'
  BY <1>1, <1>2 DEF CacheDay, CacheOK
<1>4. GoesTo(h, "check") \/ GoesTo(h, "turn") \/ Answers(h)
  BY <1>1 DEF CacheDay, ReaderAt
<1>5. "check" \in Copying /\ "turn" \in Copying
  BY DEF Copying
<1>6. QED BY <1>1, <1>2, <1>3, <1>4, <1>5, PcKinds, GoesKept, AnswersKept

LEMMA LockGenerationKept ==
  ASSUME DayInv, NEW h \in Readers, LockGeneration(h),
         UNCHANGED <<outbox, eligible, hour>>
  PROVE  DayInv'
<1> DEFINE to == IF generating = NoReader THEN "locked" ELSE "poll"
           q == [reader[h] EXCEPT !.pc = "load"]
           r == [q EXCEPT !.on = to]
<1>1. to \in {"first", "locked", "poll"}
  OBVIOUS
<1>2. q \in ReaderRecord /\ q.pc = "load"
  BY ReaderIs, PcKinds DEF ReaderRecord
<1>3. Moves(h, r) /\ UNCHANGED <<dayRow, dayCache>>
  BY DEF LockGeneration
<1> HIDE DEF q, to
<1>4. r \in ReaderRecord /\ r.pc = "load"
  BY <1>1, <1>2 DEF ReaderRecord
<1> HIDE DEF r
<1>5. Right(dayRow, r)
  BY <1>4, PcKinds DEF Right
<1>6. QED BY <1>3, <1>4, <1>5, ReadKept

LEMMA PollKept ==
  ASSUME DayInv, NEW h \in Readers, Poll(h), UNCHANGED <<outbox, eligible, hour>>
  PROVE  DayInv'
<1>1. (GoesTo(h, "load") \/ Answers(h)) /\ UNCHANGED <<dayRow, dayCache>>
  BY DEF Poll
<1>2. QED BY <1>1, PcKinds, GoesKept, AnswersKept

LEMMA SelectInitialKept ==
  ASSUME DayInv, NEW h \in Readers, SelectInitial(h),
         UNCHANGED <<outbox, eligible, hour>>
  PROVE  DayInv'
<1>1. /\ UNCHANGED <<dayRow, dayCache>>
      /\ reader[h] \in ReaderRecord /\ reader[h].at \in Nat
  BY ReaderIs DEF SelectInitial
<1>2. PICK S \in Picks({}, InitialLimit) :
        Moves(h, [reader[h] EXCEPT !.pc = "insert", !.new = S,
                   !.day = [NoDay EXCEPT !.version = 1, !.current = S, !.all = S,
                              !.due = Smaller(reader[h].at + RotateAfter, Boundary)]])
  BY DEF SelectInitial
<1>3. S \in SUBSET Candidates /\ Cardinality(S) <= InitialLimit
  BY DEF Picks, DayInv
<1> DEFINE due == Smaller(reader[h].at + RotateAfter, Boundary)
           e == [NoDay EXCEPT !.version = 1, !.current = S]
           d == [e EXCEPT !.all = S, !.due = due]
           q == [reader[h] EXCEPT !.pc = "insert", !.new = S]
           r == [q EXCEPT !.day = d]
<1>4. due \in Nat
  BY <1>1, PartnerListAssumption DEF Smaller
<1> HIDE DEF due
<1>5. e \in DayRecord /\ e.version = 1 /\ e.current = S
  BY <1>3, NoDayIs DEF DayRecord
<1>6. Moves(h, r)
  BY <1>2 DEF due
<1> HIDE DEF e
<1>7. d \in DayRecord /\ d.version = 1 /\ d.current = S /\ d.all = S
  BY <1>3, <1>4, <1>5 DEF DayRecord
<1> HIDE DEF d
<1>8. q \in ReaderRecord /\ q.pc = "insert" /\ q.new = S
  BY <1>1, <1>3, PcKinds DEF ReaderRecord
<1> HIDE DEF q
<1>9. r \in ReaderRecord /\ r.pc = "insert" /\ r.new = S /\ r.day = d
  BY <1>7, <1>8 DEF ReaderRecord
<1> HIDE DEF r
<1>10. FirstOf(d, S)
  BY <1>3, <1>7, FiniteDay, PartnerListAssumption DEF FirstOf, Fits
<1>11. Right(dayRow, r)
  BY <1>9, <1>10, PcKinds DEF Right
<1>12. QED BY <1>1, <1>6, <1>9, <1>11, ReadKept

LEMMA LoadExistingKept ==
  ASSUME DayInv, NEW h \in Readers, LoadExisting(h),
         UNCHANGED <<outbox, eligible, hour>>
  PROVE  DayInv'
<1>1. UNCHANGED <<dayRow, dayCache>>
  BY DEF LoadExisting
<1>2. CASE dayRow = NoDay
  BY <1>1, <1>2, AnswersKept DEF LoadExisting
<1>3. CASE dayRow # NoDay
  <2>1. Moves(h, [reader[h] EXCEPT !.pc = "save", !.day = dayRow])
    BY <1>3 DEF LoadExisting
  <2>2. dayRow \in DayRecord /\ CopyOf(dayRow, dayRow) /\ "save" \in Copying
    BY <1>3, RowIsCopy DEF DayInv, Copying
  <2>3. QED BY <1>1, <2>1, <2>2, TakesKept
<1>4. QED BY <1>2, <1>3

\* What insertDay writes.
LEMMA InsertWrites ==
  ASSUME DayInv, CountInv, NEW h \in Readers, reader[h].pc = "insert",
         dayRow = NoDay, dayRow' = reader[h].day,
         outbox' = Enqueued(outbox, reader[h].new),
         NEW pc \in {"save", "existing"}, GoesTo(h, pc),
         UNCHANGED <<dayCache, eligible, hour>>
  PROVE  DayInv'
<1> DEFINE r == [reader[h] EXCEPT !.pc = pc]
           d == reader[h].day
           S == reader[h].new
<1>1. /\ reader[h] \in ReaderRecord /\ d \in DayRecord /\ S \in SUBSET Candidates
      /\ FirstOf(d, S)
  BY ReaderIs DEF Right
<1>2. "save" \in Copying /\ "existing" \notin Copying /\ pc \in Pcs
  BY PcKinds DEF Copying
<1>3. /\ r \in ReaderRecord /\ r.pc = pc /\ r.day = d
      /\ Moves(h, r)
  BY <1>1, <1>2 DEF ReaderRecord, GoesTo
<1>4. Fits(d) /\ d.version = dayRow.version + 1 /\ d.all = dayRow.all \cup S
  BY <1>1, NoDayIs DEF FirstOf
<1> HIDE DEF r
<1>5. Right(d, r)
  <2>1. CopyOf(d, d)
    BY <1>1 DEF CopyOf, FirstOf
  <2>2. pc \notin Drafting \cup {"insert"}
    BY PcKinds DEF Drafting
  <2>3. QED BY <1>3, <2>1, <2>2 DEF Right
<1>6. QED BY <1>1, <1>3, <1>4, <1>5, WriteKept

LEMMA InsertDayKept ==
  ASSUME DayInv, CountInv, NEW h \in Readers, InsertDay(h), UNCHANGED <<eligible, hour>>
  PROVE  DayInv'
<1>1. reader[h].pc = "insert" /\ UNCHANGED dayCache
  BY DEF InsertDay, ReaderAt
<1>2. CASE dayRow = NoDay
  BY <1>1, <1>2, InsertWrites DEF InsertDay
<1>3. CASE dayRow # NoDay
  BY <1>1, <1>3, PcKinds, GoesKept DEF InsertDay
<1>4. QED BY <1>2, <1>3

-----------------------------------------------------------------------------
(***************************************************************************)
(* Repairing and rotating the list                                         *)
(***************************************************************************)
\* The request goes on to write what it has drafted.
LEMMA DraftsKept ==
  ASSUME DayInv, NEW h \in Readers, NEW pc \in Drafting, NEW d \in DayRecord,
         NEW S \in SUBSET Candidates, NEW r, Moves(h, r),
         r \in ReaderRecord, r.pc = pc, r.day = d, r.new = S,
         DraftOf(dayRow, d, S),
         UNCHANGED <<dayRow, dayCache, outbox, eligible, hour>>
  PROVE  DayInv'
<1>1. Right(dayRow, r)
  BY PcKinds DEF Right
<1>2. QED BY <1>1, ReadKept

LEMMA SmallerIs ==
  ASSUME NEW i \in Int, NEW j \in Int
  PROVE  Smaller(i, j) <= i /\ Smaller(i, j) <= j
BY DEF Smaller

LEMMA RepairInvalidKept ==
  ASSUME DayInv, NEW h \in Readers, RepairInvalid(h),
         UNCHANGED <<outbox, eligible, hour>>
  PROVE  DayInv'
<1> DEFINE day == reader[h].day
           kept == day.current \cap eligible
           missing == Smaller(InitialLimit - Cardinality(kept), Left(day))
<1>1. UNCHANGED <<dayRow, dayCache>> /\ reader[h].pc = "check" /\ "check" \in Copying
  BY DEF RepairInvalid, ReaderAt, Copying
<1>2. /\ reader[h] \in ReaderRecord /\ day \in DayRecord
      /\ CopyOf(dayRow, day) /\ dayRow \in DayRecord
  BY <1>1, ReaderIs DEF Right, DayInv, RowOK
<1>3. CASE kept = day.current
  <2>1. GoesTo(h, "turn") /\ "turn" \in Copying
    BY <1>3 DEF RepairInvalid, Copying
  <2>2. QED BY <1>1, <1>2, <2>1, PcKinds, GoesKept
<1>4. CASE kept # day.current
  <2>1. PICK S \in Picks(day.all, missing) :
          Moves(h, [reader[h] EXCEPT !.pc = "update", !.new = S,
                      !.day = [day EXCEPT !.version = @ + 1,
                                 !.current = kept \cup S, !.all = @ \cup S]])
    BY <1>4 DEF RepairInvalid
  <2> DEFINE e == [day EXCEPT !.version = day.version + 1, !.current = kept \cup S]
             d == [e EXCEPT !.all = day.all \cup S]
             q == [reader[h] EXCEPT !.pc = "update", !.new = S]
             r == [q EXCEPT !.day = d]
  <2>2. S \in SUBSET Candidates /\ kept \in SUBSET Candidates /\ Cardinality(S) <= missing
    BY <1>2 DEF Picks, DayInv, DayRecord
  <2>3. Moves(h, r)
    BY <1>2, <2>1 DEF DayRecord
  <2>4. /\ e \in DayRecord /\ e.version = day.version + 1
        /\ e.current = kept \cup S
    <3> DEFINE c == kept \cup S
               n == day.version + 1
    <3>1. c \in SUBSET Candidates /\ n \in Nat
      BY <1>2, <2>2 DEF DayRecord
    <3> HIDE DEF c, n
    <3>2. /\ [day EXCEPT !.version = n, !.current = c] \in DayRecord
          /\ [day EXCEPT !.version = n, !.current = c].version = n
          /\ [day EXCEPT !.version = n, !.current = c].current = c
      BY <1>2, <3>1 DEF DayRecord
    <3>3. QED BY <3>2 DEF c, n
  <2> HIDE DEF e
  <2>5. /\ d \in DayRecord /\ d.version = day.version + 1
        /\ d.current = kept \cup S /\ d.all = day.all \cup S
    BY <1>2, <2>2, <2>4 DEF DayRecord
  <2> HIDE DEF d
  <2>6. q \in ReaderRecord /\ q.pc = "update" /\ q.new = S
    BY <1>2, <2>2, PcKinds DEF ReaderRecord, Drafting
  <2> HIDE DEF q
  <2>7. r \in ReaderRecord /\ r.pc = "update" /\ r.day = d /\ r.new = S
    BY <2>5, <2>6 DEF ReaderRecord
  <2> HIDE DEF r
  <2>8. Cardinality(d.all) <= DailyLimit
    <3>1. day.all \in SUBSET Candidates /\ Cardinality(day.all) <= DailyLimit
      BY <1>2 DEF DayRecord, CopyOf, Fits
    <3>2. /\ Cardinality(day.all) \in Nat /\ Cardinality(kept) \in Nat
          /\ Cardinality(S) \in Nat /\ InitialLimit \in Int /\ DailyLimit \in Int
      BY <2>2, <3>1, FiniteDay, PartnerListAssumption
    <3>3. Cardinality(S) <= DailyLimit - Cardinality(day.all)
      BY <2>2, <3>2, SmallerIs DEF Left, Smaller
    <3>4. QED BY <2>2, <2>5, <3>1, <3>3, RoomIsEnough
  <2>9. DraftOf(dayRow, d, S)
    <3>1. /\ day.version \in Nat /\ 1 <= day.version /\ day.version <= dayRow.version
          /\ day.version = dayRow.version => day = dayRow
          /\ day.current \subseteq day.all /\ dayRow.version \in Nat
      BY <1>2 DEF CopyOf, Fits, DayRecord
    <3>2. Fits(d)
      BY <2>5, <2>8, <3>1 DEF Fits
    <3>3. QED BY <2>5, <3>1, <3>2 DEF DraftOf
  <2>10. "update" \in Drafting
    BY DEF Drafting
  <2>11. QED BY <1>1, <2>2, <2>3, <2>5, <2>7, <2>9, <2>10, DraftsKept
<1>5. QED BY <1>3, <1>4

\* What updateDay writes, if the row is still the version that was read.
LEMMA UpdateWrites ==
  ASSUME DayInv, CountInv, NEW h \in Readers, reader[h].pc \in Drafting, UpdateDay(h),
         SameVersion(reader[h].day),
         NEW r \in ReaderRecord, Moves(h, r),
         r.pc # "idle" => r.pc \in Copying /\ r.day = reader[h].day,
         UNCHANGED <<dayCache, eligible, hour>>
  PROVE  DayInv'
<1> DEFINE d == reader[h].day
           S == reader[h].new
<1>1. /\ d \in DayRecord /\ S \in SUBSET Candidates /\ DraftOf(dayRow, d, S)
      /\ dayRow \in DayRecord
  BY ReaderIs DEF Right, DayInv, RowOK
<1>2. /\ Fits(d) /\ 2 <= d.version /\ d.version = dayRow.version + 1
      /\ d.all = dayRow.all \cup S
  BY <1>1 DEF DraftOf, SameVersion, DayRecord
<1>3. dayRow' = d /\ outbox' = Enqueued(outbox, S)
  BY DEF UpdateDay
<1>4. Right(d, r)
  <2>1. CopyOf(d, d)
    BY <1>1, <1>2 DEF CopyOf, DayRecord
  <2>2. CASE r.pc = "idle"
    BY <2>2, PcKinds DEF Right
  <2>3. CASE r.pc \in Copying /\ r.day = d
    BY <2>1, <2>3, PcKinds DEF Right
  <2>4. QED BY <2>2, <2>3
<1>5. QED BY <1>1, <1>2, <1>3, <1>4, WriteKept

LEMMA UpdateRepairedKept ==
  ASSUME DayInv, CountInv, NEW h \in Readers, UpdateRepaired(h), UNCHANGED <<eligible, hour>>
  PROVE  DayInv'
<1>1. /\ reader[h].pc = "update" /\ "update" \in Drafting /\ UpdateDay(h)
      /\ UNCHANGED dayCache /\ reader[h] \in ReaderRecord
  BY ReaderIs DEF UpdateRepaired, ReaderAt, Drafting
<1>2. CASE SameVersion(reader[h].day)
  <2> DEFINE r == [reader[h] EXCEPT !.pc = "saveRepaired"]
  <2>1. "saveRepaired" \in Copying /\ "saveRepaired" \in Pcs
    BY DEF Copying, Pcs
  <2>2. /\ r \in ReaderRecord /\ r.pc = "saveRepaired" /\ r.day = reader[h].day
        /\ Moves(h, r)
    BY <1>1, <1>2, <2>1 DEF ReaderRecord, UpdateRepaired, GoesTo
  <2>3. QED BY <1>1, <1>2, <2>1, <2>2, UpdateWrites
<1>3. CASE ~SameVersion(reader[h].day)
  <2>1. GoesTo(h, "reload") /\ UNCHANGED <<dayRow, outbox>> /\ "reload" \in Drafting
    BY <1>1, <1>3 DEF UpdateRepaired, UpdateDay, Drafting
  <2>2. DraftOf(dayRow, reader[h].day, reader[h].new)
    BY <1>1, ReaderIs DEF Right
  <2>3. QED BY <1>1, <2>1, <2>2, PcKinds, GoesKept
<1>4. QED BY <1>2, <1>3

LEMMA ReloadKept ==
  ASSUME DayInv, NEW h \in Readers, Reload(h), UNCHANGED <<outbox, eligible, hour>>
  PROVE  DayInv'
<1>1. /\ reader[h].pc = "reload" /\ "reload" \in Drafting /\ "turn" \in Copying
      /\ UNCHANGED <<dayRow, dayCache>>
      /\ Moves(h, [reader[h] EXCEPT !.pc = "turn", !.day = dayRow])
  BY DEF Reload, ReaderAt, Drafting, Copying
<1>2. dayRow # NoDay
  <2>1. DraftOf(dayRow, reader[h].day, reader[h].new) /\ reader[h].day \in DayRecord
    BY <1>1, ReaderIs DEF Right
  <2>2. QED BY <2>1, NoDayIs DEF DraftOf, DayRecord
<1>3. dayRow \in DayRecord /\ CopyOf(dayRow, dayRow)
  BY <1>2, RowIsCopy DEF DayInv
<1>4. QED BY <1>1, <1>3, TakesKept

LEMMA LockRotationKept ==
  ASSUME DayInv, NEW h \in Readers, LockRotation(h), UNCHANGED <<outbox, eligible, hour>>
  PROVE  DayInv'
<1>1. /\ reader[h].pc = "turn" /\ "turn" \in Copying /\ "fresh" \in Copying
      /\ UNCHANGED <<dayRow, dayCache>>
      /\ GoesTo(h, "fresh") \/ Answers(h)
  BY DEF LockRotation, ReaderAt, Copying
<1>2. CopyOf(dayRow, reader[h].day)
  BY <1>1, ReaderIs DEF Right
<1>3. QED BY <1>1, <1>2, PcKinds, GoesKept, AnswersKept

LEMMA NothingLeftIs ==
  ASSUME NEW day \in DayRecord
  PROVE  /\ NothingLeft(day) \in DayRecord
         /\ NothingLeft(day).version = day.version + 1
         /\ NothingLeft(day).all = day.all /\ NothingLeft(day).current = day.current
<1> DEFINE n == day.version + 1
           e == [day EXCEPT !.version = n, !.done = TRUE]
           d == [e EXCEPT !.retry = 0]
<1>1. n \in Nat
  BY DEF DayRecord
<1>2. NothingLeft(day) = d
  BY DEF NothingLeft, DayRecord
<1> HIDE DEF n
<1>3. e \in DayRecord /\ e.version = n /\ e.all = day.all /\ e.current = day.current
  BY <1>1 DEF DayRecord
<1> HIDE DEF e
<1>4. d \in DayRecord /\ d.version = n /\ d.all = day.all /\ d.current = day.current
  BY <1>3 DEF DayRecord
<1> HIDE DEF d
<1>5. QED BY <1>2, <1>4 DEF n

LEMMA NothingNewIs ==
  ASSUME NEW day \in DayRecord, NEW at \in Nat
  PROVE  /\ NothingNew(day, at) \in DayRecord
         /\ NothingNew(day, at).version = day.version + 1
         /\ NothingNew(day, at).all = day.all /\ NothingNew(day, at).current = day.current
<1>1. CASE at + RetryAfter >= Boundary
  BY <1>1, NothingLeftIs DEF NothingNew
<1>2. CASE ~(at + RetryAfter >= Boundary)
  <2> DEFINE n == day.version + 1
             m == at + RetryAfter
             d == [day EXCEPT !.version = n, !.retry = m]
  <2>1. n \in Nat /\ m \in Nat
    BY PartnerListAssumption DEF DayRecord
  <2>2. NothingNew(day, at) = d
    BY <1>2 DEF NothingNew, DayRecord
  <2> HIDE DEF n, m
  <2>3. d \in DayRecord /\ d.version = n /\ d.all = day.all /\ d.current = day.current
    BY <2>1 DEF DayRecord
  <2> HIDE DEF d
  <2>4. QED BY <2>2, <2>3 DEF n
<1>3. QED BY <1>1, <1>2

LEMMA RotatedIs ==
  ASSUME NEW day \in DayRecord, NEW S \in SUBSET Candidates, NEW D,
         day.current \subseteq day.all
  PROVE  /\ Rotated(day, S, D) \in DayRecord
         /\ Rotated(day, S, D).version = day.version + 1
         /\ Rotated(day, S, D).all = day.all \cup S
         /\ Rotated(day, S, D).current \subseteq day.all \cup S
<1> DEFINE n == day.version + 1
           c == ((day.current \cap eligible) \ D) \cup S
           a == day.all \cup S
           e == [day EXCEPT !.version = n, !.done = TRUE]
           f == [e EXCEPT !.retry = 0, !.current = c]
           d == [f EXCEPT !.all = a]
<1>1. /\ n \in Nat /\ c \in SUBSET Candidates /\ a \in SUBSET Candidates
      /\ c \subseteq a
  BY DEF DayRecord
<1>2. Rotated(day, S, D) = d
  BY DEF Rotated, DayRecord
<1> HIDE DEF n, c, a
<1>3. e \in DayRecord /\ e.version = n
  BY <1>1 DEF DayRecord
<1> HIDE DEF e
<1>4. f \in DayRecord /\ f.version = n /\ f.current = c
  BY <1>1, <1>3 DEF DayRecord
<1> HIDE DEF f
<1>5. d \in DayRecord /\ d.version = n /\ d.current = c /\ d.all = a
  BY <1>1, <1>4 DEF DayRecord
<1> HIDE DEF d
<1>6. QED BY <1>1, <1>2, <1>5 DEF n, a

LEMMA RotateKept ==
  ASSUME DayInv, NEW h \in Readers, Rotate(h), UNCHANGED <<outbox, eligible, hour>>
  PROVE  DayInv'
<1>1. /\ reader[h].pc = "fresh" /\ "fresh" \in Copying
      /\ UNCHANGED <<dayRow, dayCache>>
  BY DEF Rotate, ReaderAt, Copying
<1>2. /\ dayRow \in DayRecord /\ Fits(dayRow) /\ dayRow.version \in Nat
      /\ dayRow.all \in SUBSET Candidates /\ eligible \subseteq Candidates
  BY DEF DayInv, RowOK, DayRecord
<1>3. 1 <= dayRow.version /\ reader[h] \in ReaderRecord /\ reader[h].at \in Nat
  <2>1. CopyOf(dayRow, reader[h].day) /\ reader[h].day \in DayRecord
    BY <1>1, ReaderIs DEF Right
  <2>2. QED BY <1>2, <2>1, ReaderIs DEF CopyOf, DayRecord
<1>4. CASE ~IsDue(dayRow, reader[h].at)
  BY <1>1, <1>4, AnswersKept DEF Rotate
<1>5. CASE IsDue(dayRow, reader[h].at)
  <2>1. ASSUME NEW d \in DayRecord, NEW S \in SUBSET Candidates,
               Moves(h, [reader[h] EXCEPT !.pc = "rotate", !.day = d, !.new = S]),
               d.version = dayRow.version + 1, d.all = dayRow.all \cup S,
               d.current \subseteq d.all, Cardinality(d.all) <= DailyLimit
        PROVE  DayInv'
    <3> DEFINE q == [reader[h] EXCEPT !.pc = "rotate", !.day = d]
               r == [q EXCEPT !.new = S]
    <3>1. Moves(h, r)
      BY <2>1
    <3>2. q \in ReaderRecord /\ q.pc = "rotate" /\ q.day = d
      BY <1>3, PcKinds DEF ReaderRecord, Drafting
    <3> HIDE DEF q
    <3>3. r \in ReaderRecord /\ r.pc = "rotate" /\ r.day = d /\ r.new = S
      BY <3>2 DEF ReaderRecord
    <3> HIDE DEF r
    <3>4. DraftOf(dayRow, d, S)
      BY <1>2, <1>3, <2>1 DEF DraftOf, Fits
    <3>5. "rotate" \in Drafting
      BY DEF Drafting
    <3>6. QED BY <1>1, <3>1, <3>3, <3>4, <3>5, DraftsKept
  <2>2. /\ {} \in SUBSET Candidates /\ dayRow.all = dayRow.all \cup {}
        /\ dayRow.current \subseteq dayRow.all /\ Cardinality(dayRow.all) <= DailyLimit
    BY <1>2 DEF Fits
  <2>3. CASE Moves(h, [reader[h] EXCEPT !.pc = "rotate", !.day = NothingLeft(dayRow),
                                        !.new = {}])
    BY <1>2, <2>1, <2>2, <2>3, NothingLeftIs
  <2>4. CASE Moves(h, [reader[h] EXCEPT !.pc = "rotate",
                         !.day = NothingNew(dayRow, reader[h].at), !.new = {}])
    <3> DEFINE d == NothingNew(dayRow, reader[h].at)
    <3>1. /\ d \in DayRecord /\ d.version = dayRow.version + 1
          /\ d.all = dayRow.all /\ d.current = dayRow.current
      BY <1>2, <1>3, NothingNewIs
    <3>2. Moves(h, [reader[h] EXCEPT !.pc = "rotate", !.day = d, !.new = {}])
      BY <2>4
    <3> HIDE DEF d
    <3>3. QED BY <2>1, <2>2, <3>1, <3>2
  <2>5. ASSUME NEW S \in Picks(dayRow.all, Smaller(AddLimit, Left(dayRow))),
               NEW D \in Drops(dayRow, S),
               Moves(h, [reader[h] EXCEPT !.pc = "rotate",
                           !.day = Rotated(dayRow, S, D), !.new = S])
        PROVE  DayInv'
    <3>1. S \in SUBSET Candidates /\ Cardinality(S) <= Smaller(AddLimit, Left(dayRow))
      BY <1>2, <2>5 DEF Picks
    <3>2. /\ Rotated(dayRow, S, D) \in DayRecord
          /\ Rotated(dayRow, S, D).version = dayRow.version + 1
          /\ Rotated(dayRow, S, D).all = dayRow.all \cup S
          /\ Rotated(dayRow, S, D).current \subseteq dayRow.all \cup S
      BY <1>2, <2>2, <3>1, RotatedIs
    <3>3. Cardinality(S) <= DailyLimit - Cardinality(dayRow.all)
      <4>1. /\ Cardinality(dayRow.all) \in Nat /\ Cardinality(S) \in Nat
            /\ AddLimit \in Int /\ DailyLimit \in Int
        BY <1>2, <3>1, FiniteDay, PartnerListAssumption
      <4>2. QED BY <3>1, <4>1 DEF Left, Smaller
    <3>4. Cardinality(dayRow.all \cup S) <= DailyLimit
      BY <1>2, <2>2, <3>1, <3>3, RoomIsEnough
    <3>5. QED BY <2>1, <2>5, <3>1, <3>2, <3>4
  <2>6. QED BY <1>5, <2>3, <2>4, <2>5 DEF Rotate
<1>6. QED BY <1>4, <1>5

LEMMA UpdateRotatedKept ==
  ASSUME DayInv, CountInv, NEW h \in Readers, UpdateRotated(h), UNCHANGED <<eligible, hour>>
  PROVE  DayInv'
<1>1. /\ reader[h].pc = "rotate" /\ "rotate" \in Drafting /\ UpdateDay(h)
      /\ UNCHANGED dayCache /\ reader[h] \in ReaderRecord
  BY ReaderIs DEF UpdateRotated, ReaderAt, Drafting
<1>2. CASE SameVersion(reader[h].day)
  <2> DEFINE r == [reader[h] EXCEPT !.pc = "saveRotated"]
  <2>1. "saveRotated" \in Copying /\ "saveRotated" \in Pcs
    BY DEF Copying, Pcs
  <2>2. /\ r \in ReaderRecord /\ r.pc = "saveRotated" /\ r.day = reader[h].day
        /\ Moves(h, r)
    BY <1>1, <1>2, <2>1 DEF ReaderRecord, UpdateRotated, GoesTo
  <2>3. QED BY <1>1, <1>2, <2>1, <2>2, UpdateWrites
<1>3. CASE ~SameVersion(reader[h].day)
  <2>1. Answers(h) /\ UNCHANGED <<dayRow, outbox>>
    BY <1>1, <1>3 DEF UpdateRotated, UpdateDay
  <2>2. QED BY <1>1, <2>1, AnswersKept
<1>4. QED BY <1>2, <1>3

-----------------------------------------------------------------------------
(***************************************************************************)
(* Failures                                                                *)
(***************************************************************************)
LEMMA ReaderFailsKept ==
  ASSUME DayInv, CountInv, NEW h \in Readers, ReaderFails(h), UNCHANGED <<eligible, hour>>
  PROVE  DayInv'
<1>1. UNCHANGED dayCache
  BY DEF ReaderFails
<1>2. CASE reader[h].pc = "insert"
  <2>1. GoesTo(h, "existing")
    BY <1>2 DEF ReaderFails, ReaderAt
  <2>2. CASE UNCHANGED <<dayRow, outbox>>
    BY <1>1, <2>1, <2>2, PcKinds, GoesKept
  <2>3. CASE /\ dayRow = NoDay /\ dayRow' = reader[h].day
             /\ outbox' = Enqueued(outbox, reader[h].new)
    BY <1>1, <1>2, <2>1, <2>3, InsertWrites
  <2>4. QED BY <1>2, <2>2, <2>3 DEF ReaderFails, ReaderAt
<1>3. CASE reader[h].pc # "insert"
  <2>1. Answers(h)
    BY <1>3 DEF ReaderFails, ReaderAt
  <2>2. CASE UNCHANGED <<dayRow, outbox>>
    BY <1>1, <2>1, <2>2, AnswersKept
  <2>3. CASE /\ reader[h].pc \in {"update", "rotate"} /\ UpdateDay(h)
             /\ SameVersion(reader[h].day)
    <3>1. reader[h].pc \in Drafting
      BY <2>3 DEF Drafting
    <3>2. Moves(h, Resting) /\ Resting \in ReaderRecord
      BY <2>1, RestingIs DEF Answers
    <3>3. Resting.pc = "idle"
      BY RestingIs
    <3>4. UpdateDay(h) /\ SameVersion(reader[h].day) /\ UNCHANGED <<dayCache, eligible, hour>>
      BY <1>1, <2>3
    <3>5. ASSUME NEW r \in ReaderRecord, Moves(h, r), r.pc = "idle" PROVE DayInv'
      BY <3>1, <3>4, <3>5, UpdateWrites
    <3>6. QED BY <3>2, <3>3, <3>5
  <2>4. CASE UpdateDay(h) /\ ~SameVersion(reader[h].day)
    BY <1>1, <2>1, <2>4, AnswersKept DEF UpdateDay
  <2>5. QED BY <1>3, <2>2, <2>3, <2>4 DEF ReaderFails, ReaderAt
<1>4. QED BY <1>2, <1>3

\* The process dies, or nothing of the day changes.
LEMMA RestKept ==
  ASSUME DayInv, UNCHANGED <<dayRow, dayCache>>, Assigned' = Assigned,
         reader' = reader \/ reader' = [h \in Readers |-> Resting],
         eligible' \subseteq Candidates, hour' \in Nat
  PROVE  DayInv'
<1>1. RowOK' /\ CacheOK'
  BY DEF DayInv, RowOK, CacheOK
<1>2. ReadersOK'
  BY RestingIs DEF DayInv, ReadersOK
<1>3. QED BY <1>1, <1>2 DEF DayInv

LEMMA CountingRests ==
  ASSUME CountInv, UNCHANGED <<outbox, applied, exposure>>,
         flush' = flush \/ flush' = NoJob
  PROVE  CountInv' /\ Assigned' = Assigned
BY DEF CountInv, Assigned, NoJob

-----------------------------------------------------------------------------
(***************************************************************************)
(* Counting the assignments                                                *)
(***************************************************************************)
LEMMA FlushIs ==
  ASSUME NEW R, NEW D
  PROVE  [rows |-> R, done |-> D].rows = R /\ [rows |-> R, done |-> D].done = D
OBVIOUS

\* The script, for a row that is in the outbox.
LEMMA CountOnceIs ==
  ASSUME CountInv, NEW c \in Candidates, CountOnce(c)
  PROVE  /\ applied' = applied \cup {c}
         /\ exposure' \in [Candidates -> Nat]
         /\ \A d \in Candidates : exposure'[d] = IF d \in applied' THEN 1 ELSE 0
<1>1. /\ exposure \in [Candidates -> Nat]
      /\ \A d \in Candidates : exposure[d] = IF d \in applied THEN 1 ELSE 0
  BY DEF CountInv
<1>2. applied' = applied \cup {c}
  BY DEF CountOnce
<1>3. CASE c \in applied
  <2>1. exposure' = exposure /\ applied' = applied
    BY <1>2, <1>3 DEF CountOnce
  <2>2. QED BY <1>1, <1>2, <2>1
<1>4. CASE c \notin applied
  <2>1. exposure' = [exposure EXCEPT ![c] = exposure[c] + 1] /\ exposure[c] = 0
    BY <1>1, <1>4 DEF CountOnce
  <2>2. QED BY <1>1, <1>2, <2>1
<1>5. QED BY <1>3, <1>4

LEMMA TakeRowsKept ==
  ASSUME CountInv, TakeRows
  PROVE  CountInv' /\ Assigned' = Assigned
<1>1. /\ UNCHANGED <<applied, exposure, outbox>>
      /\ flush' = [flush EXCEPT !.rows = @ \cup Waiting]
  BY DEF TakeRows
<1>2. Waiting \subseteq Assigned
  BY DEF Waiting, Assigned
<1>3. /\ flush'.rows \subseteq flush.rows \cup Waiting
      /\ flush'.done = flush.done
  BY <1>1 DEF CountInv
<1>4. Assigned' = Assigned
  BY <1>1 DEF Assigned
<1>5. flush'.rows \cup flush'.done \subseteq Assigned'
  BY <1>2, <1>3, <1>4 DEF CountInv
<1>6. QED BY <1>1, <1>3, <1>4, <1>5 DEF CountInv

LEMMA ApplyRowKept ==
  ASSUME CountInv, NEW c \in Candidates, ApplyRow(c)
  PROVE  CountInv' /\ Assigned' = Assigned
<1>1. /\ c \in flush.rows /\ CountOnce(c) /\ UNCHANGED outbox
      /\ flush' = [rows |-> flush.rows \ {c}, done |-> flush.done \cup {c}]
  BY DEF ApplyRow
<1>2. /\ applied' = applied \cup {c} /\ exposure' \in [Candidates -> Nat]
      /\ \A d \in Candidates : exposure'[d] = IF d \in applied' THEN 1 ELSE 0
  BY <1>1, CountOnceIs
<1>3. flush'.rows = flush.rows \ {c} /\ flush'.done = flush.done \cup {c}
  BY <1>1
<1>4. Assigned' = Assigned /\ c \in Assigned
  BY <1>1 DEF Assigned, CountInv
<1>5. \A d \in Candidates : /\ outbox'[d] = "done" => d \in applied'
                            /\ outbox'[d] = "none" => d \notin applied'
  BY <1>1, <1>2, <1>4 DEF CountInv, Assigned
<1>6. flush'.rows \cup flush'.done \subseteq Assigned' /\ flush'.done \subseteq applied'
  BY <1>2, <1>3, <1>4 DEF CountInv
<1>7. QED BY <1>1, <1>2, <1>4, <1>5, <1>6 DEF CountInv

LEMMA ApplyFailsKept ==
  ASSUME CountInv, NEW c \in Candidates, ApplyFails(c)
  PROVE  CountInv' /\ Assigned' = Assigned
<1>1. /\ CountOnce(c) \/ UNCHANGED <<applied, exposure>>
      /\ c \in flush.rows
      /\ outbox' = [outbox EXCEPT ![c] = "retry"]
      /\ flush' = [flush EXCEPT !.rows = @ \ {c}]
  BY DEF ApplyFails
<1>2. /\ applied' = applied \/ applied' = applied \cup {c}
      /\ exposure' \in [Candidates -> Nat]
      /\ \A d \in Candidates : exposure'[d] = IF d \in applied' THEN 1 ELSE 0
  BY <1>1, CountOnceIs DEF CountInv
<1>3. /\ outbox' \in [Candidates -> {"none", "waiting", "retry", "done"}]
      /\ c \in Assigned /\ outbox[c] # "none" /\ outbox'[c] = "retry"
      /\ \A d \in Candidates \ {c} : outbox'[d] = outbox[d]
  BY <1>1 DEF CountInv, Assigned
<1>4. Assigned' = Assigned
  <2>1. \A d \in Candidates : outbox'[d] # "none" <=> outbox[d] # "none"
    BY <1>3
  <2>2. QED BY <2>1 DEF Assigned
<1>5. flush'.rows \subseteq flush.rows /\ flush'.done = flush.done
  BY <1>1 DEF CountInv
<1>6. \A d \in Candidates : /\ outbox'[d] = "done" => d \in applied'
                            /\ outbox'[d] = "none" => d \notin applied'
  BY <1>2, <1>3 DEF CountInv
<1>7. applied' \subseteq Candidates /\ applied \subseteq applied'
  BY <1>2 DEF CountInv
<1>8. flush'.rows \cup flush'.done \subseteq Assigned' /\ flush'.done \subseteq applied'
  BY <1>4, <1>5, <1>7 DEF CountInv
<1>9. QED BY <1>2, <1>3, <1>4, <1>6, <1>7, <1>8 DEF CountInv

LEMMA MarkDoneKept ==
  ASSUME CountInv, MarkDone
  PROVE  CountInv' /\ Assigned' = Assigned
<1>1. UNCHANGED <<applied, exposure>> /\ flush' = NoJob
  BY DEF MarkDone
<1>2. CASE UNCHANGED outbox
  BY <1>1, <1>2, CountingRests
<1>3. CASE outbox' = [c \in Candidates |-> IF c \in flush.done THEN "done" ELSE outbox[c]]
  <2>1. \A c \in Candidates :
          outbox'[c] = IF c \in flush.done THEN "done" ELSE outbox[c]
    BY <1>3
  <2>2. outbox' \in [Candidates -> {"none", "waiting", "retry", "done"}]
    BY <1>3 DEF CountInv
  <2>3. Assigned' = Assigned
    <3>1. \A c \in Candidates : outbox'[c] # "none" <=> outbox[c] # "none"
      BY <2>1 DEF CountInv, Assigned
    <3>2. QED BY <3>1 DEF Assigned
  <2>4. \A c \in Candidates : /\ outbox'[c] = "done" => c \in applied
                              /\ outbox'[c] = "none" => c \notin applied
    BY <2>1 DEF CountInv
  <2>5. flush'.rows = {} /\ flush'.done = {}
    BY <1>1 DEF NoJob
  <2>6. QED BY <1>1, <2>2, <2>3, <2>4, <2>5 DEF CountInv
<1>4. QED BY <1>2, <1>3 DEF MarkDone

-----------------------------------------------------------------------------
(***************************************************************************)
(* The theorems                                                            *)
(***************************************************************************)
LEMMA ReadingKept ==
  ASSUME ListInv, NEW h \in Readers, Reading(h)
  PROVE  ListInv'
<1>1. DayInv /\ CountInv /\ UNCHANGED <<eligible, hour>> /\ UNCHANGED counterVars
  BY DEF ListInv, Reading
<1>2. DayInv'
  <2>1. CASE \/ Recommendations(h) \/ LoadCached(h) \/ LoadDay(h) \/ CacheDay(h)
             \/ LockGeneration(h) \/ Poll(h) \/ SelectInitial(h) \/ LoadExisting(h)
             \/ RepairInvalid(h) \/ Reload(h) \/ LockRotation(h) \/ Rotate(h)
    <3>1. CASE ~UNCHANGED outbox
      BY <1>1, <2>1, <3>1, InsertDayKept, UpdateRepairedKept, UpdateRotatedKept,
         ReaderFailsKept DEF Reading
    <3>2. CASE UNCHANGED outbox
      BY <1>1, <2>1, <3>2, RecommendationsKept, LoadCachedKept, LoadDayKept,
         CacheDayKept, LockGenerationKept, PollKept, SelectInitialKept,
         LoadExistingKept, RepairInvalidKept, ReloadKept, LockRotationKept, RotateKept
    <3>3. QED BY <3>1, <3>2
  <2>2. CASE InsertDay(h) \/ UpdateRepaired(h) \/ UpdateRotated(h) \/ ReaderFails(h)
    BY <1>1, <2>2, InsertDayKept, UpdateRepairedKept, UpdateRotatedKept, ReaderFailsKept
  <2>3. QED BY <2>1, <2>2 DEF Reading
<1>3. outbox' = outbox \/ outbox' = Enqueued(outbox, reader[h].new)
  BY DEF Reading, InsertDay, UpdateRepaired, UpdateRotated, ReaderFails, UpdateDay
<1>4. CountInv'
  BY <1>1, <1>3, EnqueuedKept
<1>5. QED BY <1>2, <1>4 DEF ListInv

LEMMA ListNextInv == ListInv /\ [ListNext]_listVars => ListInv'
<1> SUFFICES ASSUME ListInv, [ListNext]_listVars PROVE ListInv'
  OBVIOUS
<1>1. DayInv /\ CountInv /\ eligible \subseteq Candidates /\ hour \in Nat
  BY DEF ListInv, DayInv
<1>2. CASE \E h \in Readers : Reading(h)
  BY <1>2, ReadingKept
<1>3. CASE Counting
  <2>1. CountInv' /\ Assigned' = Assigned
    BY <1>1, <1>3, TakeRowsKept, MarkDoneKept, ApplyRowKept, ApplyFailsKept DEF Counting
  <2>2. DayInv'
    BY <1>1, <1>3, <2>1, RestKept DEF Counting
  <2>3. QED BY <2>1, <2>2 DEF ListInv
<1>4. ASSUME NEW c \in Candidates, EligibilityTurns(c) PROVE ListInv'
  <2>1. /\ UNCHANGED <<dayRow, dayCache, reader, outbox, applied, exposure, flush, hour>>
        /\ eligible' \subseteq Candidates
    BY <1>1, <1>4 DEF EligibilityTurns, counterVars
  <2>2. QED BY <1>1, <2>1, CountingRests, RestKept DEF ListInv
<1>5. CASE LockExpires /\ UNCHANGED <<eligible, outbox, counterVars, hour>>
  <2>1. UNCHANGED <<dayRow, dayCache, reader, outbox, applied, exposure, flush, hour, eligible>>
    BY <1>5 DEF LockExpires, counterVars
  <2>2. QED BY <1>1, <2>1, CountingRests, RestKept DEF ListInv
<1>6. CASE ServerCrash
  <2>1. /\ UNCHANGED <<dayRow, dayCache, outbox, applied, exposure, hour, eligible>>
        /\ reader' = [h \in Readers |-> Resting] /\ flush' = NoJob
    BY <1>6 DEF ServerCrash
  <2>2. QED BY <1>1, <2>1, CountingRests, RestKept DEF ListInv
<1>7. CASE HourPasses
  <2>1. /\ UNCHANGED <<dayRow, dayCache, reader, outbox, applied, exposure, flush, eligible>>
        /\ hour' \in Nat
    BY <1>1, <1>7 DEF HourPasses, counterVars
  <2>2. QED BY <1>1, <2>1, CountingRests, RestKept DEF ListInv
<1>8. CASE UNCHANGED listVars
  <2>1. UNCHANGED <<dayRow, dayCache, reader, outbox, applied, exposure, flush, eligible, hour>>
    BY <1>8 DEF listVars, counterVars
  <2>2. QED BY <1>1, <2>1, CountingRests, RestKept DEF ListInv
<1>9. QED BY <1>2, <1>3, <1>4, <1>5, <1>6, <1>7, <1>8 DEF ListNext

LEMMA ListInitInv == ListInit => ListInv
<1> SUFFICES ASSUME ListInit PROVE ListInv
  OBVIOUS
<1>1. /\ dayRow = NoDay /\ dayCache = NoDay /\ eligible = Candidates /\ hour = 1
      /\ reader = [h \in Readers |-> Resting]
      /\ outbox = [c \in Candidates |-> "none"]
      /\ applied = {} /\ exposure = [c \in Candidates |-> 0] /\ flush = NoJob
  BY DEF ListInit
<1>2. Assigned = {} /\ Assigned = dayRow.all
  BY <1>1, NoDayIs DEF Assigned
<1>3. RowOK /\ CacheOK /\ ReadersOK
  BY <1>1, NoDayIs, RestingIs DEF RowOK, CacheOK, ReadersOK
<1>4. DayInv
  BY <1>1, <1>2, <1>3 DEF DayInv
<1>5. CountInv
  BY <1>1 DEF CountInv, NoJob
<1>6. QED BY <1>4, <1>5 DEF ListInv

LEMMA ListInvHolds == ListSpec => []ListInv
BY ListInitInv, ListNextInv, PTL DEF ListSpec

\* However many requests make, repair and rotate the list, and whatever fails:
\* no more users than the limit are assigned in a day, and each of them is in
\* the outbox (partnerlist/db.go:177-244).
THEOREM DayWithinLimit == ListSpec => []AssignedWithinLimit
<1>1. ListInv => AssignedWithinLimit
  BY DEF ListInv, DayInv, RowOK, Fits, Assigned, AssignedWithinLimit
<1>2. QED BY <1>1, ListInvHolds, PTL

\* However often the job runs, dies and tries again, an assignment is counted
\* once, and one that is marked was counted (partnerlist/service.go:785-831).
THEOREM CountedExactlyOnce == ListSpec => []AssignmentCountedOnce
<1>1. ListInv => AssignmentCountedOnce
  BY DEF ListInv, CountInv, AssignmentCountedOnce
<1>2. QED BY <1>1, ListInvHolds, PTL

-----------------------------------------------------------------------------
(***************************************************************************)
(* The pool of candidates: types                                           *)
(***************************************************************************)
Task == [uid : People, at : Nat]
PoolRow == [uid : People, ok : BOOLEAN, at : Nat]
ProfileRecord == [ok : BOOLEAN, changed : Nat, active : Nat]
SyncRecord ==
  [pc : {"free", "touch", "versions", "building", "profile", "remove", "add"},
   from : {"none", "queue", "write", "spill", "enable"},
   uid : People \cup {"none"}, at : Nat, versions : SUBSET Versions,
   ok : BOOLEAN, unwritten : BOOLEAN, rest : Seq(Task)]
FoldRecord ==
  [pc : {"none", "building", "read", "apply"}, versions : SUBSET Versions,
   rows : SUBSET PoolRow, last : Nat]
BuildRecord ==
  [pc : {"none", "scan", "fill", "replay", "catchUp"}, from : Nat,
   rows : SUBSET (People \cup PoolRow)]

ActivityTypes ==
  /\ profile \in [People -> ProfileRecord] /\ second \in Nat
  /\ writes \in Seq(Task) /\ spill \in Seq(Task)
  /\ sync \in [Syncs -> SyncRecord]
  /\ \A t \in Syncs : ~SyncAt(t, "free") => sync[t].uid \in People

VersionTypes ==
  /\ pool \in [Versions -> SUBSET People]
  /\ current \in Versions /\ building \in Versions \cup {0}
  /\ build \in BuildRecord
  /\ IF build.pc = "none" THEN build = NoBuild ELSE building # 0
  /\ build.pc = "fill" => build.rows \subseteq People
  /\ build.pc = "catchUp" => build.rows \subseteq PoolRow
  /\ dirty \in Seq(People)
  /\ cursor \in [at : Nat, whole : BOOLEAN] /\ fold \in FoldRecord
  /\ unfolded \in [People -> {"no", "changed", "begun"}]
  /\ made \in [tasks : 0..MaxTasks, mishaps : Nat]

-----------------------------------------------------------------------------
(***************************************************************************)
(* Queues                                                                  *)
(***************************************************************************)
LEMMA TasksOfOne == ASSUME NEW x PROVE UsersOf(<<x>>) = {x.uid}
  BY DEF UsersOf

LEMMA TasksJoined ==
  ASSUME NEW S, NEW s \in Seq(S), NEW r \in Seq(S)
  PROVE  UsersOf(s \o r) = UsersOf(s) \cup UsersOf(r)
<1> /\ Len(s) \in Nat /\ Len(r) \in Nat /\ Len(s \o r) = Len(s) + Len(r)
  OBVIOUS
<1>1. \A i \in 1..Len(s) : (s \o r)[i] = s[i] /\ i \in 1..Len(s \o r)
  OBVIOUS
<1>2. \A i \in 1..Len(r) : (s \o r)[Len(s) + i] = r[i] /\ Len(s) + i \in 1..Len(s \o r)
  OBVIOUS
<1>3. \A i \in 1..Len(s \o r) :
         i \in 1..Len(s) \/ \E j \in 1..Len(r) : i = Len(s) + j
  <2> SUFFICES ASSUME NEW i \in 1..Len(s \o r), i \notin 1..Len(s)
               PROVE  \E j \in 1..Len(r) : i = Len(s) + j
    OBVIOUS
  <2> i - Len(s) \in 1..Len(r) /\ i = Len(s) + (i - Len(s))
    OBVIOUS
  <2> QED OBVIOUS
<1>4. UsersOf(s \o r) \subseteq UsersOf(s) \cup UsersOf(r)
  <2> SUFFICES ASSUME NEW i \in 1..Len(s \o r)
               PROVE  (s \o r)[i].uid \in UsersOf(s) \cup UsersOf(r)
    BY DEF UsersOf
  <2>1. CASE i \in 1..Len(s)  BY <2>1, <1>1 DEF UsersOf
  <2>2. CASE \E j \in 1..Len(r) : i = Len(s) + j  BY <2>2, <1>2 DEF UsersOf
  <2> QED BY <2>1, <2>2, <1>3
<1>5. UsersOf(s) \subseteq UsersOf(s \o r)
  <2> SUFFICES ASSUME NEW i \in 1..Len(s) PROVE s[i].uid \in UsersOf(s \o r)
    BY DEF UsersOf
  <2> QED BY <1>1 DEF UsersOf
<1>6. UsersOf(r) \subseteq UsersOf(s \o r)
  <2> SUFFICES ASSUME NEW i \in 1..Len(r) PROVE r[i].uid \in UsersOf(s \o r)
    BY DEF UsersOf
  <2> QED BY <1>2 DEF UsersOf
<1> QED BY <1>4, <1>5, <1>6

LEMMA TasksTaken ==
  ASSUME NEW S, NEW s \in Seq(S), s # <<>>
  PROVE  /\ Head(s) \in S /\ Tail(s) \in Seq(S)
         /\ UsersOf(s) = {Head(s).uid} \cup UsersOf(Tail(s))
<1> /\ Head(s) \in S /\ Tail(s) \in Seq(S) /\ s = <<Head(s)>> \o Tail(s)
    /\ <<Head(s)>> \in Seq(S)
  OBVIOUS
<1>1. UsersOf(s) = UsersOf(<<Head(s)>>) \cup UsersOf(Tail(s))
  BY TasksJoined
<1> QED BY <1>1, TasksOfOne

LEMMA TasksCut ==
  ASSUME NEW S, NEW s \in Seq(S), NEW k \in 0..Len(s)
  PROVE  /\ SubSeq(s, 1, k) \in Seq(S) /\ SubSeq(s, k + 1, Len(s)) \in Seq(S)
         /\ UsersOf(s) = UsersOf(SubSeq(s, 1, k))
                           \cup UsersOf(SubSeq(s, k + 1, Len(s)))
<1> DEFINE a == SubSeq(s, 1, k)
           b == SubSeq(s, k + 1, Len(s))
<1> Len(s) \in Nat
  OBVIOUS
<1>1. a \in Seq(S) /\ b \in Seq(S)
  OBVIOUS
<1>2. 1 \in 1..Len(s) + 1 /\ k \in (1 - 1)..Len(s) /\ Len(s) \in k..Len(s)
  OBVIOUS
<1>3. a \o b = SubSeq(s, 1, Len(s))
  BY <1>2, ConcatAdjacentSubSeq
<1>4. s = a \o b
  BY <1>3, SubSeqFull
<1> QED BY <1>1, <1>4, TasksJoined

Named(u, q) == \E i \in 1..Len(q) : q[i] = u

LEMMA UsersQueued ==
  ASSUME NEW u, NEW x \in People, NEW q \in Seq(People)
  PROVE  /\ Append(q, x) \in Seq(People) /\ <<x>> \o q \in Seq(People)
         /\ Named(u, Append(q, x)) <=> Named(u, q) \/ u = x
         /\ Named(u, <<x>> \o q) <=> Named(u, q) \/ u = x
         /\ q # <<>> => /\ Head(q) \in People /\ Tail(q) \in Seq(People)
                        /\ Named(u, q) <=> u = Head(q) \/ Named(u, Tail(q))
<1>1. Named(u, Append(q, x)) <=> Named(u, q) \/ u = x
  BY DEF Named
<1>2. Named(u, <<x>> \o q) <=> Named(u, q) \/ u = x
  <2>1. /\ (<<x>> \o q)[1] = x /\ Len(<<x>> \o q) = Len(q) + 1
        /\ \A i \in 1..Len(q) : (<<x>> \o q)[i + 1] = q[i]
    OBVIOUS
  <2>2. \A i \in 1..Len(<<x>> \o q) : i = 1 \/ i - 1 \in 1..Len(q)
    BY <2>1
  <2>3. \A i \in 1..Len(<<x>> \o q) :
           (<<x>> \o q)[i] = x \/ Named((<<x>> \o q)[i], q)
    BY <2>1, <2>2 DEF Named
  <2>4. \A i \in 1..Len(q) : i + 1 \in 1..Len(<<x>> \o q)
    BY <2>1
  <2> QED BY <2>1, <2>3, <2>4, 1 \in 1..Len(<<x>> \o q) DEF Named
<1>3. ASSUME q # <<>>
      PROVE  Named(u, q) <=> u = Head(q) \/ Named(u, Tail(q))
  BY <1>3 DEF Named
<1> QED BY <1>1, <1>2, <1>3

-----------------------------------------------------------------------------
(***************************************************************************)
(* Every step keeps the types                                              *)
(***************************************************************************)
PoolTypes == ActivityTypes /\ VersionTypes

\* What is spilled is kept, or its users have to wait for another change.
LEMMA SpillKeeps ==
  ASSUME spill \in Seq(Task), NEW tasks \in Seq(Task), SpillGets(tasks)
  PROVE  /\ spill' \in Seq(Task) /\ skewed \subseteq skewed'
         /\ UsersOf(spill) \cup UsersOf(tasks) \subseteq UsersOf(spill') \cup skewed'
<1> DEFINE all == spill \o tasks
           over == Greater(0, Len(all) - SpillMax)
<1>1. all \in Seq(Task) /\ UsersOf(all) = UsersOf(spill) \cup UsersOf(tasks)
  BY TasksJoined
<1>2. over \in 0..Len(all)
  BY <1>1, PartnerPoolAssumption DEF Greater
<1>3. /\ spill' = SubSeq(all, over + 1, Len(all))
      /\ skewed' = skewed \cup UsersOf(SubSeq(all, 1, over))
  BY DEF SpillGets
<1> HIDE DEF all, over
<1> QED BY <1>1, <1>2, <1>3, TasksCut

LEMMA RemainingTyped ==
  ASSUME NEW s \in SyncRecord, s.uid \in People
  PROVE  /\ Remaining(s) \in Seq(Task)
         /\ UsersOf(Remaining(s)) = {s.uid} \cup UsersOf(s.rest)
<1> DEFINE one == [uid |-> s.uid, at |-> s.at]
<1>1. one \in Task /\ s.rest \in Seq(Task)
  BY DEF Task, SyncRecord
<1>2. <<one>> \in Seq(Task) /\ UsersOf(<<one>>) = {s.uid}
  BY <1>1, TasksOfOne
<1>3. Remaining(s) = <<one>> \o s.rest
  BY DEF Remaining
<1> HIDE DEF one
<1>4. <<one>> \o s.rest \in Seq(Task)
  BY <1>1, <1>2
<1>5. UsersOf(<<one>> \o s.rest) = {s.uid} \cup UsersOf(s.rest)
  <2>1. <<one>> \in Seq(Task) /\ s.rest \in Seq(Task)
    BY <1>1, <1>2
  <2>2. UsersOf(<<one>> \o s.rest) = UsersOf(<<one>>) \cup UsersOf(s.rest)
    BY <2>1, TasksJoined
  <2> QED BY <2>2, <1>2
<1> QED BY <1>3, <1>4, <1>5

LEMMA FreeTyped == Free \in SyncRecord /\ Free.pc = "free"
  BY DEF Free, SyncRecord

\* A goroutine that begins.
LEMMA BeginTyped ==
  ASSUME ActivityTypes, NEW t \in Syncs, NEW u \in People,
         NEW from \in {"queue", "write", "spill", "enable"}, NEW at \in Nat,
         NEW pc \in {"touch", "versions"}, NEW rest \in Seq(Task),
         SyncBegins(t, u, from, at, pc, rest)
  PROVE  /\ sync' \in [Syncs -> SyncRecord]
         /\ \A r \in Syncs : sync'[r].pc # "free" => sync'[r].uid \in People
<1> DEFINE s == [Free EXCEPT !.pc = pc, !.from = from, !.uid = u, !.at = at,
                              !.rest = rest]
<1>1. s \in SyncRecord /\ s.uid = u
  BY DEF Free, SyncRecord
<1>2. sync' = [sync EXCEPT ![t] = s]
  BY DEF SyncBegins, SyncGoes
<1> HIDE DEF s
<1> QED BY <1>1, <1>2 DEF ActivityTypes, SyncAt

\* A goroutine that goes on with its user, or has no user any more.
LEMMA GoesTyped ==
  ASSUME ActivityTypes, NEW t \in Syncs, NEW s \in SyncRecord, SyncGoes(t, s),
         s.pc = "free" \/ s.uid \in People
  PROVE  /\ sync' \in [Syncs -> SyncRecord]
         /\ \A r \in Syncs : sync'[r].pc # "free" => sync'[r].uid \in People
  BY DEF ActivityTypes, SyncGoes, SyncAt

\* A goroutine that is done with its user.
LEMMA EndsTyped ==
  ASSUME ActivityTypes, NEW t \in Syncs, ~SyncAt(t, "free"), Ends(t)
  PROVE  /\ sync' \in [Syncs -> SyncRecord]
         /\ \A r \in Syncs : sync'[r].pc # "free" => sync'[r].uid \in People
         /\ spill' \in Seq(Task) /\ skewed \subseteq skewed'
<1> USE DEF ActivityTypes
<1>0. /\ sync[t] \in SyncRecord /\ sync[t].uid \in People
      /\ sync[t].rest \in Seq(Task)
  BY DEF SyncRecord
<1>1. CASE sync[t].unwritten
  <2>1. SyncGoes(t, Free) /\ SpillGets(Remaining(sync[t]))
    BY <1>1 DEF Ends
  <2> QED BY <2>1, <1>0, RemainingTyped, SpillKeeps, GoesTyped, FreeTyped
<1>2. CASE ~sync[t].unwritten /\ sync[t].rest = <<>>
  <2>1. SyncGoes(t, Free) /\ UNCHANGED <<spill, skewed>>
    BY <1>2 DEF Ends
  <2> QED BY <2>1, GoesTyped, FreeTyped
<1>3. CASE ~sync[t].unwritten /\ sync[t].rest # <<>>
  <2> DEFINE rest == sync[t].rest
             s == [Free EXCEPT !.pc = "touch", !.from = "spill",
                      !.uid = Head(rest).uid, !.at = Head(rest).at,
                      !.rest = Tail(rest)]
  <2>1. SyncGoes(t, s) /\ UNCHANGED <<spill, skewed>>
    BY <1>3 DEF Ends
  <2>2. Head(rest) \in Task /\ Tail(rest) \in Seq(Task)
    BY <1>0, <1>3, TasksTaken
  <2>3. s \in SyncRecord /\ s.uid \in People
    BY <2>2 DEF Free, SyncRecord, Task
  <2> HIDE DEF s
  <2> QED BY <2>1, <2>3, GoesTyped
<1> QED BY <1>1, <1>2, <1>3

LEMMA ProfileTyped ==
  ASSUME ActivityTypes, NEW u \in People
  PROVE  profile[u] \in ProfileRecord /\ profile[u].changed \in Nat
         /\ profile[u].active \in Nat /\ profile[u].ok \in BOOLEAN
  BY DEF ActivityTypes, ProfileRecord

\* What a step may do to the last activities.
Forward ==
  \A u \in People : profile'[u].active >= profile[u].active

LEMMA EditTyped ==
  ASSUME PoolTypes, NEW u \in People, EditProfile(u)
  PROVE  /\ profile' \in [People -> ProfileRecord] /\ Forward
         /\ dirty' \in Seq(People) /\ pool' = pool
         /\ unfolded' \in [People -> {"no", "changed", "begun"}]
         /\ sync' \in [Syncs -> SyncRecord]
         /\ \A r \in Syncs : sync'[r].pc # "free" => sync'[r].uid \in People
         /\ UNCHANGED <<writes, spill>>
         /\ made' \in [tasks : 0..MaxTasks, mishaps : Nat]
<1> USE DEF PoolTypes
<1>1. PICK stamp \in Greater(0, second - ReplayWindow)..second :
         profile' = [profile EXCEPT ![u] =
                       [profile[u] EXCEPT !.ok = ~profile[u].ok, !.changed = stamp]]
  BY DEF EditProfile
<1>2. stamp \in Nat
  <2>1. second \in Nat /\ ReplayWindow \in Nat
    BY PartnerPoolAssumption DEF ActivityTypes
  <2> QED BY <2>1 DEF Greater
<1>3. profile' \in [People -> ProfileRecord] /\ Forward
  <2>1. \A p \in People : profile[p] \in ProfileRecord /\ profile[p].active \in Nat
    BY DEF ActivityTypes, ProfileRecord
  <2> DEFINE r == [profile[u] EXCEPT !.ok = ~profile[u].ok, !.changed = stamp]
  <2>2. r \in ProfileRecord /\ r.active = profile[u].active
    BY <1>2, <2>1 DEF ProfileRecord
  <2>3. profile' = [profile EXCEPT ![u] = r]
    BY <1>1
  <2> HIDE DEF r
  <2> QED BY <2>1, <2>2, <2>3 DEF ActivityTypes, Forward
<1>4. dirty' \in Seq(People)
  <2>1. dirty' = <<u>> \o dirty \/ dirty' = dirty
    BY DEF EditProfile
  <2>2. <<u>> \in Seq(People) /\ dirty \in Seq(People)
    BY DEF VersionTypes
  <2> QED BY <2>1, <2>2
<1> DEFINE SyncOK == /\ sync' \in [Syncs -> SyncRecord]
                     /\ \A r \in Syncs : sync'[r].pc # "free" => sync'[r].uid \in People
<1>5. SyncOK
  <2>1. CASE UNCHANGED sync  BY <2>1 DEF ActivityTypes, SyncAt
  <2>2. ASSUME NEW t \in Syncs, SyncBegins(t, u, "enable", 0, "versions", <<>>)
        PROVE  SyncOK
    BY <2>2, BeginTyped, <<>> \in Seq(Task)
  <2> QED BY <2>1, <2>2 DEF EditProfile
<1>6. made' \in [tasks : 0..MaxTasks, mishaps : Nat]
  BY PartnerPoolAssumption DEF EditProfile, MayAct, Act, VersionTypes
<1>7. unfolded' \in [People -> {"no", "changed", "begun"}]
  BY DEF EditProfile, VersionTypes
<1> QED BY <1>3, <1>4, <1>5, <1>6, <1>7 DEF EditProfile, beatVars

LEMMA TouchTyped ==
  ASSUME PoolTypes, NEW t \in Syncs, TouchActive(t)
  PROVE  /\ profile' \in [People -> ProfileRecord] /\ Forward
         /\ sync' \in [Syncs -> SyncRecord]
         /\ \A r \in Syncs : sync'[r].pc # "free" => sync'[r].uid \in People
         /\ made' \in [tasks : 0..MaxTasks, mishaps : Nat]
<1> USE DEF PoolTypes
<1> DEFINE u == sync[t].uid
<1>1. u \in People /\ sync[t] \in SyncRecord /\ sync[t].at \in Nat
  BY DEF ActivityTypes, SyncRecord, TouchActive, SyncAt
<1>2. /\ Touched(u, sync[t].at) \in ProfileRecord
      /\ Touched(u, sync[t].at).active >= profile[u].active
  <2>1. profile[u] \in ProfileRecord /\ profile[u].active \in Nat /\ second \in Nat
    BY <1>1, ProfileTyped DEF ActivityTypes
  <2> DEFINE r == [profile[u] EXCEPT !.active = sync[t].at, !.changed = second]
  <2>2. r \in ProfileRecord /\ r.active = sync[t].at
    BY <1>1, <2>1 DEF ProfileRecord
  <2>3. Touched(u, sync[t].at) = IF sync[t].at > profile[u].active THEN r ELSE profile[u]
    BY DEF Touched
  <2> HIDE DEF r
  <2> QED BY <1>1, <2>1, <2>2, <2>3
<1>3. profile' \in [People -> ProfileRecord] /\ Forward
  <2>1. profile' = [profile EXCEPT ![u] = Touched(u, sync[t].at)] \/ profile' = profile
    BY DEF TouchActive
  <2>2. \A p \in People : profile[p].active \in Nat
    BY ProfileTyped
  <2> QED BY <1>1, <1>2, <2>1, <2>2 DEF ActivityTypes, Forward
<1>4. /\ sync' \in [Syncs -> SyncRecord]
      /\ \A r \in Syncs : sync'[r].pc # "free" => sync'[r].uid \in People
  <2>1. PICK s \in {[sync[t] EXCEPT !.pc = "versions"],
                    [sync[t] EXCEPT !.pc = "versions", !.unwritten = TRUE]} :
           SyncGoes(t, s)
    BY DEF TouchActive
  <2>2. s \in SyncRecord /\ s.uid \in People
    BY <1>1 DEF SyncRecord
  <2> QED BY <2>1, <2>2, GoesTyped
<1>5. made' \in [tasks : 0..MaxTasks, mishaps : Nat]
  BY DEF TouchActive, MayMiss, Mishap, VersionTypes
<1> QED BY <1>3, <1>4, <1>5

LEMMA WithTyped ==
  ASSUME VersionTypes, NEW u \in People, NEW V
  PROVE  /\ With(u, V) \in [Versions -> SUBSET People]
         /\ Without(u, V) \in [Versions -> SUBSET People]
  BY DEF VersionTypes, With, Without

LEMMA FailTyped ==
  ASSUME PoolTypes, NEW t \in Syncs, SyncFails(t)
  PROVE  /\ pool' \in [Versions -> SUBSET People]
         /\ sync' \in [Syncs -> SyncRecord]
         /\ \A r \in Syncs : sync'[r].pc # "free" => sync'[r].uid \in People
         /\ dirty' \in Seq(People) /\ spill' \in Seq(Task)
         /\ skewed \subseteq skewed'
         /\ made' \in [tasks : 0..MaxTasks, mishaps : Nat]
         /\ UNCHANGED <<profile, writes, unfolded>>
<1> USE DEF PoolTypes
<1>1. sync[t] \in SyncRecord /\ sync[t].uid \in People
  BY DEF ActivityTypes, SyncFails
<1>2. pool' \in [Versions -> SUBSET People]
  BY <1>1, WithTyped DEF SyncFails, VersionTypes
<1>3. /\ sync' \in [Syncs -> SyncRecord]
      /\ \A r \in Syncs : sync'[r].pc # "free" => sync'[r].uid \in People
  BY GoesTyped, FreeTyped DEF SyncFails
<1>4. dirty' \in Seq(People)
  <2>1. dirty' = Append(dirty, sync[t].uid) \/ dirty' = dirty
    BY DEF SyncFails
  <2>2. dirty \in Seq(People)
    BY DEF VersionTypes
  <2> QED BY <1>1, <2>1, <2>2
<1>5. spill' \in Seq(Task) /\ skewed \subseteq skewed'
  <2>1. CASE SpillGets(Remaining(sync[t]))
    BY <2>1, <1>1, RemainingTyped, SpillKeeps DEF ActivityTypes
  <2>2. CASE UNCHANGED spill /\ skewed \subseteq skewed'
    BY <2>2 DEF ActivityTypes
  <2> QED BY <2>1, <2>2 DEF SyncFails
<1>6. made' \in [tasks : 0..MaxTasks, mishaps : Nat]
  BY DEF SyncFails, MayMiss, Mishap, VersionTypes
<1> QED BY <1>2, <1>3, <1>4, <1>5, <1>6 DEF SyncFails

LEMMA SyncingTyped ==
  ASSUME PoolTypes, Syncing
  PROVE  PoolTypes' /\ Forward
<1> USE DEF PoolTypes
<1>0. \A u \in People : profile[u].active \in Nat
  BY ProfileTyped
<1> DEFINE SyncOK == /\ sync' \in [Syncs -> SyncRecord]
                     /\ \A r \in Syncs : sync'[r].pc # "free" => sync'[r].uid \in People
<1> USE DEF VersionTypes, ActivityTypes, SyncAt, beatVars, foldVars
<1>a. UNCHANGED <<current, building, build, cursor, fold, second>>
  BY DEF Syncing
<1>1. ASSUME NEW u \in People, EditProfile(u) PROVE PoolTypes' /\ Forward
  BY <1>1, <1>a, EditTyped
<1>2. ASSUME NEW u \in People, Heartbeat(u) PROVE PoolTypes' /\ Forward
  <2> DEFINE task == [uid |-> u, at |-> second]
  <2>1. task \in Task /\ <<task>> \in Seq(Task)
    BY DEF Task
  <2>2. writes' \in Seq(Task) /\ spill' \in Seq(Task)
    <3> HIDE DEF task
    <3>1. CASE writes' = Append(writes, task) /\ UNCHANGED spill
      BY <2>1, <3>1
    <3>2. CASE SpillGets(<<task>>) /\ UNCHANGED writes
      BY <2>1, <3>2, SpillKeeps
    <3> QED BY <1>2, <3>1, <3>2 DEF Heartbeat, task
  <2>3. made' \in [tasks : 0..MaxTasks, mishaps : Nat]
    <3>1. made.tasks < MaxTasks /\ made' = [made EXCEPT !.tasks = @ + 1]
      BY <1>2 DEF Heartbeat, MayAct, Act
    <3>2. made.tasks \in Nat /\ made.tasks <= MaxTasks /\ MaxTasks \in Nat
      BY PartnerPoolAssumption
    <3>3. made.tasks + 1 \in 0..MaxTasks
      BY <3>1, <3>2
    <3> QED BY <3>1, <3>3
  <2> QED BY <1>0, <1>2, <1>a, <2>2, <2>3 DEF Heartbeat, Forward
<1>3. ASSUME NEW u \in People, GuardEnds(u) PROVE PoolTypes' /\ Forward
  BY <1>0, <1>3, <1>a DEF GuardEnds, Forward
<1>4. ASSUME NEW t \in Syncs, ReadCurrent(t) PROVE PoolTypes' /\ Forward
  <2>1. SyncOK
    <3> DEFINE s == [sync[t] EXCEPT !.pc = "building", !.versions = {current}]
    <3>1. s \in SyncRecord /\ s.uid \in People /\ SyncGoes(t, s)
      <4>1. sync[t] \in SyncRecord /\ sync[t].uid \in People /\ {current} \subseteq Versions
        BY <1>4 DEF ReadCurrent
      <4>2. s \in SyncRecord /\ s.uid = sync[t].uid
        BY <4>1 DEF SyncRecord
      <4> QED BY <1>4, <4>1, <4>2 DEF ReadCurrent
    <3> QED BY <3>1, GoesTyped
  <2> QED BY <1>0, <1>4, <1>a, <2>1 DEF ReadCurrent, Forward
<1>5. ASSUME NEW t \in Syncs, ReadBuilding(t) PROVE PoolTypes' /\ Forward
  <2>1. SyncOK
    <3> DEFINE s == [sync[t] EXCEPT !.pc = "profile",
                       !.versions = (sync[t].versions \cup {building}) \ {0}]
    <3>1. s \in SyncRecord /\ s.uid \in People /\ SyncGoes(t, s)
      <4>1. sync[t] \in SyncRecord /\ sync[t].uid \in People
            /\ (sync[t].versions \cup {building}) \ {0} \subseteq Versions
        BY <1>5 DEF ReadBuilding, SyncRecord
      <4>2. s \in SyncRecord /\ s.uid = sync[t].uid
        BY <4>1 DEF SyncRecord
      <4> QED BY <1>5, <4>1, <4>2 DEF ReadBuilding
    <3> QED BY <3>1, GoesTyped
  <2> QED BY <1>0, <1>5, <1>a, <2>1 DEF ReadBuilding, Forward
<1>6. ASSUME NEW t \in Syncs, PoolProfile(t) PROVE PoolTypes' /\ Forward
  <2>1. SyncOK
    <3> DEFINE s == [sync[t] EXCEPT !.pc = "remove", !.ok = profile[sync[t].uid].ok]
    <3>1. s \in SyncRecord /\ s.uid \in People /\ SyncGoes(t, s)
      <4>1. sync[t] \in SyncRecord /\ sync[t].uid \in People
            /\ profile[sync[t].uid].ok \in BOOLEAN
        BY <1>6, ProfileTyped DEF PoolProfile
      <4>2. s \in SyncRecord /\ s.uid = sync[t].uid
        BY <4>1 DEF SyncRecord
      <4> QED BY <1>6, <4>1, <4>2 DEF PoolProfile
    <3> QED BY <3>1, GoesTyped
  <2> QED BY <1>0, <1>6, <1>a, <2>1 DEF PoolProfile, Forward
<1>7. ASSUME NEW t \in Syncs, RemoveUser(t) PROVE PoolTypes' /\ Forward
  <2>1. SyncOK /\ spill' \in Seq(Task)
    <3>1. CASE ~sync[t].ok
      BY <1>7, <3>1, EndsTyped DEF RemoveUser
    <3>2. CASE sync[t].ok
      <4> DEFINE s == [sync[t] EXCEPT !.pc = "add"]
      <4>1. s \in SyncRecord /\ s.uid \in People /\ SyncGoes(t, s)
        BY <1>7, <3>2 DEF RemoveUser, SyncRecord
      <4> QED BY <1>7, <3>2, <4>1, GoesTyped DEF RemoveUser
    <3> QED BY <3>1, <3>2
  <2>2. pool' \in [Versions -> SUBSET People]
    BY <1>7, WithTyped DEF RemoveUser
  <2> QED BY <1>0, <1>7, <1>a, <2>1, <2>2 DEF RemoveUser, Forward
<1>8. ASSUME NEW t \in Syncs, AddProfileToVersion(t) PROVE PoolTypes' /\ Forward
  <2>1. SyncOK /\ spill' \in Seq(Task)
    BY <1>8, EndsTyped DEF AddProfileToVersion
  <2>2. pool' \in [Versions -> SUBSET People]
    BY <1>8, WithTyped DEF AddProfileToVersion
  <2> QED BY <1>0, <1>8, <1>a, <2>1, <2>2 DEF AddProfileToVersion, Forward
<1>9. ASSUME NEW t \in Syncs, SyncFails(t) PROVE PoolTypes' /\ Forward
  BY <1>0, <1>9, <1>a, FailTyped DEF Forward
<1>10. ASSUME NEW t \in Syncs, PopDirty(t) PROVE PoolTypes' /\ Forward
  <2>1. Head(dirty) \in People /\ dirty' \in Seq(People)
    BY <1>10 DEF PopDirty
  <2>2. SyncOK
    BY <1>10, <2>1, BeginTyped, <<>> \in Seq(Task) DEF PopDirty
  <2> QED BY <1>0, <1>10, <1>a, <2>1, <2>2 DEF PopDirty, Forward
<1>11. ASSUME NEW t \in Syncs, TakeWrite(t) PROVE PoolTypes' /\ Forward
  <2>1. Head(writes) \in Task /\ writes' \in Seq(Task)
    BY <1>11 DEF TakeWrite
  <2>2. Head(writes).uid \in People /\ Head(writes).at \in Nat
    BY <2>1 DEF Task
  <2>3. SyncOK
    BY <1>11, <2>2, BeginTyped, <<>> \in Seq(Task) DEF TakeWrite
  <2> QED BY <1>0, <1>11, <1>a, <2>1, <2>3 DEF TakeWrite, Forward
<1>12. ASSUME NEW t \in Syncs, DrainSpill(t) PROVE PoolTypes' /\ Forward
  <2>1. Head(spill) \in Task /\ Tail(spill) \in Seq(Task)
    BY <1>12 DEF DrainSpill
  <2>2. Head(spill).uid \in People /\ Head(spill).at \in Nat
    BY <2>1 DEF Task
  <2>3. SyncOK
    BY <1>12, <2>1, <2>2, BeginTyped DEF DrainSpill
  <2> QED BY <1>0, <1>12, <1>a, <2>1, <2>3 DEF DrainSpill, Forward
<1>13. ASSUME NEW t \in Syncs, TouchActive(t) PROVE PoolTypes' /\ Forward
  BY <1>13, <1>a, TouchTyped DEF TouchActive
<1> QED
  BY <1>1, <1>2, <1>3, <1>4, <1>5, <1>6, <1>7, <1>8, <1>9, <1>10, <1>11, <1>12,
     <1>13 DEF Syncing

LEMMA RowsTyped ==
  ASSUME PoolTypes, NEW after
  PROVE  /\ Rows(after) \subseteq PoolRow
         /\ \A row \in Rows(after) :
              /\ row.ok = profile[row.uid].ok /\ row.at = profile[row.uid].changed
              /\ row.at >= after
         /\ \A u \in People :
              profile[u].changed >= after => \E row \in Rows(after) : row.uid = u
<1>1. \A u \in People :
         [uid |-> u, ok |-> profile[u].ok, at |-> profile[u].changed] \in PoolRow
  BY ProfileTyped DEF PoolTypes, PoolRow
<1>2. \A u \in People : profile[u].changed \in Nat
  BY ProfileTyped DEF PoolTypes
<1>3. Rows(after) \subseteq PoolRow
  BY <1>1 DEF Rows
<1>4. \A row \in Rows(after) :
        /\ row.ok = profile[row.uid].ok /\ row.at = profile[row.uid].changed
        /\ row.at >= after
  BY DEF Rows
<1>5. \A u \in People :
         profile[u].changed >= after => \E row \in Rows(after) : row.uid = u
  <2> SUFFICES ASSUME NEW u \in People, profile[u].changed >= after
               PROVE  \E row \in Rows(after) : row.uid = u
    OBVIOUS
  <2> DEFINE row == [uid |-> u, ok |-> profile[u].ok, at |-> profile[u].changed]
  <2>1. row \in Rows(after) /\ row.uid = u
    BY DEF Rows
  <2> QED BY <2>1
<1> QED BY <1>3, <1>4, <1>5

LEMMA TurnedTyped ==
  ASSUME VersionTypes, NEW from \in {"changed", "begun"}, NEW to \in {"no", "begun", "changed"}
  PROVE  Turned(from, to) \in [People -> {"no", "changed", "begun"}]
  BY DEF VersionTypes, Turned

LEMMA FoldingTyped ==
  ASSUME PoolTypes, Folding
  PROVE  PoolTypes' /\ Forward
<1> USE DEF PoolTypes, VersionTypes, beatVars
<1>0. ActivityTypes' /\ Forward
  BY ProfileTyped DEF Folding, ActivityTypes, Forward, SyncAt
<1>a. UNCHANGED <<current, building, build, dirty>>
  BY DEF Folding
<1>1. CASE FoldStart
  BY <1>0, <1>1, <1>a, TurnedTyped DEF FoldStart, NoFold, FoldRecord
<1>2. CASE FoldVersions
  <2> DEFINE V == (fold.versions \cup {building}) \ {0}
  <2>1. V \in SUBSET Versions
    BY DEF FoldRecord
  <2>2. fold' = [fold EXCEPT !.pc = "read", !.versions = V]
    BY <1>2 DEF FoldVersions
  <2> HIDE DEF V
  <2>3. fold' \in FoldRecord
    BY <2>1, <2>2 DEF FoldRecord
  <2> QED BY <1>0, <1>2, <1>a, <2>3 DEF FoldVersions
<1>3. CASE FoldRead
  <2>1. Rows(cursor.at) \in SUBSET PoolRow
    BY RowsTyped
  <2>2. fold' \in FoldRecord
    BY <1>3, <2>1 DEF FoldRead, FoldRecord
  <2> QED BY <1>0, <1>3, <1>a, <2>2 DEF FoldRead
<1>4. CASE FoldApply
  <2>1. PICK row \in fold.rows :
           /\ pool' = Applied(fold.versions, row)
           /\ fold' = [fold EXCEPT !.rows = @ \ {row}, !.last = row.at]
           /\ cursor' = [at |-> row.at, whole |-> FALSE]
    BY <1>4 DEF FoldApply
  <2>2. row \in PoolRow /\ row.at \in Nat /\ row.uid \in People
    BY DEF FoldRecord, PoolRow
  <2>3. fold' \in FoldRecord /\ cursor' \in [at : Nat, whole : BOOLEAN]
    BY <2>1, <2>2 DEF FoldRecord
  <2>4. pool' \in [Versions -> SUBSET People]
    BY <2>1, <2>2, WithTyped DEF Applied
  <2> QED BY <1>0, <1>4, <1>a, <2>3, <2>4 DEF FoldApply
<1>5. CASE FoldEnd
  <2>1. Overlapped(fold.last) \in Nat
    BY PartnerPoolAssumption DEF Overlapped, FoldRecord
  <2>2. cursor' \in [at : Nat, whole : BOOLEAN]
    BY <1>5, <2>1 DEF FoldEnd
  <2> QED BY <1>0, <1>5, <1>a, <2>2, TurnedTyped DEF FoldEnd, NoFold, FoldRecord
<1>6. CASE FoldFails
  <2>1. made' \in [tasks : 0..MaxTasks, mishaps : Nat]
    BY <1>6 DEF FoldFails, MayMiss, Mishap
  <2> QED BY <1>0, <1>6, <1>a, <2>1, TurnedTyped DEF FoldFails, NoFold, FoldRecord
<1> QED BY <1>1, <1>2, <1>3, <1>4, <1>5, <1>6 DEF Folding

LEMMA BuildingTyped ==
  ASSUME PoolTypes, Building
  PROVE  PoolTypes' /\ Forward
<1> USE DEF PoolTypes, VersionTypes, beatVars, foldVars
<1>0. ActivityTypes' /\ Forward
  BY ProfileTyped DEF Building, ActivityTypes, Forward, SyncAt
<1>a. UNCHANGED <<dirty, cursor, fold, unfolded>>
  BY DEF Building
<1>b. second \in Nat
  BY DEF ActivityTypes
<1>1. CASE BuildStart
  <2>1. made.tasks < MaxTasks /\ made' = [made EXCEPT !.tasks = @ + 1]
    BY <1>1 DEF BuildStart, MayAct, Act
  <2>2. /\ made' \in [tasks : 0..MaxTasks, mishaps : Nat]
        /\ made.tasks + 2 \in Versions
    <3>1. made.tasks \in Nat /\ MaxTasks \in Nat
      BY PartnerPoolAssumption
    <3> QED BY <2>1, <3>1 DEF Versions
  <2>3. build' \in BuildRecord
    BY <1>1, <1>b DEF BuildStart, NoBuild, BuildRecord
  <2> QED BY <1>0, <1>1, <1>a, <2>2, <2>3 DEF BuildStart
<1>2. CASE BuildScan
  <2>1. {u \in People : profile[u].ok} \in SUBSET (People \cup PoolRow)
    OBVIOUS
  <2>2. build' \in BuildRecord /\ build'.pc = "fill" /\ build'.rows \subseteq People
    BY <1>2, <2>1 DEF BuildScan, BuildRecord
  <2> QED BY <1>0, <1>2, <1>a, <2>2 DEF BuildScan
<1>3. CASE BuildFill
  <2>1. build' \in BuildRecord /\ build'.pc = "replay" /\ build.rows \subseteq People
    BY <1>3 DEF BuildFill, BuildRecord
  <2>2. pool' \in [Versions -> SUBSET People]
    BY <1>3, <2>1 DEF BuildFill
  <2> QED BY <1>0, <1>3, <1>a, <2>1, <2>2 DEF BuildFill
<1>4. CASE BuildReplay
  <2>1. Rows(build.from - ReplayWindow) \in SUBSET PoolRow
    BY RowsTyped
  <2>2. build' \in BuildRecord /\ build'.pc = "catchUp" /\ build'.rows \subseteq PoolRow
    BY <1>4, <2>1 DEF BuildReplay, Replay, BuildRecord
  <2> QED BY <1>0, <1>4, <1>a, <2>2 DEF BuildReplay
<1>5. CASE BuildCatchUp
  <2>1. PICK row \in build.rows :
           /\ pool' = Applied({building}, row)
           /\ build' = [build EXCEPT !.rows = @ \ {row}]
    BY <1>5 DEF BuildCatchUp
  <2>2. row \in PoolRow /\ row.uid \in People
    BY <1>5, <2>1 DEF BuildCatchUp, PoolRow
  <2>3. pool' \in [Versions -> SUBSET People]
    BY <2>1, <2>2, WithTyped DEF Applied
  <2>4. build' \in BuildRecord /\ build'.pc = "catchUp" /\ build'.rows \subseteq PoolRow
    BY <1>5, <2>1 DEF BuildCatchUp, BuildRecord
  <2> QED BY <1>0, <1>5, <1>a, <2>3, <2>4 DEF BuildCatchUp
<1>6. CASE BuildPublish /\ building # 0
  BY <1>0, <1>6, <1>a DEF BuildPublish, NoBuild, BuildRecord
<1>7. CASE BuildFails /\ building # 0
  <2>1. made' \in [tasks : 0..MaxTasks, mishaps : Nat]
    BY <1>7 DEF BuildFails, MayMiss, Mishap
  <2> QED BY <1>0, <1>7, <1>a, <2>1 DEF BuildFails, NoBuild, BuildRecord
<1>8. BuildPublish \/ BuildFails => building # 0
  BY DEF BuildPublish, BuildFails
<1> QED
  BY <1>1, <1>2, <1>3, <1>4, <1>5, <1>6, <1>7, <1>8
     DEF Building, BuildPublish, BuildFails

LEMMA CrashTyped ==
  ASSUME PoolTypes, ProcessCrash
  PROVE  PoolTypes' /\ Forward
<1> USE DEF PoolTypes
<1>1. made' \in [tasks : 0..MaxTasks, mishaps : Nat]
  BY DEF ProcessCrash, MayMiss, Mishap, VersionTypes
<1>2. ActivityTypes' /\ Forward
  BY FreeTyped, ProfileTyped DEF ProcessCrash, ActivityTypes, Forward, SyncAt
<1>3. NoBuild \in BuildRecord /\ NoBuild.pc = "none" /\ NoFold \in FoldRecord
  BY DEF NoBuild, BuildRecord, NoFold, FoldRecord
<1> QED BY <1>1, <1>2, <1>3, TurnedTyped DEF ProcessCrash, VersionTypes

LEMMA PoolTypesKept ==
  ASSUME PoolTypes, [PoolNext]_allPoolVars
  PROVE  PoolTypes' /\ (profile' = profile \/ Forward)
<1>1. CASE Syncing  BY <1>1, SyncingTyped
<1>2. CASE Folding  BY <1>2, FoldingTyped
<1>3. CASE Building  BY <1>3, BuildingTyped
<1>4. CASE ProcessCrash  BY <1>4, CrashTyped
<1>5. CASE SecondPasses
  BY <1>5 DEF SecondPasses, PoolTypes, ActivityTypes, VersionTypes, poolVars,
              foldVars, beatVars, SyncAt
<1>6. CASE UNCHANGED allPoolVars
  BY <1>6 DEF allPoolVars, PoolTypes, ActivityTypes, VersionTypes, poolVars,
              foldVars, beatVars, SyncAt
<1> QED BY <1>1, <1>2, <1>3, <1>4, <1>5, <1>6 DEF PoolNext

LEMMA PoolTypesBegin == PoolInit => PoolTypes
<1> SUFFICES ASSUME PoolInit PROVE PoolTypes
  OBVIOUS
<1>1. ActivityTypes
  BY FreeTyped DEF PoolInit, ActivityTypes, ProfileRecord, SyncAt
<1>2. 1 \in Versions
  BY PartnerPoolAssumption DEF Versions
<1>3. NoBuild \in BuildRecord /\ NoBuild.pc = "none" /\ NoFold \in FoldRecord
  BY DEF NoBuild, BuildRecord, NoFold, FoldRecord
<1>4. VersionTypes
  BY <1>2, <1>3, PartnerPoolAssumption DEF PoolInit, VersionTypes
<1> QED BY <1>1, <1>4 DEF PoolTypes

\* The last activity of a user never falls back, whatever is spilled, retried
\* and written late: touchActive keeps the greater of the two.
THEOREM ActivityStays == PoolSpec => ActivityNeverFalls
<1>1. PoolInit => PoolTypes
  BY PoolTypesBegin
<1>2. PoolTypes /\ [PoolNext]_allPoolVars => PoolTypes'
  BY PoolTypesKept
<1>3. PoolTypes /\ [PoolNext]_allPoolVars =>
        [\A u \in People : profile'[u].active >= profile[u].active]_allPoolVars
  <2> SUFFICES ASSUME PoolTypes, [PoolNext]_allPoolVars, NEW u \in People
               PROVE  profile'[u].active >= profile[u].active
    OBVIOUS
  <2>1. profile[u].active \in Nat
    BY ProfileTyped DEF PoolTypes
  <2> QED BY <2>1, PoolTypesKept DEF Forward
<1> QED BY <1>1, <1>2, <1>3, PTL DEF PoolSpec, ActivityNeverFalls

-----------------------------------------------------------------------------
(***************************************************************************)
(* The pool of candidates: who is wrong in a version is still waited for   *)
(***************************************************************************)
Live == {current, building} \ {0}

Agrees(v, u) == u \in pool[v] <=> profile[u].ok

\* A goroutine has still to bring u up to date in version v.
Serves(s, v, u) ==
  \/ u \in UsersOf(s.rest)
  \/ s.uid = u /\ s.pc \in {"touch", "versions", "building"}
  \/ s.uid = u /\ s.pc \in {"profile", "remove", "add"} /\ v \in s.versions

Served(v, u) ==
  \/ Named(u, dirty) \/ u \in UsersOf(spill)
  \/ \E t \in Syncs : Serves(sync[t], v, u)

\* The last change of u lies within what the pass after this one reads.
Beyond(u) ==
  /\ profile[u].changed >= Overlapped(fold.last)
  /\ \A row \in fold.rows : profile[u].changed >= Overlapped(row.at)
  /\ cursor.whole => profile[u].changed >= cursor.at

\* The fold has still to bring u up to date in version v.
Folds(v, u) ==
  /\ unfolded[u] # "no"
  /\ \/ fold.pc # "apply" /\ profile[u].changed >= cursor.at
     \/ fold.pc = "apply" /\ unfolded[u] = "changed" /\ Beyond(u)
     \/ /\ fold.pc = "apply" /\ v \in fold.versions
        /\ \E row \in fold.rows : /\ row.uid = u /\ row.ok = profile[u].ok
                                  /\ profile[u].changed >= row.at

Waits(v, u) == Served(v, u) \/ Folds(v, u)

\* The last change of u lies within what the build replays.
Recent(u) == profile[u].changed >= build.from - ReplayWindow

\* The version in the making, as far as it is.
BuildCovers(u) ==
  /\ build.pc \in {"scan", "fill"} =>
       (u \in pool[building] => profile[u].ok \/ Recent(u) \/ Waits(building, u))
  /\ build.pc = "fill" => (u \in build.rows <=> profile[u].ok) \/ Recent(u)
  /\ build.pc = "replay" => Agrees(building, u) \/ Recent(u) \/ Waits(building, u)
  /\ build.pc = "catchUp" =>
       /\ Agrees(building, u) \/ Waits(building, u) \/ \E row \in build.rows : row.uid = u
       /\ \A row \in build.rows : row.uid = u => row.ok = profile[u].ok

Covered ==
  \A u \in People \ skewed :
    (Agrees(current, u) \/ Waits(current, u)) /\ BuildCovers(u)

\* Versions are numbered by the tasks; nobody has written the next one.
Numbered(v) == v <= made.tasks + 1

\* What a goroutine has read of its user is still so.
SyncRight(s) ==
  /\ s.pc = "free" \/ s.from = "queue" => s.rest = <<>>
  /\ s.pc = "add" => s.ok
  /\ s.pc \in {"remove", "add"} =>
       s.uid \in skewed \/ s.ok = profile[s.uid].ok
  /\ \A v \in s.versions : Numbered(v)
SyncsRight == \A t \in Syncs : SyncRight(sync[t])

\* What the fold has read of a user is still so, or his change comes later.
RowRight(row) ==
  /\ row.at <= second /\ row.at >= fold.last
  /\ \/ row.uid \in skewed
     \/ row.ok = profile[row.uid].ok /\ profile[row.uid].changed >= row.at
     \/ unfolded[row.uid] = "changed" /\ Beyond(row.uid)

FoldRight ==
  /\ fold.pc # "apply" => fold.rows = {}
  /\ fold.pc = "none" => fold = NoFold
  /\ \A row \in fold.rows : RowRight(row)
  /\ fold.last <= second /\ cursor.at <= second
  /\ fold.pc = "apply" => fold.last = cursor.at
  /\ cursor.whole => cursor.at <= Overlapped(second)
  /\ \A u \in People : unfolded[u] = "begun" => fold.pc # "none"

VersionsRight ==
  /\ Numbered(current) /\ Numbered(building) /\ building # current
  /\ \A v \in Versions : pool[v] # {} => Numbered(v)
  /\ \A v \in fold.versions : Numbered(v)
  /\ build.from <= second
  /\ \A u \in People : profile[u].changed <= second

PoolInv == PoolTypes /\ Covered /\ SyncsRight /\ FoldRight /\ VersionsRight

\* What a step that leaves the build alone may do to a user.
Steady(v, u) ==
  /\ profile'[u].ok = profile[u].ok /\ profile'[u].changed >= profile[u].changed
  /\ \/ Agrees(v, u)' \/ Waits(v, u)'
     \/ (u \in pool'[v] <=> u \in pool[v]) /\ (Waits(v, u) => Waits(v, u)')
Changes(v, u) ==
  /\ Waits(v, u)' /\ Recent(u)'
  /\ build.pc = "catchUp" => \A row \in build.rows : row.uid # u

LEMMA SteadyCovers ==
  ASSUME PoolTypes, PoolTypes', Covered, UNCHANGED <<current, building, build>>,
         skewed \subseteq skewed',
         \A u \in People \ skewed' : \A v \in Live : Steady(v, u) \/ Changes(v, u)
  PROVE  Covered'
<1> SUFFICES ASSUME NEW u \in People \ skewed'
             PROVE  /\ Agrees(current, u)' \/ Waits(current, u)'
                    /\ BuildCovers(u)'
  BY DEF Covered
<1>0. u \in People \ skewed /\ current \in Live
  BY DEF PoolTypes, VersionTypes, Live, Versions
<1>1. /\ Agrees(current, u) \/ Waits(current, u)
      /\ BuildCovers(u)
  BY <1>0 DEF Covered
<1>t. /\ profile[u].changed \in Nat /\ profile'[u].changed \in Nat
      /\ build.from \in Nat /\ ReplayWindow \in Nat
  BY ProfileTyped, PartnerPoolAssumption
     DEF PoolTypes, VersionTypes, BuildRecord, ActivityTypes, ProfileRecord
<1>e. current' = current /\ building' = building /\ build' = build
  OBVIOUS
<1>2. Agrees(current, u)' \/ Waits(current, u)'
  <2> PICK c : c = current
    OBVIOUS
  <2>1. Agrees(c, u)' \/ Waits(c, u)'
    BY <1>0, <1>1 DEF Steady, Changes, Agrees
  <2> QED BY <2>1, <1>e DEF Agrees, Waits, Served, Folds
<1>3. ASSUME build.pc # "none"
      PROVE  BuildCovers(u)'
  <2> PICK b : b = building
    OBVIOUS
  <2>1. b \in Live
    BY <1>3 DEF PoolTypes, VersionTypes, Live
  <2>0. /\ Waits(building, u)' <=> Waits(b, u)'
        /\ Agrees(building, u)' <=> Agrees(b, u)'
    BY <1>e DEF Waits, Served, Folds, Agrees
  <2>2. CASE Changes(b, u)
    BY <2>0, <2>2, <1>e DEF Changes, BuildCovers
  <2>3. CASE Steady(b, u)
    <3>1. Recent(u) => Recent(u)'
      BY <2>3, <1>t DEF Steady, Recent
    <3>2. profile'[u].ok = profile[u].ok
      BY <2>3 DEF Steady
    <3>3. \/ Agrees(b, u)' \/ Waits(b, u)'
          \/ (u \in pool'[b] <=> u \in pool[b]) /\ (Waits(b, u) => Waits(b, u)')
      BY <2>3 DEF Steady
    <3> QED BY <1>1, <1>e, <2>0, <3>1, <3>2, <3>3 DEF BuildCovers, Agrees
  <2> QED BY <1>0, <2>1, <2>2, <2>3
<1>4. ASSUME build.pc = "none" PROVE BuildCovers(u)'
  BY <1>4, <1>e DEF BuildCovers
<1> QED BY <1>2, <1>3, <1>4

-----------------------------------------------------------------------------
(***************************************************************************)
(* The steps of the goroutines                                             *)
(***************************************************************************)
LEMMA ServedThen ==
  ASSUME NEW v, NEW u
  PROVE  Served(v, u)' <=> \/ Named(u, dirty') \/ u \in UsersOf(spill')
                           \/ \E r \in Syncs : Serves(sync'[r], v, u)
  BY DEF Served, Named, UsersOf, Serves

\* A goroutine goes on, and nobody who has to wait is forgotten.
LEMMA StillServed ==
  ASSUME ActivityTypes, NEW t \in Syncs, NEW s, SyncGoes(t, s), NEW v, NEW u,
         Serves(sync[t], v, u) =>
           Serves(s, v, u) \/ Named(u, dirty') \/ u \in UsersOf(spill'),
         Named(u, dirty) => Named(u, dirty') \/ Serves(s, v, u),
         u \in UsersOf(spill) => u \in UsersOf(spill') \/ Serves(s, v, u),
         Served(v, u)
  PROVE  Served(v, u)'
<1>1. sync'[t] = s /\ \A r \in Syncs : r # t => sync'[r] = sync[r]
  BY DEF ActivityTypes, SyncGoes
<1>2. Serves(s, v, u) => \E r \in Syncs : Serves(sync'[r], v, u)
  BY <1>1
<1>3. ASSUME NEW r \in Syncs, Serves(sync[r], v, u), r # t
      PROVE  Serves(sync'[r], v, u)
  BY <1>1, <1>3
<1>4. Served(v, u)' <=> \/ Named(u, dirty') \/ u \in UsersOf(spill')
                        \/ \E r \in Syncs : Serves(sync'[r], v, u)
  BY ServedThen
<1> QED BY <1>2, <1>3, <1>4 DEF Served

LEMMA OthersServed ==
  ASSUME NEW v, NEW u, sync' = sync,
         Named(u, dirty) => Named(u, dirty'),
         u \in UsersOf(spill) => u \in UsersOf(spill'),
         Served(v, u)
  PROVE  Served(v, u)'
<1>4. Served(v, u)' <=> \/ Named(u, dirty') \/ u \in UsersOf(spill')
                        \/ \E r \in Syncs : Serves(sync'[r], v, u)
  BY ServedThen
<1> QED BY <1>4 DEF Served

\* The fold keeps what it has to do for a user who is not edited.
LEMMA FoldsStay ==
  ASSUME PoolTypes, PoolTypes', fold' = fold, cursor' = cursor, NEW u \in People,
         unfolded'[u] = unfolded[u], profile'[u].ok = profile[u].ok,
         profile'[u].changed >= profile[u].changed
  PROVE  /\ Beyond(u) => Beyond(u)'
         /\ \A v : Folds(v, u) => Folds(v, u)'
         /\ \A row \in fold.rows :
              profile[u].changed >= row.at => profile'[u].changed >= row.at
<1>1. /\ profile[u].changed \in Nat /\ profile'[u].changed \in Nat
      /\ cursor.at \in Nat /\ Overlapped(fold.last) \in Nat
      /\ \A row \in fold.rows : row.at \in Nat /\ Overlapped(row.at) \in Nat
  <2>1. /\ profile[u].changed \in Nat /\ profile'[u].changed \in Nat
    BY ProfileTyped DEF PoolTypes, ActivityTypes, ProfileRecord
  <2>2. /\ cursor.at \in Nat /\ fold.last \in Nat
        /\ \A row \in fold.rows : row.at \in Nat
    BY DEF PoolTypes, VersionTypes, FoldRecord, PoolRow
  <2> QED BY <2>1, <2>2, PartnerPoolAssumption DEF Overlapped
<1>2. Beyond(u) => Beyond(u)'
  BY <1>1 DEF Beyond, Overlapped
<1>3. \A v : Folds(v, u) => Folds(v, u)'
  <2> SUFFICES ASSUME NEW v, Folds(v, u) PROVE Folds(v, u)'
    OBVIOUS
  <2> QED BY <1>1, <1>2 DEF Folds
<1>4. \A row \in fold.rows :
        profile[u].changed >= row.at => profile'[u].changed >= row.at
  BY <1>1
<1> QED BY <1>2, <1>3, <1>4

LEMMA ServedCovers ==
  ASSUME PoolTypes, PoolTypes', Covered,
         UNCHANGED <<current, building, build, cursor, fold, unfolded>>,
         skewed \subseteq skewed',
         \A u \in People : /\ profile'[u].ok = profile[u].ok
                           /\ profile'[u].changed >= profile[u].changed,
         \A u \in People \ skewed' : \A v \in Live :
           \/ Agrees(v, u)' \/ Served(v, u)'
           \/ (u \in pool'[v] <=> u \in pool[v]) /\ (Served(v, u) => Served(v, u)')
  PROVE  Covered'
<1> SUFFICES ASSUME NEW u \in People \ skewed', NEW v \in Live PROVE Steady(v, u)
  BY SteadyCovers
<1>1. Folds(v, u) => Folds(v, u)'
  BY FoldsStay
<1>2. Served(v, u)' \/ Folds(v, u)' => Waits(v, u)'
  BY DEF Waits
<1> QED BY <1>1, <1>2 DEF Steady, Waits

LEMMA LaterOverlap ==
  ASSUME NEW i \in Nat, NEW j \in Nat, i <= j
  PROVE  /\ Overlapped(i) \in Nat /\ Overlapped(j) \in Nat
         /\ Overlapped(i) <= Overlapped(j) /\ Overlapped(i) <= i
         /\ Overlapped(i) = Greater(0, i - ReplayWindow)
  BY PartnerPoolAssumption DEF Overlapped, Greater

LEMMA FoldStays ==
  ASSUME PoolTypes, PoolTypes', FoldRight, fold' = fold, cursor' = cursor,
         second' >= second, skewed \subseteq skewed',
         \A u \in People :
           \/ /\ unfolded'[u] = unfolded[u] /\ profile'[u].ok = profile[u].ok
              /\ profile'[u].changed >= profile[u].changed
           \/ unfolded'[u] = "changed" /\ (u \in skewed' \/ Beyond(u)')
  PROVE  FoldRight'
<1>1. /\ second \in Nat /\ second' \in Nat /\ cursor.at \in Nat /\ fold.last \in Nat
      /\ \A row \in fold.rows : row.at \in Nat /\ row.uid \in People
  BY DEF PoolTypes, ActivityTypes, VersionTypes, FoldRecord, PoolRow
<1>2. \A row \in fold.rows : RowRight(row)'
  <2> SUFFICES ASSUME NEW row \in fold.rows PROVE RowRight(row)'
    OBVIOUS
  <2> PICK u \in People : u = row.uid
    BY <1>1
  <2>1. row.at <= second' /\ row.at >= fold.last
    BY <1>1 DEF FoldRight, RowRight
  <2>2. \/ u \in skewed
        \/ row.ok = profile[u].ok /\ profile[u].changed >= row.at
        \/ unfolded[u] = "changed" /\ Beyond(u)
    BY DEF FoldRight, RowRight
  <2>3. \/ u \in skewed'
        \/ row.ok = profile'[u].ok /\ profile'[u].changed >= row.at
        \/ unfolded'[u] = "changed" /\ Beyond(u)'
    BY <2>2, FoldsStay
  <2> QED BY <2>1, <2>3 DEF RowRight
<1>3. cursor.whole => cursor.at <= Overlapped(second')
  BY <1>1, LaterOverlap DEF FoldRight
<1>4. \A u \in People : unfolded'[u] = "begun" => fold'.pc # "none"
  BY DEF FoldRight
<1>5. Overlapped(second)' = Overlapped(second')
  BY DEF Overlapped
<1> QED BY <1>1, <1>2, <1>3, <1>4, <1>5 DEF FoldRight

\* A step of a goroutine, or of a heartbeat, that edits no profile.
LEMMA QuietStep ==
  ASSUME PoolInv, PoolTypes',
         UNCHANGED <<current, building, build, cursor, fold, second, unfolded>>,
         skewed \subseteq skewed', made'.tasks >= made.tasks,
         \A u \in People : /\ profile'[u].ok = profile[u].ok
                           /\ profile'[u].changed >= profile[u].changed
                           /\ profile'[u].changed <= second,
         \A t \in Syncs : sync'[t] = sync[t] \/ SyncRight(sync'[t]),
         \A v \in Versions : pool'[v] # {} => pool[v] # {} \/ Numbered(v),
         \A u \in People \ skewed' : \A v \in Live :
           \/ Agrees(v, u)' \/ Served(v, u)'
           \/ (u \in pool'[v] <=> u \in pool[v]) /\ (Served(v, u) => Served(v, u)')
  PROVE  PoolInv'
<1> USE DEF PoolInv
<1>t. /\ made.tasks \in Nat /\ made'.tasks \in Nat /\ second \in Nat
      /\ current \in Nat /\ building \in Nat /\ Versions \subseteq Nat
      /\ fold.versions \subseteq Nat
      /\ \A t \in Syncs : sync'[t].versions \subseteq Nat
  <2>1. Versions \subseteq Nat
    BY PartnerPoolAssumption DEF Versions
  <2>2. made.tasks \in Nat /\ made'.tasks \in Nat
    BY PartnerPoolAssumption DEF PoolTypes, VersionTypes
  <2>3. /\ second \in Nat /\ current \in Versions /\ building \in Versions \cup {0}
        /\ fold.versions \subseteq Versions
    BY DEF PoolTypes, VersionTypes, ActivityTypes, FoldRecord
  <2>4. \A t \in Syncs : sync'[t] \in SyncRecord
    BY DEF PoolTypes, ActivityTypes, SyncRecord, Versions
  <2>5. \A t \in Syncs : sync'[t].versions \subseteq Versions
    BY <2>4 DEF SyncRecord
  <2>6. current \in Nat
    BY <2>1, <2>3
  <2>8. building \in Nat
    BY <2>1, <2>3
  <2>9. fold.versions \subseteq Nat
    BY <2>1, <2>3
  <2>7. \A t \in Syncs : sync'[t].versions \subseteq Nat
    BY <2>1, <2>5
  <2> QED BY <2>1, <2>2, <2>3, <2>6, <2>7, <2>8, <2>9
<1>1. Covered'
  BY ServedCovers
<1>2. FoldRight'
  BY <1>t, FoldStays
<1>3. \A v \in Nat : Numbered(v) => Numbered(v)'
  BY <1>t DEF Numbered
<1>4. SyncsRight'
  <2> SUFFICES ASSUME NEW t \in Syncs PROVE SyncRight(sync[t])'
    BY DEF SyncsRight
  <2> PICK s : s = sync'[t]
    OBVIOUS
  <2>1. SyncRight(s)
    BY DEF SyncsRight
  <2>2. s.versions \subseteq Nat /\ (s.pc # "free" => s.uid \in People)
    BY <1>t DEF PoolTypes, ActivityTypes, SyncAt
  <2>3. SyncRight(s)'
    BY <1>3, <2>1, <2>2 DEF SyncRight
  <2> QED BY <2>3 DEF SyncRight, Numbered
<1>5. VersionsRight'
  <2>1. Numbered(current)' /\ Numbered(building)' /\ building' # current'
    BY <1>t DEF VersionsRight, Numbered
  <2>2. \A v \in Versions : pool'[v] # {} => Numbered(v)'
    BY <1>3, <1>t DEF VersionsRight
  <2>3. \A v \in fold'.versions : Numbered(v)'
    BY <1>3, <1>t DEF VersionsRight
  <2>4. Versions' = Versions
    BY DEF Versions
  <2> QED BY <2>1, <2>2, <2>3, <2>4, <1>t DEF VersionsRight
<1> QED BY <1>1, <1>2, <1>4, <1>5

LEMMA GoroutineStep ==
  ASSUME PoolInv, PoolTypes', NEW t \in Syncs, NEW s, SyncGoes(t, s), SyncRight(s),
         UNCHANGED <<profile, pool, current, building, build, cursor, fold, second,
                     unfolded, made>>,
         skewed \subseteq skewed',
         \A u \in People \ skewed' : \A v \in Live :
           /\ Serves(sync[t], v, u) =>
                Serves(s, v, u) \/ Named(u, dirty') \/ u \in UsersOf(spill')
           /\ Named(u, dirty) => Named(u, dirty') \/ Serves(s, v, u)
           /\ u \in UsersOf(spill) => u \in UsersOf(spill') \/ Serves(s, v, u)
  PROVE  PoolInv'
<1> USE DEF PoolInv
<1>1. \A r \in Syncs : sync'[r] = sync[r] \/ SyncRight(sync'[r])
  BY DEF PoolTypes, ActivityTypes, SyncGoes
<1>2. \A u \in People \ skewed' : \A v \in Live : Served(v, u) => Served(v, u)'
  BY StillServed DEF PoolTypes
<1>3. \A u \in People : /\ profile'[u].ok = profile[u].ok
                        /\ profile'[u].changed >= profile[u].changed
                        /\ profile'[u].changed <= second
  BY ProfileTyped DEF PoolTypes, VersionsRight
<1>4. made'.tasks >= made.tasks
  BY PartnerPoolAssumption DEF PoolTypes, VersionTypes
<1> QED BY <1>1, <1>2, <1>3, <1>4, QuietStep

LEMMA NobodyNamed == \A u : ~Named(u, <<>>)
  BY DEF Named

LEMMA NoTasks == UsersOf(<<>>) = {}
  BY DEF UsersOf

LEMMA IdleServes ==
  ASSUME PoolInv, NEW t \in Syncs, SyncAt(t, "free"), NEW v, NEW u
  PROVE  ~Serves(sync[t], v, u)
  BY NoTasks DEF PoolInv, SyncsRight, SyncRight, SyncAt, Serves

LEMMA ReadCurrentKeeps ==
  ASSUME PoolInv, PoolTypes', NEW t \in Syncs, ReadCurrent(t),
         UNCHANGED <<current, building, build, foldVars, second>>
  PROVE  PoolInv'
<1> PICK s : s = [sync[t] EXCEPT !.pc = "building", !.versions = {current}]
  OBVIOUS
<1>1. /\ s.pc = "building" /\ s.uid = sync[t].uid /\ s.rest = sync[t].rest /\ s.from = sync[t].from
      /\ s.versions = {current} /\ sync[t].pc = "versions"
  BY DEF PoolInv, PoolTypes, ActivityTypes, SyncRecord, ReadCurrent, SyncAt
<1>2. SyncRight(s)
  BY <1>1 DEF SyncRight, PoolInv, VersionsRight, SyncsRight
<1>3. \A u, v : Serves(sync[t], v, u) => Serves(s, v, u)
  BY <1>1 DEF Serves
<1>4. SyncGoes(t, s)
  BY DEF ReadCurrent
<1> QED BY <1>2, <1>3, <1>4, GoroutineStep DEF ReadCurrent, beatVars, foldVars

LEMMA ReadBuildingKeeps ==
  ASSUME PoolInv, PoolTypes', NEW t \in Syncs, ReadBuilding(t),
         UNCHANGED <<current, building, build, foldVars, second>>
  PROVE  PoolInv'
<1> PICK V : V = (sync[t].versions \cup {building}) \ {0}
  OBVIOUS
<1> PICK s : s = [sync[t] EXCEPT !.pc = "profile", !.versions = V]
  OBVIOUS
<1>0. sync[t] \in SyncRecord
  BY DEF PoolInv, PoolTypes, ActivityTypes
<1>1. /\ s.pc = "profile" /\ s.uid = sync[t].uid /\ s.rest = sync[t].rest /\ s.from = sync[t].from
      /\ s.versions = V /\ sync[t].pc = "building"
  BY <1>0 DEF SyncRecord, ReadBuilding, SyncAt
<1>2. SyncRight(s)
  BY <1>1 DEF SyncRight, PoolInv, VersionsRight, SyncsRight
<1>3. /\ SyncGoes(t, s)
      /\ skewed' = IF current \in V THEN skewed ELSE skewed \cup {sync[t].uid}
  BY DEF ReadBuilding
<1>4. ASSUME NEW u \in People \ skewed', NEW v \in Live, Serves(sync[t], v, u)
      PROVE  Serves(s, v, u)
  <2>1. CASE u \in UsersOf(s.rest)
    BY <2>1 DEF Serves
  <2>2. CASE u = sync[t].uid
    <3>1. v \in V
      BY <2>2, <1>3 DEF Live
    <3> QED BY <2>2, <3>1, <1>1 DEF Serves
  <2> QED BY <1>1, <1>4, <2>1, <2>2 DEF Serves
<1>5. skewed \subseteq skewed'
  BY <1>3
<1> QED BY <1>2, <1>3, <1>4, <1>5, GoroutineStep DEF ReadBuilding, beatVars, foldVars

LEMMA PoolProfileKeeps ==
  ASSUME PoolInv, PoolTypes', NEW t \in Syncs, PoolProfile(t),
         UNCHANGED <<current, building, build, foldVars, second>>
  PROVE  PoolInv'
<1> PICK s : s = [sync[t] EXCEPT !.pc = "remove", !.ok = profile[sync[t].uid].ok]
  OBVIOUS
<1>0. sync[t] \in SyncRecord
  BY DEF PoolInv, PoolTypes, ActivityTypes
<1>1. /\ s.pc = "remove" /\ s.uid = sync[t].uid /\ s.rest = sync[t].rest /\ s.from = sync[t].from
      /\ s.versions = sync[t].versions /\ sync[t].pc = "profile"
      /\ s.ok = profile[s.uid].ok
  BY <1>0 DEF SyncRecord, PoolProfile, SyncAt
<1>2. SyncRight(s)
  BY <1>1 DEF SyncRight, PoolInv, SyncsRight
<1>3. \A u, v : Serves(sync[t], v, u) => Serves(s, v, u)
  BY <1>1 DEF Serves
<1>4. SyncGoes(t, s)
  BY DEF PoolProfile
<1> QED BY <1>2, <1>3, <1>4, GoroutineStep DEF PoolProfile, beatVars, foldVars

LEMMA PopDirtyKeeps ==
  ASSUME PoolInv, PoolTypes', NEW t \in Syncs, PopDirty(t),
         UNCHANGED <<current, building, build, foldVars, second>>
  PROVE  PoolInv'
<1> PICK w : w = Head(dirty)
  OBVIOUS
<1> PICK s : s = [Free EXCEPT !.pc = "versions", !.from = "queue", !.uid = w, !.at = 0,
                              !.rest = <<>>]
  OBVIOUS
<1>1. /\ SyncRight(s) /\ s.uid = w /\ s.pc = "versions" /\ SyncAt(t, "free")
      /\ SyncGoes(t, s)
  <2>1. SyncAt(t, "free") /\ SyncGoes(t, s)
    BY DEF PopDirty, SyncBegins
  <2>2. SyncRight(s) /\ s.uid = w /\ s.pc = "versions" /\ s.rest = <<>>
    BY DEF SyncRight, Free
  <2> QED BY <2>1, <2>2
<1>2. \A v : Serves(s, v, w)
  BY <1>1 DEF Serves
<1>3. \A u : Named(u, dirty) => u = w \/ Named(u, dirty')
  <2>1. dirty # <<>> /\ dirty' = Tail(dirty) /\ dirty \in Seq(People) /\ w \in People
    BY DEF PopDirty, PoolInv, PoolTypes, VersionTypes
  <2> QED BY <2>1, UsersQueued
<1> QED
  BY <1>1, <1>2, <1>3, IdleServes, GoroutineStep DEF PopDirty, beatVars, foldVars

LEMMA TakeWriteKeeps ==
  ASSUME PoolInv, PoolTypes', NEW t \in Syncs, TakeWrite(t),
         UNCHANGED <<current, building, build, foldVars, second>>
  PROVE  PoolInv'
<1> PICK s : s = [Free EXCEPT !.pc = "touch", !.from = "write",
                              !.uid = Head(writes).uid, !.at = Head(writes).at,
                              !.rest = <<>>]
  OBVIOUS
<1>1. SyncRight(s) /\ SyncAt(t, "free") /\ SyncGoes(t, s)
  <2>1. SyncAt(t, "free") /\ SyncGoes(t, s)
    BY DEF TakeWrite, SyncBegins
  <2>2. SyncRight(s) /\ s.uid = Head(writes).uid /\ s.pc = "touch" /\ s.rest = <<>>
    BY DEF SyncRight, Free
  <2> QED BY <2>1, <2>2
<1> QED BY <1>1, IdleServes, GoroutineStep DEF TakeWrite, beatVars, foldVars

LEMMA DrainSpillKeeps ==
  ASSUME PoolInv, PoolTypes', NEW t \in Syncs, DrainSpill(t),
         UNCHANGED <<current, building, build, foldVars, second>>
  PROVE  PoolInv'
<1> PICK w, at, rest : w = Head(spill).uid /\ at = Head(spill).at /\ rest = Tail(spill)
  OBVIOUS
<1> PICK s : s = [Free EXCEPT !.pc = "touch", !.from = "spill", !.uid = w, !.at = at,
                              !.rest = rest]
  OBVIOUS
<1>1. /\ SyncRight(s) /\ s.uid = w /\ s.pc = "touch" /\ s.rest = rest
      /\ SyncAt(t, "free") /\ SyncGoes(t, s)
  <2>1. SyncAt(t, "free") /\ SyncGoes(t, s)
    BY DEF DrainSpill, SyncBegins
  <2>2. SyncRight(s) /\ s.uid = w /\ s.pc = "touch" /\ s.rest = rest
    BY DEF SyncRight, Free
  <2> QED BY <2>1, <2>2
<1>2. UsersOf(spill) = {w} \cup UsersOf(rest)
  BY TasksTaken DEF DrainSpill, PoolInv, PoolTypes, ActivityTypes
<1>3. \A v, u : u \in UsersOf(spill) => Serves(s, v, u)
  BY <1>1, <1>2 DEF Serves
<1> QED BY <1>1, <1>3, IdleServes, GoroutineStep DEF DrainSpill, beatVars, foldVars

LEMMA HeartbeatKeeps ==
  ASSUME PoolInv, PoolTypes', NEW p \in People, Heartbeat(p) \/ GuardEnds(p),
         UNCHANGED <<current, building, build, foldVars, second>>
  PROVE  PoolInv'
<1> USE DEF PoolInv
<1>1. /\ UNCHANGED <<profile, pool, dirty, sync, unfolded>>
      /\ made'.tasks >= made.tasks
  BY PartnerPoolAssumption
     DEF Heartbeat, GuardEnds, Act, PoolTypes, VersionTypes
<1>2. UsersOf(spill) \subseteq UsersOf(spill') \cup skewed' /\ skewed \subseteq skewed'
  <2>1. CASE UNCHANGED <<spill, skewed>>  BY <2>1
  <2>2. CASE SpillGets(<<[uid |-> p, at |-> second]>>)
    <3>1. [uid |-> p, at |-> second] \in Task
      BY DEF Task, PoolTypes, ActivityTypes
    <3>2. <<[uid |-> p, at |-> second]>> \in Seq(Task) /\ spill \in Seq(Task)
      BY <3>1 DEF PoolTypes, ActivityTypes
    <3> QED BY <2>2, <3>2, SpillKeeps
  <2> QED BY <2>1, <2>2 DEF Heartbeat, GuardEnds
<1>3. \A u \in People \ skewed' : \A v \in Live : Served(v, u) => Served(v, u)'
  BY <1>1, <1>2, OthersServed
<1>4. \A u \in People : /\ profile'[u].ok = profile[u].ok
                        /\ profile'[u].changed >= profile[u].changed
                        /\ profile'[u].changed <= second
  BY <1>1, ProfileTyped DEF PoolTypes, VersionsRight
<1> QED BY <1>1, <1>2, <1>3, <1>4, QuietStep DEF foldVars

LEMMA TouchActiveKeeps ==
  ASSUME PoolInv, PoolTypes', NEW t \in Syncs, TouchActive(t),
         UNCHANGED <<current, building, build, foldVars, second>>
  PROVE  PoolInv'
<1> USE DEF PoolInv
<1> PICK s \in {[sync[t] EXCEPT !.pc = "versions"],
                [sync[t] EXCEPT !.pc = "versions", !.unwritten = TRUE]} :
       SyncGoes(t, s)
  BY DEF TouchActive
<1>0. sync[t] \in SyncRecord /\ sync[t].pc = "touch"
  BY DEF PoolTypes, ActivityTypes, TouchActive, SyncAt
<1>1. /\ s.pc = "versions" /\ s.uid = sync[t].uid /\ s.rest = sync[t].rest /\ s.from = sync[t].from
      /\ s.versions = sync[t].versions
  BY <1>0 DEF SyncRecord
<1>2. SyncRight(s)
  BY <1>0, <1>1 DEF SyncRight, SyncsRight
<1>3. \A u, v : Serves(sync[t], v, u) => Serves(s, v, u)
  BY <1>0, <1>1 DEF Serves
<1>4. UNCHANGED <<pool, dirty, spill, unfolded, skewed>> /\ made'.tasks >= made.tasks
  <2>1. made'.tasks = made.tasks
    BY DEF TouchActive, Mishap, PoolTypes, VersionTypes
  <2>2. made.tasks \in Nat
    BY PartnerPoolAssumption DEF PoolTypes, VersionTypes
  <2> QED BY <2>1, <2>2 DEF TouchActive, beatVars
<1>5. \A v, u : Served(v, u) => Served(v, u)'
  BY <1>3, <1>4, StillServed DEF PoolTypes
<1>6. \A r \in Syncs : sync'[r] = sync[r] \/ SyncRight(sync'[r])
  BY <1>2 DEF PoolTypes, ActivityTypes, SyncGoes
<1>7. \A u \in People : /\ profile'[u].ok = profile[u].ok
                        /\ profile'[u].changed >= profile[u].changed
                        /\ profile'[u].changed <= second
  <2> PICK w, at : w = sync[t].uid /\ at = sync[t].at
    OBVIOUS
  <2>1. profile' = [profile EXCEPT ![w] = Touched(w, at)] \/ profile' = profile
    BY DEF TouchActive
  <2>2. \A u \in People : /\ profile[u] \in ProfileRecord /\ profile[u].changed \in Nat
                          /\ profile[u].changed <= second
    BY ProfileTyped DEF PoolTypes, VersionsRight
  <2>3. w \in People /\ second \in Nat
    BY <1>0 DEF PoolTypes, ActivityTypes, SyncAt
  <2>4. /\ Touched(w, at).ok = profile[w].ok
        /\ Touched(w, at).changed \in {profile[w].changed, second}
    <3> PICK r : r = [profile[w] EXCEPT !.active = at, !.changed = second]
      OBVIOUS
    <3>1. r.ok = profile[w].ok /\ r.changed = second
      BY <2>2, <2>3 DEF ProfileRecord
    <3>2. Touched(w, at) = r \/ Touched(w, at) = profile[w]
      BY DEF Touched
    <3> QED BY <3>1, <3>2
  <2> QED BY <2>1, <2>2, <2>3, <2>4 DEF PoolTypes, ActivityTypes
<1> QED BY <1>4, <1>5, <1>6, <1>7, QuietStep DEF foldVars

\* A goroutine that is done with its user goes on with the rest of its batch.
LEMMA EndsKeeps ==
  ASSUME PoolInv, NEW t \in Syncs, sync[t].pc \in {"remove", "add"}, Ends(t),
         dirty' = dirty
  PROVE  /\ \A r \in Syncs : sync'[r] = sync[r] \/ SyncRight(sync'[r])
         /\ skewed \subseteq skewed'
         /\ \A v, u : Served(v, u) /\ u \notin skewed' =>
              Served(v, u)' \/ (u = sync[t].uid /\ v \in sync[t].versions)
<1> USE DEF PoolInv
<1>0. /\ sync[t] \in SyncRecord /\ sync[t].uid \in People
      /\ sync[t].rest \in Seq(Task) /\ spill \in Seq(Task)
  BY DEF PoolTypes, ActivityTypes, SyncRecord, SyncAt
<1>1. \E s : /\ SyncGoes(t, s) /\ SyncRight(s) /\ skewed \subseteq skewed'
             /\ UsersOf(spill) \subseteq UsersOf(spill') \cup skewed'
             /\ \A v, u : u \in UsersOf(sync[t].rest) /\ u \notin skewed' =>
                            Serves(s, v, u) \/ u \in UsersOf(spill')
  <2>1. CASE sync[t].unwritten
    <3>1. SyncGoes(t, Free) /\ SpillGets(Remaining(sync[t]))
      BY <2>1 DEF Ends
    <3>2. SyncRight(Free)
      BY DEF SyncRight, Free
    <3>3. /\ skewed \subseteq skewed'
          /\ UsersOf(spill) \cup {sync[t].uid} \cup UsersOf(sync[t].rest)
               \subseteq UsersOf(spill') \cup skewed'
      BY <1>0, <3>1, RemainingTyped, SpillKeeps
    <3> QED BY <3>1, <3>2, <3>3
  <2>2. CASE ~sync[t].unwritten /\ sync[t].rest = <<>>
    <3>1. SyncGoes(t, Free) /\ UNCHANGED <<spill, skewed>>
      BY <2>2 DEF Ends
    <3>2. SyncRight(Free)
      BY DEF SyncRight, Free
    <3> QED BY <2>2, <3>1, <3>2, NoTasks
  <2>3. CASE ~sync[t].unwritten /\ sync[t].rest # <<>>
    <3> PICK rest : rest = sync[t].rest
      OBVIOUS
    <3> PICK s : s = [Free EXCEPT !.pc = "touch", !.from = "spill",
                        !.uid = Head(rest).uid, !.at = Head(rest).at,
                        !.rest = Tail(rest)]
      OBVIOUS
    <3>1. SyncGoes(t, s) /\ UNCHANGED <<spill, skewed>>
      BY <2>3 DEF Ends
    <3>2. SyncRight(s) /\ s.uid = Head(rest).uid /\ s.pc = "touch" /\ s.rest = Tail(rest)
      BY DEF SyncRight, Free
    <3>3. UsersOf(rest) = {Head(rest).uid} \cup UsersOf(Tail(rest))
      BY <1>0, <2>3, TasksTaken
    <3>4. \A v, u : u \in UsersOf(rest) => Serves(s, v, u)
      BY <3>2, <3>3 DEF Serves
    <3> QED BY <3>1, <3>2, <3>4
  <2> QED BY <2>1, <2>2, <2>3
<1> PICK s : /\ SyncGoes(t, s) /\ SyncRight(s) /\ skewed \subseteq skewed'
             /\ UsersOf(spill) \subseteq UsersOf(spill') \cup skewed'
             /\ \A v, u : u \in UsersOf(sync[t].rest) /\ u \notin skewed' =>
                            Serves(s, v, u) \/ u \in UsersOf(spill')
  BY <1>1
<1>2. \A r \in Syncs : sync'[r] = sync[r] \/ SyncRight(sync'[r])
  BY DEF PoolTypes, ActivityTypes, SyncGoes
<1>3. ASSUME NEW v, NEW u, Served(v, u), u \notin skewed',
             ~(u = sync[t].uid /\ v \in sync[t].versions)
      PROVE  Served(v, u)'
  <2>1. Serves(sync[t], v, u) => Serves(s, v, u) \/ u \in UsersOf(spill')
    BY <1>3 DEF Serves
  <2> QED BY <1>3, <2>1, StillServed DEF PoolTypes
<1> QED BY <1>2, <1>3

\* Which versions a goroutine writes.
LEMMA PoolWritten ==
  ASSUME PoolInv, NEW w \in People, NEW V \in SUBSET Versions, \A v \in V : Numbered(v),
         pool' = With(w, V) \/ pool' = Without(w, V)
  PROVE  /\ \A v \in Versions : pool'[v] # {} => pool[v] # {} \/ Numbered(v)
         /\ \A u \in People : \A v \in Versions :
              u # w \/ v \notin V => (u \in pool'[v] <=> u \in pool[v])
         /\ pool' = With(w, V) => \A v \in V : w \in pool'[v]
         /\ pool' = Without(w, V) => \A v \in V : w \notin pool'[v]
  BY DEF PoolInv, PoolTypes, VersionTypes, With, Without

LEMMA RowApplied ==
  ASSUME PoolInv, NEW row \in PoolRow, NEW V \in SUBSET Versions,
         \A v \in V : Numbered(v), pool' = Applied(V, row)
  PROVE  /\ \A v \in Versions : pool'[v] # {} => pool[v] # {} \/ Numbered(v)
         /\ \A u \in People : \A v \in Versions :
              u # row.uid \/ v \notin V => (u \in pool'[v] <=> u \in pool[v])
         /\ \A v \in V : row.uid \in pool'[v] <=> row.ok
<1>1. row.uid \in People
  BY DEF PoolRow
<1>2. CASE row.ok
  <2>1. pool' = With(row.uid, V)
    BY <1>2 DEF Applied
  <2> QED BY <1>1, <1>2, <2>1, PoolWritten
<1>3. CASE ~row.ok
  <2>1. pool' = Without(row.uid, V)
    BY <1>3 DEF Applied
  <2> QED BY <1>1, <1>3, <2>1, PoolWritten
<1> QED BY <1>2, <1>3

LEMMA LiveVersions == ASSUME PoolTypes PROVE Live \subseteq Versions
  BY DEF PoolTypes, VersionTypes, Live

LEMMA RemoveUserKeeps ==
  ASSUME PoolInv, PoolTypes', NEW t \in Syncs, RemoveUser(t),
         UNCHANGED <<current, building, build, foldVars, second>>
  PROVE  PoolInv'
<1> USE DEF PoolInv
<1> PICK w, V : w = sync[t].uid /\ V = sync[t].versions
  OBVIOUS
<1>0. /\ sync[t] \in SyncRecord /\ sync[t].pc = "remove" /\ w \in People
      /\ V \in SUBSET Versions /\ pool' = Without(w, V)
      /\ UNCHANGED <<profile, dirty, unfolded, made>>
  BY DEF PoolTypes, ActivityTypes, RemoveUser, SyncAt, SyncRecord
<1>1. /\ \A v \in V : Numbered(v)
      /\ w \in skewed \/ sync[t].ok = profile[w].ok
  BY <1>0 DEF SyncsRight, SyncRight
<1>2. /\ \A v \in Versions : pool'[v] # {} => pool[v] # {} \/ Numbered(v)
      /\ \A u \in People : \A v \in Versions :
              u # w \/ v \notin V => (u \in pool'[v] <=> u \in pool[v])
      /\ \A v \in V : w \notin pool'[v]
  BY <1>0, <1>1, PoolWritten
<1>3. /\ \A r \in Syncs : sync'[r] = sync[r] \/ SyncRight(sync'[r])
      /\ skewed \subseteq skewed'
      /\ \A v, u : Served(v, u) /\ u \notin skewed' =>
              Served(v, u)' \/ (u = w /\ v \in V /\ ~sync[t].ok)
  <2>1. CASE ~sync[t].ok
    <3>1. Ends(t)
      BY <2>1 DEF RemoveUser
    <3> QED BY <1>0, <2>1, <3>1, EndsKeeps
  <2>2. CASE sync[t].ok
    <3> PICK s : s = [sync[t] EXCEPT !.pc = "add"]
      OBVIOUS
    <3>1. /\ s.pc = "add" /\ s.uid = w /\ s.versions = V /\ s.ok = sync[t].ok
          /\ s.rest = sync[t].rest /\ s.from = sync[t].from
      BY <1>0 DEF SyncRecord
    <3>2. SyncGoes(t, s) /\ UNCHANGED <<spill, skewed>>
      BY <2>2 DEF RemoveUser
    <3>3. SyncRight(s)
      BY <1>1, <2>2, <3>1 DEF SyncRight, SyncsRight
    <3>4. \A v, u : Serves(sync[t], v, u) => Serves(s, v, u)
      BY <1>0, <3>1 DEF Serves
    <3>5. \A v, u : Served(v, u) => Served(v, u)'
      BY <1>0, <3>2, <3>4, StillServed DEF PoolTypes
    <3>6. \A r \in Syncs : sync'[r] = sync[r] \/ SyncRight(sync'[r])
      BY <3>2, <3>3 DEF PoolTypes, ActivityTypes, SyncGoes
    <3> QED BY <3>2, <3>5, <3>6
  <2> QED BY <2>1, <2>2
<1>4. ASSUME NEW v \in V PROVE sync[t].ok => Served(v, w)'
  <2> SUFFICES ASSUME sync[t].ok PROVE Served(v, w)'
    OBVIOUS
  <2> PICK s : s = [sync[t] EXCEPT !.pc = "add"]
    OBVIOUS
  <2>1. SyncGoes(t, s) /\ s.pc = "add" /\ s.uid = w /\ s.versions = V
    BY <1>0 DEF RemoveUser, SyncRecord
  <2>2. sync'[t] = s /\ Serves(s, v, w)
    BY <2>1 DEF PoolTypes, ActivityTypes, SyncGoes, Serves
  <2> QED BY <2>2, ServedThen
<1>5. ASSUME NEW u \in People \ skewed', NEW v \in Live
      PROVE  \/ Agrees(v, u)' \/ Served(v, u)'
             \/ (u \in pool'[v] <=> u \in pool[v]) /\ (Served(v, u) => Served(v, u)')
  <2>0. v \in Versions
    BY LiveVersions
  <2>1. CASE u # w \/ v \notin V
    BY <2>0, <2>1, <1>2, <1>3
  <2>2. CASE u = w /\ v \in V /\ sync[t].ok
    BY <2>2, <1>4
  <2>3. CASE u = w /\ v \in V /\ ~sync[t].ok
    <3>1. ~profile'[u].ok /\ u \notin pool'[v]
      BY <2>3, <1>0, <1>1, <1>2, <1>3
    <3> QED BY <3>1 DEF Agrees
  <2> QED BY <2>1, <2>2, <2>3
<1>6. /\ made'.tasks >= made.tasks
      /\ \A u \in People : /\ profile'[u].ok = profile[u].ok
                        /\ profile'[u].changed >= profile[u].changed
                        /\ profile'[u].changed <= second
  BY <1>0, PartnerPoolAssumption, ProfileTyped DEF PoolTypes, VersionTypes, VersionsRight
<1> QED BY <1>0, <1>2, <1>3, <1>5, <1>6, QuietStep DEF foldVars

LEMMA AddProfileKeeps ==
  ASSUME PoolInv, PoolTypes', NEW t \in Syncs, AddProfileToVersion(t),
         UNCHANGED <<current, building, build, foldVars, second>>
  PROVE  PoolInv'
<1> USE DEF PoolInv
<1> PICK w, V : w = sync[t].uid /\ V = sync[t].versions
  OBVIOUS
<1>0. /\ sync[t] \in SyncRecord /\ sync[t].pc = "add" /\ w \in People
      /\ V \in SUBSET Versions /\ pool' = With(w, V)
      /\ UNCHANGED <<profile, dirty, unfolded, made>> /\ Ends(t)
  BY DEF PoolTypes, ActivityTypes, AddProfileToVersion, SyncAt, SyncRecord
<1>1. /\ \A v \in V : Numbered(v)
      /\ w \in skewed \/ profile[w].ok
  BY <1>0 DEF SyncsRight, SyncRight
<1>2. /\ \A v \in Versions : pool'[v] # {} => pool[v] # {} \/ Numbered(v)
      /\ \A u \in People : \A v \in Versions :
              u # w \/ v \notin V => (u \in pool'[v] <=> u \in pool[v])
      /\ \A v \in V : w \in pool'[v]
  BY <1>0, <1>1, PoolWritten
<1>3. /\ \A r \in Syncs : sync'[r] = sync[r] \/ SyncRight(sync'[r])
      /\ skewed \subseteq skewed'
      /\ \A v, u : Served(v, u) /\ u \notin skewed' =>
              Served(v, u)' \/ (u = w /\ v \in V)
  BY <1>0, EndsKeeps
<1>4. ASSUME NEW u \in People \ skewed', NEW v \in Live
      PROVE  \/ Agrees(v, u)' \/ Served(v, u)'
             \/ (u \in pool'[v] <=> u \in pool[v]) /\ (Served(v, u) => Served(v, u)')
  <2>0. v \in Versions
    BY LiveVersions
  <2>1. CASE u # w \/ v \notin V
    BY <2>0, <2>1, <1>2, <1>3
  <2>2. CASE u = w /\ v \in V
    <3>1. profile'[u].ok /\ u \in pool'[v]
      BY <2>2, <1>0, <1>1, <1>2, <1>3
    <3> QED BY <3>1 DEF Agrees
  <2> QED BY <2>1, <2>2
<1>5. /\ made'.tasks >= made.tasks
      /\ \A u \in People : /\ profile'[u].ok = profile[u].ok
                        /\ profile'[u].changed >= profile[u].changed
                        /\ profile'[u].changed <= second
  BY <1>0, PartnerPoolAssumption, ProfileTyped DEF PoolTypes, VersionTypes, VersionsRight
<1> QED BY <1>0, <1>2, <1>3, <1>4, <1>5, QuietStep DEF foldVars

LEMMA SyncFailsKeeps ==
  ASSUME PoolInv, PoolTypes', NEW t \in Syncs, SyncFails(t),
         UNCHANGED <<current, building, build, foldVars, second>>
  PROVE  PoolInv'
<1> USE DEF PoolInv
<1> PICK w : w = sync[t].uid
  OBVIOUS
<1>0. /\ sync[t] \in SyncRecord /\ sync[t].pc # "free" /\ w \in People
      /\ sync[t].versions \in SUBSET Versions /\ sync[t].rest \in Seq(Task)
      /\ UNCHANGED <<profile, unfolded>> /\ SyncGoes(t, Free)
  BY DEF PoolTypes, ActivityTypes, SyncFails, SyncAt, SyncRecord
<1>1. \A v \in sync[t].versions : Numbered(v)
  BY DEF SyncsRight, SyncRight
<1>2. /\ \A v \in Versions : pool'[v] # {} => pool[v] # {} \/ Numbered(v)
      /\ \A u \in People : \A v \in Versions :
              u # w => (u \in pool'[v] <=> u \in pool[v])
  <2> PICK V \in SUBSET sync[t].versions :
         pool' = With(w, V) \/ pool' = Without(w, V) \/ pool' = pool
    BY DEF SyncFails
  <2>1. V \in SUBSET Versions /\ \A v \in V : Numbered(v)
    BY <1>0, <1>1
  <2>2. CASE pool' = pool  BY <2>2
  <2>3. CASE pool' = With(w, V) \/ pool' = Without(w, V)
    BY <1>0, <2>1, <2>3, PoolWritten
  <2> QED BY <2>2, <2>3
\* A user of the queue has no batch.
<1>3. /\ skewed \subseteq skewed'
      /\ UsersOf(spill) \subseteq UsersOf(spill') \cup skewed'
      /\ \A u : Named(u, dirty) => Named(u, dirty')
      /\ Named(w, dirty') \/ w \in UsersOf(spill') \/ w \in skewed'
      /\ UsersOf(sync[t].rest) \subseteq UsersOf(spill') \cup skewed'
  <2>1. /\ Remaining(sync[t]) \in Seq(Task) /\ spill \in Seq(Task)
        /\ UsersOf(Remaining(sync[t])) = {w} \cup UsersOf(sync[t].rest)
    BY <1>0, RemainingTyped DEF PoolTypes, ActivityTypes
  <2>2. CASE SpillGets(Remaining(sync[t])) /\ UNCHANGED dirty
    BY <2>1, <2>2, SpillKeeps
  <2>3. CASE skewed' = skewed \cup UsersOf(Remaining(sync[t])) /\ UNCHANGED <<dirty, spill>>
    BY <2>1, <2>3
  <2>4. CASE /\ sync[t].from = "queue" /\ dirty' = Append(dirty, w)
             /\ UNCHANGED <<spill, skewed>>
    <3>1. sync[t].rest = <<>>
      BY <2>4 DEF SyncsRight, SyncRight
    <3>2. dirty \in Seq(People)
      BY DEF PoolTypes, VersionTypes
    <3> QED BY <1>0, <2>4, <3>1, <3>2, UsersQueued, NoTasks
  <2> QED BY <2>2, <2>3, <2>4 DEF SyncFails
<1>4. \A r \in Syncs : sync'[r] = sync[r] \/ SyncRight(sync'[r])
  <2>1. SyncRight(Free)
    BY DEF SyncRight, Free
  <2> QED BY <1>0, <2>1 DEF PoolTypes, ActivityTypes, SyncGoes
<1>5. ASSUME NEW u \in People \ skewed', NEW v \in Live
      PROVE  \/ Agrees(v, u)' \/ Served(v, u)'
             \/ (u \in pool'[v] <=> u \in pool[v]) /\ (Served(v, u) => Served(v, u)')
  <2>1. CASE u = w
    BY <2>1, <1>3, ServedThen
  <2>2. CASE u # w
    <3>1. Serves(sync[t], v, u) => u \in UsersOf(spill')
      BY <1>3, <2>2 DEF Serves
    <3>2. Served(v, u) => Served(v, u)'
      BY <1>0, <1>3, <3>1, StillServed DEF PoolTypes
    <3> QED BY <1>2, <2>2, <3>2, LiveVersions
  <2> QED BY <2>1, <2>2
<1>6. made'.tasks >= made.tasks
  <2>1. made'.tasks = made.tasks
    BY DEF SyncFails, Mishap, PoolTypes, VersionTypes
  <2> QED BY <2>1, PartnerPoolAssumption DEF PoolTypes, VersionTypes
<1>7. \A u \in People : /\ profile'[u].ok = profile[u].ok
                        /\ profile'[u].changed >= profile[u].changed
                        /\ profile'[u].changed <= second
  BY <1>0, ProfileTyped DEF PoolTypes, VersionsRight
<1> QED BY <1>2, <1>3, <1>4, <1>5, <1>6, <1>7, <1>0, QuietStep DEF foldVars

LEMMA EditProfileKeeps ==
  ASSUME PoolInv, PoolTypes', NEW u \in People, EditProfile(u),
         UNCHANGED <<current, building, build, foldVars, second>>
  PROVE  PoolInv'
<1> USE DEF PoolInv
<1>1. PICK stamp \in Greater(0, second - ReplayWindow)..second :
         /\ profile' = [profile EXCEPT ![u] =
                         [profile[u] EXCEPT !.ok = ~profile[u].ok, !.changed = stamp]]
         /\ skewed' = IF IsRead(u) \/ IsBehind(stamp) THEN skewed \cup {u} ELSE skewed
  BY DEF EditProfile
<1>t. /\ second \in Nat /\ cursor.at \in Nat /\ fold.last \in Nat
      /\ \A row \in fold.rows : row.at \in Nat
      /\ made.tasks \in Nat /\ build.from \in Nat /\ ReplayWindow \in Nat
  BY PartnerPoolAssumption
     DEF PoolTypes, ActivityTypes, VersionTypes, FoldRecord, PoolRow, BuildRecord
<1>2. /\ UNCHANGED <<pool, spill, cursor, fold>> /\ skewed \subseteq skewed'
      /\ unfolded' = [unfolded EXCEPT ![u] = "changed"]
      /\ made'.tasks = made.tasks + 1
  <2>1. made' = [made EXCEPT !.tasks = @ + 1]
    BY DEF EditProfile, Act
  <2> QED BY <1>1, <2>1 DEF EditProfile, beatVars, foldVars, PoolTypes, VersionTypes
<1>3. /\ profile'[u].changed = stamp
      /\ \A p \in People : p # u => profile'[p] = profile[p] /\ unfolded'[p] = unfolded[p]
      /\ unfolded'[u] = "changed"
  <2> PICK r : r = [profile[u] EXCEPT !.ok = ~profile[u].ok, !.changed = stamp]
    OBVIOUS
  <2>1. r.changed = stamp
    BY ProfileTyped DEF PoolTypes, ProfileRecord
  <2>2. profile' = [profile EXCEPT ![u] = r]
    BY <1>1
  <2> QED BY <1>2, <2>1, <2>2 DEF PoolTypes, ActivityTypes, VersionTypes
<1>4. stamp \in Nat /\ stamp <= second /\ stamp >= Overlapped(second)
  BY <1>t, LaterOverlap DEF Greater
<1>5. Beyond(u)'
  <2>1. fold.last <= second /\ \A row \in fold.rows : row.at <= second
    BY DEF FoldRight, RowRight
  <2>2. ASSUME NEW i \in Nat, i <= second PROVE stamp >= Overlapped(i)
    <3>1. Overlapped(i) \in Nat /\ Overlapped(i) <= Overlapped(second)
          /\ Overlapped(second) \in Nat
      BY <1>t, <2>2, LaterOverlap
    <3> QED BY <1>4, <3>1
  <2>3. /\ stamp >= Overlapped(fold.last)
        /\ \A row \in fold.rows : stamp >= Overlapped(row.at)
    BY <1>t, <2>1, <2>2
  <2>4. cursor.whole => stamp >= cursor.at
    BY <1>t, <1>4, LaterOverlap DEF FoldRight
  <2> QED BY <1>2, <1>3, <2>3, <2>4 DEF Beyond, Overlapped
<1>6. u \notin skewed' => \A v : Folds(v, u)'
  <2>1. CASE fold.pc = "apply"
    BY <2>1, <1>2, <1>3, <1>5 DEF Folds
  <2>2. CASE fold.pc # "apply"
    <3>1. cursor.whole => stamp >= cursor.at
      BY <1>t, <1>4, LaterOverlap DEF FoldRight
    <3>2. u \notin skewed' /\ ~cursor.whole => stamp >= cursor.at
      BY <2>2, <1>1, <1>t, <1>4 DEF IsBehind
    <3> QED BY <2>2, <1>2, <1>3, <3>1, <3>2 DEF Folds, PoolTypes, VersionTypes
  <2> QED BY <2>1, <2>2
<1> DEFINE Kept ==
      /\ \A p \in People : \A v : p # u /\ Served(v, p) => Served(v, p)'
      /\ \A t \in Syncs :
           sync'[t] = sync[t] \/ (SyncRight(sync'[t]) /\ sync'[t].pc = "versions")
<1>7. Kept
  <2>1. \A p : Named(p, dirty) => Named(p, dirty')
    <3>1. dirty' = <<u>> \o dirty \/ dirty' = dirty
      BY DEF EditProfile
    <3>2. dirty \in Seq(People)
      BY DEF PoolTypes, VersionTypes
    <3>3. \A p : Named(p, <<u>> \o dirty) <=> Named(p, dirty) \/ p = u
      BY <3>2, UsersQueued
    <3>4. CASE dirty' = <<u>> \o dirty
      BY <3>3, <3>4
    <3> QED BY <3>1, <3>4
  <2>2. CASE UNCHANGED sync
    BY <2>1, <2>2, <1>2, OthersServed
  <2>3. ASSUME NEW t \in Syncs, SyncBegins(t, u, "enable", 0, "versions", <<>>)
        PROVE  Kept
    <3> PICK s : s = [Free EXCEPT !.pc = "versions", !.from = "enable", !.uid = u,
                                  !.at = 0, !.rest = <<>>]
      OBVIOUS
    <3>1. SyncGoes(t, s) /\ SyncAt(t, "free")
      BY <2>3 DEF SyncBegins
    <3>2. SyncRight(s) /\ s.pc = "versions"
      BY NoTasks DEF SyncRight, Free
    <3>3. \A r \in Syncs :
             sync'[r] = sync[r] \/ (SyncRight(sync'[r]) /\ sync'[r].pc = "versions")
      BY <3>1, <3>2 DEF PoolTypes, ActivityTypes, SyncGoes
    <3>4. \A p, v : Served(v, p) => Served(v, p)'
      BY <2>1, <3>1, <1>2, IdleServes, StillServed DEF PoolTypes
    <3> QED BY <3>3, <3>4
  <2> QED BY <2>2, <2>3 DEF EditProfile
<1>8. Covered'
  <2>1. ASSUME NEW v \in Live, u \notin skewed' PROVE Changes(v, u)
    <3>1. Waits(v, u)'
      BY <1>6, <2>1 DEF Waits
    <3>2. Recent(u)'
      BY <1>2, <1>3, <1>t, <1>4, LaterOverlap DEF Recent, VersionsRight, Greater
    <3>3. build.pc = "catchUp" => \A row \in build.rows : row.uid # u
      BY <1>1, <2>1 DEF IsRead
    <3> QED BY <3>1, <3>2, <3>3 DEF Changes
  <2>2. ASSUME NEW p \in People \ skewed', NEW v \in Live, p # u PROVE Steady(v, p)
    <3>1. Folds(v, p) => Folds(v, p)'
      BY <2>2, <1>2, <1>3, FoldsStay, ProfileTyped DEF PoolTypes
    <3>2. Waits(v, p) => Waits(v, p)'
      BY <2>2, <3>1, <1>7 DEF Waits
    <3> QED BY <2>2, <3>2, <1>2, <1>3, ProfileTyped DEF Steady, PoolTypes
  <2> QED BY <2>1, <2>2, <1>2, SteadyCovers
<1>9. FoldRight'
  BY <1>2, <1>3, <1>5, <1>t, FoldStays, ProfileTyped DEF PoolTypes
<1>10. \A v \in Nat : Numbered(v) => Numbered(v)'
  BY <1>2, <1>t DEF Numbered
<1>11. SyncsRight'
  <2> SUFFICES ASSUME NEW t \in Syncs PROVE SyncRight(sync[t])'
    BY DEF SyncsRight
  <2> PICK s : s = sync'[t]
    OBVIOUS
  <2>1. SyncRight(s)
    BY <1>7 DEF SyncsRight
  <2>2. s.versions \subseteq Nat /\ (s.pc # "free" => s.uid \in People)
    <3>1. sync'[t] \in SyncRecord
      BY DEF PoolTypes, ActivityTypes, SyncRecord, Versions
    <3>2. Versions \subseteq Nat
      BY PartnerPoolAssumption DEF Versions
    <3> QED BY <3>1, <3>2 DEF SyncRecord, PoolTypes, ActivityTypes, SyncAt
  <2>3. s.pc \in {"remove", "add"} => s.uid \in skewed' \/ s.ok = profile'[s.uid].ok
    <3>1. CASE s.uid # u
      BY <2>1, <2>2, <3>1, <1>2, <1>3 DEF SyncRight
    <3>2. CASE s.uid = u /\ s.pc \in {"remove", "add"} /\ s = sync[t]
      BY <3>2, <1>1 DEF IsRead
    <3>3. CASE s # sync[t]
      BY <3>3, <1>7
    <3> QED BY <3>1, <3>2, <3>3
  <2>4. SyncRight(s)'
    BY <1>10, <2>1, <2>2, <2>3 DEF SyncRight
  <2> QED BY <2>4 DEF SyncRight, Numbered
<1>12. VersionsRight'
  <2>1. /\ current \in Nat /\ building \in Nat /\ Versions \subseteq Nat
        /\ fold.versions \subseteq Nat
    <3>1. Versions \subseteq Nat
      BY PartnerPoolAssumption DEF Versions
    <3>2. /\ current \in Versions /\ building \in Versions \cup {0}
          /\ fold.versions \subseteq Versions
      BY DEF PoolTypes, VersionTypes, FoldRecord
    <3>3. current \in Nat
      BY <3>1, <3>2
    <3>4. building \in Nat
      BY <3>1, <3>2
    <3> QED BY <3>1, <3>2, <3>3, <3>4
  <2>2. Numbered(current)' /\ Numbered(building)'
    BY <1>2, <1>t, <2>1 DEF VersionsRight, Numbered
  <2>3. \A v \in Versions : pool'[v] # {} => Numbered(v)'
    BY <1>2, <1>10, <2>1 DEF VersionsRight
  <2>4. \A v \in fold'.versions : Numbered(v)'
    BY <1>2, <1>10, <2>1 DEF VersionsRight
  <2>5. \A p \in People : profile'[p].changed <= second
    BY <1>3, <1>4, ProfileTyped DEF VersionsRight
  <2>6. Versions' = Versions
    BY DEF Versions
  <2> QED BY <2>2, <2>3, <2>4, <2>5, <2>6 DEF VersionsRight
<1> QED BY <1>8, <1>9, <1>11, <1>12

LEMMA SyncingKeeps ==
  ASSUME PoolInv, PoolTypes', Syncing
  PROVE  PoolInv'
<1>1. UNCHANGED <<current, building, build, foldVars, second>>
  BY DEF Syncing
<1>2. ASSUME NEW u \in People, EditProfile(u) \/ Heartbeat(u) \/ GuardEnds(u)
      PROVE  PoolInv'
  BY <1>1, <1>2, EditProfileKeeps, HeartbeatKeeps
<1>3. ASSUME NEW t \in Syncs,
             \/ ReadCurrent(t) \/ ReadBuilding(t) \/ PoolProfile(t) \/ RemoveUser(t)
             \/ AddProfileToVersion(t)
      PROVE  PoolInv'
  BY <1>1, <1>3, ReadCurrentKeeps, ReadBuildingKeeps, PoolProfileKeeps,
     RemoveUserKeeps, AddProfileKeeps
<1>4. ASSUME NEW t \in Syncs,
             SyncFails(t) \/ PopDirty(t) \/ TakeWrite(t) \/ DrainSpill(t) \/ TouchActive(t)
      PROVE  PoolInv'
  BY <1>1, <1>4, SyncFailsKeeps, PopDirtyKeeps, TakeWriteKeeps, DrainSpillKeeps,
     TouchActiveKeeps
<1> QED BY <1>2, <1>3, <1>4 DEF Syncing

-----------------------------------------------------------------------------
(***************************************************************************)
(* The steps of the fold                                                   *)
(***************************************************************************)
\* Numbers only grow, and what the goroutines have read is left alone.
LEMMA NumbersKept ==
  ASSUME PoolInv, PoolTypes', UNCHANGED <<profile, sync>>,
         skewed \subseteq skewed', made'.tasks >= made.tasks
  PROVE  /\ SyncsRight'
         /\ \A v \in Nat : Numbered(v) => Numbered(v)'
         /\ Versions \subseteq Nat /\ current \in Nat /\ building \in Nat
         /\ fold.versions \subseteq Nat
<1> USE DEF PoolInv
<1>1. made.tasks \in Nat /\ made'.tasks \in Nat
  BY PartnerPoolAssumption DEF PoolTypes, VersionTypes
<1>2. \A v \in Nat : Numbered(v) => Numbered(v)'
  BY <1>1 DEF Numbered
<1>3. Versions \subseteq Nat
  BY PartnerPoolAssumption DEF Versions
<1>4. /\ current \in Versions /\ building \in Versions \cup {0}
      /\ fold.versions \subseteq Versions
  BY DEF PoolTypes, VersionTypes, FoldRecord
<1>5. current \in Nat /\ fold.versions \subseteq Nat
  BY <1>3, <1>4
<1>6. building \in Nat
  BY <1>3, <1>4
<1>7. SyncsRight'
  <2> SUFFICES ASSUME NEW t \in Syncs PROVE SyncRight(sync[t])'
    BY DEF SyncsRight
  <2> PICK s : s = sync[t]
    OBVIOUS
  <2>1. SyncRight(s) /\ s.versions \subseteq Versions
    BY DEF SyncsRight, PoolTypes, ActivityTypes, SyncRecord
  <2>2. SyncRight(s)'
    BY <1>2, <1>3, <2>1 DEF SyncRight
  <2> QED BY <2>2 DEF SyncRight, Numbered
<1> QED BY <1>2, <1>3, <1>5, <1>6, <1>7

LEMMA FoldStep ==
  ASSUME PoolInv, PoolTypes',
         UNCHANGED <<profile, current, building, build, dirty, spill, sync, second>>,
         skewed \subseteq skewed', made'.tasks >= made.tasks, FoldRight',
         \A v \in fold'.versions : v \in fold.versions \/ Numbered(v),
         \A v \in Versions : pool'[v] # {} => pool[v] # {} \/ Numbered(v),
         \A u \in People \ skewed' : \A v \in Live :
           \/ Agrees(v, u)' \/ Folds(v, u)'
           \/ (u \in pool'[v] <=> u \in pool[v]) /\ (Folds(v, u) => Folds(v, u)')
  PROVE  PoolInv'
<1> USE DEF PoolInv
<1>1. /\ SyncsRight'
      /\ \A v \in Nat : Numbered(v) => Numbered(v)'
      /\ Versions \subseteq Nat /\ current \in Nat /\ building \in Nat
      /\ fold'.versions \subseteq Nat
  <2>1. fold'.versions \subseteq Versions
    BY DEF PoolTypes, VersionTypes, FoldRecord, Versions
  <2> QED BY <2>1, NumbersKept
<1>2. VersionsRight'
  <2>1. Numbered(current)' /\ Numbered(building)'
    <3>1. current' = current /\ building' = building
      OBVIOUS
    <3>2. Numbered(current) /\ Numbered(building)
      BY DEF VersionsRight
    <3> QED BY <1>1, <3>1, <3>2 DEF Numbered
  <2>2. \A v \in Versions : pool'[v] # {} => Numbered(v)'
    BY <1>1 DEF VersionsRight
  <2>3. \A v \in fold'.versions : Numbered(v)'
    BY <1>1 DEF VersionsRight
  <2>4. Versions' = Versions
    BY DEF Versions
  <2> QED BY <2>1, <2>2, <2>3, <2>4 DEF VersionsRight
<1>3. Covered'
  <2> SUFFICES ASSUME NEW u \in People \ skewed', NEW v \in Live PROVE Steady(v, u)
    BY SteadyCovers
  <2>1. Served(v, u) => Served(v, u)'
    BY OthersServed
  <2>2. profile'[u].ok = profile[u].ok /\ profile'[u].changed >= profile[u].changed
    BY ProfileTyped DEF PoolTypes
  <2>3. Folds(v, u)' => Waits(v, u)'
    BY DEF Waits
  <2> QED BY <2>1, <2>2, <2>3 DEF Steady, Waits
<1> QED BY <1>1, <1>2, <1>3

LEMMA FoldStartKeeps ==
  ASSUME PoolInv, PoolTypes', FoldStart \/ FoldVersions,
         UNCHANGED <<profile, current, building, build, dirty, beatVars, sync, second>>
  PROVE  PoolInv'
<1> USE DEF PoolInv
<1>1. /\ fold.pc \in {"none", "building"} /\ fold'.pc \in {"building", "read"}
      /\ fold'.rows = fold.rows /\ fold'.last = fold.last
      /\ fold'.versions \subseteq fold.versions \cup Live
      /\ fold.pc = "building" => unfolded' = unfolded
  <2>1. CASE FoldStart
    BY <2>1 DEF FoldStart, NoFold, Live, PoolTypes, VersionTypes, Versions
  <2>2. CASE FoldVersions
    BY <2>2 DEF FoldVersions, Live, PoolTypes, VersionTypes, FoldRecord
  <2> QED BY <2>1, <2>2
<1>2. UNCHANGED <<pool, cursor, skewed, made, spill>>
  BY DEF FoldStart, FoldVersions, beatVars
<1>3. FoldRight'
  <2>1. fold'.rows = {}
    BY <1>1 DEF FoldRight
  <2> QED BY <1>1, <1>2, <2>1 DEF FoldRight, Overlapped
<1>4. \A u \in People : \A v : Folds(v, u) => Folds(v, u)'
  <2>1. \A u \in People : unfolded[u] # "no" => unfolded'[u] # "no"
    BY DEF FoldStart, FoldVersions, Turned
  <2> QED BY <1>1, <1>2, <2>1 DEF Folds
<1>5. \A v \in fold'.versions : v \in fold.versions \/ Numbered(v)
  BY <1>1 DEF VersionsRight, Live
<1>6. made'.tasks >= made.tasks
  BY <1>2, PartnerPoolAssumption DEF PoolTypes, VersionTypes
<1> QED BY <1>2, <1>3, <1>4, <1>5, <1>6, FoldStep

LEMMA FoldReadKeeps ==
  ASSUME PoolInv, PoolTypes', FoldRead,
         UNCHANGED <<profile, current, building, build, dirty, beatVars, sync, second>>
  PROVE  PoolInv'
<1> USE DEF PoolInv
<1>1. /\ fold.pc = "read" /\ fold'.pc = "apply" /\ fold'.rows = Rows(cursor.at)
      /\ fold'.last = cursor.at /\ fold'.versions = fold.versions
  BY DEF FoldRead, PoolTypes, VersionTypes, FoldRecord
<1>2. UNCHANGED <<pool, cursor, unfolded, made, spill>> /\ skewed \subseteq skewed'
  BY DEF FoldRead, beatVars
<1>t. /\ cursor.at \in Nat /\ second \in Nat
      /\ \A u \in People : profile[u].changed \in Nat
  BY ProfileTyped DEF PoolTypes, VersionTypes, ActivityTypes
<1>3. FoldRight'
  <2>1. ASSUME NEW row \in fold'.rows PROVE RowRight(row)'
    <3> PICK u \in People : /\ profile[u].changed >= cursor.at
                            /\ row = [uid |-> u, ok |-> profile[u].ok,
                                      at |-> profile[u].changed]
      BY <1>1, <2>1 DEF Rows
    <3>1. row.uid = u /\ row.ok = profile[u].ok /\ row.at = profile[u].changed
      OBVIOUS
    <3> QED BY <1>1, <1>t, <3>1 DEF RowRight, VersionsRight
  <2> QED BY <1>1, <1>2, <1>t, <2>1 DEF FoldRight, Overlapped
<1>4. ASSUME NEW u \in People \ skewed', NEW v \in Live, Folds(v, u) PROVE Folds(v, u)'
  <2>1. unfolded[u] # "no" /\ profile[u].changed >= cursor.at
    BY <1>1, <1>4 DEF Folds
  <2>2. v \in fold.versions
    BY <2>1 DEF FoldRead, Live
  <2> PICK row : row = [uid |-> u, ok |-> profile[u].ok, at |-> profile[u].changed]
    OBVIOUS
  <2>3. row \in fold'.rows
    BY <1>1, <2>1 DEF Rows
  <2>4. row.uid = u /\ row.ok = profile'[u].ok /\ profile'[u].changed >= row.at
    BY <1>t
  <2> QED BY <1>1, <1>2, <2>1, <2>2, <2>3, <2>4 DEF Folds
<1>6. made'.tasks >= made.tasks
  BY <1>2, PartnerPoolAssumption DEF PoolTypes, VersionTypes
<1> QED BY <1>1, <1>2, <1>3, <1>4, <1>6, FoldStep

LEMMA FoldApplyKeeps ==
  ASSUME PoolInv, PoolTypes', FoldApply,
         UNCHANGED <<profile, current, building, build, dirty, beatVars, sync, second>>
  PROVE  PoolInv'
<1> USE DEF PoolInv
<1>1. PICK row \in fold.rows :
         /\ \A other \in fold.rows : row.at <= other.at
         /\ pool' = Applied(fold.versions, row)
         /\ fold' = [fold EXCEPT !.rows = @ \ {row}, !.last = row.at]
         /\ cursor' = [at |-> row.at, whole |-> FALSE]
  BY DEF FoldApply
<1>2. /\ fold.pc = "apply" /\ fold'.pc = "apply" /\ fold'.rows = fold.rows \ {row}
      /\ fold'.last = row.at /\ fold'.versions = fold.versions
      /\ cursor'.at = row.at /\ cursor'.whole = FALSE
      /\ UNCHANGED <<unfolded, skewed, made, spill>>
  BY <1>1 DEF FoldApply, PoolTypes, VersionTypes, FoldRecord, beatVars
<1>t. /\ second \in Nat /\ \A u \in People : profile[u].changed \in Nat
      /\ \A r \in fold.rows : r.at \in Nat /\ r.uid \in People
      /\ row.ok \in BOOLEAN /\ fold.versions \in SUBSET Versions
  BY ProfileTyped
     DEF PoolTypes, VersionTypes, ActivityTypes, FoldRecord, PoolRow
<1>3. \A u \in People : Beyond(u) => Beyond(u)'
  BY <1>1, <1>2 DEF Beyond, Overlapped
<1>4. \A r \in fold.rows : RowRight(r)
  BY DEF FoldRight
<1>5. FoldRight'
  <2>1. ASSUME NEW r \in fold'.rows PROVE RowRight(r)'
    <3>1. r \in fold.rows /\ r.at >= row.at /\ r.at <= second
      BY <1>1, <1>2, <1>4, <1>t DEF RowRight
    <3>2. \/ r.uid \in skewed
          \/ r.ok = profile[r.uid].ok /\ profile[r.uid].changed >= r.at
          \/ unfolded[r.uid] = "changed" /\ Beyond(r.uid)'
      BY <1>3, <1>4, <1>t, <3>1 DEF RowRight
    <3> QED BY <1>2, <3>1, <3>2 DEF RowRight, Beyond
  <2>2. row.at <= second
    BY <1>4 DEF RowRight
  <2> QED BY <1>2, <2>1, <2>2 DEF FoldRight
<1> PICK w : w = row.uid
  OBVIOUS
<1>6. /\ \A v \in Versions : pool'[v] # {} => pool[v] # {} \/ Numbered(v)
      /\ \A u \in People : \A v \in Versions :
              u # w \/ v \notin fold.versions => (u \in pool'[v] <=> u \in pool[v])
      /\ \A v \in fold.versions : w \in pool'[v] <=> row.ok
  <2>1. row \in PoolRow /\ \A v \in fold.versions : Numbered(v)
    BY DEF PoolTypes, VersionTypes, FoldRecord, VersionsRight
  <2> QED BY <1>1, <1>t, <2>1, RowApplied
<1>7. ASSUME NEW u \in People \ skewed', NEW v \in Live
      PROVE  \/ Agrees(v, u)' \/ Folds(v, u)'
             \/ (u \in pool'[v] <=> u \in pool[v]) /\ (Folds(v, u) => Folds(v, u)')
  <2>0. v \in Versions
    BY LiveVersions
  <2>1. unfolded[u] = "changed" /\ Beyond(u) => Folds(v, u)'
    BY <1>2, <1>3 DEF Folds
  <2>2. ASSUME u # w \/ v \notin fold.versions
        PROVE  (u \in pool'[v] <=> u \in pool[v]) /\ (Folds(v, u) => Folds(v, u)')
    <3>1. u \in pool'[v] <=> u \in pool[v]
      BY <1>6, <2>0, <2>2
    <3>2. ASSUME unfolded[u] # "no", v \in fold.versions,
                 NEW r \in fold.rows, r.uid = u, r.ok = profile[u].ok,
                 profile[u].changed >= r.at
          PROVE  Folds(v, u)'
      <4>1. r \in fold'.rows
        BY <1>2, <2>2, <3>2
      <4> QED BY <1>2, <3>2, <4>1 DEF Folds
    <3>3. Folds(v, u) => Folds(v, u)'
      BY <1>2, <2>1, <3>2 DEF Folds
    <3> QED BY <3>1, <3>3
  <2>3. CASE u = w /\ v \in fold.versions
    <3>1. \/ row.ok = profile'[u].ok
          \/ unfolded[u] = "changed" /\ Beyond(u)
      BY <1>2, <1>4, <2>3 DEF RowRight
    <3>2. row.ok = profile'[u].ok => Agrees(v, u)'
      BY <1>6, <2>3 DEF Agrees
    <3> QED BY <2>1, <3>1, <3>2
  <2> QED BY <2>2, <2>3
<1>8. made'.tasks >= made.tasks
  BY <1>2, PartnerPoolAssumption DEF PoolTypes, VersionTypes
<1> QED BY <1>2, <1>5, <1>6, <1>7, <1>8, FoldStep

LEMMA FoldEndKeeps ==
  ASSUME PoolInv, PoolTypes', FoldEnd,
         UNCHANGED <<profile, current, building, build, dirty, beatVars, sync, second>>
  PROVE  PoolInv'
<1> USE DEF PoolInv
<1>1. /\ fold.pc = "apply" /\ fold.rows = {} /\ fold' = NoFold
      /\ fold'.pc = "none" /\ fold'.rows = {} /\ fold'.last = 0 /\ fold'.versions = {}
      /\ cursor'.at = Overlapped(fold.last) /\ cursor'.whole = TRUE
      /\ unfolded' = Turned("begun", "no")
      /\ UNCHANGED <<pool, skewed, made, spill>>
  BY DEF FoldEnd, NoFold, beatVars
<1>t. second \in Nat /\ fold.last \in Nat
  BY DEF PoolTypes, VersionTypes, ActivityTypes, FoldRecord
<1>2. /\ Overlapped(fold.last) <= second
      /\ Overlapped(fold.last) <= Overlapped(second)
  <2>1. fold.last <= second
    BY DEF FoldRight
  <2>2. /\ Overlapped(fold.last) \in Nat /\ Overlapped(fold.last) <= fold.last
        /\ Overlapped(fold.last) <= Overlapped(second)
    BY <1>t, <2>1, LaterOverlap
  <2> QED BY <1>t, <2>1, <2>2
<1>3. \A u \in People : unfolded'[u] # "begun"
  BY <1>1 DEF Turned
<1>4. FoldRight'
  <2>1. Overlapped(second)' = Overlapped(second)
    BY DEF Overlapped
  <2>2. 0 <= second
    BY <1>t
  <2> QED BY <1>1, <1>2, <1>3, <2>1, <2>2 DEF FoldRight
<1>5. ASSUME NEW u \in People, NEW v, Folds(v, u) PROVE Folds(v, u)'
  <2>1. unfolded[u] = "changed" /\ Beyond(u)
    BY <1>1, <1>5 DEF Folds
  <2>2. unfolded'[u] = "changed"
    BY <1>1, <2>1 DEF Turned
  <2>3. profile'[u].changed >= cursor'.at
    BY <1>1, <2>1 DEF Beyond
  <2> QED BY <1>1, <2>2, <2>3 DEF Folds
<1>6. made'.tasks >= made.tasks
  BY <1>1, PartnerPoolAssumption DEF PoolTypes, VersionTypes
<1> QED BY <1>1, <1>4, <1>5, <1>6, FoldStep

\* A pass breaks off: only a change behind the row it has come to is lost.
LEMMA FoldBreaksOff ==
  ASSUME PoolInv, PoolTypes', fold' = NoFold, unfolded' = Turned("begun", "changed"),
         UNCHANGED <<profile, cursor, second>>, skewed \cup Overtaken \subseteq skewed'
  PROVE  /\ FoldRight'
         /\ \A u \in People \ skewed' : \A v : Folds(v, u) => Folds(v, u)'
<1> USE DEF PoolInv
<1>t. /\ second \in Nat /\ cursor.at \in Nat /\ cursor.whole \in BOOLEAN
      /\ \A u \in People : profile[u].changed \in Nat
      /\ \A r \in fold.rows : r.at \in Nat
  BY ProfileTyped
     DEF PoolTypes, VersionTypes, ActivityTypes, FoldRecord, PoolRow
<1>1. fold'.pc = "none" /\ fold'.rows = {} /\ fold'.last = 0
  BY DEF NoFold
<1>2. \A u \in People : unfolded'[u] # "begun"
  BY DEF Turned
<1>3. FoldRight'
  <2>1. Overlapped(second)' = Overlapped(second)
    BY DEF Overlapped
  <2>2. 0 <= second
    BY <1>t
  <2> QED BY <1>1, <1>2, <2>1, <2>2 DEF FoldRight
<1>4. ASSUME NEW u \in People \ skewed', NEW v, Folds(v, u) PROVE Folds(v, u)'
  <2>1. unfolded[u] # "no" /\ unfolded'[u] # "no"
    BY <1>4 DEF Folds, Turned
  <2>2. profile[u].changed >= cursor.at
    <3>1. CASE fold.pc = "apply" /\ unfolded[u] = "changed" /\ Beyond(u)
      <4>1. CASE cursor.whole
        BY <3>1, <4>1 DEF Beyond
      <4>2. CASE ~cursor.whole
        <5>1. u \notin Overtaken
          OBVIOUS
        <5>2. ~(profile[u].changed <= cursor.at)
          BY <3>1, <4>2, <5>1 DEF Overtaken
        <5> QED BY <1>t, <5>2
      <4> QED BY <4>1, <4>2
    <3>2. ASSUME fold.pc = "apply", NEW r \in fold.rows, profile[u].changed >= r.at
          PROVE  profile[u].changed >= cursor.at
      <4>1. r.at >= cursor.at
        BY <3>2 DEF FoldRight, RowRight
      <4> QED BY <1>t, <3>2, <4>1
    <3> QED BY <1>4, <3>1, <3>2 DEF Folds
  <2> QED BY <1>1, <2>1, <2>2 DEF Folds
<1> QED BY <1>3, <1>4

LEMMA FoldFailsKeeps ==
  ASSUME PoolInv, PoolTypes', FoldFails,
         UNCHANGED <<profile, current, building, build, dirty, beatVars, sync, second>>
  PROVE  PoolInv'
<1>1. /\ fold' = NoFold /\ unfolded' = Turned("begun", "changed")
      /\ UNCHANGED <<cursor, pool, spill>> /\ skewed \cup Overtaken \subseteq skewed'
  BY DEF FoldFails, beatVars
<1>2. /\ FoldRight'
      /\ \A u \in People \ skewed' : \A v : Folds(v, u) => Folds(v, u)'
  BY <1>1, FoldBreaksOff
<1>3. made'.tasks >= made.tasks
  <2>1. made'.tasks = made.tasks
    BY DEF FoldFails, Mishap, PoolInv, PoolTypes, VersionTypes
  <2> QED BY <2>1, PartnerPoolAssumption DEF PoolInv, PoolTypes, VersionTypes
<1>4. fold'.versions = {}
  BY <1>1 DEF NoFold
<1> QED BY <1>1, <1>2, <1>3, <1>4, FoldStep

LEMMA FoldingKeeps ==
  ASSUME PoolInv, PoolTypes', Folding
  PROVE  PoolInv'
  BY FoldStartKeeps, FoldReadKeeps, FoldApplyKeeps, FoldEndKeeps, FoldFailsKeeps
     DEF Folding

-----------------------------------------------------------------------------
(***************************************************************************)
(* The steps of the build                                                  *)
(***************************************************************************)
LEMMA WaitsOn ==
  ASSUME UNCHANGED <<profile, dirty, foldVars, beatVars, sync, unfolded>>,
         NEW v, NEW u
  PROVE  Waits(v, u)' <=> Waits(v, u)
<1>1. Served(v, u)' <=> Served(v, u)
  BY ServedThen DEF beatVars, Served
<1>2. Folds(v, u)' <=> Folds(v, u)
  BY DEF foldVars, Folds, Beyond, Overlapped
<1> QED BY <1>1, <1>2 DEF Waits

LEMMA BuildStep ==
  ASSUME PoolInv, PoolTypes',
         UNCHANGED <<profile, dirty, foldVars, beatVars, sync, second, unfolded, skewed>>,
         made'.tasks >= made.tasks, building' # current', build'.from <= second,
         Numbered(current)', Numbered(building)',
         \A v \in Versions : pool'[v] # {} => pool[v] # {} \/ Numbered(v),
         NEW c, c = current', NEW b, b = building',
         \A u \in People \ skewed :
           /\ Agrees(c, u)' \/ Waits(c, u)
           /\ build'.pc \in {"scan", "fill"} =>
                (u \in pool'[b] => profile[u].ok \/ Recent(u)' \/ Waits(b, u))
           /\ build'.pc = "fill" => (u \in build'.rows <=> profile[u].ok) \/ Recent(u)'
           /\ build'.pc = "replay" => Agrees(b, u)' \/ Recent(u)' \/ Waits(b, u)
           /\ build'.pc = "catchUp" =>
                /\ \/ Agrees(b, u)' \/ Waits(b, u)
                   \/ \E row \in build'.rows : row.uid = u
                /\ \A row \in build'.rows : row.uid = u => row.ok = profile[u].ok
  PROVE  PoolInv'
<1> USE DEF PoolInv
<1>0. UNCHANGED <<fold, cursor, spill>>
  BY DEF foldVars, beatVars
<1>1. FoldRight'
  BY <1>0, FoldStays, ProfileTyped DEF PoolTypes, ActivityTypes
<1>2. /\ SyncsRight'
      /\ \A v \in Nat : Numbered(v) => Numbered(v)'
      /\ Versions \subseteq Nat /\ fold.versions \subseteq Nat
  BY NumbersKept
<1>3. VersionsRight'
  <2>1. \A v \in Versions : pool'[v] # {} => Numbered(v)'
    BY <1>2 DEF VersionsRight
  <2>2. \A v \in fold'.versions : Numbered(v)'
    BY <1>0, <1>2 DEF VersionsRight
  <2>3. Versions' = Versions
    BY DEF Versions
  <2>4. \A u \in People : profile'[u].changed <= second'
    BY DEF VersionsRight
  <2> QED BY <2>1, <2>2, <2>3, <2>4 DEF VersionsRight
<1>4. Covered'
  <2> SUFFICES ASSUME NEW u \in People \ skewed
               PROVE  /\ Agrees(current, u)' \/ Waits(current, u)'
                      /\ BuildCovers(u)'
    BY DEF Covered
  <2>1. /\ Waits(current, u)' <=> Waits(c, u)
        /\ Waits(building, u)' <=> Waits(b, u)
    <3>1. (Waits(c, u)' <=> Waits(c, u)) /\ (Waits(b, u)' <=> Waits(b, u))
      BY WaitsOn
    <3>2. (Waits(current, u)' <=> Waits(c, u)') /\ (Waits(building, u)' <=> Waits(b, u)')
      BY DEF Waits, Served, Folds
    <3> QED BY <3>1, <3>2
  <2>2. (Agrees(current, u)' <=> Agrees(c, u)') /\ (Agrees(building, u)' <=> Agrees(b, u)')
    BY DEF Agrees
  <2> QED BY <2>1, <2>2 DEF BuildCovers
<1> QED BY <1>1, <1>2, <1>3, <1>4

LEMMA CurrentCovered ==
  ASSUME PoolInv, NEW u \in People \ skewed
  PROVE  /\ Agrees(current, u) \/ Waits(current, u)
         /\ BuildCovers(u)
  BY DEF PoolInv, Covered

LEMMA BuildNumbers ==
  ASSUME PoolInv, PoolTypes'
  PROVE  /\ made.tasks \in Nat /\ made'.tasks \in Nat /\ second \in Nat
         /\ current \in Nat /\ building \in Nat
<1>1. made.tasks \in Nat /\ made'.tasks \in Nat
  BY PartnerPoolAssumption DEF PoolInv, PoolTypes, VersionTypes
<1>2. Versions \subseteq Nat
  BY PartnerPoolAssumption DEF Versions
<1>3. /\ current \in Versions /\ building \in Versions \cup {0}
      /\ second \in Nat
  BY DEF PoolInv, PoolTypes, VersionTypes, ActivityTypes
<1>4. current \in Nat
  BY <1>2, <1>3
<1>5. building \in Nat
  BY <1>2, <1>3
<1> QED BY <1>1, <1>3, <1>4, <1>5

LEMMA BuildStartKeeps ==
  ASSUME PoolInv, PoolTypes', BuildStart,
         UNCHANGED <<profile, dirty, foldVars, beatVars, sync, second, unfolded, skewed>>
  PROVE  PoolInv'
<1> USE DEF PoolInv
<1>1. /\ building' = made.tasks + 2 /\ UNCHANGED <<pool, current>>
      /\ build'.pc = "scan" /\ build'.from = second
      /\ made'.tasks = made.tasks + 1
  BY DEF BuildStart, NoBuild, Act, PoolTypes, VersionTypes
<1>2. /\ made'.tasks >= made.tasks /\ building' # current' /\ build'.from <= second
      /\ Numbered(current)' /\ Numbered(building)'
  BY <1>1, BuildNumbers DEF VersionsRight, Numbered
<1>3. \A u : u \notin pool'[building']
  <2>1. ~Numbered(building') /\ building' \in Versions
    BY <1>1, BuildNumbers DEF Numbered, PoolTypes, VersionTypes, NoBuild, Versions
  <2> QED BY <1>1, <2>1 DEF VersionsRight
<1> PICK c, b : c = current' /\ b = building'
  OBVIOUS
<1>4. \A u : (Agrees(c, u)' <=> Agrees(current, u)) /\ (Waits(c, u) <=> Waits(current, u))
  BY <1>1 DEF Agrees
<1> QED BY <1>1, <1>2, <1>3, <1>4, CurrentCovered, BuildStep

LEMMA BuildReadKeeps ==
  ASSUME PoolInv, PoolTypes', BuildScan \/ BuildReplay,
         UNCHANGED <<profile, dirty, foldVars, beatVars, sync, second, unfolded, skewed>>
  PROVE  PoolInv'
<1> USE DEF PoolInv
<1>1. /\ UNCHANGED <<pool, current, building, made>> /\ build'.from = build.from
  BY DEF BuildScan, BuildReplay, PoolTypes, VersionTypes, BuildRecord
<1>2. /\ made'.tasks >= made.tasks /\ building' # current' /\ build'.from <= second
      /\ Numbered(current)' /\ Numbered(building)'
  BY <1>1, BuildNumbers DEF VersionsRight, Numbered
<1> PICK c, b : c = current' /\ b = building'
  OBVIOUS
<1>4. \A u : /\ Agrees(c, u)' <=> Agrees(current, u)
             /\ Agrees(b, u)' <=> Agrees(building, u)
             /\ Waits(c, u) <=> Waits(current, u)
             /\ Waits(b, u) <=> Waits(building, u)
             /\ Recent(u)' <=> Recent(u)
  BY <1>1 DEF Agrees, Recent
<1>5. CASE BuildScan
  <2>1. /\ build.pc = "scan" /\ build'.pc = "fill"
        /\ build'.rows = {u \in People : profile[u].ok}
    BY <1>5 DEF BuildScan, PoolTypes, VersionTypes, BuildRecord
  <2> QED BY <1>1, <1>2, <1>4, <2>1, CurrentCovered, BuildStep DEF BuildCovers
<1>6. CASE BuildReplay
  <2>1. /\ build.pc = "replay" /\ build'.pc = "catchUp"
        /\ build'.rows = Rows(build.from - ReplayWindow)
    BY <1>6 DEF BuildReplay, Replay, PoolTypes, VersionTypes, BuildRecord
  <2>2. \A row \in build'.rows : row.ok = profile[row.uid].ok
    BY <2>1 DEF Rows
  <2>3. ASSUME NEW u \in People, Recent(u) PROVE \E row \in build'.rows : row.uid = u
    <3> PICK row : row = [uid |-> u, ok |-> profile[u].ok, at |-> profile[u].changed]
      OBVIOUS
    <3>1. row \in build'.rows /\ row.uid = u
      BY <2>1, <2>3 DEF Rows, Recent
    <3> QED BY <3>1
  <2> QED BY <1>1, <1>2, <1>4, <2>1, <2>2, <2>3, CurrentCovered, BuildStep DEF BuildCovers
<1> QED BY <1>5, <1>6

LEMMA BuildFillKeeps ==
  ASSUME PoolInv, PoolTypes', BuildFill,
         UNCHANGED <<profile, dirty, foldVars, beatVars, sync, second, unfolded, skewed>>
  PROVE  PoolInv'
<1> USE DEF PoolInv
<1>1. /\ UNCHANGED <<current, building, made>> /\ build'.from = build.from
      /\ build.pc = "fill" /\ build'.pc = "replay"
      /\ building \in Versions /\ current \in Versions
      /\ pool' = [pool EXCEPT ![building] = pool[building] \cup build.rows]
  BY DEF BuildFill, PoolTypes, VersionTypes, BuildRecord, NoBuild
<1>2. /\ made'.tasks >= made.tasks /\ building' # current' /\ build'.from <= second
      /\ Numbered(current)' /\ Numbered(building)'
  BY <1>1, BuildNumbers DEF VersionsRight, Numbered
<1> PICK c, b : c = current' /\ b = building'
  OBVIOUS
<1>3. /\ pool'[c] = pool[current] /\ pool'[b] = pool[building] \cup build.rows
      /\ \A v \in Versions : pool'[v] # {} => pool[v] # {} \/ Numbered(v)
  BY <1>1 DEF VersionsRight, PoolTypes, VersionTypes
<1>4. \A u : /\ Agrees(c, u)' <=> Agrees(current, u)
             /\ Agrees(b, u)' <=> (u \in pool[building] \cup build.rows <=> profile[u].ok)
             /\ Waits(c, u) <=> Waits(current, u)
             /\ Waits(b, u) <=> Waits(building, u)
             /\ Recent(u)' <=> Recent(u)
  BY <1>1, <1>3 DEF Agrees, Recent
<1>5. \A u \in People \ skewed :
        /\ u \in pool[building] => profile[u].ok \/ Recent(u) \/ Waits(building, u)
        /\ (u \in build.rows <=> profile[u].ok) \/ Recent(u)
  BY <1>1, CurrentCovered DEF BuildCovers
<1> QED BY <1>1, <1>2, <1>3, <1>4, <1>5, CurrentCovered, BuildStep

LEMMA BuildCatchUpKeeps ==
  ASSUME PoolInv, PoolTypes', BuildCatchUp,
         UNCHANGED <<profile, dirty, foldVars, beatVars, sync, second, unfolded, skewed>>
  PROVE  PoolInv'
<1> USE DEF PoolInv
<1>1. PICK row \in build.rows :
         /\ pool' = Applied({building}, row)
         /\ build' = [build EXCEPT !.rows = @ \ {row}]
  BY DEF BuildCatchUp
<1>2. /\ UNCHANGED <<current, building, made>> /\ build'.from = build.from
      /\ build.pc = "catchUp" /\ build'.pc = "catchUp" /\ build'.rows = build.rows \ {row}
      /\ building \in Versions /\ current \in Versions
      /\ row.uid \in People /\ row.ok \in BOOLEAN
  BY <1>1 DEF BuildCatchUp, PoolTypes, VersionTypes, BuildRecord, NoBuild, PoolRow
<1>3. /\ made'.tasks >= made.tasks /\ building' # current' /\ build'.from <= second
      /\ Numbered(current)' /\ Numbered(building)' /\ building # current /\ Numbered(building)
  BY <1>2, BuildNumbers DEF VersionsRight, Numbered
<1> PICK w : w = row.uid
  OBVIOUS
<1>4. /\ \A v \in Versions : pool'[v] # {} => pool[v] # {} \/ Numbered(v)
      /\ \A u \in People : \A v \in Versions :
              u # w \/ v # building => (u \in pool'[v] <=> u \in pool[v])
      /\ w \in pool'[building] <=> row.ok
  <2> PICK V : V = {building}
    OBVIOUS
  <2>1. V \in SUBSET Versions /\ (\A v \in V : Numbered(v)) /\ row \in PoolRow
    BY <1>1, <1>2, <1>3 DEF PoolTypes, VersionTypes
  <2>2. /\ \A v \in Versions : pool'[v] # {} => pool[v] # {} \/ Numbered(v)
        /\ \A u \in People : \A v \in Versions :
              u # w \/ v \notin V => (u \in pool'[v] <=> u \in pool[v])
        /\ \A v \in V : w \in pool'[v] <=> row.ok
    BY <1>1, <2>1, RowApplied
  <2>3. building \in V /\ \A v \in Versions : v # building => v \notin V
    OBVIOUS
  <2> QED BY <2>2, <2>3
<1> PICK c, b : c = current' /\ b = building'
  OBVIOUS
<1>5. \A u \in People :
         /\ Agrees(c, u)' <=> Agrees(current, u)
         /\ u # w => (Agrees(b, u)' <=> Agrees(building, u))
         /\ Waits(c, u) <=> Waits(current, u)
         /\ Waits(b, u) <=> Waits(building, u)
  BY <1>2, <1>3, <1>4 DEF Agrees
<1>6. ASSUME NEW u \in People \ skewed
      PROVE  /\ \/ Agrees(b, u)' \/ Waits(b, u)
                \/ \E r \in build'.rows : r.uid = u
             /\ \A r \in build'.rows : r.uid = u => r.ok = profile[u].ok
  <2>1. /\ \/ Agrees(building, u) \/ Waits(building, u)
           \/ \E r \in build.rows : r.uid = u
        /\ \A r \in build.rows : r.uid = u => r.ok = profile[u].ok
    BY <1>2, CurrentCovered DEF BuildCovers
  <2>2. CASE u = w
    <3>1. Agrees(b, u)'
      BY <1>2, <1>4, <2>1, <2>2 DEF Agrees
    <3> QED BY <1>2, <2>1, <3>1
  <2>3. CASE u # w
    <3>1. (\E r \in build.rows : r.uid = u) => \E r \in build'.rows : r.uid = u
      BY <1>2, <2>3
    <3> QED BY <1>2, <1>5, <2>1, <2>3, <3>1
  <2> QED BY <2>2, <2>3
<1> QED BY <1>2, <1>3, <1>4, <1>5, <1>6, CurrentCovered, BuildStep

LEMMA BuildEndsKeeps ==
  ASSUME PoolInv, PoolTypes', BuildPublish \/ BuildFails,
         UNCHANGED <<profile, dirty, foldVars, beatVars, sync, second, unfolded, skewed>>
  PROVE  PoolInv'
<1> USE DEF PoolInv
<1>1. /\ UNCHANGED pool /\ building' = 0 /\ build'.pc = "none" /\ build'.from = 0
      /\ \/ current' = current
         \/ current' = building /\ build.pc = "catchUp" /\ build.rows = {}
      /\ made'.tasks = made.tasks
  BY DEF BuildPublish, BuildFails, Mishap, NoBuild, PoolTypes, VersionTypes
<1>2. /\ made'.tasks >= made.tasks /\ building' # current' /\ build'.from <= second
      /\ Numbered(current)' /\ Numbered(building)'
  <2>1. current' \in Versions' /\ 0 \notin Versions'
    BY DEF PoolTypes, VersionTypes, Versions
  <2> QED BY <1>1, <2>1, BuildNumbers DEF VersionsRight, Numbered
<1> PICK c, b : c = current' /\ b = building'
  OBVIOUS
<1>3. ASSUME NEW u \in People \ skewed PROVE Agrees(c, u)' \/ Waits(c, u)
  <2>1. Agrees(c, u)' <=> Agrees(c, u)
    BY <1>1 DEF Agrees
  <2>2. CASE c = current
    BY <2>1, <2>2, CurrentCovered
  <2>3. CASE c = building /\ build.pc = "catchUp" /\ build.rows = {}
    BY <2>1, <2>3, CurrentCovered DEF BuildCovers
  <2> QED BY <1>1, <2>2, <2>3
<1> QED BY <1>1, <1>2, <1>3, BuildStep

LEMMA BuildingKeeps ==
  ASSUME PoolInv, PoolTypes', Building
  PROVE  PoolInv'
  BY BuildStartKeeps, BuildReadKeeps, BuildFillKeeps, BuildCatchUpKeeps, BuildEndsKeeps
     DEF Building

-----------------------------------------------------------------------------
(***************************************************************************)
(* The crash, time, and the theorem                                        *)
(***************************************************************************)
LEMMA CrashKeeps ==
  ASSUME PoolInv, PoolTypes', ProcessCrash
  PROVE  PoolInv'
<1> USE DEF PoolInv
<1>1. /\ UNCHANGED <<profile, pool, current, building, dirty, cursor, spill, second>>
      /\ sync' = [t \in Syncs |-> Free] /\ fold' = NoFold /\ build' = NoBuild
      /\ unfolded' = Turned("begun", "changed")
      /\ skewed \cup Overtaken \subseteq skewed'
      /\ made'.tasks = made.tasks
  BY DEF ProcessCrash, Mishap, PoolTypes, VersionTypes
<1>2. \A t \in Syncs : ~SyncAt(t, "free") => UsersOf(Remaining(sync[t])) \subseteq skewed'
  BY DEF ProcessCrash
<1>3. /\ FoldRight'
      /\ \A u \in People \ skewed' : \A v : Folds(v, u) => Folds(v, u)'
  BY <1>1, FoldBreaksOff
<1>4. ASSUME NEW u \in People \ skewed', NEW v, Served(v, u) PROVE Served(v, u)'
  <2>1. ASSUME NEW t \in Syncs, Serves(sync[t], v, u) PROVE FALSE
    <3>1. ~SyncAt(t, "free")
      BY <2>1, IdleServes
    <3>2. sync[t].uid \in People /\ sync[t] \in SyncRecord
      BY <3>1 DEF PoolTypes, ActivityTypes
    <3>3. UsersOf(Remaining(sync[t])) = {sync[t].uid} \cup UsersOf(sync[t].rest)
      BY <3>2, RemainingTyped DEF SyncRecord
    <3>4. u = sync[t].uid \/ u \in UsersOf(sync[t].rest)
      BY <2>1 DEF Serves
    <3> QED BY <1>2, <3>1, <3>3, <3>4
  <2>2. Named(u, dirty') \/ u \in UsersOf(spill')
    BY <1>1, <1>4, <2>1 DEF Served
  <2> QED BY <2>2, ServedThen
<1>5. Covered'
  <2> SUFFICES ASSUME NEW u \in People \ skewed'
               PROVE  /\ Agrees(current, u)' \/ Waits(current, u)'
                      /\ BuildCovers(u)'
    BY DEF Covered
  <2>1. BuildCovers(u)'
    BY <1>1 DEF BuildCovers, NoBuild
  <2> PICK c : c = current
    OBVIOUS
  <2>2. Agrees(c, u) \/ Waits(c, u)
    BY <1>1, CurrentCovered
  <2>3. Agrees(c, u) => Agrees(c, u)'
    BY <1>1 DEF Agrees
  <2>4. Waits(c, u) => Waits(c, u)'
    BY <1>3, <1>4 DEF Waits
  <2>5. Agrees(c, u)' \/ Waits(c, u)'
    BY <2>2, <2>3, <2>4
  <2> QED BY <1>1, <2>1, <2>5 DEF Agrees, Waits, Served, Folds
<1>6. SyncsRight'
  <2>1. SyncRight(Free)'
    BY DEF SyncRight, Free
  <2> QED BY <1>1, <2>1 DEF SyncsRight
<1>7. VersionsRight'
  <2>1. fold'.versions = {} /\ build'.from = 0 /\ 0 <= second
    BY <1>1 DEF NoFold, NoBuild, PoolTypes, ActivityTypes
  <2> QED BY <1>1, <2>1 DEF VersionsRight, Numbered, Versions
<1> QED BY <1>3, <1>5, <1>6, <1>7

LEMMA TimeKeeps ==
  ASSUME PoolInv, PoolTypes', second' \in {second, second + 1},
         UNCHANGED <<profile, poolVars, dirty, foldVars, beatVars, sync, unfolded,
                     skewed, made>>
  PROVE  PoolInv'
<1> USE DEF PoolInv
<1>1. /\ second' >= second /\ made'.tasks >= made.tasks /\ second \in Nat /\ second' \in Nat
      /\ UNCHANGED <<pool, current, building, build, fold, cursor, spill>>
  BY BuildNumbers DEF poolVars, foldVars, beatVars
<1>2. SyncsRight'
  BY <1>1, NumbersKept
<1>3. FoldRight'
  BY <1>1, FoldStays, ProfileTyped DEF PoolTypes, ActivityTypes
<1>4. VersionsRight'
  <2>1. build.from \in Nat /\ \A u \in People : profile[u].changed \in Nat
    BY ProfileTyped DEF PoolTypes, VersionTypes, BuildRecord
  <2> QED BY <1>1, <2>1 DEF VersionsRight, Numbered, Versions
<1>5. Covered'
  <2> SUFFICES ASSUME NEW u \in People \ skewed', NEW v \in Live PROVE Steady(v, u)
    BY <1>1, SteadyCovers
  <2>1. Waits(v, u)' <=> Waits(v, u)
    BY WaitsOn
  <2>2. profile'[u].ok = profile[u].ok /\ profile'[u].changed >= profile[u].changed
    BY ProfileTyped DEF PoolTypes
  <2> QED BY <1>1, <2>1, <2>2 DEF Steady
<1> QED BY <1>2, <1>3, <1>4, <1>5

LEMMA PoolInvKept ==
  ASSUME PoolInv, [PoolNext]_allPoolVars
  PROVE  PoolInv'
<1>0. PoolTypes'
  BY PoolTypesKept DEF PoolInv
<1>1. CASE Syncing  BY <1>0, <1>1, SyncingKeeps
<1>2. CASE Folding  BY <1>0, <1>2, FoldingKeeps
<1>3. CASE Building  BY <1>0, <1>3, BuildingKeeps
<1>4. CASE ProcessCrash  BY <1>0, <1>4, CrashKeeps
<1>5. CASE SecondPasses
  BY <1>0, <1>5, TimeKeeps DEF SecondPasses
<1>6. CASE UNCHANGED allPoolVars
  BY <1>0, <1>6, TimeKeeps DEF allPoolVars
<1> QED BY <1>1, <1>2, <1>3, <1>4, <1>5, <1>6 DEF PoolNext

LEMMA PoolInvBegins == PoolInit => PoolInv
<1> SUFFICES ASSUME PoolInit PROVE PoolInv
  OBVIOUS
<1>0. PoolTypes
  BY PoolTypesBegin
<1>1. /\ current = 1 /\ building = 0 /\ build.pc = "none" /\ build.from = 0
      /\ fold = NoFold /\ cursor.at = 0 /\ second = 1 /\ made.tasks = 0
      /\ \A u \in People : /\ profile[u].ok /\ profile[u].changed = 0
                           /\ unfolded[u] = "no"
      /\ \A v \in Versions : pool[v] = IF v = 1 THEN People ELSE {}
      /\ \A t \in Syncs : sync[t] = Free
  BY DEF PoolInit, NoBuild
<1>2. 1 \in Versions /\ NoFold.pc = "none" /\ NoFold.rows = {} /\ NoFold.last = 0
      /\ NoFold.versions = {}
  BY <1>0, <1>1 DEF PoolTypes, VersionTypes, NoFold
<1>3. Covered
  BY <1>1, <1>2 DEF Covered, Agrees, BuildCovers
<1>4. SyncsRight
  BY <1>1 DEF SyncsRight, SyncRight, Free
<1>5. FoldRight
  BY <1>1, <1>2, LaterOverlap DEF FoldRight
<1>6. VersionsRight
  BY <1>1, <1>2 DEF VersionsRight, Numbered
<1> QED BY <1>0, <1>3, <1>4, <1>5, <1>6 DEF PoolInv

\* Once nothing is under way, the current version holds the eligible users and
\* nobody else, but for those in skewed: in every state each user is right in
\* it or somebody still has to bring him up to date.
THEOREM PoolSettles == PoolSpec => []SettledPoolIsRight
<1>1. PoolInit => PoolInv
  BY PoolInvBegins
<1>2. PoolInv /\ [PoolNext]_allPoolVars => PoolInv'
  BY PoolInvKept
<1>3. PoolInv => SettledPoolIsRight
  <2> SUFFICES ASSUME PoolInv, PoolSettled, NEW u \in People \ skewed
               PROVE  Agrees(current, u)
    BY DEF SettledPoolIsRight, Agrees
  <2>1. ~Served(current, u)
    BY IdleServes, NoTasks, NobodyNamed DEF PoolSettled, Served
  <2>2. ~Folds(current, u)
    BY DEF PoolSettled, Folds
  <2> QED BY <2>1, <2>2, CurrentCovered DEF Waits
<1> QED BY <1>1, <1>2, <1>3, PTL DEF PoolSpec
=============================================================================
