---------------------------- MODULE StreamProofs ----------------------------
(***************************************************************************)
(* Theorems about the streaming stage, for every set of files, every       *)
(* content of them and every bound on faults and reruns.                   *)
(***************************************************************************)
EXTENDS StreamProperties, FiniteSums

-----------------------------------------------------------------------------
(* The maximum of a set of naturals.                                       *)

\* A nonempty set of naturals up to n has its Max as an element and upper bound.
LEMMA MaxOfBounded ==
    ASSUME NEW n \in Nat, NEW S, S \subseteq 0 .. n, S # {}
    PROVE  Max(S) \in S /\ \A x \in S : Max(S) >= x
<1> DEFINE T == {n - x : x \in S}
<1>1. \A x \in S : x \in Nat /\ n - x \in Nat
  OBVIOUS
<1>2. T \subseteq Nat /\ T # {}
  BY <1>1
<1>3. Min(T) \in T /\ \A y \in T : Min(T) <= y
  BY <1>2, MinOfNats
<1>4. PICK m \in S : Min(T) = n - m
  BY <1>3
<1>5. \A x \in S : n - m <= n - x
  BY <1>3, <1>4
<1>6. \A x \in S : m >= x
  BY <1>1, <1>5
<1> QED
  BY <1>6 DEF Max

-----------------------------------------------------------------------------
(* The loop.                                                               *)

\* Within a pass the current file is the first of those still to take.
LEMMA CurrentIsFirst ==
    ASSUME LoopTyped, new_files # {}
    PROVE  /\ Current \in new_files
           /\ \A f \in new_files : Current <= f
<1>1. new_files \subseteq Nat
  BY TablesAssumption DEF LoopTyped
<1> QED
  BY <1>1, MinOfNats DEF Current

\* The loop invariant holds before the first process start.
LEMMA LoopInit == Init => LoopInv
<1> SUFFICES ASSUME Init PROVE LoopInv
  OBVIOUS
<1> USE TablesAssumption, IngestAssumption DEF Init
<1>1. LoopTyped
  BY DEF LoopTyped, PCs, InFile, Stopped
<1>2. ~Running
  BY DEF Running, Stopped
<1>3. MemoryInv
  BY <1>2 DEF MemoryInv
<1>4. EvidenceInv
  BY DEF EvidenceInv
<1>5. TallyInv
  BY <1>2 DEF TallyInv
<1>6. OrderInv
  BY <1>2 DEF OrderInv
<1> QED
  BY <1>1, <1>3, <1>4, <1>5, <1>6 DEF LoopInv

\* Every step of the loop, of its failures and of its environment keeps the
\* loop invariant.
LEMMA LoopNext == LoopInv /\ [Next]_vars => LoopInv'
<1> SUFFICES ASSUME LoopInv, [Next]_vars PROVE LoopInv'
  OBVIOUS
<1> USE IngestAssumption DEF volume, tmp, pass, memory, bounds, history,
                             Running, Stopped, InFile, PCs
<1>1. LoopTyped /\ MemoryInv /\ EvidenceInv /\ TallyInv /\ OrderInv
  BY DEF LoopInv
<1>2. new_files # {} => Current \in new_files /\ \A f \in new_files : Current <= f
  BY <1>1, CurrentIsFirst
<1>3. new_files' = new_files => Current' = Current
  BY DEF Current
<1>4. CASE Poll
  <2>1. LoopTyped'
    BY <1>1, <1>4 DEF Poll, NewFiles, LoopTyped
  <2>2. MemoryInv'
    BY <1>1, <1>4 DEF Poll, NewFiles, Quiet, LoopTyped, MemoryInv
  <2>3. EvidenceInv'
    BY <1>1, <1>4 DEF Poll, EvidenceInv
  <2>4. TallyInv'
    BY <1>1, <1>4 DEF Poll, TallyInv
  <2>5. OrderInv'
    BY <1>4 DEF Poll, NewFiles, OrderInv
  <2> QED
    BY <2>1, <2>2, <2>3, <2>4, <2>5 DEF LoopInv
<1>5. CASE EndOfPass
  BY <1>5 DEF EndOfPass, LoopInv, LoopTyped, MemoryInv, EvidenceInv, TallyInv, OrderInv
<1>6. CASE Sleep
  BY <1>6
     DEF Sleep, Slept, LoopInv, LoopTyped, MemoryInv, EvidenceInv, TallyInv, OrderInv
<1>7. CASE ParseStreamEvents
  BY <1>2, <1>3, <1>7
     DEF ParseStreamEvents, LoopInv, LoopTyped, MemoryInv, EvidenceInv, TallyInv,
         OrderInv
<1>8. CASE UpsertCurrentBalances
  <2>1. LoopTyped'
    BY <1>1, <1>8 DEF UpsertCurrentBalances, LoopTyped
  <2>2. MemoryInv'
    BY <1>1, <1>2, <1>3, <1>8 DEF UpsertCurrentBalances, LoopTyped, MemoryInv
  <2>3. EvidenceInv'
    BY <1>1, <1>2, <1>3, <1>8 DEF UpsertCurrentBalances, LoopTyped, EvidenceInv
  <2>4. TallyInv'
    BY <1>1, <1>2, <1>3, <1>8 DEF UpsertCurrentBalances, LoopTyped, TallyInv, MemoryInv
  <2>5. OrderInv'
    BY <1>1, <1>8 DEF UpsertCurrentBalances, OrderInv
  <2> QED
    BY <2>1, <2>2, <2>3, <2>4, <2>5 DEF LoopInv
<1>9. CASE UpsertRecentTransactions
  <2>1. LoopTyped'
    BY <1>1, <1>2, <1>9 DEF UpsertRecentTransactions, LoopTyped
  <2>2. MemoryInv'
    BY <1>1, <1>2, <1>3, <1>9 DEF UpsertRecentTransactions, LoopTyped, MemoryInv
  <2>3. EvidenceInv'
    BY <1>1, <1>3, <1>9 DEF UpsertRecentTransactions, EvidenceInv
  <2>4. TallyInv'
    BY <1>1, <1>2, <1>3, <1>9
       DEF UpsertRecentTransactions, LoopTyped, TallyInv, MemoryInv
  <2>5. OrderInv'
    BY <1>1, <1>9 DEF UpsertRecentTransactions, OrderInv
  <2> QED
    BY <2>1, <2>2, <2>3, <2>4, <2>5 DEF LoopInv
<1>10. CASE Retention
  BY <1>3, <1>10
     DEF Retention, LoopInv, LoopTyped, MemoryInv, EvidenceInv, TallyInv, OrderInv
<1>11. CASE RecordProcessed
  <2>1. LoopTyped'
    BY <1>1, <1>2, <1>11 DEF RecordProcessed, NextFile, LoopTyped
  <2>2. MemoryInv'
    BY <1>1, <1>11 DEF RecordProcessed, NextFile, MemoryInv
  <2>3. EvidenceInv'
    BY <1>1, <1>11 DEF RecordProcessed, NextFile, LoopTyped, EvidenceInv
  <2>4. TallyInv'
    BY <1>1, <1>11 DEF RecordProcessed, NextFile, TallyInv
  <2>5. OrderInv'
    BY <1>1, <1>11 DEF RecordProcessed, NextFile, OrderInv
  <2> QED
    BY <2>1, <2>2, <2>3, <2>4, <2>5 DEF LoopInv
<1>12. CASE RetryLater
  <2>1. LoopTyped'
    BY <1>1, <1>2, <1>12
       DEF RetryLater, Attempts, CountAttempt, NextFile, LoopTyped, MemoryInv
  <2>2. MemoryInv'
    BY <1>1, <1>12
       DEF RetryLater, Exhausted, Attempts, CountAttempt, NextFile, LoopTyped, MemoryInv
  <2>3. EvidenceInv'
    BY <1>1, <1>12
       DEF RetryLater, Attempts, CountAttempt, NextFile, LoopTyped, EvidenceInv
  <2>4. TallyInv'
    BY <1>1, <1>12
       DEF RetryLater, Attempts, CountAttempt, NextFile, LoopTyped, TallyInv, MemoryInv
  <2>5. OrderInv'
    BY <1>1, <1>12 DEF RetryLater, Attempts, CountAttempt, NextFile, LoopTyped, OrderInv
  <2> QED
    BY <2>1, <2>2, <2>3, <2>4, <2>5 DEF LoopInv
<1>13. CASE GiveUp
  <2>1. LoopTyped'
    BY <1>1, <1>2, <1>13 DEF GiveUp, Attempts, CountAttempt, LoopTyped, MemoryInv
  <2>2. MemoryInv'
    BY <1>1, <1>3, <1>13 DEF GiveUp, CountAttempt, MemoryInv
  <2>3. EvidenceInv'
    BY <1>1, <1>2, <1>13
       DEF GiveUp, Exhausted, Attempts, CountAttempt, LoopTyped, EvidenceInv
  <2>4. TallyInv'
    BY <1>1, <1>13 DEF GiveUp, CountAttempt, LoopTyped, TallyInv, MemoryInv
  <2>5. OrderInv'
    BY <1>1, <1>13 DEF GiveUp, CountAttempt, OrderInv
  <2> QED
    BY <2>1, <2>2, <2>3, <2>4, <2>5 DEF LoopInv
<1>14. CASE RecordFailed
  <2>1. LoopTyped'
    BY <1>1, <1>14 DEF RecordFailed, NextFile, LoopTyped, MemoryInv
  <2>2. MemoryInv'
    BY <1>1, <1>14 DEF RecordFailed, NextFile, MemoryInv
  <2>3. EvidenceInv'
    BY <1>1, <1>14 DEF RecordFailed, NextFile, EvidenceInv
  <2>4. TallyInv'
    BY <1>1, <1>14 DEF RecordFailed, NextFile, TallyInv
  <2>5. OrderInv'
    BY <1>1, <1>14 DEF RecordFailed, NextFile, OrderInv, MemoryInv
  <2> QED
    BY <2>1, <2>2, <2>3, <2>4, <2>5 DEF LoopInv
<1>15. CASE StatementRaises
  <2>1. LoopTyped'
    BY <1>1, <1>15 DEF StatementRaises, Fault, Error, LoopTyped
  <2>2. MemoryInv'
    BY <1>1, <1>2, <1>3, <1>15 DEF StatementRaises, LoopTyped, MemoryInv
  <2>3. EvidenceInv'
    BY <1>1, <1>15 DEF StatementRaises, EvidenceInv
  <2>4. TallyInv'
    BY <1>1, <1>2, <1>3, <1>15
       DEF StatementRaises, Fault, Error, LoopTyped, TallyInv, MemoryInv
  <2>5. OrderInv'
    BY <1>1, <1>15 DEF StatementRaises, OrderInv
  <2> QED
    BY <2>1, <2>2, <2>3, <2>4, <2>5 DEF LoopInv
<1>16. CASE RecordProcessedRaises
  <2>1. LoopTyped'
    BY <1>1, <1>2, <1>16 DEF RecordProcessedRaises, Fault, Error, LoopTyped
  <2>2. MemoryInv'
    BY <1>1, <1>2, <1>3, <1>16 DEF RecordProcessedRaises, LoopTyped, MemoryInv
  <2>3. EvidenceInv'
    BY <1>1, <1>16 DEF RecordProcessedRaises, EvidenceInv
  <2>4. TallyInv'
    BY <1>1, <1>2, <1>3, <1>16
       DEF RecordProcessedRaises, Fault, Error, LoopTyped, TallyInv, MemoryInv
  <2>5. OrderInv'
    BY <1>1, <1>16 DEF RecordProcessedRaises, OrderInv
  <2> QED
    BY <2>1, <2>2, <2>3, <2>4, <2>5 DEF LoopInv
<1>17. CASE HandlerRaises
  <2>1. LoopTyped'
    BY <1>1, <1>2, <1>17
       DEF HandlerRaises, Attempts, CountAttempt, Fault, Error, LoopTyped, MemoryInv
  <2>2. MemoryInv'
    BY <1>1, <1>17 DEF HandlerRaises, CountAttempt, LoopTyped, MemoryInv
  <2>3. EvidenceInv'
    BY <1>1, <1>2, <1>17
       DEF HandlerRaises, Exhausted, Attempts, CountAttempt, LoopTyped, EvidenceInv
  <2>4. TallyInv'
    BY <1>1, <1>17
       DEF HandlerRaises, CountAttempt, Fault, Error, LoopTyped, TallyInv, MemoryInv
  <2>5. OrderInv'
    BY <1>17 DEF HandlerRaises, OrderInv
  <2> QED
    BY <2>1, <2>2, <2>3, <2>4, <2>5 DEF LoopInv
<1>18. CASE Crash
  BY <1>18 DEF Crash, LoopInv, LoopTyped, MemoryInv, EvidenceInv, TallyInv, OrderInv
<1>19. ASSUME NEW kind \in RestartKinds, NEW look \in Looks, Start(kind, look) PROVE LoopInv'
  <2>1. LoopTyped'
    BY <1>1, <1>19 DEF Start, KeptTmp, Error, LoopTyped
  <2>2. MemoryInv'
    BY <1>19 DEF Start, MemoryInv
  <2>3. EvidenceInv'
    BY <1>1, <1>19 DEF Start, KeptTmp, LoopTyped, EvidenceInv, MemoryInv
  <2>4. TallyInv'
    BY <1>1, <1>19 DEF Start, LoopTyped, TallyInv
  <2>5. OrderInv'
    BY <1>19 DEF Start, OrderInv
  <2> QED
    BY <2>1, <2>2, <2>3, <2>4, <2>5 DEF LoopInv
<1>20. ASSUME NEW f \in Files, Arrive(f) PROVE LoopInv'
  BY <1>3, <1>20
     DEF Arrive, LoopInv, LoopTyped, MemoryInv, EvidenceInv, TallyInv, OrderInv
<1>21. CASE UNCHANGED vars
  BY <1>3, <1>21
     DEF vars, LoopInv, LoopTyped, MemoryInv, EvidenceInv, TallyInv, OrderInv
<1>22. CASE PollRaises
  BY <1>1, <1>3, <1>22
     DEF PollRaises, Fault, Error, LoopInv, LoopTyped, MemoryInv, EvidenceInv, TallyInv, OrderInv
<1> QED
  BY <1>4, <1>5, <1>6, <1>7, <1>8, <1>9, <1>10, <1>11, <1>12, <1>13, <1>14,
     <1>15, <1>16, <1>17, <1>18, <1>19, <1>20,
     <1>21, <1>22 DEF Next, Step, Raise

\* The bookkeeping of the loop is consistent in every reachable state.
THEOREM LoopInvariant == Spec => []LoopInv
<1> QED
  BY LoopInit, LoopNext, PTL DEF Spec

\* However often the program fails, is killed and is run again, a file's deltas
\* are added at most once per process start and once per failed attempt.
THEOREM ExtraApplicationsBounded == Spec => []ExtraApplicationsExplained
<1>1. LoopInv => ExtraApplicationsExplained
  BY DEF LoopInv, TallyInv, ExtraApplicationsExplained
<1> QED
  BY <1>1, LoopInvariant, PTL

\* No file is attempted more than MAX_RETRIES + 1 times per process start.
THEOREM AttemptsBounded == Spec => []RetriesStop
<1>1. LoopInv => RetriesStop
  BY DEF LoopInv, TallyInv, RetriesStop
<1> QED
  BY <1>1, LoopInvariant, PTL

\* A file that is skipped, now or after a restart that keeps /tmp, is in both
\* tables or has failed more than MAX_RETRIES times.
THEOREM NoFileForgotten == Spec => []SkippedOnlyForCause
<1>1. LoopInv => SkippedOnlyForCause
  BY DEF LoopInv, LoopTyped, MemoryInv, EvidenceInv, SkippedOnlyForCause
<1> QED
  BY <1>1, LoopInvariant, PTL

\* Within a pass only a file that has failed is overtaken by a later name.
THEOREM NameOrderKept == Spec => []OvertakenOnlyAfterFailure
<1>1. LoopInv => OvertakenOnlyAfterFailure
  <2> SUFFICES ASSUME LoopInv, pc \in InFile,
                      NEW f \in all_files, f < Current
               PROVE  f \in processed \/ retry_counts[f] > 0
    BY DEF OvertakenOnlyAfterFailure
  <2>1. LoopTyped /\ OrderInv /\ Running
    BY DEF LoopInv, Running, InFile, Stopped
  <2>2. \A g \in new_files : Current <= g
    BY <2>1, CurrentIsFirst DEF LoopTyped
  <2>3. new_files \subseteq Nat /\ f \in Nat /\ Current \in Nat
    BY <2>1, CurrentIsFirst, TablesAssumption DEF LoopTyped
  <2>4. f \notin new_files
    BY <2>2, <2>3
  <2> QED
    BY <2>1, <2>4 DEF OrderInv
<1> QED
  BY <1>1, LoopInvariant, PTL

-----------------------------------------------------------------------------
(* What the list of failed files tells.                                    *)

\* As long as the loop runs, each processed file is in both tables or listed,
\* except the one that is being given up: it is processed first and listed next.
ListedInv ==
    /\ Running => \A f \in processed :
           f \in merged \/ f \in failed_state \/ (pc = "gave_up" /\ f = Current)
    /\ QuiescedIsAccounted

\* Each step keeps it, when no process takes over the state file of another.
LEMMA ListedNext ==
    ASSUME RestartKinds = {"new"}
    PROVE  LoopInv /\ ListedInv /\ [Next]_vars => ListedInv'
<1> SUFFICES ASSUME LoopInv, ListedInv, [Next]_vars PROVE ListedInv'
  OBVIOUS
<1> USE DEF volume, tmp, pass, memory, bounds, history, Running, Stopped, ListedInv,
            QuiescedIsAccounted
<1>1. new_files' = new_files => Current' = Current
  BY DEF Current
<1>2. pc \in {"retention", "record"} => Current \in merged
  BY DEF LoopInv, EvidenceInv
<1>3. CASE \E kind \in RestartKinds, look \in Looks : Start(kind, look)
  BY <1>3 DEF Start, KeptTmp
<1>4. CASE Poll
  BY <1>4 DEF Poll, NewFiles, Quiet
<1>5. CASE PollRaises \/ EndOfPass \/ Sleep \/ ParseStreamEvents \/ StatementRaises
  BY <1>5 DEF PollRaises, EndOfPass, Sleep, ParseStreamEvents, StatementRaises, Fault
<1>6. CASE UpsertCurrentBalances
  BY <1>6 DEF UpsertCurrentBalances
<1>7. CASE UpsertRecentTransactions
  BY <1>7 DEF UpsertRecentTransactions
<1>8. CASE Retention
  BY <1>8 DEF Retention
<1>9. CASE RecordProcessed \/ RecordProcessedRaises
  BY <1>2, <1>9 DEF RecordProcessed, RecordProcessedRaises, NextFile, Fault
<1>10. CASE RetryLater
  BY <1>10 DEF RetryLater, CountAttempt, NextFile
<1>11. CASE GiveUp
  BY <1>1, <1>11 DEF GiveUp, CountAttempt
<1>12. CASE RecordFailed
  BY <1>12 DEF RecordFailed, NextFile
<1>13. CASE HandlerRaises \/ Crash
  BY <1>13 DEF HandlerRaises, Crash
<1>14. CASE (\E f \in Files : Arrive(f)) \/ UNCHANGED vars
  BY <1>1, <1>14 DEF Arrive, vars
<1> QED
  BY <1>3, <1>4, <1>5, <1>6, <1>7, <1>8, <1>9, <1>10, <1>11, <1>12, <1>13, <1>14
     DEF Next, Step, Raise

\* When every rerun is a new container, a loop that quiesces has put each file it
\* saw into both tables or into /tmp/stream_failed.txt.
THEOREM NewContainersAccount ==
    ASSUME RestartKinds = {"new"}
    PROVE  Spec => []QuiescedIsAccounted
<1>1. Init => ListedInv
  BY DEF Init, ListedInv, QuiescedIsAccounted, Running, Stopped
<1>2. ListedInv => QuiescedIsAccounted
  BY DEF ListedInv
<1> QED
  BY <1>1, <1>2, ListedNext, LoopInvariant, PTL DEF Spec

-----------------------------------------------------------------------------
(* The loop implements the abstract feed.                                  *)

\* The feed starts with nothing applied, merged or settled.
LEMMA FeedInit == Init => Feed!Init
BY DEF Init, Feed!Init

\* Every step of the loop is a step of the feed or leaves it alone.
LEMMA FeedNext == LoopInv /\ [Next]_vars => [Feed!Next]_Feed!vars
<1> SUFFICES ASSUME LoopInv, [Next]_vars PROVE [Feed!Next]_Feed!vars
  OBVIOUS
<1> USE IngestAssumption
    DEF volume, tmp, pass, memory, bounds, history, Running, Stopped, InFile, PCs, Feed!vars
<1>1. LoopTyped /\ MemoryInv /\ EvidenceInv
  BY DEF LoopInv
<1>2. new_files # {} => Current \in new_files /\ Current \in Files
  BY <1>1, CurrentIsFirst DEF LoopTyped
<1>3. CASE UpsertCurrentBalances
  BY <1>1, <1>2, <1>3 DEF UpsertCurrentBalances, LoopTyped, MemoryInv, Feed!Next, Feed!Apply
<1>4. CASE UpsertRecentTransactions
  BY <1>1, <1>2, <1>4
     DEF UpsertRecentTransactions, LoopTyped, MemoryInv, EvidenceInv, Feed!Next, Feed!Merge
<1>5. CASE RecordProcessed
  BY <1>1, <1>2, <1>5
     DEF RecordProcessed, NextFile, LoopTyped, EvidenceInv, Feed!Next, Feed!Settle
<1>6. CASE RecordProcessedRaises
  BY <1>1, <1>2, <1>6
     DEF RecordProcessedRaises, Fault, Error, LoopTyped, EvidenceInv, Feed!Next, Feed!Settle
<1>7. CASE RetryLater
  <2>1. Current \in Files /\ retry_counts[Current] \in Nat /\ retry_counts[Current] < MAX_RETRIES
    BY <1>1, <1>2, <1>7 DEF RetryLater, Attempts, Exhausted, LoopTyped
  <2>2. Feed!Strike(Current)
    BY <1>7, <2>1 DEF RetryLater, CountAttempt, Attempts, Feed!Strike
  <2> QED
    BY <2>1, <2>2 DEF Feed!Next
<1>8. CASE GiveUp
  <2>1. Current \in Files /\ retry_counts[Current] \in Nat /\ retry_counts[Current] = MAX_RETRIES
    BY <1>1, <1>2, <1>8 DEF GiveUp, Attempts, Exhausted, LoopTyped, MemoryInv
  <2>2. Feed!GiveUp(Current)
    BY <1>8, <2>1 DEF GiveUp, CountAttempt, Attempts, Feed!GiveUp
  <2> QED
    BY <2>1, <2>2 DEF Feed!Next
<1>9. CASE HandlerRaises
  BY <1>1, <1>2, <1>9
     DEF HandlerRaises, Fault, CountAttempt, Attempts, Exhausted, LoopTyped, MemoryInv,
         Feed!Next, Feed!GiveUp
<1>10. ASSUME NEW kind \in RestartKinds, NEW look \in Looks, Start(kind, look) PROVE Feed!Next
  BY <1>1, <1>10 DEF Start, KeptTmp, LoopTyped, MemoryInv, Feed!Next, Feed!Forget
<1>11. CASE Poll \/ EndOfPass \/ Sleep \/ ParseStreamEvents \/ Retention
            \/ RecordFailed \/ PollRaises \/ StatementRaises \/ Crash \/ UNCHANGED vars
  BY <1>11
     DEF Poll, EndOfPass, Sleep, ParseStreamEvents, Retention, RecordFailed, NextFile,
         PollRaises, StatementRaises, Fault, Crash, vars
<1>12. ASSUME NEW f \in Files, Arrive(f) PROVE UNCHANGED Feed!vars
  BY <1>12 DEF Arrive
<1> QED
  BY <1>3, <1>4, <1>5, <1>6, <1>7, <1>8, <1>9, <1>10, <1>11, <1>12 DEF Next, Step, Raise

\* The streaming stage is an at-least-once feed: with its files, tables and
\* crashes it does nothing the specification of MicroBatchFeed does not allow.
THEOREM ImplementsFeed == Spec => FeedContract
<1> QED
  BY FeedInit, FeedNext, LoopInvariant, PTL DEF Spec, FeedContract, Feed!Spec
=============================================================================
