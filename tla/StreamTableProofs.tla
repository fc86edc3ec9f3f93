------------------------- MODULE StreamTableProofs -------------------------
(***************************************************************************)
(* Theorems about the two stream_gold tables, for every content of the     *)
(* files: they keep their types, the newest timestamp is kept, balances    *)
(* are the ledger of the batches committed, the retention pass leaves no   *)
(* account above its limit and drops only what MAX_RECENT newer rows       *)
(* stand before.                                                           *)
(***************************************************************************)
EXTENDS StreamProofs

-----------------------------------------------------------------------------
(* The operators of StreamTables.                                          *)

\* The events of a file are finitely many, each of the type Event.
LEMMA EventsTyped ==
    ASSUME NEW d \in FileData
    PROVE  Events(d) \subseteq Event /\ IsFiniteSet(Events(d))
<1> DEFINE parse == [l \in d.lines |-> ParseLine(l)]
<1>1. ASSUME NEW l \in d.lines PROVE ParseLine(l) \in Event
  <2>1. l \in Line
    BY DEF FileData
  <2>2. ToTimestamp(l) \in Nullable(Times)
    BY <2>1 DEF ToTimestamp, Line, Nullable
  <2>3. ToDecimal(l.amount) \in Nullable(Decimals)
    BY DEF ToDecimal, Nullable
  <2> QED
    BY <2>1, <2>2, <2>3 DEF ParseLine, Event, Line
<1>2. parse \in Surjection(d.lines, Events(d))
  BY DEF Surjection, Events
<1>3. IsFiniteSet(d.lines)
  BY DEF FileData
<1> QED
  BY <1>1, <1>2, <1>3, FS_Surjection DEF Events

\* The timestamps of the events that a batch counts for an account.
CountedTs(E, a) == {e.transaction_timestamp : e \in Counted(E, a)} \ {NULL}

\* They are instants.
LEMMA CountedTsTyped ==
    ASSUME NEW E, E \subseteq Event, NEW a
    PROVE  CountedTs(E, a) \subseteq Times
BY DEF CountedTs, Counted, Event, Nullable

\* The newest timestamp of a set of instants is one of them.
LEMMA MaxOfTimes ==
    ASSUME NEW T, T \subseteq Times, T # {}
    PROVE  Max(T) \in T /\ \A t \in T : Max(T) >= t
BY TablesAssumption, MaxOfBounded DEF Times

\* batch_last_ts is the newest of them, NULL when there is none.
LEMMA BatchLastTsIsMax ==
    ASSUME NEW E, NEW a
    PROVE  BatchLastTs(E, a) =
             IF CountedTs(E, a) = {} THEN NULL ELSE Max(CountedTs(E, a))
BY DEF BatchLastTs, CountedTs

\* MERGE INTO current_balances keeps the type of the table, and gives a row to
\* every account it touches.
LEMMA MergedBalanceTyped ==
    ASSUME NEW row \in BalanceRow \cup {NoRow}, NEW E, E \subseteq Event, NEW a
    PROVE  MergedBalance(row, E, a) \in BalanceRow
<1>1. NetDelta(E, a) \in Nullable(Decimals)
  BY DEF NetDelta, ToDecimal, Nullable
<1>2. BatchLastTs(E, a) \in Nullable(Times)
  BY CountedTsTyped, MaxOfTimes, BatchLastTsIsMax DEF Nullable
<1>3. \A x : PlusDecimal(x, NetDelta(E, a)) \in Nullable(Decimals)
  BY DEF PlusDecimal, ToDecimal, Nullable
<1>4. \A x \in Nullable(Times) : NewerTs(BatchLastTs(E, a), x) \in Nullable(Times)
  BY <1>2 DEF NewerTs
<1> QED
  BY <1>1, <1>2, <1>3, <1>4 DEF MergedBalance, BalanceRow

\* So the table keeps its type.
LEMMA MergeBalancesTyped ==
    ASSUME NEW table \in [Accounts -> BalanceRow \cup {NoRow}], NEW E, E \subseteq Event
    PROVE  MergeBalances(table, E) \in [Accounts -> BalanceRow \cup {NoRow}]
BY MergedBalanceTyped DEF MergeBalances

\* MERGE INTO recent_transactions keeps the type of the table, and it finite.
LEMMA MergeRecentTyped ==
    ASSUME NEW table, table \subseteq RecentRow, IsFiniteSet(table),
           NEW f \in Files, NEW E, E \subseteq Event, IsFiniteSet(E)
    PROVE  /\ MergeRecent(table, f, E) \subseteq RecentRow
           /\ IsFiniteSet(MergeRecent(table, f, E))
<1> DEFINE unmatched == {x \in E : \A r \in table : ~SameKey(r.event, x)}
           updated   == {UpdatedRow(r, E) : r \in table}
           inserted  == {NewRow(table, f, e) : e \in unmatched}
           update    == [r \in table |-> UpdatedRow(r, E)]
           insert    == [e \in unmatched |-> NewRow(table, f, e)]
<1>1. IsFiniteSet(updated)
  <2>1. update \in Surjection(table, updated)
    BY DEF Surjection
  <2> QED
    BY <2>1, FS_Surjection
<1>2. IsFiniteSet(inserted)
  <2>1. insert \in Surjection(unmatched, inserted)
    BY DEF Surjection
  <2>2. IsFiniteSet(unmatched)
    BY FS_Subset
  <2> QED
    BY <2>1, <2>2, FS_Surjection
<1>3. updated \subseteq RecentRow
  <2> SUFFICES ASSUME NEW r \in table PROVE UpdatedRow(r, E) \in RecentRow
    OBVIOUS
  <2>1. CASE \E e \in E : SameKey(r.event, e)
    <3>1. (CHOOSE e \in E : SameKey(r.event, e)) \in Event
      BY <2>1
    <3> QED
      BY <2>1, <3>1 DEF UpdatedRow, RecentRow
  <2>2. CASE ~ \E e \in E : SameKey(r.event, e)
    BY <2>2 DEF UpdatedRow
  <2> QED
    BY <2>1, <2>2
<1>4. inserted \subseteq RecentRow
  <2> SUFFICES ASSUME NEW e \in E PROVE NewRow(table, f, e) \in RecentRow
    OBVIOUS
  <2>1. IsFiniteSet({r \in table : r.id[1] = f /\ r.id[2] = e.no})
    BY FS_Subset
  <2>2. Cardinality({r \in table : r.id[1] = f /\ r.id[2] = e.no}) \in Nat
    BY <2>1, FS_CardinalityType
  <2>3. e \in Event /\ e.no \in Nat
    BY DEF Event
  <2> QED
    BY <2>2, <2>3 DEF NewRow, RecentRow
<1>5. MergeRecent(table, f, E) = updated \cup inserted
  BY DEF MergeRecent
<1> QED
  BY <1>1, <1>2, <1>3, <1>4, <1>5, FS_Union

\* What the retention pass leaves of an account's rows that carry a key.
LEMMA RetentionBounds ==
    ASSUME NEW table, IsFiniteSet(table), NEW D \in SUBSET table, PastLimit(table, D),
           NEW a \in Accounts
    PROVE  Cardinality({r \in OfAccount(DeleteKeys(table, D), a) : Keyed(r.event)})
             <= MAX_RECENT
<1> DEFINE rows == OfAccount(table, a)
           old  == OfAccount(D, a)
           kept == {r \in OfAccount(DeleteKeys(table, D), a) : Keyed(r.event)}
<1>1. IsFiniteSet(rows) /\ old \subseteq rows /\ IsFiniteSet(old)
  BY FS_Subset DEF OfAccount
<1>2. Cardinality(rows) \in Nat /\ Cardinality(old) \in Nat
  BY <1>1, FS_CardinalityType
<1>3. Cardinality(old) >= Cardinality(rows) - MAX_RECENT
  <2> DEFINE n == Cardinality(rows) - MAX_RECENT
  <2>1. Cardinality(old) = Max({0, n})
    BY DEF PastLimit, Nullable
  <2>2. n \in Int
    BY <1>2, TablesAssumption
  <2>3. \E x \in {0, n} : \A y \in {0, n} : x >= y
    BY <2>2
  <2>4. Max({0, n}) >= n
    BY <2>3 DEF Max
  <2> QED
    BY <2>1, <2>4
<1>4. Cardinality(rows \ old) = Cardinality(rows) - Cardinality(old)
  <2>1. rows \cap old = old
    BY <1>1
  <2>2. Cardinality(rows \ old) = Cardinality(rows) - Cardinality(rows \cap old)
    BY <1>1, FS_Difference
  <2> QED
    BY <2>1, <2>2
<1>5. kept \subseteq rows \ old
  BY DEF DeleteKeys, OfAccount, SameKey, Keyed
<1>6. IsFiniteSet(rows \ old) /\ Cardinality(kept) <= Cardinality(rows \ old)
  BY <1>1, <1>5, FS_Difference, FS_Subset
<1>7. IsFiniteSet(kept)
  BY <1>5, <1>6, FS_Subset
<1> QED
  BY <1>2, <1>3, <1>4, <1>6, <1>7, FS_CardinalityType, TablesAssumption

-----------------------------------------------------------------------------
(* The tables in every reachable state.                                    *)

\* Types and the retention bound are inductive once the rows are finitely many.
TablesInv == TablesTyped /\ IsFiniteSet(recents) /\ KeyedRowsBounded

\* The tables do not exist at first.
LEMMA TablesInit == Init => TablesInv
BY IngestAssumption, FS_EmptySet DEF Init, TablesInv, TablesTyped, KeyedRowsBounded

\* Only the three statements of process_file touch the tables, and each keeps
\* the invariant.
LEMMA TablesNext == LoopInv /\ TablesInv /\ [Next]_vars => TablesInv'
<1> SUFFICES ASSUME LoopInv, TablesInv, [Next]_vars PROVE TablesInv'
  OBVIOUS
<1> USE DEF volume, tmp, pass, memory, bounds, history
<1>1. TablesTyped /\ IsFiniteSet(recents) /\ LoopTyped
  BY DEF TablesInv, LoopInv
<1>2. new_files # {} => Current \in Files
  BY <1>1, CurrentIsFirst DEF LoopTyped
<1>3. new_files # {} => Batch \subseteq Event /\ IsFiniteSet(Batch)
  BY <1>1, <1>2, EventsTyped DEF Batch, TablesTyped
<1>4. CASE UpsertCurrentBalances
  BY <1>1, <1>3, <1>4, MergeBalancesTyped
     DEF UpsertCurrentBalances, TablesInv, TablesTyped, KeyedRowsBounded, LoopTyped, InFile
<1>5. CASE UpsertRecentTransactions
  BY <1>1, <1>2, <1>3, <1>5, MergeRecentTyped
     DEF UpsertRecentTransactions, TablesInv, TablesTyped, KeyedRowsBounded, LoopTyped, InFile
<1>6. CASE Retention
  <2>1. PICK D \in SUBSET recents : PastLimit(recents, D) /\ recents' = DeleteKeys(recents, D)
    BY <1>6 DEF Retention
  <2>2. recents' \subseteq recents
    BY <2>1 DEF DeleteKeys
  <2>3. TablesTyped' /\ IsFiniteSet(recents')
    BY <1>1, <1>6, <2>2, FS_Subset DEF Retention, TablesTyped
  <2>4. KeyedRowsBounded'
    BY <1>1, <2>1, RetentionBounds DEF KeyedRowsBounded
  <2> QED
    BY <2>3, <2>4 DEF TablesInv
<1>7. CASE UNCHANGED volume /\ (pc' = "record" => pc = "record")
  BY <1>7 DEF TablesInv, TablesTyped, KeyedRowsBounded, OfAccount
<1>8. CASE Poll \/ EndOfPass \/ Sleep \/ ParseStreamEvents \/ RecordProcessed
           \/ RetryLater \/ GiveUp \/ RecordFailed
  BY <1>7, <1>8
     DEF Poll, EndOfPass, Sleep, ParseStreamEvents, RecordProcessed, RetryLater, GiveUp,
         RecordFailed, NextFile
<1>9. CASE Raise \/ Crash
  BY <1>7, <1>9
     DEF Raise, PollRaises, StatementRaises, RecordProcessedRaises, HandlerRaises, Crash
<1>10. ASSUME NEW kind \in RestartKinds, NEW look \in Looks, Start(kind, look) PROVE TablesInv'
  BY <1>7, <1>10 DEF Start
<1>11. ASSUME NEW f \in Files, Arrive(f) PROVE TablesInv'
  BY <1>11 DEF Arrive, TablesInv, TablesTyped, KeyedRowsBounded, OfAccount
<1>12. CASE UNCHANGED vars
  BY <1>7, <1>12 DEF vars
<1> QED
  BY <1>4, <1>5, <1>6, <1>8, <1>9, <1>10, <1>11, <1>12 DEF Next, Step

\* Hence it holds in every reachable state.
LEMMA TablesInvariant == Spec => []TablesInv
<1> QED
  BY TablesInit, TablesNext, LoopInvariant, PTL DEF Spec

\* Every variable keeps its type, in every reachable state.
THEOREM TypeCorrect == Spec => []TypeOK
<1>1. LoopInv /\ TablesInv => TypeOK
  BY DEF LoopInv, TablesInv, TypeOK
<1> QED
  BY <1>1, LoopInvariant, TablesInvariant, PTL

\* Whatever the lines look like, the retention pass leaves at most MAX_RECENT
\* rows with a transaction_id per account: the statements that say it (the
\* window, the key list, the delete by key) agree.
THEOREM RetentionEffective == Spec => []KeyedRowsBounded
<1>1. TablesInv => KeyedRowsBounded
  BY DEF TablesInv
<1> QED
  BY <1>1, TablesInvariant, PTL

-----------------------------------------------------------------------------
(* The newest timestamp.                                                   *)

\* The newest of a set of instants, said without choosing it.
IsNewest(ts, T) == ts \in T /\ \A t \in T : ts >= t

\* It is what Max chooses.
LEMMA NewestIsMax ==
    ASSUME NEW T, T \subseteq Times, NEW ts, IsNewest(ts, T)
    PROVE  ts = Max(T)
<1>1. \A t \in T : t \in Int
  BY TablesAssumption DEF Times
<1>2. Max(T) \in T /\ Max(T) >= ts
  BY MaxOfTimes DEF IsNewest
<1>3. ts \in T /\ ts >= Max(T)
  BY <1>2 DEF IsNewest
<1> QED
  BY <1>1, <1>2, <1>3

\* Besides the property itself: only an account without a row has no events.
NewestInv ==
    \A a \in Accounts :
        /\ balances[a] = NoRow => AppliedEvents(a) = {}
        /\ balances[a] # NoRow /\ balances[a].last_transaction_timestamp # NULL =>
               IsNewest(balances[a].last_transaction_timestamp, AppliedTs(a))

\* No account has a row at first, and nothing is applied.
LEMMA NewestInit == Init => NewestInv
BY DEF Init, NewestInv, AppliedEvents

\* The timestamps of applied events are instants.
LEMMA AppliedTsTyped ==
    ASSUME TablesTyped, NEW a
    PROVE  AppliedTs(a) \subseteq Times
BY EventsTyped DEF AppliedTs, AppliedEvents, Counted, TablesTyped, Event, Nullable

\* Committing the deltas of a file adds its events to the applied ones.
LEMMA AppliedEventsGrow ==
    ASSUME LoopTyped, NEW f \in Files, applied' = [applied EXCEPT ![f] = @ + 1],
           inputs' = inputs, NEW a
    PROVE  /\ AppliedEvents(a)' = AppliedEvents(a) \cup Counted(Events(inputs[f]), a)
           /\ AppliedTs(a)' = AppliedTs(a) \cup CountedTs(Events(inputs[f]), a)
<1>1. {g \in Files : applied'[g] > 0} = {g \in Files : applied[g] > 0} \cup {f}
  BY DEF LoopTyped
<1>2. AppliedEvents(a)' = AppliedEvents(a) \cup Counted(Events(inputs[f]), a)
  BY <1>1 DEF AppliedEvents
<1> QED
  BY <1>2 DEF AppliedTs, CountedTs

\* Only the MERGE into current_balances matters: it compares the newest of the
\* batch with the newest so far.
LEMMA NewestNext == LoopInv /\ TablesInv /\ NewestInv /\ [Next]_vars => NewestInv'
<1> SUFFICES ASSUME LoopInv, TablesInv, NewestInv, [Next]_vars PROVE NewestInv'
  OBVIOUS
<1> USE DEF volume, tmp, pass, memory, bounds, history
<1>1. TablesTyped /\ LoopTyped
  BY DEF TablesInv, LoopInv
<1>2. CASE UpsertCurrentBalances /\ HasColumns(BalanceColumns)
  <2>1. /\ pc = "balances"
        /\ balances' = MergeBalances(balances, Batch)
        /\ applied' = [applied EXCEPT ![Current] = @ + 1]
        /\ inputs' = inputs
    BY <1>2 DEF UpsertCurrentBalances
  <2>2. Current \in Files /\ Batch \subseteq Event
    BY <1>1, <2>1, CurrentIsFirst, EventsTyped DEF LoopTyped, InFile, Batch, TablesTyped
  <2> SUFFICES ASSUME NEW a \in Accounts
               PROVE  /\ balances'[a] = NoRow => AppliedEvents(a)' = {}
                      /\ balances'[a] # NoRow
                         /\ balances'[a].last_transaction_timestamp # NULL =>
                           IsNewest(balances'[a].last_transaction_timestamp, AppliedTs(a)')
    BY DEF NewestInv, IsNewest
  <2> DEFINE row == balances[a]
             new == CountedTs(Batch, a)
  <2>3. /\ AppliedEvents(a)' = AppliedEvents(a) \cup Counted(Batch, a)
        /\ AppliedTs(a)' = AppliedTs(a) \cup new
    BY <1>1, <2>1, <2>2, AppliedEventsGrow DEF Batch
  <2>4. CASE Counted(Batch, a) = {}
    BY <2>1, <2>3, <2>4 DEF MergeBalances, NewestInv, CountedTs
  <2>5. CASE Counted(Batch, a) # {}
    <3>1. row \in BalanceRow \cup {NoRow} /\ balances'[a] = MergedBalance(row, Batch, a)
      BY <1>1, <2>1, <2>5 DEF MergeBalances, TablesTyped
    <3>2. balances'[a] \in BalanceRow /\ balances'[a] # NoRow
      BY <2>2, <3>1, MergedBalanceTyped, NoRowAssumption
    <3>3. /\ new \subseteq Times /\ NULL \notin new
          /\ BatchLastTs(Batch, a) = IF new = {} THEN NULL ELSE Max(new)
      BY <2>2, CountedTsTyped, BatchLastTsIsMax DEF CountedTs
    <3>4. new # {} => IsNewest(Max(new), new)
      BY <3>3, MaxOfTimes DEF IsNewest
    <3>5. CASE row = NoRow
      <4>1. AppliedTs(a)' = new
        BY <2>3, <3>5 DEF NewestInv, AppliedTs
      <4>2. balances'[a].last_transaction_timestamp = BatchLastTs(Batch, a)
        BY <3>1, <3>5 DEF MergedBalance
      <4> QED
        BY <3>2, <3>3, <3>4, <4>1, <4>2
    <3>6. CASE row # NoRow
      <4> DEFINE old  == row.last_transaction_timestamp
                 last == NewerTs(BatchLastTs(Batch, a), old)
      <4>1. balances'[a].last_transaction_timestamp = last
        BY <3>1, <3>6 DEF MergedBalance
      <4>2. SUFFICES ASSUME last # NULL PROVE IsNewest(last, AppliedTs(a) \cup new)
        BY <2>3, <3>2, <4>1
      <4>3. IsNewest(old, AppliedTs(a))
        BY <3>6, <4>2 DEF NewerTs, NewestInv
      <4>4. AppliedTs(a) \subseteq Times
        BY <1>1, AppliedTsTyped
      <4>5. old \in Int /\ \A t \in AppliedTs(a) \cup new : t \in Int
        BY <3>3, <4>3, <4>4, TablesAssumption DEF IsNewest, Times
      <4>6. CASE last = old
        BY <3>3, <3>4, <4>2, <4>3, <4>5, <4>6 DEF IsNewest, NewerTs
      <4>7. CASE last # old
        BY <3>3, <3>4, <4>2, <4>3, <4>5, <4>7 DEF IsNewest, NewerTs
      <4> QED
        BY <4>6, <4>7
    <3> QED
      BY <3>2, <3>5, <3>6
  <2> QED
    BY <2>4, <2>5
<1>3. CASE UNCHANGED <<inputs, balances, applied>>
  BY <1>3 DEF NewestInv, AppliedTs, AppliedEvents
<1> QED
  BY <1>2, <1>3
     DEF Next, Step, Raise, Poll, EndOfPass, Sleep, ParseStreamEvents, UpsertCurrentBalances,
         UpsertRecentTransactions, Retention, RecordProcessed, RetryLater, GiveUp,
         RecordFailed, NextFile, PollRaises, StatementRaises, RecordProcessedRaises,
         HandlerRaises, Crash, Start, Arrive, vars

\* last_transaction_timestamp, once it is set, is the newest timestamp of the
\* applied events, in whatever order and however often batches were applied.
THEOREM NewestTimestampKept == Spec => []LastTsIsNewest
<1>1. LoopInv /\ TablesInv /\ NewestInv => LastTsIsNewest
  BY AppliedTsTyped, NewestIsMax DEF TablesInv, NewestInv, LastTsIsNewest
<1> QED
  BY <1>1, NewestInit, NewestNext, LoopInvariant, TablesInvariant, PTL DEF Spec

-----------------------------------------------------------------------------
(* The ledger.                                                             *)

\* The deltas and the volume of what a batch counts for an account, as sums over
\* functions.
Deltas(E, a)  == SumFunctionOnSet([e \in Event |-> SignedAmount(e)], Counted(E, a))
Volumes(E, a) == SumFunctionOnSet([e \in Event |-> Volume(e)], Counted(E, a))

\* The same of all committed batches.
LedgerOf(a) ==
    SumFunctionOnSet([f \in Files |-> applied[f] * Deltas(Events(inputs[f]), a)], Files)
VolumeOf(a) ==
    SumFunctionOnSet([f \in Files |-> applied[f] * Volumes(Events(inputs[f]), a)], Files)

\* A counted event has a number for an amount, which its volume bounds.
LEMMA CountedTyped ==
    ASSUME NEW E, E \subseteq Event, IsFiniteSet(E), NEW a
    PROVE  /\ IsFiniteSet(Counted(E, a)) /\ Counted(E, a) \subseteq Event
           /\ \A e \in Counted(E, a) :
                 /\ SignedAmount(e) \in Int /\ Volume(e) \in Int
                 /\ -Volume(e) <= SignedAmount(e) /\ SignedAmount(e) <= Volume(e)
                 /\ Inflow(e) = SignedAmount(e)
<1>1. IsFiniteSet(Counted(E, a)) /\ Counted(E, a) \subseteq Event
  BY FS_Subset DEF Counted
<1> SUFFICES ASSUME NEW e \in Counted(E, a)
             PROVE  /\ SignedAmount(e) \in Int /\ Volume(e) \in Int
                    /\ -Volume(e) <= SignedAmount(e) /\ SignedAmount(e) <= Volume(e)
                    /\ Inflow(e) = SignedAmount(e)
  BY <1>1
<1>2. e.amount \in Int
  BY <1>1, TablesAssumption DEF Counted, Event, Nullable, Decimals
<1>3. e.transaction_type \in Types \cup {NULL}
  BY <1>1 DEF Event, Nullable
<1>4. Inflow(e) = SignedAmount(e)
  BY <1>3, NullAssumption DEF Inflow, SignedAmount, Types
<1>5. SignedAmount(e) = e.amount \/ SignedAmount(e) = -e.amount
  BY DEF SignedAmount
<1> QED
  BY <1>2, <1>4, <1>5 DEF Volume

\* The sums of a batch are integers, and the volume bounds the deltas.
LEMMA BatchSums ==
    ASSUME NEW E, E \subseteq Event, IsFiniteSet(E), NEW a
    PROVE  /\ Deltas(E, a) \in Int /\ Volumes(E, a) \in Int
           /\ -Volumes(E, a) <= Deltas(E, a) /\ Deltas(E, a) <= Volumes(E, a)
           /\ Counted(E, a) = {} => Deltas(E, a) = 0 /\ Volumes(E, a) = 0
<1> DEFINE C == Counted(E, a)
           v == [e \in Event |-> SignedAmount(e)]
           w == [e \in Event |-> Volume(e)]
<1>1. IsFiniteSet(C)
  BY CountedTyped
<1>2. \A e \in C : v[e] \in Int /\ w[e] \in Int /\ -w[e] <= v[e] /\ v[e] <= w[e]
  BY CountedTyped
<1>3. Deltas(E, a) = SumFunctionOnSet(v, C) /\ Volumes(E, a) = SumFunctionOnSet(w, C)
  BY DEF Deltas, Volumes
<1> HIDE DEF C, v, w
<1>4. Deltas(E, a) \in Int /\ Volumes(E, a) \in Int
  BY <1>1, <1>2, <1>3, SumType
<1>5. -Volumes(E, a) <= Deltas(E, a) /\ Deltas(E, a) <= Volumes(E, a)
  BY <1>1, <1>2, <1>3, SumBounds
<1>6. C = {} => Deltas(E, a) = 0 /\ Volumes(E, a) = 0
  BY <1>3, SumEmpty
<1> QED
  BY <1>4, <1>5, <1>6 DEF C

\* net_delta is the sum of the deltas, as a DECIMAL.
LEMMA NetDeltaIsSum ==
    ASSUME NEW E, E \subseteq Event, IsFiniteSet(E), NEW a
    PROVE  NetDelta(E, a) = ToDecimal(Deltas(E, a))
<1> DEFINE C == Counted(E, a)
           v == [e \in Event |-> SignedAmount(e)]
           Unfold(g) == [s \in SUBSET C |->
                          IF s = {} THEN 0 ELSE SignedAmount(Pick(s)) + g[s \ {Pick(s)}]]
           h == CHOOSE g : g = Unfold(g)
<1>1. IsFiniteSet(C) /\ C \subseteq Event
  BY CountedTyped
<1>2. ASSUME NEW g PROVE IsSums(g, v, C) <=> g = Unfold(g)
  <2>1. \A s \in SUBSET C : s # {} => v[Pick(s)] = SignedAmount(Pick(s))
    BY <1>1, PickInSet
  <2> HIDE DEF v, C
  <2> QED
    BY <2>1 DEF IsSums
<1>3. IsSums(h, v, C)
  <2>1. \E g : IsSums(g, v, C)
    BY <1>1, SumsExist
  <2> QED
    BY <1>2, <2>1
<1>4. MapThenSumSet(SignedAmount, C) = h[C]
  BY Zenon DEF MapThenSumSet, MapThenFoldSet, Pick
<1> QED
  BY <1>1, <1>3, <1>4, SumsTotal DEF NetDelta, Deltas

\* The docstring's convention gives the same sum.
LEMMA InflowIsSum ==
    ASSUME NEW E, E \subseteq Event, IsFiniteSet(E), NEW a
    PROVE  MapThenSumSet(Inflow, Counted(E, a)) = Deltas(E, a)
<1> DEFINE C == Counted(E, a)
           v == [e \in Event |-> SignedAmount(e)]
           Unfold(g) == [s \in SUBSET C |->
                          IF s = {} THEN 0 ELSE Inflow(Pick(s)) + g[s \ {Pick(s)}]]
           h == CHOOSE g : g = Unfold(g)
<1>1. IsFiniteSet(C) /\ C \subseteq Event
  BY CountedTyped
<1>2. ASSUME NEW g PROVE IsSums(g, v, C) <=> g = Unfold(g)
  <2>1. \A s \in SUBSET C : s # {} => v[Pick(s)] = Inflow(Pick(s))
    BY <1>1, PickInSet, CountedTyped
  <2> HIDE DEF v, C
  <2> QED
    BY <2>1 DEF IsSums
<1>3. IsSums(h, v, C)
  <2>1. \E g : IsSums(g, v, C)
    BY <1>1, SumsExist
  <2> QED
    BY <1>2, <2>1
<1>4. MapThenSumSet(Inflow, C) = h[C]
  BY Zenon DEF MapThenSumSet, MapThenFoldSet, Pick
<1> QED
  BY <1>1, <1>3, <1>4, SumsTotal DEF Deltas

\* So is the volume a sum over a function.
LEMMA VolumeIsSum ==
    ASSUME NEW E, E \subseteq Event, IsFiniteSet(E), NEW a
    PROVE  MapThenSumSet(Volume, Counted(E, a)) = Volumes(E, a)
<1> DEFINE C == Counted(E, a)
           v == [e \in Event |-> Volume(e)]
           Unfold(g) == [s \in SUBSET C |->
                          IF s = {} THEN 0 ELSE Volume(Pick(s)) + g[s \ {Pick(s)}]]
           h == CHOOSE g : g = Unfold(g)
<1>1. IsFiniteSet(C) /\ C \subseteq Event
  BY CountedTyped
<1>2. ASSUME NEW g PROVE IsSums(g, v, C) <=> g = Unfold(g)
  <2>1. \A s \in SUBSET C : s # {} => v[Pick(s)] = Volume(Pick(s))
    BY <1>1, PickInSet
  <2> HIDE DEF v, C
  <2> QED
    BY <2>1 DEF IsSums
<1>3. IsSums(h, v, C)
  <2>1. \E g : IsSums(g, v, C)
    BY <1>1, SumsExist
  <2> QED
    BY <1>2, <2>1
<1>4. MapThenSumSet(Volume, C) = h[C]
  BY Zenon DEF MapThenSumSet, MapThenFoldSet, Pick
<1> QED
  BY <1>1, <1>3, <1>4, SumsTotal DEF Volumes

\* The ledger is the sum over the files of their deltas.
LEMMA LedgerIsSum ==
    ASSUME TablesTyped, NEW a
    PROVE  Ledger(Inflow, a) = LedgerOf(a)
<1> DEFINE v == [f \in Files |-> applied[f] * Deltas(Events(inputs[f]), a)]
           term(f) == applied[f] * MapThenSumSet(Inflow, Counted(Events(inputs[f]), a))
           Unfold(g) == [s \in SUBSET Files |->
                           IF s = {} THEN 0 ELSE term(Pick(s)) + g[s \ {Pick(s)}]]
           h == CHOOSE g : g = Unfold(g)
<1>1. IsFiniteSet(Files)
  BY TablesAssumption
<1>2. ASSUME NEW g PROVE IsSums(g, v, Files) <=> g = Unfold(g)
  <2>1. \A f \in Files : v[f] = term(f)
    BY EventsTyped, InflowIsSum DEF TablesTyped
  <2>2. \A s \in SUBSET Files : s # {} => v[Pick(s)] = term(Pick(s))
    BY <2>1, PickInSet
  <2> HIDE DEF v, term
  <2> QED
    BY <2>2 DEF IsSums
<1>3. IsSums(h, v, Files)
  <2>1. \E g : IsSums(g, v, Files)
    BY <1>1, SumsExist
  <2> QED
    BY <1>2, <2>1
<1>4. Ledger(Inflow, a) = h[Files]
  BY Zenon DEF Ledger, MapThenSumSet, MapThenFoldSet, Pick
<1> QED
  BY <1>1, <1>3, <1>4, SumsTotal DEF LedgerOf

\* So is its volume.
LEMMA VolumeLedgerIsSum ==
    ASSUME TablesTyped, NEW a
    PROVE  Ledger(Volume, a) = VolumeOf(a)
<1> DEFINE v == [f \in Files |-> applied[f] * Volumes(Events(inputs[f]), a)]
           term(f) == applied[f] * MapThenSumSet(Volume, Counted(Events(inputs[f]), a))
           Unfold(g) == [s \in SUBSET Files |->
                           IF s = {} THEN 0 ELSE term(Pick(s)) + g[s \ {Pick(s)}]]
           h == CHOOSE g : g = Unfold(g)
<1>1. IsFiniteSet(Files)
  BY TablesAssumption
<1>2. ASSUME NEW g PROVE IsSums(g, v, Files) <=> g = Unfold(g)
  <2>1. \A f \in Files : v[f] = term(f)
    BY EventsTyped, VolumeIsSum DEF TablesTyped
  <2>2. \A s \in SUBSET Files : s # {} => v[Pick(s)] = term(Pick(s))
    BY <2>1, PickInSet
  <2> HIDE DEF v, term
  <2> QED
    BY <2>2 DEF IsSums
<1>3. IsSums(h, v, Files)
  <2>1. \E g : IsSums(g, v, Files)
    BY <1>1, SumsExist
  <2> QED
    BY <1>2, <2>1
<1>4. Ledger(Volume, a) = h[Files]
  BY Zenon DEF Ledger, MapThenSumSet, MapThenFoldSet, Pick
<1> QED
  BY <1>1, <1>3, <1>4, SumsTotal DEF VolumeOf

\* The volume of the ledger bounds it, and is 0 while no event is applied.
LEMMA LedgerBounded ==
    ASSUME TablesTyped, LoopTyped, NEW a
    PROVE  /\ LedgerOf(a) \in Int /\ VolumeOf(a) \in Int
           /\ -VolumeOf(a) <= LedgerOf(a) /\ LedgerOf(a) <= VolumeOf(a)
           /\ AppliedEvents(a) = {} => LedgerOf(a) = 0
<1> DEFINE v == [f \in Files |-> applied[f] * Deltas(Events(inputs[f]), a)]
           w == [f \in Files |-> applied[f] * Volumes(Events(inputs[f]), a)]
<1>1. IsFiniteSet(Files)
  BY TablesAssumption
<1>2. ASSUME NEW n \in Nat, NEW x \in Int, NEW y \in Int, -y <= x, x <= y
      PROVE  n * x \in Int /\ n * y \in Int /\ -(n * y) <= n * x /\ n * x <= n * y
  BY <1>2
<1>3. \A f \in Files : v[f] \in Int /\ w[f] \in Int /\ -w[f] <= v[f] /\ v[f] <= w[f]
  <2> TAKE f \in Files
  <2> DEFINE x == Deltas(Events(inputs[f]), a)
             y == Volumes(Events(inputs[f]), a)
  <2>1. x \in Int /\ y \in Int /\ -y <= x /\ x <= y
    BY EventsTyped, BatchSums DEF TablesTyped
  <2>2. applied[f] \in Nat
    BY DEF LoopTyped
  <2>3. v[f] = applied[f] * x /\ w[f] = applied[f] * y
    OBVIOUS
  <2> HIDE DEF x, y, v, w
  <2> QED
    BY <1>2, <2>1, <2>2, <2>3
<1>4. AppliedEvents(a) = {} => \A f \in Files : v[f] = 0
  <2> SUFFICES ASSUME AppliedEvents(a) = {}, NEW f \in Files
               PROVE  applied[f] * Deltas(Events(inputs[f]), a) = 0
    OBVIOUS
  <2>1. applied[f] \in Nat
    BY DEF LoopTyped
  <2>2. Deltas(Events(inputs[f]), a) \in Int
    BY EventsTyped, BatchSums DEF TablesTyped
  <2>3. CASE applied[f] = 0
    BY <2>2, <2>3
  <2>4. CASE applied[f] > 0
    <3>1. Counted(Events(inputs[f]), a) = {}
      BY <2>4 DEF AppliedEvents
    <3>2. Deltas(Events(inputs[f]), a) = 0
      BY <3>1, EventsTyped, BatchSums DEF TablesTyped
    <3> QED
      BY <2>1, <3>2
  <2> QED
    BY <2>1, <2>3, <2>4
<1>5. LedgerOf(a) = SumFunctionOnSet(v, Files) /\ VolumeOf(a) = SumFunctionOnSet(w, Files)
  BY DEF LedgerOf, VolumeOf
<1> HIDE DEF v, w
<1>6. LedgerOf(a) \in Int /\ VolumeOf(a) \in Int
  BY <1>1, <1>3, <1>5, SumType
<1>7. -VolumeOf(a) <= LedgerOf(a) /\ LedgerOf(a) <= VolumeOf(a)
  BY <1>1, <1>3, <1>5, SumBounds
<1>8. AppliedEvents(a) = {} => LedgerOf(a) = 0
  BY <1>1, <1>4, <1>5, SumZero
<1> QED
  BY <1>6, <1>7, <1>8

\* Committing the deltas of a file adds its sums once more.
LEMMA LedgerGrows ==
    ASSUME TablesTyped, LoopTyped, NEW f \in Files, applied' = [applied EXCEPT ![f] = @ + 1],
           inputs' = inputs, NEW a
    PROVE  /\ LedgerOf(a)' = LedgerOf(a) + Deltas(Events(inputs[f]), a)
           /\ VolumeOf(a)' = VolumeOf(a) + Volumes(Events(inputs[f]), a)
<1> DEFINE d(g) == Deltas(Events(inputs[g]), a)
           u(g) == Volumes(Events(inputs[g]), a)
           v  == [g \in Files |-> applied[g] * d(g)]
           w  == [g \in Files |-> applied[g] * u(g)]
           nv == [g \in Files |-> applied'[g] * d(g)]
           nw == [g \in Files |-> applied'[g] * u(g)]
<1>1. IsFiniteSet(Files)
  BY TablesAssumption
<1>2. \A g \in Files : d(g) \in Int /\ u(g) \in Int
  BY EventsTyped, BatchSums DEF TablesTyped
<1>3. /\ \A g \in Files : applied[g] \in Nat /\ applied'[g] \in Nat
      /\ applied'[f] = applied[f] + 1
      /\ \A g \in Files \ {f} : applied'[g] = applied[g]
  BY DEF LoopTyped
<1>4. /\ LedgerOf(a) = SumFunctionOnSet(v, Files)
      /\ VolumeOf(a) = SumFunctionOnSet(w, Files)
      /\ LedgerOf(a)' = SumFunctionOnSet(nv, Files)
      /\ VolumeOf(a)' = SumFunctionOnSet(nw, Files)
  BY DEF LedgerOf, VolumeOf
<1>5. \A n \in Nat, x \in Int : n * x \in Int /\ (n + 1) * x - n * x = x
  OBVIOUS
<1>6. \A g \in Files : /\ v[g] = applied[g] * d(g) /\ nv[g] = applied'[g] * d(g)
                       /\ w[g] = applied[g] * u(g) /\ nw[g] = applied'[g] * u(g)
  OBVIOUS
<1> HIDE DEF d, u, v, w, nv, nw
<1>7. /\ \A g \in Files : v[g] \in Int /\ nv[g] \in Int
      /\ \A g \in Files \ {f} : v[g] = nv[g]
      /\ nv[f] - v[f] = d(f)
  BY <1>2, <1>3, <1>5, <1>6
<1>8. /\ \A g \in Files : w[g] \in Int /\ nw[g] \in Int
      /\ \A g \in Files \ {f} : w[g] = nw[g]
      /\ nw[f] - w[f] = u(f)
  BY <1>2, <1>3, <1>5, <1>6
<1>9. SumFunctionOnSet(nv, Files) = SumFunctionOnSet(v, Files) + (nv[f] - v[f])
  <2>1. \A x \in Files : v[x] \in Int /\ nv[x] \in Int
    BY <1>7
  <2>2. \A x \in Files \ {f} : v[x] = nv[x]
    BY <1>7
  <2> QED  BY ONLY <1>1, f \in Files, <2>1, <2>2, SumUpdate
<1>10. SumFunctionOnSet(nw, Files) = SumFunctionOnSet(w, Files) + (nw[f] - w[f])
  <2>1. \A x \in Files : w[x] \in Int /\ nw[x] \in Int
    BY <1>8
  <2>2. \A x \in Files \ {f} : w[x] = nw[x]
    BY <1>8
  <2> QED  BY ONLY <1>1, f \in Files, <2>1, <2>2, SumUpdate
<1>11. LedgerOf(a)' = LedgerOf(a) + d(f)
  BY <1>4, <1>7, <1>9, Zenon
<1>12. VolumeOf(a)' = VolumeOf(a) + u(f)
  BY <1>4, <1>8, <1>10, Zenon
<1> QED
  BY <1>11, <1>12 DEF d, u

\* BalanceIsLedger, with the ledger as a sum over functions.
LedgerInv ==
    \A a \in Accounts :
        /\ balances[a] = NoRow <=> AppliedEvents(a) = {}
        /\ balances[a] # NoRow =>
             \/ balances[a].current_balance = LedgerOf(a)
             \/ balances[a].current_balance = NULL /\ VolumeOf(a) > DecMax

\* No account has a row at first, and nothing is applied.
LEMMA LedgerInit == Init => LedgerInv
BY DEF Init, LedgerInv, AppliedEvents

\* Adding a batch to a balance: the sum, unless it left DECIMAL(18,2) now or before.
LEMMA MergedBalanceAdds ==
    ASSUME NEW E, E \subseteq Event, IsFiniteSet(E), NEW a,
           NEW row \in BalanceRow \cup {NoRow}, NEW ledger \in Int, NEW vol \in Int,
           -vol <= ledger, ledger <= vol,
           row = NoRow => ledger = 0,
           row # NoRow =>
             \/ row.current_balance = ledger
             \/ row.current_balance = NULL /\ vol > DecMax
    PROVE  \/ MergedBalance(row, E, a).current_balance = ledger + Deltas(E, a)
           \/ /\ MergedBalance(row, E, a).current_balance = NULL
              /\ vol + Volumes(E, a) > DecMax
<1> DEFINE d == Deltas(E, a)
           u == Volumes(E, a)
           balance == MergedBalance(row, E, a).current_balance
<1> SUFFICES balance = ledger + d \/ (balance = NULL /\ vol + u > DecMax)
  OBVIOUS
<1>1. d \in Int /\ u \in Int /\ -u <= d /\ d <= u
  BY BatchSums
<1>2. NetDelta(E, a) = ToDecimal(d)
  BY NetDeltaIsSum
<1>3. NULL \notin Int /\ DecMax \in Nat
  BY NullAssumption, TablesAssumption
<1>4. \A x \in Int : ToDecimal(x) = IF -DecMax <= x /\ x <= DecMax THEN x ELSE NULL
  BY <1>3 DEF ToDecimal, Decimals
<1>5. CASE row = NoRow
  <2>1. balance = ToDecimal(d)
    BY <1>2, <1>5 DEF MergedBalance
  <2> HIDE DEF d, u, balance
  <2> QED
    BY <1>1, <1>3, <1>4, <1>5, <2>1
<1>6. CASE row # NoRow
  <2>1. balance = PlusDecimal(row.current_balance, ToDecimal(d))
    BY <1>2, <1>6 DEF MergedBalance
  <2>2. row.current_balance = ledger \/ (row.current_balance = NULL /\ vol > DecMax)
    BY <1>6
  <2> HIDE DEF d, u, balance
  <2>3. CASE row.current_balance = NULL
    BY <1>1, <1>3, <2>1, <2>2, <2>3 DEF PlusDecimal
  <2>4. CASE row.current_balance = ledger /\ ToDecimal(d) = NULL
    BY <1>1, <1>3, <1>4, <2>1, <2>4 DEF PlusDecimal
  <2>5. CASE row.current_balance = ledger /\ ToDecimal(d) # NULL
    <3>1. ToDecimal(d) = d
      BY <2>5 DEF ToDecimal
    <3>2. balance = ToDecimal(ledger + d)
      BY <1>1, <1>3, <2>1, <2>5, <3>1 DEF PlusDecimal
    <3>3. ledger + d \in Int
      BY <1>1
    <3> QED
      BY <1>1, <1>3, <1>4, <3>2, <3>3
  <2> QED
    BY <2>2, <2>3, <2>4, <2>5
<1> QED
  BY <1>5, <1>6

\* Only the MERGE into current_balances matters: with its commit the balance, the
\* ledger and the volume take the same batch.
LEMMA LedgerNext == LoopInv /\ TablesInv /\ LedgerInv /\ [Next]_vars => LedgerInv'
<1> SUFFICES ASSUME LoopInv, TablesInv, LedgerInv, [Next]_vars PROVE LedgerInv'
  OBVIOUS
<1> USE DEF volume, tmp, pass, memory, bounds, history
<1>1. TablesTyped /\ LoopTyped
  BY DEF TablesInv, LoopInv
<1>2. CASE UpsertCurrentBalances /\ HasColumns(BalanceColumns)
  <2>1. /\ pc = "balances"
        /\ balances' = MergeBalances(balances, Batch)
        /\ applied' = [applied EXCEPT ![Current] = @ + 1]
        /\ inputs' = inputs
    BY <1>2 DEF UpsertCurrentBalances
  <2>2. Current \in Files /\ Batch = Events(inputs[Current])
    BY <1>1, <2>1, CurrentIsFirst DEF LoopTyped, InFile, Batch
  <2>3. Batch \subseteq Event /\ IsFiniteSet(Batch)
    BY <1>1, <2>2, EventsTyped DEF TablesTyped
  <2> SUFFICES ASSUME NEW a \in Accounts
               PROVE  /\ balances'[a] = NoRow <=> AppliedEvents(a)' = {}
                      /\ balances'[a] # NoRow =>
                           \/ balances'[a].current_balance = LedgerOf(a)'
                           \/ /\ balances'[a].current_balance = NULL
                              /\ VolumeOf(a)' > DecMax
    BY DEF LedgerInv
  <2> DEFINE row == balances[a]
             C   == Counted(Batch, a)
  <2>4. AppliedEvents(a)' = AppliedEvents(a) \cup C
    BY <1>1, <2>1, <2>2, AppliedEventsGrow
  <2>5. /\ LedgerOf(a)' = LedgerOf(a) + Deltas(Batch, a)
        /\ VolumeOf(a)' = VolumeOf(a) + Volumes(Batch, a)
    BY <1>1, <2>1, <2>2, LedgerGrows
  <2>6. /\ LedgerOf(a) \in Int /\ VolumeOf(a) \in Int
        /\ -VolumeOf(a) <= LedgerOf(a) /\ LedgerOf(a) <= VolumeOf(a)
        /\ AppliedEvents(a) = {} => LedgerOf(a) = 0
    BY <1>1, LedgerBounded
  <2>7. /\ row = NoRow <=> AppliedEvents(a) = {}
        /\ row # NoRow =>
             \/ row.current_balance = LedgerOf(a)
             \/ row.current_balance = NULL /\ VolumeOf(a) > DecMax
    BY DEF LedgerInv
  <2>8. CASE C = {}
    <3>1. balances'[a] = row /\ AppliedEvents(a)' = AppliedEvents(a)
      BY <2>1, <2>4, <2>8 DEF MergeBalances
    <3>2. Deltas(Batch, a) = 0 /\ Volumes(Batch, a) = 0
      BY <2>3, <2>8, BatchSums
    <3>3. LedgerOf(a)' = LedgerOf(a) /\ VolumeOf(a)' = VolumeOf(a)
      BY <2>5, <2>6, <3>2
    <3> QED
      BY <2>7, <3>1, <3>3
  <2>9. CASE C # {}
    <3>1. row \in BalanceRow \cup {NoRow} /\ balances'[a] = MergedBalance(row, Batch, a)
      BY <1>1, <2>1, <2>9 DEF MergeBalances, TablesTyped
    <3>2. balances'[a] # NoRow /\ AppliedEvents(a)' # {}
      BY <2>3, <2>4, <2>9, <3>1, MergedBalanceTyped, NoRowAssumption
    <3>3. \/ balances'[a].current_balance = LedgerOf(a) + Deltas(Batch, a)
          \/ /\ balances'[a].current_balance = NULL
             /\ VolumeOf(a) + Volumes(Batch, a) > DecMax
      BY <2>3, <2>6, <2>7, <3>1, MergedBalanceAdds
    <3> QED
      BY <2>5, <3>2, <3>3
  <2> QED
    BY <2>8, <2>9
<1>3. CASE UNCHANGED <<inputs, balances, applied>>
  BY <1>3 DEF LedgerInv, AppliedEvents, LedgerOf, VolumeOf
<1> QED
  BY <1>2, <1>3
     DEF Next, Step, Raise, Poll, EndOfPass, Sleep, ParseStreamEvents, UpsertCurrentBalances,
         UpsertRecentTransactions, Retention, RecordProcessed, RetryLater, GiveUp,
         RecordFailed, NextFile, PollRaises, StatementRaises, RecordProcessedRaises,
         HandlerRaises, Crash, Start, Arrive, vars

\* current_balances is the sum of the committed batches, whatever fails and is
\* retried or killed; DECIMAL overflow turns a balance into NULL, never into
\* another number.
THEOREM BalancesAddUp == Spec => []BalanceIsLedger
<1>1. LoopInv /\ TablesInv /\ LedgerInv => BalanceIsLedger
  BY LedgerIsSum, VolumeLedgerIsSum DEF TablesInv, LedgerInv, BalanceIsLedger
<1> QED
  BY <1>1, LedgerInit, LedgerNext, LoopInvariant, TablesInvariant, PTL DEF Spec

-----------------------------------------------------------------------------
(* The newest transactions.                                                *)

\* The events that the rows of an account carry.
Kept(a) == {r.event : r \in OfAccount(recents, a)}

\* MAX_RECENT rows of the account stand before an event in the order of the
\* retention window: a pass may drop it.
Dispensable(rows, e) ==
    \E W \in SUBSET rows :
        Cardinality(W) = MAX_RECENT /\ \A w \in W : NotOlder(w, [event |-> e])

\* With immutable transactions no key has two rows, every row is an event of a
\* merged file, and a merged event without a row has MAX_RECENT rows before it:
\* between MERGE and retention, across retries, and after a kill.
RecentInv ==
    ImmutableTransactions =>
        /\ \A r \in recents : \E f \in merged : r.event \in Events(inputs[f])
        /\ \A r, s \in recents : SameKey(r.event, s.event) => r = s
        /\ \A a \in Accounts : \A e \in MergedEvents(a) :
               e \in Kept(a) \/ Dispensable(OfAccount(recents, a), e)

\* Nothing is merged at first.
LEMMA RecentInit == Init => RecentInv
BY DEF Init, RecentInv, MergedEvents

\* The window's order is transitive.
LEMMA NotOlderTransitive ==
    ASSUME NEW r, NEW s, NEW t, NotOlder(r, s), NotOlder(s, t),
           {r.event, s.event, t.event} \subseteq Event
    PROVE  NotOlder(r, t)
<1>1. \A x \in {r, s, t} : x.event.transaction_timestamp \in Nullable(Times)
  BY DEF Event
<1>2. \A x \in Nullable(Times) : x # NULL => x \in Int
  BY TablesAssumption DEF Nullable, Times
<1> QED
  BY <1>1, <1>2 DEF NotOlder

\* With immutable transactions an event of the batch that matches a row is the
\* row's own event, so that the MERGE only inserts: a row for each event that
\* has none.
LEMMA MergeOnlyInserts ==
    ASSUME TablesTyped, merged \subseteq Files, ImmutableTransactions,
           \A r \in recents : \E g \in merged : r.event \in Events(inputs[g]),
           NEW f \in Files
    PROVE  /\ \A r \in recents, e \in Events(inputs[f]) : SameKey(r.event, e) => r.event = e
           /\ recents \subseteq MergeRecent(recents, f, Events(inputs[f]))
           /\ \A r \in MergeRecent(recents, f, Events(inputs[f])) :
                 \/ r \in recents
                 \/ \E e \in Events(inputs[f]) :
                       /\ r = NewRow(recents, f, e)
                       /\ \A s \in recents : ~SameKey(s.event, e)
           /\ \A e \in Events(inputs[f]) :
                 \E r \in MergeRecent(recents, f, Events(inputs[f])) : r.event = e
<1> DEFINE E == Events(inputs[f])
<1>1. ASSUME NEW r \in recents, NEW e \in E, SameKey(r.event, e) PROVE r.event = e
  BY <1>1 DEF ImmutableTransactions
<1>2. ASSUME NEW r \in recents PROVE UpdatedRow(r, E) = r
  <2>1. CASE \E e \in E : SameKey(r.event, e)
    <3>1. (CHOOSE e \in E : SameKey(r.event, e)) = r.event
      BY <1>1, <2>1
    <3>2. r \in RecentRow
      BY DEF TablesTyped
    <3> QED
      BY <2>1, <3>1, <3>2 DEF UpdatedRow, RecentRow
  <2> QED
    BY <2>1 DEF UpdatedRow
<1>3. MergeRecent(recents, f, E) =
        recents \cup {NewRow(recents, f, e) :
                          e \in {x \in E : \A r \in recents : ~SameKey(r.event, x)}}
  BY <1>2 DEF MergeRecent
<1>4. ASSUME NEW e \in E PROVE \E r \in MergeRecent(recents, f, E) : r.event = e
  <2>1. CASE \E r \in recents : SameKey(r.event, e)
    BY <1>1, <1>3, <2>1
  <2>2. CASE \A r \in recents : ~SameKey(r.event, e)
    <3>1. NewRow(recents, f, e) \in MergeRecent(recents, f, E)
      BY <1>3, <2>2
    <3>2. NewRow(recents, f, e).event = e
      BY DEF NewRow
    <3> QED
      BY <3>1, <3>2
  <2> QED
    BY <2>1, <2>2
<1> QED
  BY <1>1, <1>3, <1>4

\* Removing the rows past the limit keeps MAX_RECENT rows before every event
\* that has no row.
LEMMA RetentionKeepsNewest ==
    ASSUME NEW table, IsFiniteSet(table), table \subseteq RecentRow,
           NEW D \in SUBSET table, PastLimit(table, D), NEW a \in Accounts, NEW e \in Event,
           \/ \E r \in OfAccount(D, a) : r.event = e
           \/ Dispensable(OfAccount(table, a), e)
    PROVE  Dispensable(OfAccount(table, a) \ OfAccount(D, a), e)
<1> DEFINE rows == OfAccount(table, a)
           old  == OfAccount(D, a)
           new  == rows \ old
           last == [event |-> e]
<1>1. IsFiniteSet(rows) /\ old \subseteq rows /\ IsFiniteSet(old) /\ IsFiniteSet(new)
  BY FS_Subset, FS_Difference DEF OfAccount
<1>2. Cardinality(rows) \in Nat /\ Cardinality(old) \in Nat
  BY <1>1, FS_CardinalityType
<1>3. Cardinality(new) = Cardinality(rows) - Cardinality(old)
  <2>1. rows \cap old = old
    BY <1>1
  <2>2. Cardinality(rows \ old) = Cardinality(rows) - Cardinality(rows \cap old)
    BY <1>1, FS_Difference
  <2> QED
    BY <2>1, <2>2
<1>4. /\ Cardinality(rows) <= MAX_RECENT => Cardinality(old) = 0
      /\ Cardinality(rows) > MAX_RECENT => Cardinality(old) = Cardinality(rows) - MAX_RECENT
  <2> DEFINE n == Cardinality(rows) - MAX_RECENT
  <2>1. Cardinality(old) = Max({0, n})
    BY DEF PastLimit, Nullable
  <2>2. n \in Int
    BY <1>2, TablesAssumption
  <2>3. Max({0, n}) = IF n > 0 THEN n ELSE 0
    <3>1. \A x \in {0, n} : (IF n > 0 THEN n ELSE 0) >= x
      BY <2>2
    <3>2. \A m \in {0, n} : (\A x \in {0, n} : m >= x) => m = IF n > 0 THEN n ELSE 0
      BY <2>2
    <3>3. (IF n > 0 THEN n ELSE 0) \in {0, n}
      OBVIOUS
    <3> HIDE DEF n
    <3> QED
      BY <3>1, <3>2, <3>3 DEF Max
  <2> QED
    BY <1>2, <2>1, <2>2, <2>3, TablesAssumption
<1>5. \A r \in new, s \in old : NotOlder(r, s)
  BY DEF PastLimit, Nullable
<1>6. \A r \in rows : r.event \in Event
  BY DEF OfAccount, RecentRow
<1>7. CASE \E r \in old : r.event = e
  <2>1. PICK d \in old : d.event = e
    BY <1>7
  <2>2. \A r \in new : NotOlder(r, last)
    BY <1>5, <2>1 DEF NotOlder
  <2>3. Cardinality(old) # 0
    BY <1>1, <2>1, FS_EmptySet
  <2>4. Cardinality(new) = MAX_RECENT
    BY <1>2, <1>3, <1>4, <2>3, TablesAssumption
  <2> QED
    BY <2>2, <2>4 DEF Dispensable
<1>8. CASE Dispensable(rows, e)
  <2>1. PICK W \in SUBSET rows :
          Cardinality(W) = MAX_RECENT /\ \A w \in W : NotOlder(w, last)
    BY <1>8 DEF Dispensable
  <2>2. CASE W \subseteq new
    BY <2>1, <2>2 DEF Dispensable
  <2>3. CASE ~ (W \subseteq new)
    <3>1. PICK w \in W : w \in old
      BY <2>1, <2>3
    <3>2. \A r \in new : NotOlder(r, last)
      <4> SUFFICES ASSUME NEW r \in new PROVE NotOlder(r, last)
        OBVIOUS
      <4>1. NotOlder(r, w) /\ NotOlder(w, last)
        BY <1>5, <2>1, <3>1
      <4>2. {r.event, w.event, last.event} \subseteq Event
        BY <1>6, <2>1
      <4> QED
        BY <4>1, <4>2, NotOlderTransitive
    <3>3. Cardinality(old) # 0
      BY <1>1, <3>1, FS_EmptySet
    <3>4. Cardinality(new) = MAX_RECENT
      BY <1>2, <1>3, <1>4, <3>3, TablesAssumption
    <3> QED
      BY <3>2, <3>4 DEF Dispensable
  <2> QED
    BY <2>2, <2>3
<1> QED
  BY <1>7, <1>8

\* The MERGE covers every event of its file, the retention pass every event
\* whose row it removes; no other step touches the rows.
LEMMA RecentNext == LoopInv /\ TablesInv /\ RecentInv /\ [Next]_vars => RecentInv'
<1> SUFFICES ASSUME LoopInv, TablesInv, RecentInv, [Next]_vars, ImmutableTransactions'
             PROVE  RecentInv'
  BY DEF RecentInv
<1> USE DEF volume, tmp, pass, memory, bounds, history
<1>1. TablesTyped /\ LoopTyped /\ IsFiniteSet(recents)
  BY DEF TablesInv, LoopInv
<1>2. inputs' = inputs
  BY DEF Next, Step, Raise, Poll, EndOfPass, Sleep, ParseStreamEvents, UpsertCurrentBalances,
         UpsertRecentTransactions, Retention, RecordProcessed, RetryLater, GiveUp,
         RecordFailed, NextFile, PollRaises, StatementRaises, RecordProcessedRaises,
         HandlerRaises, Crash, Start, Arrive, vars
<1>3. ImmutableTransactions
  BY <1>2 DEF ImmutableTransactions
<1>4. merged \subseteq Files /\ recents \subseteq RecentRow
  BY <1>1 DEF LoopTyped, TablesTyped
<1>5. /\ \A r \in recents : \E f \in merged : r.event \in Events(inputs[f])
      /\ \A r, s \in recents : SameKey(r.event, s.event) => r = s
      /\ \A a \in Accounts : \A e \in MergedEvents(a) :
             e \in Kept(a) \/ Dispensable(OfAccount(recents, a), e)
  BY <1>3 DEF RecentInv
<1>6. CASE /\ UpsertRecentTransactions
           /\ HasColumns(RecentColumns) /\ ~AmbiguousMerge(recents, Batch)
  <2> DEFINE E == Batch
  <2>1. /\ pc = "recents"
        /\ recents' = MergeRecent(recents, Current, E)
        /\ merged' = merged \cup {Current}
    BY <1>6 DEF UpsertRecentTransactions
  <2>2. Current \in Files /\ E = Events(inputs[Current])
    BY <1>1, <2>1, CurrentIsFirst DEF LoopTyped, InFile, Batch
  <2>3. /\ \A r \in recents, e \in E : SameKey(r.event, e) => r.event = e
        /\ recents \subseteq recents'
        /\ \A r \in recents' :
              \/ r \in recents
              \/ \E e \in E : /\ r = NewRow(recents, Current, e)
                             /\ \A s \in recents : ~SameKey(s.event, e)
        /\ \A e \in E : \E r \in recents' : r.event = e
    BY <1>1, <1>3, <1>4, <1>5, <2>1, <2>2, MergeOnlyInserts
  <2>4. \A e : NewRow(recents, Current, e).event = e
    BY DEF NewRow
  <2>5. \A r \in recents' : \E f \in merged' : r.event \in Events(inputs[f])
    BY <1>5, <2>1, <2>2, <2>3, <2>4
  <2>6. \A r, s \in recents' : SameKey(r.event, s.event) => r = s
    <3> SUFFICES ASSUME NEW r \in recents', NEW s \in recents', SameKey(r.event, s.event)
                 PROVE  r = s
      OBVIOUS
    <3>1. SameKey(s.event, r.event)
      BY DEF SameKey
    <3>2. CASE r \in recents /\ s \in recents
      BY <1>5, <3>2
    <3>3. CASE r \in recents /\ s \notin recents
      BY <2>3, <2>4, <3>3
    <3>4. CASE r \notin recents /\ s \in recents
      BY <2>3, <2>4, <3>1, <3>4
    <3>5. CASE r \notin recents /\ s \notin recents
      <4>1. r.event \in E /\ s.event \in E
        BY <2>3, <2>4, <3>5
      <4>2. r.event = s.event
        BY <1>3, <2>2, <4>1 DEF ImmutableTransactions
      <4> QED
        BY <2>3, <2>4, <3>5, <4>2
    <3> QED
      BY <3>2, <3>3, <3>4, <3>5
  <2>7. ASSUME NEW a \in Accounts, NEW e \in MergedEvents(a)'
        PROVE  e \in Kept(a)' \/ Dispensable(OfAccount(recents', a), e)
    <3>1. Kept(a) \subseteq Kept(a)' /\ OfAccount(recents, a) \subseteq OfAccount(recents', a)
      BY <2>3 DEF Kept, OfAccount
    <3>2. e \in MergedEvents(a) \/ (e \in E /\ e.account_id = a)
      BY <1>2, <2>1, <2>2 DEF MergedEvents
    <3>3. CASE e \in MergedEvents(a)
      BY <1>5, <3>1, <3>3 DEF Dispensable
    <3>4. CASE e \in E /\ e.account_id = a
      <4>1. PICK r \in recents' : r.event = e
        BY <2>3, <3>4
      <4>2. r \in OfAccount(recents', a)
        BY <3>4, <4>1 DEF OfAccount
      <4> QED
        BY <4>1, <4>2 DEF Kept
    <3> QED
      BY <3>2, <3>3, <3>4
  <2> QED
    BY <1>2, <2>5, <2>6, <2>7 DEF RecentInv
<1>7. CASE Retention
  <2>1. PICK D \in SUBSET recents : PastLimit(recents, D) /\ recents' = DeleteKeys(recents, D)
    BY <1>7 DEF Retention
  <2>2. merged' = merged
    BY <1>7 DEF Retention
  <2>3. \A r \in recents : Keyed(r.event)
    BY <1>3, <1>4, <1>5 DEF ImmutableTransactions
  <2>4. recents' = recents \ D
    BY <1>5, <2>1, <2>3 DEF DeleteKeys, SameKey, Keyed
  <2>5. ASSUME NEW a \in Accounts, NEW e \in MergedEvents(a)'
        PROVE  e \in Kept(a)' \/ Dispensable(OfAccount(recents', a), e)
    <3>1. e \in MergedEvents(a)
      BY <1>2, <2>2 DEF MergedEvents
    <3>2. e \in Event
      BY <1>1, <1>4, <3>1, EventsTyped DEF MergedEvents, TablesTyped
    <3>3. OfAccount(recents', a) = OfAccount(recents, a) \ OfAccount(D, a)
      BY <2>4 DEF OfAccount
    <3>4. CASE e \in Kept(a)'
      BY <3>4
    <3>5. CASE e \in Kept(a) /\ e \notin Kept(a)'
      <4>1. \E r \in OfAccount(D, a) : r.event = e
        BY <3>3, <3>5 DEF Kept
      <4> QED
        BY <1>1, <1>4, <2>1, <3>2, <3>3, <4>1, RetentionKeepsNewest
    <3>6. CASE e \notin Kept(a)
      <4>1. Dispensable(OfAccount(recents, a), e)
        BY <1>5, <3>1, <3>6
      <4> QED
        BY <1>1, <1>4, <2>1, <3>2, <3>3, <4>1, RetentionKeepsNewest
    <3> QED
      BY <3>4, <3>5, <3>6
  <2> QED
    BY <1>2, <1>5, <2>2, <2>4, <2>5 DEF RecentInv
<1>8. CASE UNCHANGED <<recents, merged>>
  BY <1>2, <1>5, <1>8 DEF RecentInv, Kept, MergedEvents
<1> QED
  BY <1>6, <1>7, <1>8
     DEF Next, Step, Raise, Poll, EndOfPass, Sleep, ParseStreamEvents, UpsertCurrentBalances,
         UpsertRecentTransactions, RecordProcessed, RetryLater, GiveUp,
         RecordFailed, NextFile, PollRaises, StatementRaises, RecordProcessedRaises,
         HandlerRaises, Crash, Start, Arrive, vars

\* The merged events of an account are finitely many.
LEMMA MergedEventsFinite ==
    ASSUME TablesTyped, LoopTyped, NEW a
    PROVE  IsFiniteSet(MergedEvents(a))
<1> DEFINE part == [f \in merged |-> {e \in Events(inputs[f]) : e.account_id = a}]
           parts == {{e \in Events(inputs[f]) : e.account_id = a} : f \in merged}
<1>1. IsFiniteSet(merged)
  BY TablesAssumption, FS_Subset DEF LoopTyped
<1>2. part \in Surjection(merged, parts)
  BY DEF Surjection
<1>3. IsFiniteSet(parts)
  BY <1>1, <1>2, FS_Surjection
<1>4. ASSUME NEW f \in merged PROVE IsFiniteSet({e \in Events(inputs[f]) : e.account_id = a})
  <2>1. IsFiniteSet(Events(inputs[f]))
    BY EventsTyped DEF TablesTyped, LoopTyped
  <2> QED
    BY <2>1, FS_Subset
<1>5. \A P \in parts : IsFiniteSet(P)
  BY <1>4
<1> HIDE DEF parts
<1>6. IsFiniteSet(UNION parts)
  BY <1>3, <1>5, FS_UNION
<1> QED
  BY <1>6 DEF MergedEvents, parts

\* Right after the retention pass that is what RecentIsNewest says: the rows are
\* at most MAX_RECENT, so those before a dropped event are all of them.
LEMMA RecentInvSuffices == LoopInv /\ TablesInv /\ RecentInv => RecentIsNewest
<1> SUFFICES ASSUME LoopInv, TablesInv, RecentInv, pc = "record", ImmutableTransactions,
                    NEW a \in Accounts
             PROVE  LET kept == Kept(a)
                        all  == MergedEvents(a)
                    IN  /\ kept \subseteq all
                        /\ Cardinality(OfAccount(recents, a)) = Cardinality(kept)
                        /\ Cardinality(kept) = Min({MAX_RECENT, Cardinality(all)})
                        /\ \A k \in kept, e \in all \ kept :
                               k.transaction_timestamp = NULL => e.transaction_timestamp = NULL
                        /\ \A k \in kept, e \in all \ kept :
                               {k.transaction_timestamp, e.transaction_timestamp} \subseteq Times =>
                                   k.transaction_timestamp >= e.transaction_timestamp
  BY DEF RecentIsNewest, Kept
<1> DEFINE rows == OfAccount(recents, a)
           kept == Kept(a)
           all  == MergedEvents(a)
<1>1. TablesTyped /\ LoopTyped /\ IsFiniteSet(recents) /\ KeyedRowsBounded
  BY DEF TablesInv, LoopInv
<1>2. /\ \A r \in recents : \E f \in merged : r.event \in Events(inputs[f])
      /\ \A r, s \in recents : SameKey(r.event, s.event) => r = s
      /\ \A e \in all : e \in kept \/ Dispensable(rows, e)
  BY DEF RecentInv
<1>3. kept \subseteq all
  BY <1>2 DEF Kept, OfAccount, MergedEvents
<1>4. \A r \in recents : Keyed(r.event)
  BY <1>1, <1>2 DEF ImmutableTransactions, LoopTyped
<1>5. IsFiniteSet(rows)
  BY <1>1, FS_Subset DEF OfAccount
<1>6. IsFiniteSet(kept) /\ Cardinality(rows) = Cardinality(kept)
  <2> DEFINE event == [r \in rows |-> r.event]
  <2>1. event \in Surjection(rows, kept)
    BY DEF Surjection, Kept
  <2>2. event \in Injection(rows, kept)
    <3>1. ASSUME NEW r \in rows, NEW s \in rows, r.event = s.event PROVE r = s
      <4>1. r \in recents /\ s \in recents
        BY DEF OfAccount
      <4>2. SameKey(r.event, s.event)
        BY <1>4, <3>1, <4>1 DEF SameKey, Keyed
      <4> QED
        BY <1>2, <4>1, <4>2
    <3>2. event \in [rows -> kept] /\ \A r \in rows : event[r] = r.event
      BY DEF Kept
    <3> HIDE DEF event
    <3> QED
      BY <3>1, <3>2 DEF Injection, IsInjective
  <2>3. event \in Bijection(rows, kept)
    BY <2>1, <2>2 DEF Bijection
  <2>4. ExistsBijection(rows, kept)
    BY <2>3 DEF ExistsBijection
  <2> QED
    BY <1>5, <2>4, FS_Bijection
<1>7. Cardinality(rows) \in Nat /\ Cardinality(rows) <= MAX_RECENT
  <2>1. {r \in OfAccount(recents, a) : Keyed(r.event)} = rows
    BY <1>4 DEF OfAccount
  <2> QED
    BY <1>1, <1>5, <2>1, FS_CardinalityType DEF KeyedRowsBounded
<1>8. ASSUME NEW e \in all \ kept
      PROVE  Cardinality(rows) = MAX_RECENT /\ \A r \in rows : NotOlder(r, [event |-> e])
  <2>1. PICK W \in SUBSET rows :
          Cardinality(W) = MAX_RECENT /\ \A w \in W : NotOlder(w, [event |-> e])
    BY <1>2 DEF Dispensable
  <2>2. Cardinality(W) <= Cardinality(rows)
    BY <1>5, FS_Subset
  <2>3. Cardinality(rows) = MAX_RECENT
    BY <1>7, <2>1, <2>2, TablesAssumption
  <2>4. W = rows
    BY <1>5, <2>1, <2>3, FS_Subset
  <2> QED
    BY <2>1, <2>3, <2>4
<1>9. Cardinality(all) \in Nat /\ Cardinality(kept) <= Cardinality(all)
  BY <1>1, <1>3, MergedEventsFinite, FS_Subset, FS_CardinalityType
<1>10. Cardinality(kept) = Min({MAX_RECENT, Cardinality(all)})
  <2>1. all \subseteq kept => Cardinality(kept) = Cardinality(all)
    BY <1>3, all \subseteq kept => all = kept
  <2>2. ~ (all \subseteq kept) => Cardinality(kept) = MAX_RECENT
    BY <1>6, <1>8
  <2>3. Cardinality(kept) \in Nat /\ Cardinality(kept) <= MAX_RECENT
    BY <1>6, <1>7
  <2> HIDE DEF all, kept, rows
  <2>4. {MAX_RECENT, Cardinality(all)} \subseteq Nat
    BY <1>9, TablesAssumption
  <2>5. /\ Min({MAX_RECENT, Cardinality(all)}) \in {MAX_RECENT, Cardinality(all)}
        /\ \A n \in {MAX_RECENT, Cardinality(all)} : Min({MAX_RECENT, Cardinality(all)}) <= n
    BY <2>4, MinOfNats
  <2> QED
    BY <1>9, <2>1, <2>2, <2>3, <2>5, TablesAssumption
<1>11. ASSUME NEW k \in kept, NEW e \in all \ kept
       PROVE  /\ k.transaction_timestamp = NULL => e.transaction_timestamp = NULL
              /\ {k.transaction_timestamp, e.transaction_timestamp} \subseteq Times =>
                     k.transaction_timestamp >= e.transaction_timestamp
  <2>1. PICK r \in rows : k = r.event
    BY DEF Kept
  <2>2. NotOlder(r, [event |-> e])
    BY <1>8
  <2>3. NULL \notin Times
    BY NullAssumption DEF Times
  <2> QED
    BY <2>1, <2>2, <2>3 DEF NotOlder
<1> QED
  BY <1>3, <1>6, <1>10, <1>11

\* Whatever failures, retries, kills and reruns do to the order of MERGE and
\* retention, the rows of an account are its newest transactions.
THEOREM NewestTransactionsKept == Spec => []RecentIsNewest
<1> QED
  BY RecentInit, RecentNext, RecentInvSuffices, LoopInvariant, TablesInvariant, PTL DEF Spec
=============================================================================
