---------------------------- MODULE FiguresProofs --------------------------
(***************************************************************************)
(* Theorems about Figures, for every number of figures, readers and        *)
(* requests, and all faults together.                                      *)
(***************************************************************************)
EXTENDS Figures, ComputeRequestsProofs

USE DEF figureVars

\* What figures are computed from changes with the data_version or with the
\* rule sets.
DataMoves == \A s \in Scopes : data[s] <= version + releases

\* A result that was stored has been recorded, and none was stored twice.
StoredOnceRecorded ==
  \A r \in Requests : stored[r] <= 1 /\ (stored[r] = 1 => r \in seen)

\* A reader that has the inputs knows which figure they are for.
ReadsAScope == \A p \in Readers : gathered[p] # Idle => reading[p] # Idle

FiguresInv ==
  RequestsInv(Asks) /\ TypeOK /\ DataMoves /\ StoredOnceRecorded /\ ReadsAScope

LEMMA FiguresStart == Init => FiguresInv
<1> SUFFICES ASSUME Init PROVE FiguresInv
  OBVIOUS
<1>1. RequestsInv(Asks)
  BY RequestsStart DEF Init
<1>2. TypeOK
  BY <1>1, FiguresAssumption DEF Init, TypeOK, RequestsInv, Versions, Data
<1> QED
  BY <1>1, <1>2, FiguresAssumption DEF Init, FiguresInv, DataMoves, StoredOnceRecorded, ReadsAScope

\* A step that leaves the figures alone and forgets no recorded result.
LEMMA FiguresFramed ==
  ASSUME FiguresInv, UNCHANGED figureVars, RequestsInv(Asks)', seen \subseteq seen'
  PROVE  FiguresInv'
BY DEF FiguresInv, TypeOK, DataMoves, StoredOnceRecorded, ReadsAScope, RequestsInv

\* Asking starts no store twice: an id that is taken over starts afresh.
LEMMA AskKeeps ==
  ASSUME FiguresInv, NEW s \in Scopes, NEW v \in Versions, NEW inputs \in Data,
         AskFor(s, v, inputs)
  PROVE  /\ RequestsInv(Asks)' /\ StoredOnceRecorded'
         /\ stored' \in [Requests -> Nat]
<1>1. [scope |-> s, version |-> v, inputs |-> inputs] \in Asks
  BY DEF Asks
<1>2. /\ RequestsInv(Asks)'
      /\ \A r \in Requests : r \notin seen' /\ r \in seen =>
           state'[r] = "pending" /\ state[r] # "pending"
  BY <1>1, RequestKeeps DEF AskFor, FiguresInv
<1>3. stored' \in [Requests -> Nat]
  BY DEF AskFor, FiguresInv, TypeOK
<1>4. StoredOnceRecorded'
  BY <1>2, <1>3 DEF AskFor, FiguresInv, TypeOK, StoredOnceRecorded
<1> QED
  BY <1>2, <1>3, <1>4

\* Every step keeps the invariant.
LEMMA FiguresNext == FiguresInv /\ [Next]_vars => FiguresInv'
<1> SUFFICES ASSUME FiguresInv, [Next]_vars PROVE FiguresInv'
  OBVIOUS
<1> USE FiguresAssumption
<1>0. RequestsInv(Asks) /\ TypeOK /\ DataMoves /\ StoredOnceRecorded /\ ReadsAScope
  BY DEF FiguresInv
<1>1. ASSUME UNCHANGED requestVars PROVE RequestsInv(Asks)' /\ seen' = seen
  BY <1>0, <1>1 DEF RequestsInv, RequestsTypeOK, Claimed, Unrecorded, requestVars, tableVars, laneVars
<1>2. CASE Change
  <2>1. /\ version' \in Versions /\ version' = version + 1
        /\ data' \in [Scopes -> Data] /\ DataMoves'
    BY <1>0, <1>2 DEF Change, TypeOK, DataMoves, Versions, Data
  <2> QED
    BY <1>0, <1>1, <1>2, <2>1 DEF Change, FiguresInv, TypeOK, StoredOnceRecorded, ReadsAScope, RequestsInv
<1>3. ASSUME NEW s \in Scopes, ConfirmStatement(s) PROVE FiguresInv'
  <2>1. /\ version' \in Versions /\ version' = version + 1
        /\ data' \in [Scopes -> Data] /\ DataMoves'
    BY <1>0, <1>3 DEF ConfirmStatement, TypeOK, DataMoves, Versions, Data
  <2>2. AskFor(s, version', data'[s])
    BY <1>3 DEF ConfirmStatement
  <2>3. data'[s] \in Data
    BY <2>1
  <2>4. /\ RequestsInv(Asks)' /\ StoredOnceRecorded' /\ stored' \in [Requests -> Nat]
    BY <2>1, <2>2, <2>3, AskKeeps
  <2> QED
    BY <1>0, <1>3, <2>1, <2>4 DEF ConfirmStatement, FiguresInv, TypeOK, ReadsAScope, RequestsInv
<1>4. ASSUME NEW s \in Scopes, SeedRulesets(s) PROVE FiguresInv'
  <2>1. /\ data' \in [Scopes -> Data] /\ DataMoves' /\ releases' \in 0..MaxReleases
    BY <1>0, <1>4 DEF SeedRulesets, TypeOK, DataMoves, Versions, Data
  <2> QED
    BY <1>0, <1>1, <1>4, <2>1 DEF SeedRulesets, FiguresInv, TypeOK, StoredOnceRecorded, ReadsAScope, RequestsInv
<1>5. CASE Reading
  <2>1. ASSUME NEW p \in Readers, Gather(p) PROVE FiguresInv'
    <3>1. gathered' \in [Readers -> Data \cup {Idle}]
      BY <1>0, <2>1 DEF Gather, TypeOK
    <3> QED
      BY <1>0, <1>1, <2>1, <3>1
         DEF Gather, FiguresInv, TypeOK, DataMoves, StoredOnceRecorded, ReadsAScope, RequestsInv
  <2>2. ASSUME NEW p \in Readers, AskWithVersion(p) PROVE FiguresInv'
    <3>1. reading[p] \in Scopes /\ gathered[p] \in Data /\ version \in Versions
      BY <1>0, <2>2 DEF TypeOK, AskWithVersion, ReadsAScope
    <3>2. AskFor(reading[p], version, gathered[p])
      BY <2>2 DEF AskWithVersion
    <3>3. RequestsInv(Asks)' /\ StoredOnceRecorded' /\ stored' \in [Requests -> Nat]
      BY <3>1, <3>2, AskKeeps
    <3> QED
      BY <1>0, <2>2, <3>3
         DEF AskWithVersion, EndRead, FiguresInv, TypeOK, DataMoves, ReadsAScope, RequestsInv
  <2>3. ASSUME NEW p \in Readers, ReaderStops(p) PROVE FiguresInv'
    BY <1>0, <1>1, <2>3
       DEF ReaderStops, EndRead, FiguresInv, TypeOK, DataMoves, StoredOnceRecorded, ReadsAScope, RequestsInv
  <2>4. ASSUME NEW p \in Readers, NEW s \in Scopes, FindStale(p, s) \/ ComputeNow(p, s)
        PROVE  FiguresInv'
    BY <1>0, <1>1, <2>4
       DEF FindStale, ComputeNow, FiguresInv, TypeOK, DataMoves, StoredOnceRecorded, ReadsAScope, RequestsInv
  <2> QED
    BY <1>5, <2>1, <2>2, <2>3, <2>4 DEF Reading
<1>6. ASSUME NEW r \in Requests, OnStaleResult(r) PROVE FiguresInv'
  BY <1>0, <1>6, TakeKeeps, FiguresFramed DEF OnStaleResult
<1>7. ASSUME NEW r \in Requests, CheckResult(r) PROVE FiguresInv'
  BY <1>0, <1>7, BeginKeeps, FiguresFramed DEF CheckResult
<1>8. ASSUME NEW r \in Requests, StoreResult(r) PROVE FiguresInv'
  <2>1. /\ RequestsInv(Asks)' /\ seen' = seen \cup {r}
        /\ r \notin seen /\ ask[r] \in Asks
    BY <1>0, <1>8, EndResultKeeps DEF StoreResult
  <2>2. figure' \in [Scopes -> [version : Versions, inputs : Data] \cup {NoFigure}]
    BY <1>0, <1>8, <2>1 DEF StoreResult, TypeOK, Asks
  <2>3. stored' \in [Requests -> Nat] /\ StoredOnceRecorded'
    <3>1. stored' = [stored EXCEPT ![r] = stored[r] + 1] /\ stored \in [Requests -> Nat]
      BY <1>0, <1>8 DEF StoreResult, TypeOK
    <3>2. stored[r] = 0
      BY <1>0, <2>1, <3>1 DEF StoredOnceRecorded
    <3>3. stored'[r] = 1 /\ \A i \in Requests \ {r} : stored'[i] = stored[i]
      BY <3>1, <3>2
    <3>4. stored' \in [Requests -> Nat]
      BY <3>1, <3>2
    <3> QED
      BY <1>0, <2>1, <3>3, <3>4 DEF StoredOnceRecorded
  <2> QED
    BY <1>0, <1>8, <2>1, <2>2, <2>3 DEF StoreResult, FiguresInv, TypeOK, DataMoves, ReadsAScope, RequestsInv
<1>9. CASE Exchange /\ UNCHANGED figureVars
  BY <1>0, <1>9, ExchangeKeeps, FiguresFramed
<1>10. CASE Consuming /\ UNCHANGED figureVars
  BY <1>0, <1>10, ConsumingKeeps, FiguresFramed
<1>11. CASE UNCHANGED vars
  BY <1>0, <1>1, <1>11, FiguresFramed DEF vars
<1> QED
  BY <1>2, <1>3, <1>4, <1>5, <1>6, <1>7, <1>8, <1>9, <1>10, <1>11 DEF Next

\* The inductive invariant of the figures over the exchange holds in every state.
THEOREM FiguresInvariant == Spec => []FiguresInv
BY FiguresStart, FiguresNext, PTL DEF Spec

\* Figures.TypeOK: every variable has its type.
THEOREM FiguresTyped == Spec => []TypeOK
BY FiguresInvariant, PTL DEF FiguresInv

\* Figures.ResultCountsOnce: one request, one store, whatever is sent again,
\* delivered again, or expires in between.
THEOREM CountsOnce == Spec => []ResultCountsOnce
<1>1. FiguresInv => ResultCountsOnce
  BY DEF FiguresInv, StoredOnceRecorded, ResultCountsOnce
<1> QED
  BY <1>1, FiguresInvariant, PTL

\* Figures.FiguresNeverGoBack: only a store changes a figure, and the row it
\* replaces is not newer.
THEOREM NeverGoBack == Spec => FiguresNeverGoBack
<1>1. ASSUME FiguresInv, Next
      PROVE  \A s \in Scopes : figure[s] # NoFigure =>
               figure'[s] # NoFigure /\ figure'[s].version >= figure[s].version
  <2>0. \A s \in Scopes : figure[s] # NoFigure => figure[s].version \in Nat
    BY <1>1, FiguresAssumption DEF FiguresInv, TypeOK, Versions
  <2>1. ASSUME NEW r \in Requests, StoreResult(r), NEW s \in Scopes, figure[s] # NoFigure
        PROVE  figure'[s] # NoFigure /\ figure'[s].version >= figure[s].version
    <3>1. ask[r] \in Asks
      BY <1>1, <2>1, EndResultKeeps DEF StoreResult, FiguresInv
    <3>2. CASE Replaces(r) /\ s = ask[r].scope
      <4>1. figure'[s] = [version |-> ask[r].version, inputs |-> ask[r].inputs]
        BY <1>1, <2>1, <3>2 DEF StoreResult, FiguresInv, TypeOK
      <4>2. figure'[s] \in [version : Nat, inputs : Nat]
        BY <3>1, <4>1, FiguresAssumption DEF Asks, Versions, Data
      <4> QED
        BY <2>0, <2>1, <3>1, <3>2, <4>1, <4>2, FiguresAssumption
           DEF Replaces, Asks, Versions
    <3>3. CASE ~ (Replaces(r) /\ s = ask[r].scope)
      BY <1>1, <2>0, <2>1, <3>3 DEF StoreResult, FiguresInv, TypeOK
    <3> QED
      BY <3>2, <3>3
  <2>2. CASE UNCHANGED figure
    BY <2>0, <2>2
  <2>3. CASE \E r \in Requests : StoreResult(r)
    BY <2>1, <2>3
  <2>4. UNCHANGED figure \/ \E r \in Requests : StoreResult(r)
    BY <1>1 DEF Next, Change, ConfirmStatement, SeedRulesets, Reading, FindStale, ComputeNow, Gather,
                AskWithVersion, ReaderStops, OnStaleResult, CheckResult
  <2> QED
    BY <2>2, <2>3, <2>4
<1>2. FiguresInv /\ [Next]_vars =>
        [\A s \in Scopes : figure[s] # NoFigure =>
           figure'[s] # NoFigure /\ figure'[s].version >= figure[s].version]_vars
  BY <1>1
<1> QED
  BY <1>2, FiguresInvariant, PTL DEF Spec, FiguresNeverGoBack
=============================================================================
