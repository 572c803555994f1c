------------------------------- MODULE Figures -----------------------------
(***************************************************************************)
(* The computed figures of an organization: ratio reports and tax          *)
(* estimates.  Every write that can change a figure also moves the         *)
(* organization's data_version in its transaction.  A read shows the       *)
(* stored figure, and asks for a new one when it is older than that; a     *)
(* result is stored only if nothing newer is there.                        *)
(*                                                                         *)
(* data[s] numbers the successive contents of what figure s is computed    *)
(* from.  The requests of a read run under READ COMMITTED: each query of   *)
(* its transaction sees what is committed by then, so the reads are steps  *)
(* of their own.                                                           *)
(***************************************************************************)
EXTENDS ComputeRequests

CONSTANTS
  Scopes,      \* the figures: the ratios of each period, the tax estimates
  RatioScopes, \* those of them that are ratios
  Readers,     \* requests that read a figure
  Idle, NoFigure,
  MaxVersion,  \* bound on data_version
  MaxReleases  \* bound on the changes of the rule sets

ASSUME FiguresAssumption ==
  /\ RatioScopes \subseteq Scopes
  /\ {MaxVersion, MaxReleases} \subseteq Nat
  /\ NoFigure \notin [version : Nat, inputs : Nat]

VARIABLES
  version,   \* org.data_version
  data,
  figure,    \* ratio_report and tax_estimate rows, with their data_version
  reading,   \* the scope a reader asks a figure of, once it found it stale
  gathered,  \* the inputs it read, Idle before that
  releases,
  stored     \* how often the result of a request was stored

figureVars == <<version, data, figure, reading, gathered, releases, stored>>

vars == <<requestVars, figureVars>>

Versions == 0..MaxVersion
Data == 0..(MaxVersion + MaxReleases)
Asks == [scope : Scopes, version : Versions, inputs : Data]

TypeOK ==
  /\ RequestsTypeOK(Asks)
  /\ version \in Versions
  /\ data \in [Scopes -> Data]
  /\ figure \in [Scopes -> [version : Versions, inputs : Data] \cup {NoFigure}]
  /\ reading \in [Readers -> Scopes \cup {Idle}]
  /\ gathered \in [Readers -> Data \cup {Idle}]
  /\ releases \in 0..MaxReleases
  /\ stored \in [Requests -> Nat]

Init ==
  /\ RequestsInit
  /\ version = 0
  /\ data = [s \in Scopes |-> 0]
  /\ figure = [s \in Scopes |-> NoFigure]
  /\ reading = [p \in Readers |-> Idle]
  /\ gathered = [p \in Readers |-> Idle]
  /\ releases = 0
  /\ stored = [r \in Requests |-> 0]

\* A request that takes over an id starts its count of stores afresh.
AskFor(scope, v, inputs) ==
  /\ Request(scope, v, inputs)
  /\ stored' = [r \in Requests |-> IF state'[r] = "pending" /\ state[r] # "pending"
                                   THEN 0 ELSE stored[r]]

-----------------------------------------------------------------------------
\* A confirmed import, an edit of the ledger or of the tax profile.
Change ==
  /\ version < MaxVersion
  /\ version' = version + 1
  /\ data' = [s \in Scopes |-> data[s] + 1]
  /\ UNCHANGED <<requestVars, figure, reading, gathered, releases, stored>>

\* The confirm of a statement asks for the ratios of its period at once.  It
\* holds the organization's row from the bump on, so no other change can
\* commit between its reads.
ConfirmStatement(s) ==
  /\ s \in RatioScopes
  /\ version < MaxVersion
  /\ version' = version + 1
  /\ data' = [x \in Scopes |-> data[x] + 1]
  /\ AskFor(s, version', data'[s])
  /\ UNCHANGED <<figure, reading, gathered, releases>>

\* SeedRulesets, when a new release starts: no data_version moves.
SeedRulesets(s) ==
  /\ "release" \in Faults
  /\ s \notin RatioScopes
  /\ releases < MaxReleases
  /\ releases' = releases + 1
  /\ data' = [data EXCEPT ![s] = @ + 1]
  /\ UNCHANGED <<requestVars, version, figure, reading, gathered, stored>>

-----------------------------------------------------------------------------
\* Ratios and Estimates: the stored figure is shown as current, unless it is
\* missing or older than the organization; only then the read goes on.
IsCurrent(s) == figure[s] # NoFigure /\ figure[s].version >= version

FindStale(p, s) ==
  /\ reading[p] = Idle
  /\ ~IsCurrent(s)
  /\ reading' = [reading EXCEPT ![p] = s]
  /\ UNCHANGED <<requestVars, version, data, figure, gathered, releases, stored>>

\* POST /ratios/compute asks for a new figure whatever is stored.
ComputeNow(p, s) ==
  /\ s \in RatioScopes
  /\ reading[p] = Idle
  /\ reading' = [reading EXCEPT ![p] = s]
  /\ UNCHANGED <<requestVars, version, data, figure, gathered, releases, stored>>

\* requestRatios and requestTax read the inputs ...
Gather(p) ==
  /\ reading[p] # Idle /\ gathered[p] = Idle
  /\ gathered' = [gathered EXCEPT ![p] = data[reading[p]]]
  /\ UNCHANGED <<requestVars, version, data, figure, reading, releases, stored>>

\* Slip: the inputs are kept after the read.
EndReadKeepingInputs(p) ==
  reading' = [reading EXCEPT ![p] = Idle] /\ UNCHANGED gathered

\* The read is over, however it ended.
EndRead(p) ==
  /\ reading' = [reading EXCEPT ![p] = Idle]
  /\ gathered' = [gathered EXCEPT ![p] = Idle]

\* ... and request reads the organization's data_version after that.
AskWithVersion(p) ==
  /\ gathered[p] # Idle
  /\ AskFor(reading[p], version, gathered[p])
  /\ EndRead(p)
  /\ UNCHANGED <<version, data, figure, releases>>

\* The transaction fails or the process stops: the read leaves nothing behind.
ReaderStops(p) ==
  /\ "outage" \in Faults
  /\ reading[p] # Idle
  /\ EndRead(p)
  /\ UNCHANGED <<requestVars, version, data, figure, releases, stored>>

-----------------------------------------------------------------------------
\* Slip: the current version is superseded too.
SupersededOrSame(r) == ask[r].version <= version

\* OnComputeResults reads the organization without locking it: a change may
\* commit between this check and the store.
Superseded(r) == ask[r].version < version

OnStaleResult(r) ==
  /\ TakeResult(r)
  /\ Superseded(r)
  /\ UNCHANGED figureVars

CheckResult(r) ==
  /\ BeginResult(r)
  /\ ~Superseded(r)
  /\ UNCHANGED figureVars

\* Slip: any result is stored.
ReplacesAnything(r) == ask[r] # NoAsk

\* StoreRatioReport and ReplaceEstimates leave a newer figure alone.
Replaces(r) ==
  LET old == figure[ask[r].scope] IN
  old = NoFigure \/ old.version <= ask[r].version

StoreResult(r) ==
  /\ EndResult(r)
  /\ figure' = IF Replaces(r)
               THEN [figure EXCEPT ![ask[r].scope] =
                       [version |-> ask[r].version, inputs |-> ask[r].inputs]]
               ELSE figure
  /\ stored' = [stored EXCEPT ![r] = @ + 1]
  /\ UNCHANGED <<version, data, reading, gathered, releases>>

-----------------------------------------------------------------------------
Reading ==
  \E p \in Readers : \/ Gather(p) \/ AskWithVersion(p) \/ ReaderStops(p)
                     \/ \E s \in Scopes : FindStale(p, s) \/ ComputeNow(p, s)

Next ==
  \/ Change
  \/ \E s \in Scopes : ConfirmStatement(s) \/ SeedRulesets(s)
  \/ Reading
  \/ \E r \in Requests : OnStaleResult(r) \/ CheckResult(r) \/ StoreResult(r)
  \/ Exchange /\ UNCHANGED figureVars
  \/ Consuming /\ UNCHANGED figureVars

Spec == Init /\ [][Next]_vars

(***************************************************************************)
(* Each party goes on with something while it can: a user who is told      *)
(* "recomputing" asks again; the publisher, the compute pool and the       *)
(* consumers hand over (the reaper settles them every 5 minutes); time     *)
(* passes and the reaper runs.  A consumer may stop in the middle of a     *)
(* store, not every time.                                                  *)
(***************************************************************************)
Asking ==
  \E p \in Readers : \/ Gather(p) \/ AskWithVersion(p)
                     \/ \E s \in Scopes : FindStale(p, s)

HandingOver ==
  \/ /\ \E r \in Requests : \/ Publish(r)
                            \/ \E a \in Answers : Answer(r, a) \/ OnUselessResult(r, a)
     /\ UNCHANGED figureVars
  \/ \E r \in Requests : OnStaleResult(r) \/ CheckResult(r)

Fairness ==
  /\ WF_vars(Asking)
  /\ WF_vars(HandingOver)
  /\ SF_vars(\E r \in Requests : StoreResult(r))
  /\ WF_vars((Wait \/ Expire \/ ResendCompute) /\ UNCHANGED figureVars)

FairSpec == Spec /\ Fairness

-----------------------------------------------------------------------------
(* What must hold.                                                         *)

\* "An older data version never overwrites a newer one" (repository/tax.go),
\* although the check of the data_version and the store of the result are
\* two steps and results of several requests are handled at once.
FiguresNeverGoBack ==
  [][\A s \in Scopes : figure[s] # NoFigure =>
       figure'[s] # NoFigure /\ figure'[s].version >= figure[s].version]_vars

\* Only the first result of a request counts (OnComputeResults): the re-send,
\* redelivery and an expiry in between never make it count twice.
ResultCountsOnce == \A r \in Requests : stored[r] <= 1

\* "A stored figure is always tied to the data version it came from"
\* (system-design.md D5): it was computed from what the organization had at
\* the version it bears, so a figure shown as current is the figure of today.
CurrentMeansCurrent ==
  \A s \in Scopes : IsCurrent(s) => figure[s].inputs = data[s]

\* No request stays pending for ever: the next read can ask again.
PendingEnds ==
  \A r \in Requests : state[r] = "pending" ~> state[r] # "pending"

\* Once the data stops changing, every figure somebody keeps reading becomes
\* current, although messages get lost and a pending request stops the reads
\* from asking again.
FiguresCatchUp == <>[](\A s \in Scopes : IsCurrent(s))
=============================================================================
