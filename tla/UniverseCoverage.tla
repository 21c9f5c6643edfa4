-------------------------- MODULE UniverseCoverage --------------------------
(***************************************************************************)
(* Certified coverage of the index and its governed changes                *)
(* (universe_rollforward.py, universe_change.py,                           *)
(* universe_change_activation.py, ingest/universe.py, storage/store.py).   *)
(*                                                                         *)
(* The membership rows are intervals with the dates at which their start   *)
(* and end became known; the intervals of the present members end the day  *)
(* after the certified coverage. A review extends them when no announced   *)
(* change is effective and an independent component file agrees; otherwise *)
(* it records that it is blocked. One governed change may then be prepared *)
(* and activated, which leaves a receipt; from then on the component file  *)
(* may keep showing the set before that change. The operator may instead   *)
(* rebuild the rows from the official events and a reference.              *)
(*                                                                         *)
(* Each command holds the maintenance lease and writes in one database     *)
(* transaction, so that it is one action. A day is an equity session.      *)
(***************************************************************************)
EXTENDS Integers, FiniteSets, FiniteSetsExt

CONSTANTS
    Ticker,       \* tickers; each enters the index at most once
    Baseline,     \* the members on day 0
    Schedules,    \* possible courses of events: sets of changes
    Governed,     \* the release whose activation the code supports
    StaleLimit,   \* uncovered sessions before an activated change
    ArchiveReach, \* sessions covered by a page of the press archive
    MaxDay,       \* bound: sessions
    MaxRebuilds,  \* bound: times the operator rebuilds the rows
    LateRebuilds  \* the operator rebuilds also after an activation

Days == 0 .. MaxDay
Change == [release : {c.release : c \in UNION Schedules}, announced : Days, effective : Days,
           out : Ticker, in : Ticker]

\* A change is announced no later than it is effective, and is one replacement;
\* not all members of day 0 leave.
ASSUME ScheduleAssumption ==
    /\ Baseline \subseteq Ticker /\ IsFiniteSet(Ticker)
    /\ MaxDay \in Nat /\ StaleLimit \in Nat /\ ArchiveReach \in Nat \ {0}
    /\ MaxRebuilds \in Nat /\ LateRebuilds \in BOOLEAN
    /\ \A s \in Schedules : /\ s \subseteq Change
                            /\ \A c \in s : c.announced <= c.effective /\ 0 < c.effective
                            /\ ~ Baseline \subseteq {c.out : c \in s}

VARIABLES
    schedule,   \* the official changes, as they will be announced
    day,        \* the last completed session
    published,  \* the day whose set the component file shows
    rows,       \* universe_membership, with the end of the windows of the identity
    blocked,    \* the latest blocked attestation that names the governed release
    plan,       \* the reviewed activation plan
    receipt,    \* the accepted activation
    rebuilds    \* counter of MaxRebuilds

coverageVars == <<schedule, day, published, rows, blocked, plan, receipt, rebuilds>>

None == [kind |-> "none"]

-----------------------------------------------------------------------------
(* The truth: who is a member on day e as far as day k can know.           *)

InForce(k, e) == {c \in schedule : c.announced <= k /\ c.effective <= e}

Official(k, e) ==
    (Baseline \cup {c.in : c \in InForce(k, e)}) \ {c.out : c \in InForce(k, e)}

Component == Official(published, published)

-----------------------------------------------------------------------------
(* Reading the rows.                                                       *)

Standing(table, k, e) ==
    {r \in table : r.known <= k /\ r.start <= e /\ (r.end > e \/ r.endKnown > k)}

RowsOn(k, e) == Standing(rows, k, e)

KnownOn(k, e) == {r.ticker : r \in RowsOn(k, e)}

Prior == Max({r.end : r \in rows}) - 1
Members == RowsOn(Prior, Prior)

OnEdge(r, d) == r.end = d + 1 /\ r.endKnown = d

\* The members of the last certified day share one edge.
Bounded == Cardinality(Members) = Cardinality(Baseline) /\ \A r \in Members : OnEdge(r, Prior)

\* Members whose identity, owner, CIK and provider windows contain day d.
References(d) == {r \in RowsOn(d, d) : r.ref > d}

\* The state that a plan binds can be captured for the coverage through d.
Captured(d) ==
    /\ Cardinality(RowsOn(d, d)) = Cardinality(Baseline)
    /\ \A r \in RowsOn(d, d) : OnEdge(r, d) /\ r.ref = d + 1

\* The receipt is consistent with the rows: else no command opens the store.
Opens ==
    receipt # None =>
        /\ \E r \in rows : /\ r.ticker = receipt.change.in /\ r.start = receipt.change.effective
                           /\ r.known = receipt.change.announced
                           /\ r.end >= receipt.target + 1 /\ r.marked
        /\ Cardinality({r \in rows : r.ticker = receipt.change.out
                                        /\ r.end = receipt.change.effective}) = 1
        /\ \E r \in rows : /\ r.ticker = receipt.change.out /\ r.end = receipt.change.effective
                           /\ r.endKnown = receipt.change.announced /\ r.marked

\* The new provenance replaces the old and its event mark (a fault).
Extended_Stripped(r, d) ==
    [r EXCEPT !.end = d + 1, !.endKnown = d, !.ref = d + 1, !.marked = FALSE]

\* A row and its windows reach through day d; the event mark stays.
Extended(r, d) == [r EXCEPT !.end = d + 1, !.endKnown = d, !.ref = d + 1]

-----------------------------------------------------------------------------

CoverageInit ==
    /\ schedule \in Schedules
    /\ day = 0 /\ published = 0
    /\ rows = {[ticker |-> t, start |-> 0, end |-> 1, known |-> 0, endKnown |-> 0,
                releases |-> {}, marked |-> FALSE, ref |-> 1] : t \in Baseline}
    /\ blocked = None /\ plan = None /\ receipt = None /\ rebuilds = 0

(* The archive is read page by page, until a page reaches the coverage.    *)
Horizon ==
    day - ArchiveReach * Min({n \in 1 .. MaxDay + 1 : day - n * ArchiveReach <= Prior})

Seen(target) == {c \in schedule : Horizon <= c.announced /\ c.announced <= target}

\* Releases that no row names as its source.
Candidates(target) == {c.release : c \in Seen(target)} \ UNION {r.releases : r \in rows}

\* A change of the day itself counts as a future one (a fault).
Blocking_Late(target) ==
    {rel \in Candidates(target) : \E c \in schedule : c.release = rel /\ c.effective < target}

\* All but the releases whose every change is effective later.
Blocking(target) ==
    {rel \in Candidates(target) : \E c \in schedule : c.release = rel /\ c.effective <= target}

\* The allowance for a component file that lags expires (a fault).
Reconciled_Expiring(target) ==
    /\ receipt # None
    /\ receipt.change.effective <= receipt.holdings /\ receipt.holdings <= target
    /\ Component = receipt.before
    /\ {r.ticker : r \in References(Prior)} = receipt.after
    /\ target <= receipt.change.effective + 1

\* The component file shows exactly the set before the activated change.
Reconciled(target) ==
    /\ receipt # None
    /\ receipt.change.effective <= receipt.holdings /\ receipt.holdings <= target
    /\ Component = receipt.before
    /\ {r.ticker : r \in References(Prior)} = receipt.after

Agrees(target) ==
    \/ Component = {r.ticker : r \in References(Prior)}
    \/ Reconciled(target)

Reviewing(target) == Opens /\ Bounded /\ Prior < target /\ target <= day

(* A review that finds nothing extends every window, or fails and changes  *)
(* nothing when the windows of the references do not share the edge.       *)
Extend(target) ==
    /\ Reviewing(target)
    /\ Blocking(target) = {} /\ References(Prior) = Members /\ Agrees(target)
    /\ \A r \in Members : r.ref = Prior + 1
    /\ rows' = (rows \ Members) \cup {Extended(r, target) : r \in Members}
    /\ UNCHANGED <<schedule, day, published, blocked, plan, receipt, rebuilds>>

\* A review that is blocked, if by the governed release.
Block(target) ==
    /\ Reviewing(target)
    /\ Governed \in Blocking(target)
    /\ blocked' = [kind |-> "blocked", prior |-> Prior, target |-> target,
                   candidates |-> Blocking(target), details |-> Candidates(target),
                   component |-> Component,
                   reviewed |-> {r.ticker : r \in References(Prior)},
                   clean |-> References(Prior) = Members /\ ~ Reconciled(target)]
    /\ UNCHANGED <<schedule, day, published, rows, plan, receipt, rebuilds>>

-----------------------------------------------------------------------------
(* Preparing and activating the governed change.                           *)

GovernedChange == CHOOSE c \in schedule : c.release = Governed

Without(tickers, c) == (tickers \ {c.out}) \cup {c.in}

\* The latest attestation of the governed release was blocked by it alone, and
\* took the detail of no other release: every detail is bound to the address
\* of the governed one, so that a second is refused, also a future change.
OneBlocked ==
    /\ blocked # None
    /\ blocked.candidates = {Governed} /\ blocked.details = {Governed} /\ blocked.clean

\* What the latest blocked attestation must say for a plan to be built on it.
Plannable ==
    LET c == GovernedChange
        before == KnownOn(blocked.prior, blocked.prior)
    IN  /\ OneBlocked
        /\ Cardinality({x \in schedule : x.release = Governed}) = 1
        /\ blocked.prior < c.effective /\ c.effective <= blocked.prior + StaleLimit + 1
        /\ c.effective <= blocked.target
        /\ Captured(blocked.prior)
        /\ blocked.reviewed = before /\ c.out \in before /\ c.in \notin before
        /\ blocked.component \in {before, Without(before, c)}

\* The rows after the change: all marked, the leaving one ends, one is new.
Activated(c, before, target) ==
    LET leaving == {r \in before : r.ticker = c.out}
    IN  (rows \ before)
        \cup {[Extended(r, target) EXCEPT !.marked = TRUE] : r \in before \ leaving}
        \cup {[r EXCEPT !.end = c.effective, !.endKnown = c.announced, !.marked = TRUE,
                        !.ref = c.effective] : r \in leaving}
        \cup {[ticker |-> c.in, start |-> c.effective, end |-> target + 1, known |-> c.announced,
               endKnown |-> target, releases |-> {c.release}, marked |-> TRUE, ref |-> target + 1]}

\* The members that a disposable activation leaves on the target day.
Predicted(c, before, target) == Standing(Activated(c, before, target), target, target)

\* The holdings of an index fund, not older than the change, show it.
HoldingsConfirm(holdings, c) ==
    /\ c.effective <= holdings /\ holdings <= day
    /\ c.in \in Official(holdings, holdings) /\ c.out \notin Official(holdings, holdings)

\* The reviewed manifest of the entering identity reaches blocked.target.
PrepareOn(holdings, c, before) ==
    /\ HoldingsConfirm(holdings, c)
    /\ \A r \in rows : r.ticker # c.in
    /\ plan' = [kind |-> "plan", basis |-> blocked, holdings |-> holdings, before |-> before,
                after |-> Predicted(c, before, blocked.target)]
    /\ UNCHANGED <<schedule, day, published, rows, blocked, receipt, rebuilds>>

Prepare(holdings) ==
    /\ Opens /\ Plannable
    /\ PrepareOn(holdings, GovernedChange, RowsOn(blocked.prior, blocked.prior))

\* The plan rebuilt from the sources is the reviewed one.
BasisStands == plan.basis = blocked /\ Plannable

\* The live rows are those that the plan was made from.
LiveStands ==
    /\ Captured(plan.basis.prior)
    /\ plan.before = RowsOn(plan.basis.prior, plan.basis.prior)

\* Activating once more on a copy gives what the plan foretells.
Proved(c) == Predicted(c, plan.before, plan.basis.target) = plan.after

Activatable(c) == plan # None /\ Opens /\ BasisStands /\ LiveStands /\ Proved(c)

Accept(c, before) ==
    /\ receipt = None
    /\ \A r \in rows : ~ (r.ticker = c.in /\ r.start >= c.effective)
    /\ rows' = Activated(c, plan.before, blocked.target)
    /\ receipt' = [kind |-> "receipt", change |-> c, target |-> blocked.target,
                   holdings |-> plan.holdings, before |-> before,
                   after |-> Without(before, c)]
    /\ UNCHANGED <<schedule, day, published, blocked, plan, rebuilds>>

Activate ==
    /\ Activatable(GovernedChange)
    /\ Accept(GovernedChange, {r.ticker : r \in plan.before})

-----------------------------------------------------------------------------
(* Rebuilding the rows through day d from the events and a reference that  *)
(* reaches d; the rows of equal ticker and start are replaced.             *)

Exit(t, d) == {c \in schedule : c.out = t /\ c.effective <= d}

RefOf(t, s) == LET own == {r \in rows : r.ticker = t /\ r.start = s}
               IN  IF own = {} THEN 0 ELSE (CHOOSE r \in own : TRUE).ref

Interval(t, s, known, sources, d) ==
    [ticker |-> t, start |-> s, known |-> known, marked |-> FALSE, ref |-> RefOf(t, s),
     end |-> IF Exit(t, d) = {} THEN d + 1 ELSE (CHOOSE c \in Exit(t, d) : TRUE).effective,
     endKnown |-> IF Exit(t, d) = {} THEN d ELSE (CHOOSE c \in Exit(t, d) : TRUE).announced,
     releases |-> sources \cup {c.release : c \in Exit(t, d)}]

\* build_membership_from_events: the baseline and what entered by day d.
Built(d) ==
    {Interval(t, 0, 0, {}, d) : t \in Baseline}
    \cup {Interval(c.in, c.effective, c.announced, {c.release}, d) :
             c \in {x \in schedule : x.effective <= d}}

Rebuild(d) ==
    /\ Opens
    /\ LateRebuilds \/ receipt = None
    /\ d <= published
    /\ rebuilds < MaxRebuilds /\ rebuilds' = rebuilds + 1
    /\ rows' = Built(d) \cup {r \in rows : \A b \in Built(d) :
                                  ~ (b.ticker = r.ticker /\ b.start = r.start)}
    /\ UNCHANGED <<schedule, day, published, blocked, plan, receipt>>

\* Importing the reviewed identities, owners, CIKs and symbols of the rows.
RebuildReferences ==
    /\ Opens
    /\ rows' = {[r EXCEPT !.ref = r.end] : r \in rows}
    /\ UNCHANGED <<schedule, day, published, blocked, plan, receipt, rebuilds>>

-----------------------------------------------------------------------------
(* The world.                                                              *)

PublishComponent ==
    /\ published' \in published + 1 .. day
    /\ UNCHANGED <<schedule, day, rows, blocked, plan, receipt, rebuilds>>

Tick ==
    /\ day < MaxDay
    /\ day' = day + 1
    /\ UNCHANGED <<schedule, published, rows, blocked, plan, receipt, rebuilds>>

CoverageNext ==
    \/ \E target \in Days : Extend(target)
    \/ \E target \in Days : Block(target)
    \/ \E holdings \in Days : Prepare(holdings)
    \/ Activate
    \/ \E d \in Days : Rebuild(d)
    \/ RebuildReferences
    \/ PublishComponent
    \/ Tick

CoverageSpec == CoverageInit /\ [][CoverageNext]_coverageVars

\* The daily cycle goes on; nothing is assumed of publishers and operators.
FairCoverageSpec == CoverageSpec /\ WF_coverageVars(Tick) /\ WF_coverageVars(\E target \in Days : Extend(target))

-----------------------------------------------------------------------------
(* Courses of events under which the coverage is proved true.              *)

\* No ticker enters or leaves twice, the one that leaves is a member, and the
\* changes of one release are effective on one day.
Regular(s) ==
    /\ \A c \in s : c.in \notin Baseline
    /\ \A b, c \in s : b.in = c.in \/ b.out = c.out => b = c
    /\ \A c \in s : c.out \in Baseline \/ \E b \in s : b.in = c.out /\ b.effective < c.effective
    /\ \A b, c \in s : b.release = c.release => b.effective = c.effective

\* A page of the archive reaches over all days, or every change is announced
\* at most one session before it is effective; without it a release announced
\* long before leaves the archive that a review reads before it is effective.
Noticed(s) == ArchiveReach >= MaxDay \/ \A c \in s : c.effective <= c.announced + 1

-----------------------------------------------------------------------------
(* Properties.                                                             *)

Row == [ticker : Ticker, start : Days, end : 1 .. MaxDay + 1, known : Days, endKnown : Days,
        releases : SUBSET {c.release : c \in UNION Schedules}, marked : BOOLEAN,
        ref : 0 .. MaxDay + 1]

\* Every variable has its type; rows are intervals and no key occurs twice.
CoverageTypeOK ==
    /\ schedule \in Schedules
    /\ day \in Days /\ published \in 0 .. day
    /\ rows \subseteq Row
    /\ \A r \in rows : r.start < r.end /\ r.known <= r.start
    /\ \A r, s \in rows : r.ticker = s.ticker /\ r.start = s.start => r = s
    /\ blocked # None => blocked.target \in 0 .. day /\ blocked.prior \in 0 .. blocked.target - 1
    /\ plan # None => plan.holdings \in 0 .. day /\ plan.before \cup plan.after \subseteq Row
    /\ receipt # None => receipt.change \in schedule /\ receipt.target \in 0 .. day
    /\ rebuilds \in 0 .. MaxRebuilds

\* Whatever was extended, activated or rebuilt, what the rows say that day k
\* knew of the members of a certified day e is what was officially known: no
\* change is certified over, none is known before its announcement
\* (universe_membership_known_on, the roll-forward and the activation).
PointInTime ==
    Bounded => \A k, e \in 0 .. Prior : KnownOn(k, e) = Official(k, e)

\* After an activation every later command still finds the receipt borne out
\* by the rows, so that the store can be opened (_require_receipt_lineage).
StoreOpens == Opens

\* An accepted change never blocks the daily reviews, however long the
\* component file shows the old set: coverage reaches the end, unless another
\* change becomes effective (the divergence bound to a receipt has no expiry).
AcceptedNeverBlocks ==
    receipt # None ~> \/ Prior = MaxDay
                      \/ \E c \in schedule : c.release # Governed /\ c.effective <= day

\* The rows have their types and never stop the store from being opened
\* (_require_receipt_lineage).
StoreInv == CoverageTypeOK /\ StoreOpens

=============================================================================
