-------------------------- MODULE AnomalyCases_proofs --------------------------
(***************************************************************************)
(* Proofs about AnomalyCases.  ScansKept says what every scan has that was *)
(* built or recorded, CasesKept what every case owes to the scans and to   *)
(* its events; with both, a case is always as new as the newest scan that  *)
(* found it, and a correction is newer.                                    *)
(***************************************************************************)
EXTENDS AnomalyCases, FiniteSetTheorems, WellFoundedInduction, TLAPS

IsList(s) == s \in Seq({s[i] : i \in DOMAIN s})

(* The responses that bear out a proof of a scan that a finding cleared.   *)
SecProof(p) ==
    \E k \in DOMAIN world.kept : world.kept[k].at = p.boundary /\ world.kept[k].data.rows > 0
PairKept(s, at, boundary) ==
    \E j, k \in DOMAIN world.kept :
        /\ world.kept[k].at = at /\ at <= boundary /\ world.kept[j].at <= boundary
        /\ ~ UnexplainedMove(world.kept[j].data[s - 1], world.kept[k].data[s])
ProofsKept(p) ==
    \A s \in DOMAIN p.proofs : /\ rule = "sec" => SecProof(p)
                               /\ rule = "price" => PairKept(s, p.proofs[s].at, p.boundary)

(* A scan has at most one finding of a subject, and its proofs are kept.   *)
ScanKept(p) ==
    /\ p = [id |-> p.id, asof |-> p.asof, boundary |-> p.boundary, findings |-> p.findings,
            context |-> p.context, proofs |-> p.proofs, policy |-> p.policy, at |-> p.at]
    /\ p.asof \in 1..MaxClock /\ p.boundary \in Int
    /\ \A f \in p.findings : f.subject \in Subjects
    /\ \A f, g \in p.findings : f.subject = g.subject => f = g
    /\ ProofsKept(p)

ScansKept ==
    /\ IsList(scans)
    /\ \A k \in DOMAIN scans : ScanKept(scans[k])
    /\ \A k \in DOMAIN scans : \A f \in scans[k].findings : f.subject \in DOMAIN cases
    /\ pending = None \/ ScanKept(pending)

(* A correction was verified after the last scan that found the case, and  *)
(* a response retained after that finding bears it out.                    *)
CorrectionKept(s, c) ==
    /\ c.last < c.verif
    /\ rule \in {"sec", "price"}
    /\ scans[c.verif].boundary >= scans[c.last].boundary
    /\ rule = "sec" => SecProof(scans[c.verif])
    /\ rule = "price" => \E k \in DOMAIN world.kept :
                            /\ world.kept[k].at > scans[c.last].boundary
                            /\ PairKept(s, world.kept[k].at, scans[c.verif].boundary)

Deciding == {"acknowledged", "deferred", "resolved"}
EventKept(e, n) == /\ e.type \in Observing \cup Deciding
                   /\ e.type \in Observing => e.scan \in 1..n

CaseTyped(s, c) ==
    /\ c = [state |-> c.state, owner |-> c.owner, first |-> c.first, count |-> c.count,
            evid |-> c.evid, sev |-> c.sev, disp |-> c.disp, resolved |-> c.resolved,
            review |-> c.review, ack |-> c.ack, verif |-> c.verif, last |-> c.last, seen |-> c.seen]
    /\ s \in Subjects
    /\ c.state \in {"open", "acknowledged", "deferred", "resolved"}
    /\ c.owner \in Owners \cup {None}
    /\ c.disp \in Outcomes \cup {"deferred", None}
    /\ c.last \in DOMAIN scans /\ c.verif \in 0..Len(scans)

EventsKept(es, n) ==
    /\ IsList(es) /\ es # <<>> /\ es[1].type = "opened"
    /\ \A i \in DOMAIN es : EventKept(es[i], n)

(* No scan after the case's last one finds it, and that one found it with  *)
(* the evidence the case has; who resolved it had read this evidence.      *)
CaseKept(s, c, es) ==
    /\ CaseTyped(s, c)
    /\ EventsKept(es, Len(scans))
    /\ \A k \in DOMAIN scans : Finds(scans[k], s) => k <= c.last
    /\ \A f \in scans[c.last].findings : f.subject = s => f.evid = c.evid
    /\ c.state = "resolved" => Last(es).evid = c.evid /\ Last(es).actor # None
    /\ IsCorrected(c) => CorrectionKept(s, c)

CasesKept ==
    /\ DOMAIN events = DOMAIN cases
    /\ \A s \in DOMAIN cases : CaseKept(s, cases[s], events[s])

Rest ==
    /\ rule \in Rules /\ clock \in 1..MaxClock
    /\ world \in [data : Contents(rule), kept : Seq(Response(rule))] /\ world.kept # <<>>
    /\ DOMAIN factors \subseteq 1..MaxClock

IInv == Rest /\ ScansKept /\ CasesKept

-----------------------------------------------------------------------------
(* Lists, and the newest of some days.                                     *)

LEMMA ListIs ==
  ASSUME NEW s, IsList(s)
  PROVE  Len(s) \in Nat /\ DOMAIN s = 1..Len(s)
  BY DEF IsList

LEMMA ListAppend ==
  ASSUME NEW s, IsList(s), NEW x
  PROVE  /\ IsList(Append(s, x)) /\ Len(Append(s, x)) = Len(s) + 1
         /\ DOMAIN Append(s, x) = 1..Len(s) + 1
         /\ \A i \in DOMAIN s : Append(s, x)[i] = s[i]
         /\ Append(s, x)[Len(s) + 1] = x
<1> DEFINE S == {s[i] : i \in DOMAIN s} \cup {x}
           t == Append(s, x)
<1>1. s \in Seq(S)
  BY DEF IsList
<1>2. t \in Seq(S) /\ Len(t) = Len(s) + 1
  BY <1>1
<1>3. DOMAIN t = 1..Len(s) + 1 /\ (\A i \in DOMAIN s : t[i] = s[i]) /\ t[Len(s) + 1] = x
  BY <1>1
<1>4. S = {t[i] : i \in DOMAIN t}
  BY <1>1, <1>3
<1>5. IsList(t)
  BY <1>2, <1>4 DEF IsList
<1> QED BY <1>2, <1>3, <1>5

LEMMA MinOf ==
  ASSUME NEW S \in SUBSET Nat, S # {}
  PROVE  Min(S) \in S /\ \A x \in S : Min(S) <= x
<1>1. PICK t \in S : \A y \in S : ~ (<<y, t>> \in OpToRel(<, Nat))
  BY NatLessThanWellFounded, WFMin
<1>2. \A y \in S : ~ (y < t)
  <2> SUFFICES ASSUME NEW y \in S PROVE ~ (y < t)
    OBVIOUS
  <2>1. y \in Nat /\ t \in Nat /\ <<y, t>> \notin OpToRel(<, Nat)
    BY <1>1
  <2> QED BY <2>1, Zenon DEF OpToRel
<1>3. \A y \in S : t =< y
  BY <1>2
<1>4. Min(S) \in S /\ \A y \in S : Min(S) =< y
  BY <1>3, Zenon DEF Min
<1> QED BY <1>4

LEMMA MaxOf ==
  ASSUME NEW n \in Nat, NEW S \in SUBSET (0..n), S # {}
  PROVE  Max(S) \in S /\ \A x \in S : x <= Max(S)
<1> DEFINE T == {n - x : x \in S}
<1>1. T \subseteq Nat /\ T # {}
  <2>1. \A x \in S : n - x \in Nat
    OBVIOUS
  <2> QED BY <2>1 DEF T
<1>2. Min(T) \in T /\ \A y \in T : Min(T) <= y
  <2> HIDE DEF T
  <2> QED BY <1>1, MinOf
<1>3. PICK m \in S : Min(T) = n - m
  BY <1>2 DEF T
<1>4. \A x \in S : n - x \in T
  BY DEF T
<1> HIDE DEF T
<1>5. \A x \in S : m >= x
  BY <1>1, <1>2, <1>3, <1>4
<1>6. Max(S) \in S /\ \A x \in S : Max(S) >= x
  BY <1>5, Zenon DEF Max
<1> QED BY <1>6

(* Induction without an operator: the smallest number that fails.          *)
LEMMA Smallest ==
  ASSUME NEW T \in SUBSET Nat, 0 \in T, \A n \in Nat : n \in T => n + 1 \in T
  PROVE  T = Nat
<1> SUFFICES ASSUME Nat \ T # {} PROVE FALSE
  OBVIOUS
<1>1. Min(Nat \ T) \in Nat \ T /\ \A x \in Nat \ T : Min(Nat \ T) <= x
  BY MinOf
<1>2. PICK m \in Nat \ T : \A x \in Nat \ T : m <= x
  BY <1>1
<1>3. m # 0 /\ m - 1 \in Nat
  OBVIOUS
<1>4. m - 1 \in T
  BY <1>2, <1>3
<1>5. (m - 1) + 1 = m
  OBVIOUS
<1> QED BY <1>3, <1>4, <1>5

-----------------------------------------------------------------------------
(* The replay of the events, one by one.                                   *)

Step(p, e, c, s, ss) ==
    [(IF e.type \in Observing THEN Observe(p, e) ELSE Decide(p, e))
       EXCEPT !.ok = Fits(p, e, c, s, ss), !.at = e.at]

IsFold(f, D, es, c, s, ss) ==
    f = [x \in SUBSET D |->
           IF x = {} THEN Nothing ELSE Step(f[x \ {Max(x)}], es[Max(x)], c, s, ss)]

Runs(f, es, c, s, ss) ==
    f[0] = Nothing /\ \A i \in DOMAIN es : f[i] = Step(f[i - 1], es[i], c, s, ss)

LEMMA FoldMore ==
  ASSUME NEW es, NEW c, NEW s, NEW ss, NEW n \in Nat, NEW f, IsFold(f, 1..n, es, c, s, ss)
  PROVE  \E g : IsFold(g, 1..n + 1, es, c, s, ss)
<1> DEFINE m == n + 1
           g == [x \in SUBSET (1..m) |->
                   IF m \in x THEN Step(f[x \ {m}], es[m], c, s, ss) ELSE f[x]]
<1>1. ASSUME NEW x \in SUBSET (1..m), x # {}
      PROVE  g[x] = Step(g[x \ {Max(x)}], es[Max(x)], c, s, ss)
  <2>1. Max(x) \in x /\ \A y \in x : y <= Max(x)
    <3>1. m \in Nat /\ x \in SUBSET (0..m)
      OBVIOUS
    <3> HIDE DEF m
    <3> QED BY <1>1, <3>1, MaxOf
  <2>2. x \ {Max(x)} \in SUBSET (1..m)
    OBVIOUS
  <2>3. CASE m \in x
    <3>1. Max(x) = m
      <4>1. m \in Nat
        OBVIOUS
      <4> HIDE DEF m
      <4>2. Max(x) \in 1..m
        BY <2>1
      <4>3. m <= Max(x)
        BY <2>1, <2>3
      <4> QED BY <4>1, <4>2, <4>3
    <3>2. m \notin x \ {Max(x)}
      BY <3>1
    <3>3. g[x \ {Max(x)}] = f[x \ {Max(x)}]
      BY <2>2, <3>2
    <3>4. g[x] = Step(f[x \ {m}], es[m], c, s, ss)
      BY <2>3
    <3> QED BY <3>1, <3>3, <3>4
  <2>4. CASE m \notin x
    <3>1. x \in SUBSET (1..n) /\ x \ {Max(x)} \in SUBSET (1..n)
      <4>1. x \subseteq 1..n
        <5> SUFFICES ASSUME NEW y \in x PROVE y \in 1..n
          OBVIOUS
        <5>1. y \in 1..n + 1 /\ y # n + 1
          BY <2>4
        <5> QED BY <5>1
      <4> QED BY <4>1
    <3>2. g[x] = f[x] /\ g[x \ {Max(x)}] = f[x \ {Max(x)}]
      BY <2>2, <2>4
    <3>3. f[x] = Step(f[x \ {Max(x)}], es[Max(x)], c, s, ss)
      BY <1>1, <3>1 DEF IsFold
    <3> QED BY <3>2, <3>3
  <2> QED BY <2>3, <2>4
<1>2. g[{}] = Nothing
  <2>1. f[{}] = Nothing
    BY DEF IsFold
  <2> QED BY <2>1
<1>3. IsFold(g, 1..m, es, c, s, ss)
  <2>1. g = [x \in SUBSET (1..m) |-> g[x]]
    OBVIOUS
  <2> HIDE DEF g
  <2>2. \A x \in SUBSET (1..m) :
          g[x] = IF x = {} THEN Nothing ELSE Step(g[x \ {Max(x)}], es[Max(x)], c, s, ss)
    BY <1>1, <1>2, Zenon
  <2> QED BY <2>1, <2>2, Zenon DEF IsFold
<1> QED BY <1>3

LEMMA FoldExists ==
  ASSUME NEW es, NEW c, NEW s, NEW ss, NEW n \in Nat
  PROVE  \E f : IsFold(f, 1..n, es, c, s, ss)
<1> DEFINE T == {k \in Nat : \E f : IsFold(f, 1..k, es, c, s, ss)}
<1>1. 0 \in T
  <2> DEFINE f == [x \in SUBSET {} |-> Nothing]
  <2>1. 1..0 = {} /\ \A x \in SUBSET {} : x = {}
    OBVIOUS
  <2>2. f = [x \in SUBSET {} |-> IF x = {} THEN Nothing
                                 ELSE Step(f[x \ {Max(x)}], es[Max(x)], c, s, ss)]
    BY <2>1, Zenon
  <2>3. IsFold(f, 1..0, es, c, s, ss)
    BY <2>1, <2>2, Zenon DEF IsFold
  <2> HIDE DEF f
  <2> QED BY <2>3
<1>2. \A k \in Nat : k \in T => k + 1 \in T
  <2> SUFFICES ASSUME NEW k \in Nat, NEW f, IsFold(f, 1..k, es, c, s, ss) PROVE k + 1 \in T
    OBVIOUS
  <2> QED BY FoldMore
<1>3. T \in SUBSET Nat
  OBVIOUS
<1> HIDE DEF T
<1>4. T = Nat
  BY <1>1, <1>2, <1>3, Smallest
<1> USE DEF T
<1> QED BY <1>4

LEMMA ReplayRuns ==
  ASSUME NEW es, IsList(es), NEW c, NEW s, NEW ss
  PROVE  \E f : Runs(f, es, c, s, ss) /\ Replayed(es, c, s, ss) = f[Len(es)]
<1> DEFINE g == CHOOSE f : IsFold(f, DOMAIN es, es, c, s, ss)
           n == Len(es)
<1>1. n \in Nat /\ DOMAIN es = 1..n
  BY ListIs
<1>2. IsFold(g, 1..n, es, c, s, ss)
  <2>1. \E f : IsFold(f, DOMAIN es, es, c, s, ss)
    BY <1>1, FoldExists
  <2> QED BY <1>1, <2>1, Zenon
<1>3. Replayed(es, c, s, ss) = g[DOMAIN es]
  BY Zenon DEF Replayed, FoldLeft, MapThenFoldSet, IsFold, Step
<1> HIDE DEF g, n
<1> DEFINE f == [i \in 0..n |-> g[1..i]]
<1>4. f[0] = Nothing
  <2>1. 1..0 = {} /\ {} \in SUBSET (1..n) /\ 0 \in 0..n
    BY <1>1
  <2>2. g[{}] = Nothing
    BY <1>2, <2>1 DEF IsFold
  <2> QED BY <2>1, <2>2
<1>5. ASSUME NEW i \in 1..n PROVE f[i] = Step(f[i - 1], es[i], c, s, ss)
  <2>1. i \in Nat /\ i - 1 \in 0..n /\ i \in 0..n /\ 1..i # {} /\ 1..i \in SUBSET (1..n)
        /\ 1..i \in SUBSET (0..i)
    BY <1>1
  <2>2. Max(1..i) \in 1..i /\ \A y \in 1..i : y <= Max(1..i)
    BY <2>1, MaxOf
  <2>3. Max(1..i) = i
    BY <2>1, <2>2
  <2>4. (1..i) \ {i} = 1..(i - 1)
    OBVIOUS
  <2>5. g[1..i] = Step(g[(1..i) \ {Max(1..i)}], es[Max(1..i)], c, s, ss)
    BY <1>2, <2>1 DEF IsFold
  <2> QED BY <2>1, <2>3, <2>4, <2>5
<1>6. Replayed(es, c, s, ss) = f[n]
  BY <1>1, <1>3
<1> HIDE DEF f
<1> QED BY <1>1, <1>4, <1>5, <1>6 DEF Runs, n

(* A replay depends on nothing that no step depends on.                    *)
LEMMA ReplaySame ==
  ASSUME NEW es, IsList(es), NEW c, NEW d, NEW s, NEW ss, NEW tt,
         \A i \in DOMAIN es : \A p : Step(p, es[i], c, s, ss) = Step(p, es[i], d, s, tt)
  PROVE  Replayed(es, c, s, ss) = Replayed(es, d, s, tt)
<1>1. Len(es) \in Nat /\ DOMAIN es = 1..Len(es)
  BY ListIs
<1>2. PICK f : Runs(f, es, c, s, ss) /\ Replayed(es, c, s, ss) = f[Len(es)]
  BY ReplayRuns
<1>3. PICK g : Runs(g, es, d, s, tt) /\ Replayed(es, d, s, tt) = g[Len(es)]
  BY ReplayRuns
<1> DEFINE T == {n \in Nat : n <= Len(es) => f[n] = g[n]}
<1>4. 0 \in T
  BY <1>2, <1>3 DEF Runs
<1>5. ASSUME NEW n \in Nat, n \in T PROVE n + 1 \in T
  <2> SUFFICES ASSUME n + 1 <= Len(es) PROVE f[n + 1] = g[n + 1]
    OBVIOUS
  <2>1. f[n] = g[n] /\ n + 1 \in DOMAIN es /\ (n + 1) - 1 = n
    BY <1>1, <1>5
  <2>2. f[n + 1] = Step(f[n], es[n + 1], c, s, ss) /\ g[n + 1] = Step(g[n], es[n + 1], d, s, tt)
    BY <1>2, <1>3, <2>1 DEF Runs
  <2> QED BY <2>1, <2>2
<1>6. T \in SUBSET Nat
  OBVIOUS
<1> HIDE DEF T
<1>7. T = Nat
  BY <1>4, <1>5, <1>6, Smallest
<1> USE DEF T
<1> QED BY <1>1, <1>2, <1>3, <1>7

-----------------------------------------------------------------------------
(* What the detectors return.                                              *)

ScanGood(r) ==
    /\ r.boundary \in Int
    /\ \A f \in r.findings : f.subject \in Subjects
    /\ \A f, g \in r.findings : f.subject = g.subject => f = g
    /\ ProofsKept(r)

LEMMA KeptIs ==
  ASSUME Rest
  PROVE  /\ Len(world.kept) \in Nat \ {0} /\ DOMAIN world.kept = 1..Len(world.kept)
         /\ \A k \in DOMAIN world.kept : world.kept[k].at \in 1..MaxClock
<1>1. world.kept \in Seq(Response(rule)) /\ world.kept # <<>>
  BY DEF Rest
<1>2. Len(world.kept) \in Nat /\ Len(world.kept) # 0 /\ DOMAIN world.kept = 1..Len(world.kept)
      /\ \A k \in DOMAIN world.kept : world.kept[k] \in Response(rule)
  BY <1>1
<1> QED BY <1>2 DEF Response

LEMMA Concerned ==
  ASSUME Rest, NEW x, x \in SubjectsIn(rule, world.data)
  PROVE  x \in Subjects
<1>1. world.data \in Contents(rule)
  BY DEF Rest
<1> QED BY <1>1, Zenon DEF Subjects

LEMMA BoundaryIs ==
  ASSUME Rest, NEW asof \in Nat, Received(world, asof) # {}
  PROVE  /\ Boundary(world, asof) \in Int
         /\ \A x \in Received(world, asof) : x \in Int /\ x <= Boundary(world, asof)
<1>1. Received(world, asof) \in SUBSET (0..asof)
  BY KeptIs DEF Received
<1>2. Max(Received(world, asof)) \in Received(world, asof)
      /\ \A x \in Received(world, asof) : x <= Max(Received(world, asof))
  BY <1>1, MaxOf
<1> QED BY <1>1, <1>2 DEF Boundary

LEMMA ScannedGood ==
  ASSUME Rest, NEW asof \in Nat, NEW findings, NEW extra, NEW context, NEW proofs,
         Scanned(world, asof, findings, extra, context, proofs).ok,
         \A f \in findings : f.subject \in SubjectsIn(rule, world.data),
         \A s \in DOMAIN proofs : rule # "sec"
            /\ (rule = "price" => PairKept(s, proofs[s].at, Boundary(world, asof)))
  PROVE  ScanGood(Scanned(world, asof, findings, extra, context, proofs))
<1> DEFINE r == Scanned(world, asof, findings, extra, context, proofs)
<1>1. /\ Received(world, asof) # {}
      /\ \A f, g \in findings : f.subject = g.subject => f = g
      /\ r = Found(Boundary(world, asof), findings, extra, context, proofs)
  BY DEF Scanned, Withheld
<1>2. r.boundary = Boundary(world, asof) /\ r.findings = findings /\ r.proofs = proofs
  BY <1>1 DEF Found
<1>3. r.boundary \in Int
  BY <1>1, <1>2, BoundaryIs
<1>4. \A f \in r.findings : f.subject \in Subjects
  BY <1>2, Concerned
<1>5. ProofsKept(r)
  BY <1>2, Zenon DEF ProofsKept
<1> QED BY <1>1, <1>2, <1>3, <1>4, <1>5 DEF ScanGood

LEMMA NoProofs == DOMAIN NoProof = {}
  BY DEF NoProof

LEMMA SecGood ==
  ASSUME Rest, rule = "sec", NEW asof \in Nat, SecScan(world, asof).ok
  PROVE  ScanGood(SecScan(world, asof))
<1> DEFINE r == SecScan(world, asof)
           k == Proven(world, asof)
<1>1. Candidates(world, asof) \in SUBSET (0..Len(world.kept)) /\ Empty(world) \in SUBSET (0..Len(world.kept))
  BY KeptIs DEF Candidates, Empty
<1>2. k # 0 => k \in DOMAIN world.kept /\ world.kept[k].data.rows > 0
  <2> SUFFICES ASSUME k # 0 PROVE k \in Candidates(world, asof)
    BY DEF Candidates
  <2>1. Candidates(world, asof) # {} /\ k = Max(Candidates(world, asof))
    BY DEF Proven
  <2> QED BY <1>1, <2>1, KeptIs, MaxOf
<1>3. Warning(world) # 0 => Warning(world) \in DOMAIN world.kept
  <2> DEFINE E == {j \in Empty(world) : Readable(world, j)}
  <2> SUFFICES ASSUME Warning(world) # 0 PROVE Warning(world) \in DOMAIN world.kept
    OBVIOUS
  <2>1. E # {} /\ Warning(world) = Max(E)
    BY DEF Warning
  <2>2. E \in SUBSET (0..Len(world.kept))
    BY <1>1
  <2>3. E \subseteq DOMAIN world.kept
    BY DEF Empty
  <2> HIDE DEF E
  <2>4. Max(E) \in E
    BY <2>1, <2>2, KeptIs, MaxOf
  <2> QED BY <2>1, <2>3, <2>4
<1>4. CASE k # 0
  <2>1. r = Found(world.kept[k].at, {}, SecProofs(world, asof), Last(world.kept).at,
                  SecProofs(world, asof))
    BY <1>4 DEF SecScan, Withheld
  <2>2. r.boundary = world.kept[k].at /\ r.findings = {} /\ r.proofs = SecProofs(world, asof)
    BY <2>1 DEF Found
  <2>3. r.boundary \in Int
    BY <1>2, <1>4, <2>2, KeptIs
  <2>4. SecProof(r)
    BY <1>2, <1>4, <2>2 DEF SecProof
  <2>5. ProofsKept(r)
    BY <2>4 DEF ProofsKept
  <2> QED BY <2>2, <2>3, <2>5 DEF ScanGood
<1>5. CASE k = 0
  <2> DEFINE f == SecMissing(world, Warning(world), asof)
  <2>1. Warning(world) # 0
        /\ r = Found(world.kept[Warning(world)].at, {f}, NoProof, Last(world.kept).at, NoProof)
    BY <1>5 DEF SecScan, Withheld
  <2>2. r.boundary = world.kept[Warning(world)].at /\ r.findings = {f} /\ r.proofs = NoProof
    BY <2>1 DEF Found
  <2>3. r.boundary \in Int
    BY <1>3, <2>1, <2>2, KeptIs
  <2>4. f.subject \in Subjects
    <3>1. f.subject \in SubjectsIn(rule, world.data)
      BY DEF SecMissing, SubjectsIn
    <3> QED BY <3>1, Concerned
  <2>5. ProofsKept(r)
    BY <2>2, NoProofs DEF ProofsKept
  <2> HIDE DEF f
  <2> QED BY <2>2, <2>3, <2>4, <2>5 DEF ScanGood
<1> QED BY <1>4, <1>5

LEMMA PriceGood ==
  ASSUME Rest, rule = "price", NEW asof \in Nat, NEW subjects, PriceScan(world, asof, subjects).ok
  PROVE  ScanGood(PriceScan(world, asof, subjects))
<1> DEFINE bars     == world.data
           window   == Window(bars, asof)
           pairs    == {i \in window : i - 1 \in window}
           findings == {PriceFinding(bars, i, asof) : i \in {i \in pairs : Unexplained(bars, i)}}
           proofs   == PriceProofs(world, asof, subjects)
<1>1. PriceScan(world, asof, subjects) =
        Scanned(world, asof, findings, Cardinality(window), NoProof, proofs)
  BY DEF PriceScan, Withheld
<1>2. \A f \in findings : f.subject \in SubjectsIn(rule, world.data)
  BY DEF PriceFinding, Window, SubjectsIn
<1>3. ASSUME NEW s \in DOMAIN proofs, Received(world, asof) # {}
      PROVE  PairKept(s, proofs[s].at, Boundary(world, asof))
  <2>1. /\ ~ Unexplained(bars, s)
        /\ Sources(world, s, asof) # {} /\ Sources(world, s - 1, asof) # {}
        /\ proofs[s].at = Max(Sources(world, s, asof))
    BY DEF PriceProofs
  <2>2. \A i : Sources(world, i, asof) \subseteq Received(world, asof)
    BY DEF Sources, Received
  <2>3. Sources(world, s, asof) \in SUBSET (0..asof)
    BY KeptIs DEF Sources
  <2>4. proofs[s].at \in Sources(world, s, asof)
    BY <2>1, <2>3, MaxOf
  <2>5. PICK k \in DOMAIN world.kept : /\ world.kept[k].at = proofs[s].at
                                       /\ world.kept[k].data[s] = bars[s]
    BY <2>4 DEF Sources, Replays
  <2>6. PICK j \in DOMAIN world.kept : /\ world.kept[j].at \in Sources(world, s - 1, asof)
                                       /\ world.kept[j].data[s - 1] = bars[s - 1]
    BY <2>1 DEF Sources, Replays
  <2>7. proofs[s].at <= Boundary(world, asof) /\ world.kept[j].at <= Boundary(world, asof)
    BY <1>3, <2>2, <2>4, <2>6, BoundaryIs
  <2> QED BY <2>1, <2>5, <2>6, <2>7 DEF PairKept, Unexplained
<1>4. Received(world, asof) # {}
  BY <1>1 DEF Scanned, Withheld
<1> HIDE DEF findings, proofs
<1> QED BY <1>1, <1>2, <1>3, <1>4, ScannedGood

LEMMA CoverageGood ==
  ASSUME Rest, rule = "coverage", NEW asof \in Nat, NEW baseline,
         CoverageScan(world, asof, baseline).ok
  PROVE  ScanGood(CoverageScan(world, asof, baseline))
<1> DEFINE now == world.data
           drops == {m \in Metrics : baseline.known /\ Fallen(baseline, now, m) >= MinDrop}
           findings ==
             {[subject |-> m,
               sev  |-> IF Fallen(baseline, now, m) >= 5 THEN 3 ELSE 2,
               evid |-> [asof |-> asof, value |-> <<baseline.asof, baseline.value[m], now[m]>>]]
                : m \in drops}
<1>1. CoverageScan(world, asof, baseline) =
        Scanned(world, asof, findings, now, baseline, NoProof)
  BY Zenon DEF CoverageScan, Withheld
<1>2. \A f \in findings : f.subject \in SubjectsIn(rule, world.data)
  BY DEF SubjectsIn
<1> HIDE DEF findings
<1> QED BY <1>1, <1>2, NoProofs, ScannedGood

LEMMA MappingGood ==
  ASSUME Rest, rule = "mapping", NEW asof \in Nat, MappingScan(world, asof).ok
  PROVE  ScanGood(MappingScan(world, asof))
<1> DEFINE active == {m \in world.data : Covers(m, asof)}
           findings ==
             {[subject |-> s, sev |-> 3, evid |-> [asof |-> asof,
                 value |-> {m \in active : m.security = s[1] /\ m.provider = s[2]}]]
                : s \in Ambiguous(active)}
             \cup
             {[subject |-> s, sev |-> 3, evid |-> [asof |-> asof,
                 value |-> {m \in active : m.provider = s[1] /\ m.symbol = s[2]}]]
                : s \in Contested(active)}
<1>1. MappingScan(world, asof) =
        Scanned(world, asof, findings, Cardinality(active), NoProof, NoProof)
  BY Zenon DEF MappingScan
<1>2. \A f \in findings : f.subject \in Ambiguous(active) \cup Contested(active)
  OBVIOUS
<1>3. \A s \in Ambiguous(active) \cup Contested(active) : s \in SubjectsIn(rule, world.data)
  BY DEF SubjectsIn, Ambiguous, Contested
<1> HIDE DEF findings, active
<1> QED BY <1>1, <1>2, <1>3, NoProofs, ScannedGood

LEMMA FilingsGood ==
  ASSUME Rest, rule = "filings", NEW asof \in Nat, FilingsScan(world, asof).ok
  PROVE  ScanGood(FilingsScan(world, asof))
<1> DEFINE known == {r \in world.data : r.filed <= asof /\ r.period <= r.filed}
           twice == {Key(r) : r \in {r \in known : \E q \in known : Key(q) = Key(r) /\ q.value # r.value}}
           findings ==
             {[subject |-> k, sev |-> 3,
               evid |-> [asof |-> asof, value |-> {r.value : r \in {r \in known : Key(r) = k}}]]
                : k \in twice}
<1>1. FilingsScan(world, asof) =
        Scanned(world, asof, findings, Cardinality(twice), NoProof, NoProof)
  BY Zenon DEF FilingsScan
<1>2. \A f \in findings : f.subject \in SubjectsIn(rule, world.data)
  <2>1. \A f \in findings : f.subject \in twice
    OBVIOUS
  <2>2. \A k \in twice : \E r \in world.data : k = Key(r)
    OBVIOUS
  <2> QED BY <2>1, <2>2 DEF SubjectsIn
<1> HIDE DEF findings
<1> QED BY <1>1, <1>2, NoProofs, ScannedGood

LEMMA FactorGood ==
  ASSUME Rest, rule = "factor", NEW asof \in Nat, NEW baseline, FactorScan(world, asof, baseline).ok
  PROVE  ScanGood(FactorScan(world, asof, baseline))
<1> DEFINE now   == world.data
           both  == IF baseline.known THEN Scored(now) \cap Scored(baseline.value) ELSE {}
           moved == {t \in both : Distance(now[t], baseline.value[t]) >= 40}
           findings ==
             {[subject |-> t,
               sev  |-> IF Distance(now[t], baseline.value[t]) >= 60 THEN 3 ELSE 2,
               evid |-> [asof |-> asof, value |-> <<baseline.asof, baseline.value[t], now[t]>>]]
                : t \in moved}
<1>1. FactorScan(world, asof, baseline) =
        Scanned(world, asof, findings, now, <<baseline.asof, Cardinality(both)>>, NoProof)
  BY Zenon DEF FactorScan
<1>2. \A f \in findings : f.subject \in moved
  OBVIOUS
<1>3. \A t \in moved : t \in SubjectsIn(rule, world.data)
  BY DEF SubjectsIn, Scored
<1> HIDE DEF findings, moved, both
<1> QED BY <1>1, <1>2, <1>3, NoProofs, ScannedGood

(* The count that stands for a vintage is one of its rows.                 *)
LEMMA RepresentativeIs ==
  ASSUME NEW usable, NEW n \in Nat, NEW v,
         \A r \in usable : r.period \in 0..n /\ r.value \in Nat,
         NEW u \in usable, u.filed = v
  PROVE  Representative(usable, v) \in usable /\ Representative(usable, v).filed = v
<1> DEFINE filed   == {r \in usable : r.filed = v}
           periods == {q.period : q \in filed}
           latest  == {r \in filed : r.period = Max(periods)}
           values  == {q.value : q \in latest}
<1>1. periods \in SUBSET (0..n) /\ periods # {}
  OBVIOUS
<1>2. Max(periods) \in periods
  <2> HIDE DEF periods
  <2> QED BY <1>1, MaxOf
<1>3. latest # {} /\ latest \subseteq filed
  BY <1>2
<1>4. values \in SUBSET Nat /\ values # {}
  BY <1>3
<1>5. Min(values) \in values
  <2> HIDE DEF values
  <2> QED BY <1>4, MinOf
<1>6. \E r \in latest : r.value = Min(values)
  BY <1>5
<1>7. (CHOOSE r \in latest : r.value = Min(values)) \in latest
  BY <1>6, Zenon
<1>8. Representative(usable, v) = CHOOSE r \in latest : r.value = Min(values)
  BY Zenon DEF Representative
<1> QED BY <1>3, <1>7, <1>8

LEMMA SharesGood ==
  ASSUME Rest, rule = "shares", NEW asof \in Nat, SharesScan(world, asof).ok
  PROVE  ScanGood(SharesScan(world, asof))
<1> DEFINE rows   == Observed(world.data, asof)
           usable == {r \in rows : r.value > 0}
           dated  == {r.filed : r \in usable}
           follows(u, v) == u < v /\ ~ \E t \in dated : u < t /\ t < v
           inter  == {ShareJump("inter", Representative(usable, p[1]), Representative(usable, p[2]), asof) :
                        p \in {p \in dated \X dated : follows(p[1], p[2])
                                 /\ Jumped(Representative(usable, p[1]), Representative(usable, p[2]))}}
           intra  == {ShareJump("intra", p[1], p[2], asof) :
                        p \in {p \in usable \X usable :
                                 /\ p[1].filed = p[2].filed
                                 /\ NextRow({r \in usable : r.filed = p[1].filed}, p[1], p[2])
                                 /\ Jumped(p[1], p[2])}}
           invalid  == {Impossible(r, asof) : r \in rows \ usable}
           findings == IF Cardinality(rows) < 2 THEN {} ELSE invalid \cup inter \cup intra
           S == SubjectsIn(rule, world.data)
<1>1. SharesScan(world, asof) =
        Scanned(world, asof, findings, Cardinality(rows), NoProof, NoProof)
  BY Zenon DEF SharesScan
<1>2. \A r \in rows : \E x \in world.data :
         /\ r = [period |-> x.period, filed |-> x.filed, value |-> x.value]
         /\ r.period \in 0..asof /\ r.filed \in Nat /\ r.value \in Int
  <2>1. \A x \in world.data : x.period \in Nat /\ x.filed \in Nat /\ x.value \in Int
    <3>1. "shares" \in Rules /\ world.data \in Contents("shares")
      BY DEF Rest
    <3> QED BY <3>1, SharesAssumption
  <2> SUFFICES ASSUME NEW r \in rows
               PROVE  \E x \in world.data :
                        /\ r = [period |-> x.period, filed |-> x.filed, value |-> x.value]
                        /\ r.period \in 0..asof /\ r.filed \in Nat /\ r.value \in Int
    OBVIOUS
  <2>2. PICK x \in world.data :
          /\ r = [period |-> x.period, filed |-> x.filed, value |-> x.value]
          /\ x.filed \in Vintages(world.data, asof) /\ x.period <= x.filed
    BY DEF Observed
  <2>3. x.filed <= asof
    BY <2>2 DEF Vintages
  <2> QED BY <2>1, <2>2, <2>3
<1>3. \A r \in usable : r.period \in 0..asof /\ r.value \in Nat
  BY <1>2
<1>4. \A f \in invalid : f.subject \in S
  <2> SUFFICES ASSUME NEW r \in rows PROVE <<"invalid", r.period, r.filed>> \in S
    BY DEF Impossible
  <2> QED BY <1>2 DEF SubjectsIn
<1>5. \A v \in dated : \E x \in world.data :
         x.filed = v /\ Representative(usable, v).filed = v
  <2> SUFFICES ASSUME NEW u \in usable
               PROVE  \E x \in world.data :
                        x.filed = u.filed /\ Representative(usable, u.filed).filed = u.filed
    OBVIOUS
  <2>1. Representative(usable, u.filed).filed = u.filed
    <3> HIDE DEF usable
    <3> QED BY <1>3, RepresentativeIs
  <2>2. u \in rows
    OBVIOUS
  <2> HIDE DEF rows, usable
  <2>3. PICK x \in world.data : u = [period |-> x.period, filed |-> x.filed, value |-> x.value]
    BY <1>2, <2>2
  <2>4. x.filed = u.filed
    BY <2>3
  <2> QED BY <2>1, <2>4
<1>6. \A f \in inter : f.subject \in S
  <2> SUFFICES ASSUME NEW v \in dated PROVE <<"inter", Representative(usable, v).filed>> \in S
    <3> HIDE DEF usable, dated, rows
    <3> QED BY DEF ShareJump
  <2> QED BY <1>5 DEF SubjectsIn
<1>7. \A f \in intra : f.subject \in S
  <2> SUFFICES ASSUME NEW p \in usable \X usable
               PROVE  <<"intra", p[2].filed, p[2].period, p[1]>> \in S
    <3>1. \A f \in intra : \E p \in usable \X usable : f = ShareJump("intra", p[1], p[2], asof)
      <4> HIDE DEF usable
      <4> QED OBVIOUS
    <3>2. \A p \in usable \X usable :
            ShareJump("intra", p[1], p[2], asof).subject = <<"intra", p[2].filed, p[2].period, p[1]>>
      <4> HIDE DEF usable
      <4> QED BY DEF ShareJump
    <3> HIDE DEF usable, intra
    <3> QED BY <3>1, <3>2, Zenon
  <2>1. p[1] \in rows /\ p[2] \in rows
    OBVIOUS
  <2> HIDE DEF rows
  <2>2. PICK x \in world.data : p[1] = [period |-> x.period, filed |-> x.filed, value |-> x.value]
    BY <1>2, <2>1
  <2>3. PICK y \in world.data : p[2].period = y.period /\ p[2].filed = y.filed
    BY <1>2, <2>1
  <2> QED BY <2>2, <2>3 DEF SubjectsIn
<1>8. \A f \in findings : f.subject \in S
  BY <1>4, <1>6, <1>7
<1> HIDE DEF findings, rows
<1> QED BY <1>1, <1>8, NoProofs, ScannedGood

(* A scan that is built is kept.                                           *)
LEMMA BuiltKept ==
  ASSUME Rest, NEW asof \in 1..clock, RunDetector(asof).ok
  PROVE  ScanKept(Built(RunDetector(asof), asof))
<1> DEFINE r == RunDetector(asof)
           p == Built(r, asof)
<1>1. asof \in Nat /\ asof \in 1..MaxClock
  BY ReviewAssumption DEF Rest
<1>2. rule \in RuleNames
  BY ReviewAssumption DEF Rest
<1>3. ScanGood(r)
  <2>1. CASE rule = "sec"
    BY <1>1, <2>1, SecGood DEF RunDetector
  <2>2. CASE rule = "price"
    BY <1>1, <2>2, PriceGood DEF RunDetector
  <2>3. CASE rule = "coverage"
    BY <1>1, <2>3, CoverageGood DEF RunDetector
  <2>4. CASE rule = "mapping"
    BY <1>1, <2>4, MappingGood DEF RunDetector
  <2>5. CASE rule = "shares"
    BY <1>1, <2>5, SharesGood DEF RunDetector
  <2>6. CASE rule = "filings"
    BY <1>1, <2>6, FilingsGood DEF RunDetector
  <2>7. CASE rule = "factor"
    BY <1>1, <2>7, FactorGood DEF RunDetector
  <2> QED BY <1>2, <2>1, <2>2, <2>3, <2>4, <2>5, <2>6, <2>7 DEF RuleNames
<1> HIDE DEF r
<1>4. /\ p.id = [asof |-> asof, boundary |-> r.boundary, found |-> r.findings, extra |-> r.extra]
      /\ p.asof = asof /\ p.boundary = r.boundary /\ p.findings = r.findings
      /\ p.context = r.context /\ p.proofs = r.proofs /\ p.policy = "v2" /\ p.at = 0
  BY DEF Built
<1>5. p = [id |-> p.id, asof |-> p.asof, boundary |-> p.boundary, findings |-> p.findings,
           context |-> p.context, proofs |-> p.proofs, policy |-> p.policy, at |-> p.at]
  BY <1>4 DEF Built
<1>6. ProofsKept(p)
  <2>1. SecProof(p) <=> SecProof(r)
    BY <1>4 DEF SecProof
  <2> QED BY <1>3, <1>4, <2>1 DEF ScanGood, ProofsKept
<1> HIDE DEF p
<1>7. ScanKept(p)
  BY <1>1, <1>3, <1>4, <1>5, <1>6 DEF ScanKept, ScanGood
<1> QED BY <1>7 DEF p, r

-----------------------------------------------------------------------------
(* What holds of a scan or a case holds on as responses and scans are added. *)

LEMMA SubjectsSame ==
  ASSUME rule' = rule
  PROVE  Subjects' = Subjects
  BY DEF Subjects

KeptGrows ==
    \A k \in DOMAIN world.kept : /\ k \in DOMAIN world'.kept
                                 /\ world'.kept[k].at = world.kept[k].at
                                 /\ world'.kept[k].data = world.kept[k].data

LEMMA SecProofStays ==
  ASSUME KeptGrows, NEW p, SecProof(p)
  PROVE  SecProof(p)'
  BY DEF KeptGrows, SecProof

LEMMA PairStays ==
  ASSUME KeptGrows, NEW s, NEW at, NEW boundary, PairKept(s, at, boundary)
  PROVE  PairKept(s, at, boundary)'
<1>1. PICK j, k \in DOMAIN world.kept :
        /\ world.kept[k].at = at /\ at <= boundary /\ world.kept[j].at <= boundary
        /\ ~ UnexplainedMove(world.kept[j].data[s - 1], world.kept[k].data[s])
  BY DEF PairKept
<1>2. /\ j \in DOMAIN world'.kept /\ k \in DOMAIN world'.kept
      /\ world'.kept[k].at = at /\ world'.kept[j].at = world.kept[j].at
      /\ world'.kept[k].data = world.kept[k].data /\ world'.kept[j].data = world.kept[j].data
  BY <1>1 DEF KeptGrows
<1> QED BY <1>1, <1>2 DEF PairKept

LEMMA ScanStays ==
  ASSUME KeptGrows, rule' = rule, NEW p, ScanKept(p)
  PROVE  ScanKept(p)'
<1>1. ProofsKept(p)'
  <2> SUFFICES ASSUME NEW s \in DOMAIN p.proofs
               PROVE  /\ rule = "sec" => SecProof(p)'
                      /\ rule = "price" => PairKept(s, p.proofs[s].at, p.boundary)'
    BY Zenon DEF ProofsKept
  <2>1. /\ rule = "sec" => SecProof(p)
        /\ rule = "price" => PairKept(s, p.proofs[s].at, p.boundary)
    BY DEF ScanKept, ProofsKept
  <2> QED BY <2>1, SecProofStays, PairStays
<1> QED BY <1>1, SubjectsSame, Zenon DEF ScanKept

ScansGrow ==
    /\ Len(scans) \in Nat /\ Len(scans)' \in Nat /\ Len(scans) <= Len(scans)'
    /\ DOMAIN scans = 1..Len(scans) /\ DOMAIN scans' = 1..Len(scans)'
    /\ \A k \in DOMAIN scans : scans'[k] = scans[k]

LEMMA CaseStays ==
  ASSUME KeptGrows, ScansGrow, rule' = rule, NEW s, NEW c, NEW es, CaseKept(s, c, es),
         \A k \in DOMAIN scans' : k > Len(scans) => ~ Finds(scans'[k], s)
  PROVE  CaseKept(s, c, es)'
<1>1. c.last \in DOMAIN scans /\ c.verif \in 0..Len(scans) /\ c.last \in DOMAIN scans'
      /\ scans'[c.last] = scans[c.last]
  BY DEF CaseKept, CaseTyped, ScansGrow
<1>2. CaseTyped(s, c)'
  <2>1. c.verif \in 0..Len(scans)'
    BY <1>1 DEF ScansGrow
  <2> QED BY <1>1, <2>1, SubjectsSame, Zenon DEF CaseKept, CaseTyped
<1>3. EventsKept(es, Len(scans)')
  <2>1. 1..Len(scans) \subseteq 1..Len(scans)'
    BY DEF ScansGrow
  <2> QED BY <2>1 DEF CaseKept, EventsKept, EventKept
<1>4. \A k \in DOMAIN scans' : Finds(scans'[k], s) => k <= c.last
  <2> SUFFICES ASSUME NEW k \in DOMAIN scans', Finds(scans'[k], s) PROVE k <= c.last
    OBVIOUS
  <2>1. k \in DOMAIN scans
    BY DEF ScansGrow
  <2> QED BY <2>1 DEF ScansGrow, CaseKept
<1>5. \A f \in scans'[c.last].findings : f.subject = s => f.evid = c.evid
  BY <1>1 DEF CaseKept
<1>6. IsCorrected(c) => CorrectionKept(s, c)'
  <2> SUFFICES ASSUME IsCorrected(c) PROVE CorrectionKept(s, c)'
    OBVIOUS
  <2>1. CorrectionKept(s, c)
    BY DEF CaseKept
  <2>2. c.last < c.verif /\ rule \in {"sec", "price"}
        /\ scans[c.verif].boundary >= scans[c.last].boundary
    BY <2>1 DEF CorrectionKept
  <2>3. scans'[c.verif] = scans[c.verif]
    BY <1>1, <2>2 DEF ScansGrow
  <2>4. rule = "sec" => SecProof(scans[c.verif])'
    <3> SUFFICES ASSUME rule = "sec" PROVE SecProof(scans[c.verif])'
      OBVIOUS
    <3>1. PICK v : v = scans[c.verif]
      OBVIOUS
    <3>2. SecProof(v)
      BY <2>1, <3>1 DEF CorrectionKept
    <3>3. SecProof(v)'
      BY <3>2, SecProofStays
    <3>4. v = scans'[c.verif]
      BY <2>3, <3>1
    <3> QED BY <3>3, <3>4, Zenon DEF SecProof
  <2>5. rule = "price" => (\E k \in DOMAIN world.kept :
                             /\ world.kept[k].at > scans[c.last].boundary
                             /\ PairKept(s, world.kept[k].at, scans[c.verif].boundary))'
    <3> SUFFICES ASSUME rule = "price"
                 PROVE (\E k \in DOMAIN world.kept :
                          /\ world.kept[k].at > scans[c.last].boundary
                          /\ PairKept(s, world.kept[k].at, scans[c.verif].boundary))'
      OBVIOUS
    <3>1. PICK k \in DOMAIN world.kept :
            /\ world.kept[k].at > scans[c.last].boundary
            /\ PairKept(s, world.kept[k].at, scans[c.verif].boundary)
      BY <2>1 DEF CorrectionKept
    <3>2. PICK at, boundary : at = world.kept[k].at /\ boundary = scans[c.verif].boundary
      OBVIOUS
    <3>3. PairKept(s, at, boundary)'
      BY <3>1, <3>2, PairStays
    <3>4. k \in DOMAIN world'.kept /\ at = world'.kept[k].at /\ boundary = scans'[c.verif].boundary
      BY <2>3, <3>2 DEF KeptGrows
    <3>5. at > scans'[c.last].boundary
      BY <1>1, <3>1, <3>2
    <3>6. PairKept(s, world.kept[k].at, scans[c.verif].boundary)'
      BY <3>3, <3>4, Zenon DEF PairKept
    <3> QED BY <3>4, <3>5, <3>6
  <2> QED BY <1>1, <2>2, <2>3, <2>4, <2>5 DEF CorrectionKept
<1> QED BY <1>2, <1>3, <1>4, <1>5, <1>6 DEF CaseKept

-----------------------------------------------------------------------------
(* The steps that touch no case.                                           *)

LEMMA ScansSame ==
  ASSUME ScansKept, scans' = scans
  PROVE  ScansGrow /\ DOMAIN scans' = DOMAIN scans
<1>1. Len(scans) \in Nat /\ DOMAIN scans = 1..Len(scans)
  BY ListIs DEF ScansKept
<1> QED BY <1>1 DEF ScansGrow

LEMMA QuietStep ==
  ASSUME IInv, KeptGrows, rule' = rule, scans' = scans, cases' = cases, events' = events,
         pending' = pending \/ pending' = None \/ ScanKept(pending')
  PROVE  ScansKept' /\ CasesKept'
<1>1. ScansGrow /\ DOMAIN scans' = DOMAIN scans
  BY ScansSame DEF IInv
<1>2. ASSUME NEW k \in DOMAIN scans' PROVE ScanKept(scans[k])'
  <2>1. PICK p : p = scans[k]
    OBVIOUS
  <2>2. ScanKept(p)'
    BY <1>1, <1>2, <2>1, ScanStays DEF IInv, ScansKept
  <2>3. p = scans'[k]
    BY <2>1
  <2> QED BY <2>2, <2>3, Zenon DEF ScanKept, ProofsKept, SecProof
<1>3. (pending = None \/ ScanKept(pending))'
  <2>1. PICK p : p = pending'
    OBVIOUS
  <2>2. p = None \/ ScanKept(p)
    BY <2>1 DEF IInv, ScansKept
  <2>3. p = None \/ ScanKept(p)'
    BY <2>2, ScanStays
  <2> QED BY <2>1, <2>3, Zenon DEF ScanKept, ProofsKept, SecProof
<1>4. ScansKept'
  BY <1>1, <1>2, <1>3 DEF IInv, ScansKept
<1>5. ASSUME NEW s \in DOMAIN cases PROVE CaseKept(s, cases[s], events[s])'
  <2>1. PICK c, es : c = cases[s] /\ es = events[s]
    OBVIOUS
  <2>2. CaseKept(s, c, es)
    BY <1>5, <2>1 DEF IInv, CasesKept
  <2>3. \A k \in DOMAIN scans' : k > Len(scans) => ~ Finds(scans'[k], s)
    BY <1>1 DEF ScansGrow
  <2>4. CaseKept(s, c, es)'
    BY <1>1, <2>2, <2>3, CaseStays
  <2>5. c = cases'[s] /\ es = events'[s]
    BY <2>1
  <2> QED BY <2>4, <2>5, Zenon DEF CaseKept, CaseTyped, EventsKept, CorrectionKept
<1>6. CasesKept'
  BY <1>5 DEF IInv, CasesKept
<1> QED BY <1>4, <1>6

LEMMA KeptSame ==
  ASSUME world' = world
  PROVE  KeptGrows
  BY DEF KeptGrows

LEMMA TickStep ==
  ASSUME IInv, Tick \/ SetBack
  PROVE  IInv'
<1>1. UNCHANGED <<rule, world, pending, scans, cases, events, factors>>
  BY DEF Tick, SetBack
<1>2. ScansKept' /\ CasesKept'
  BY <1>1, QuietStep, KeptSame
<1>3. clock' \in 1..MaxClock
  <2>1. Last(world.kept).at \in 1..MaxClock
    BY KeptIs DEF Last, IInv
  <2> QED BY <2>1, ReviewAssumption DEF Tick, SetBack, IInv, Rest
<1>4. Rest'
  BY <1>1, <1>3 DEF IInv, Rest
<1> QED BY <1>2, <1>4 DEF IInv

LEMMA IngestStep ==
  ASSUME IInv, Ingest
  PROVE  IInv'
<1>1. PICK d \in Answers[rule] :
        world' = [data |-> IF rule = "sec" /\ d.rows = 0 THEN world.data ELSE d,
                  kept |-> Append(world.kept, [at |-> clock, data |-> d, intact |-> TRUE])]
  BY DEF Ingest
<1>2. UNCHANGED <<rule, clock, pending, scans, cases, events, factors>>
  BY DEF Ingest
<1> DEFINE r == [at |-> clock, data |-> d, intact |-> TRUE]
<1>3. r \in Response(rule) /\ d \in Contents(rule)
  BY DEF IInv, Rest, Response, Contents
<1> HIDE DEF r
<1>4. world.kept \in Seq(Response(rule)) /\ world.data \in Contents(rule)
  BY DEF IInv, Rest
<1>5. world'.kept = Append(world.kept, r) /\ world'.data \in Contents(rule)
  BY <1>1, <1>3, <1>4 DEF r
<1>6. world' \in [data : Contents(rule), kept : Seq(Response(rule))] /\ world'.kept # <<>>
  BY <1>1, <1>3, <1>4, <1>5 DEF r
<1>7. KeptGrows
  BY <1>4, <1>5 DEF KeptGrows
<1>8. ScansKept' /\ CasesKept'
  BY <1>2, <1>7, QuietStep
<1>9. Rest'
  BY <1>2, <1>6 DEF IInv, Rest
<1> QED BY <1>8, <1>9 DEF IInv

LEMMA EditStep ==
  ASSUME IInv, Edit \/ Damage
  PROVE  IInv'
<1>1. UNCHANGED <<rule, clock, pending, scans, cases, events, factors>>
  BY DEF Edit, Damage
<1>2. world \in [data : Contents(rule), kept : Seq(Response(rule))] /\ world.kept # <<>>
  BY DEF IInv, Rest
<1>3. KeptGrows /\ world' \in [data : Contents(rule), kept : Seq(Response(rule))] /\ world'.kept # <<>>
  <2>1. CASE Edit
    <3>1. PICK d \in Contents(rule) : world' = [world EXCEPT !.data = d]
      BY <2>1 DEF Edit, Contents
    <3> QED BY <1>2, <3>1 DEF KeptGrows
  <2>2. CASE Damage
    <3>1. PICK k \in DOMAIN world.kept : world' = [world EXCEPT !.kept[k].intact = FALSE]
      BY <2>2 DEF Damage
    <3>2. PICK kept : kept = [world.kept EXCEPT ![k].intact = FALSE]
      OBVIOUS
    <3>3. world' = [world EXCEPT !.kept = kept]
      BY <3>1, <3>2, Zenon
    <3>4. world.kept \in Seq(Response(rule)) /\ world.kept[k] \in Response(rule)
      BY <1>2, <3>1
    <3>5. [world.kept[k] EXCEPT !.intact = FALSE] \in Response(rule)
          /\ [world.kept[k] EXCEPT !.intact = FALSE].at = world.kept[k].at
          /\ [world.kept[k] EXCEPT !.intact = FALSE].data = world.kept[k].data
      BY <3>4 DEF Response
    <3>6. kept \in Seq(Response(rule)) /\ Len(kept) = Len(world.kept) /\ DOMAIN kept = DOMAIN world.kept
          /\ \A j \in DOMAIN kept : kept[j] = IF j = k THEN [world.kept[k] EXCEPT !.intact = FALSE]
                                              ELSE world.kept[j]
      BY <3>2, <3>4, <3>5
    <3>7. world' = [data |-> world.data, kept |-> kept]
      BY <1>2, <3>3
    <3>8. \A j \in DOMAIN world.kept :
            kept[j].at = world.kept[j].at /\ kept[j].data = world.kept[j].data
      BY <3>5, <3>6
    <3> QED BY <1>2, <3>6, <3>7, <3>8 DEF KeptGrows
  <2> QED BY <2>1, <2>2
<1>4. ScansKept' /\ CasesKept'
  BY <1>1, <1>3, QuietStep
<1>5. Rest'
  BY <1>1, <1>3 DEF IInv, Rest
<1> QED BY <1>4, <1>5 DEF IInv

LEMMA ScanStep ==
  ASSUME IInv, Scan
  PROVE  IInv'
<1>1. UNCHANGED <<rule, world, clock, scans, cases, events, factors>>
  BY DEF Scan
<1>2. PICK asof \in 1..clock : RunDetector(asof).ok /\ pending' = Built(RunDetector(asof), asof)
  BY DEF Scan
<1>3. ScanKept(Built(RunDetector(asof), asof))
  BY <1>2, BuiltKept DEF IInv
<1>4. ScanKept(pending')
  <2>1. PICK p : p = Built(RunDetector(asof), asof)
    OBVIOUS
  <2>2. ScanKept(p)
    BY <1>3, <2>1
  <2> QED BY <1>2, <2>1, <2>2
<1>5. ScansKept' /\ CasesKept'
  BY <1>1, <1>4, QuietStep, KeptSame
<1>6. Rest'
  BY <1>1 DEF IInv, Rest
<1> QED BY <1>5, <1>6 DEF IInv

LEMMA FactorsTyped ==
  ASSUME Rest, NEW p, ScanKept(p)
  PROVE  DOMAIN FactorsKept(p) \subseteq 1..MaxClock
  BY DEF Rest, ScanKept, FactorsKept

LEMMA RepeatStep ==
  ASSUME IInv, Repeat \/ Discard
  PROVE  IInv'
<1>1. pending # None /\ pending' = None
      /\ UNCHANGED <<rule, world, clock, scans, cases, events>>
  BY DEF Repeat, Discard
<1>2. ScansKept' /\ CasesKept'
  BY <1>1, QuietStep, KeptSame
<1>3. DOMAIN factors' \subseteq 1..MaxClock
  <2>1. ScanKept(pending)
    BY <1>1 DEF IInv, ScansKept
  <2>2. factors' = factors \/ factors' = FactorsKept(pending)
    BY DEF Repeat, Discard
  <2> QED BY <2>1, <2>2, FactorsTyped DEF IInv, Rest
<1>4. Rest'
  BY <1>1, <1>3 DEF IInv, Rest
<1> QED BY <1>2, <1>4 DEF IInv

-----------------------------------------------------------------------------
(* Recording a scan.                                                       *)

LEMMA StampedIs ==
  ASSUME NEW p, ScanKept(p)
  PROVE  /\ ScanKept(Stamped(p)) /\ Stamped(p).at = clock
         /\ Stamped(p).findings = p.findings /\ Stamped(p).boundary = p.boundary
         /\ Stamped(p).asof = p.asof /\ Stamped(p).proofs = p.proofs
<1> DEFINE q == Stamped(p)
<1>1. q = [id |-> p.id, asof |-> p.asof, boundary |-> p.boundary, findings |-> p.findings,
           context |-> p.context, proofs |-> p.proofs, policy |-> p.policy, at |-> clock]
  <2>1. p = [id |-> p.id, asof |-> p.asof, boundary |-> p.boundary, findings |-> p.findings,
             context |-> p.context, proofs |-> p.proofs, policy |-> p.policy, at |-> p.at]
    BY DEF ScanKept
  <2> QED BY <2>1 DEF Stamped
<1> HIDE DEF q
<1>2. /\ q.id = p.id /\ q.asof = p.asof /\ q.boundary = p.boundary /\ q.findings = p.findings
      /\ q.context = p.context /\ q.proofs = p.proofs /\ q.policy = p.policy /\ q.at = clock
  BY <1>1
<1>3. ProofsKept(q)
  BY <1>2, Zenon DEF ScanKept, ProofsKept, SecProof
<1>4. ScanKept(q)
  <2>1. q = [id |-> q.id, asof |-> q.asof, boundary |-> q.boundary, findings |-> q.findings,
             context |-> q.context, proofs |-> q.proofs, policy |-> q.policy, at |-> q.at]
    BY <1>1, <1>2
  <2>2. p.asof \in 1..MaxClock /\ p.boundary \in Int /\ (\A f \in p.findings : f.subject \in Subjects)
        /\ \A f, g \in p.findings : f.subject = g.subject => f = g
    BY DEF ScanKept
  <2> QED BY <1>2, <1>3, <2>1, <2>2 DEF ScanKept
<1> QED BY <1>2, <1>4 DEF q

(* A finding that is looked up is the one.                                 *)
LEMMA FindingIs ==
  ASSUME NEW p, ScanKept(p), NEW f \in p.findings
  PROVE  Finding(p, f.subject) = f
<1>1. \A g \in p.findings : g.subject = f.subject => g = f
  BY DEF ScanKept
<1> QED BY <1>1 DEF Finding

Adding(q) ==
    /\ scans' = Append(scans, q) /\ IsList(scans)
    /\ world' = world /\ rule' = rule

LEMMA AddedScans ==
  ASSUME NEW q, Adding(q)
  PROVE  /\ ScansGrow /\ Len(scans)' = Len(scans) + 1
         /\ scans'[Len(scans) + 1] = q /\ IsList(scans')
         /\ Len(scans) \in Nat /\ DOMAIN scans' = 1..Len(scans) + 1
<1>1. Len(scans) \in Nat /\ DOMAIN scans = 1..Len(scans)
  BY ListIs DEF Adding
<1>2. /\ IsList(scans') /\ Len(scans') = Len(scans) + 1
      /\ DOMAIN scans' = 1..Len(scans) + 1
      /\ \A i \in DOMAIN scans : scans'[i] = scans[i]
      /\ scans'[Len(scans) + 1] = q
  BY ListAppend DEF Adding
<1> QED BY <1>1, <1>2 DEF ScansGrow

LEMMA CaseMissed ==
  ASSUME NEW q, Adding(q), NEW s, NEW c, NEW es, CaseKept(s, c, es), ~ Finds(q, s)
  PROVE  CaseKept(s, c, es)'
<1>1. \A k \in DOMAIN scans' : k > Len(scans) => ~ Finds(scans'[k], s)
  <2> SUFFICES ASSUME NEW k \in DOMAIN scans', k > Len(scans) PROVE ~ Finds(scans'[k], s)
    OBVIOUS
  <2>1. k = Len(scans) + 1
    BY AddedScans
  <2> QED BY <2>1, AddedScans
<1>2. KeptGrows
  BY KeptSame DEF Adding
<1> QED BY <1>1, <1>2, AddedScans, CaseStays DEF Adding

(* A case that the scan saw.                                               *)
LEMMA CaseSeen ==
  ASSUME NEW q, Adding(q), NEW s, NEW c, NEW es,
         NEW k, k = Len(scans) + 1, CaseTyped(s, c)', EventsKept(es, k), c.last = k,
         \A f \in q.findings : f.subject = s => f.evid = c.evid,
         c.state = "resolved" => Last(es).evid = c.evid /\ Last(es).actor # None,
         ~ IsCorrected(c)
  PROVE  CaseKept(s, c, es)'
<1>1. scans'[c.last] = q
  BY AddedScans
<1>2. \A j \in DOMAIN scans' : Finds(scans'[j], s) => j <= c.last
  BY AddedScans
<1>3. EventsKept(es, Len(scans'))
  BY AddedScans
<1> QED BY <1>1, <1>2, <1>3, Zenon DEF CaseKept

LEMMA EventsStay ==
  ASSUME NEW n \in Nat, NEW es, EventsKept(es, n)
  PROVE  EventsKept(es, n + 1)
<1>1. 1..n \subseteq 1..n + 1
  OBVIOUS
<1> QED BY <1>1 DEF EventsKept, EventKept

LEMMA EventsMore ==
  ASSUME NEW n, NEW es, EventsKept(es, n), NEW e, EventKept(e, n)
  PROVE  /\ EventsKept(Append(es, e), n) /\ Last(Append(es, e)) = e
<1>1. Len(es) \in Nat /\ DOMAIN es = 1..Len(es) /\ es # <<>>
  BY ListIs DEF EventsKept
<1>2. /\ IsList(Append(es, e)) /\ Len(Append(es, e)) = Len(es) + 1
      /\ DOMAIN Append(es, e) = 1..Len(es) + 1
      /\ \A i \in DOMAIN es : Append(es, e)[i] = es[i]
      /\ Append(es, e)[Len(es) + 1] = e
  BY ListAppend DEF EventsKept
<1>3. Len(es) > 0
  <2>1. es \in Seq({es[i] : i \in DOMAIN es})
    BY DEF EventsKept, IsList
  <2> QED BY <1>1, <2>1
<1>4. Append(es, e) # <<>> /\ Append(es, e)[1] = es[1]
  BY <1>1, <1>2, <1>3
<1>5. \A i \in DOMAIN Append(es, e) : EventKept(Append(es, e)[i], n)
  <2> SUFFICES ASSUME NEW i \in 1..Len(es) + 1 PROVE EventKept(Append(es, e)[i], n)
    BY <1>2
  <2>1. CASE i = Len(es) + 1
    BY <1>2, <2>1
  <2>2. CASE i # Len(es) + 1
    <3>1. i \in DOMAIN es
      BY <1>1, <2>2
    <3> QED BY <1>2, <3>1 DEF EventsKept
  <2> QED BY <2>1, <2>2
<1>6. Last(Append(es, e)) = e
  BY <1>2, Zenon DEF Last
<1> QED BY <1>2, <1>4, <1>5, <1>6 DEF EventsKept

LEMMA RecordStep ==
  ASSUME IInv, Record
  PROVE  IInv'
<1> DEFINE k     == Len(scans) + 1
           q     == Stamped(pending)
           found == {f.subject : f \in pending.findings}
<1>1. /\ pending # None /\ pending' = None /\ rule' = rule /\ world' = world /\ clock' = clock
      /\ scans' = Append(scans, q)
      /\ factors' \in {factors, FactorsKept(pending)}
  BY DEF Record
<1>2. /\ cases' = [s \in DOMAIN cases \cup found |->
                     IF s \in found THEN CaseAfter(s, k, Finding(pending, s)) ELSE cases[s]]
      /\ events' = [s \in DOMAIN events \cup found |->
                     IF s \in found THEN EventsAfter(s, k, Finding(pending, s)) ELSE events[s]]
  BY Zenon DEF Record
<1>3. ScanKept(pending) /\ ScanKept(q) /\ q.findings = pending.findings
  BY <1>1, StampedIs DEF IInv, ScansKept
<1> HIDE DEF q
<1>4. Adding(q)
  BY <1>1 DEF Adding, IInv, ScansKept
<1>5. KeptGrows
  BY <1>1, KeptSame
<1>6. DOMAIN cases' = DOMAIN cases \cup found /\ DOMAIN events' = DOMAIN cases'
  BY <1>2 DEF IInv, CasesKept
<1>7. ScansKept'
  <2>1. ASSUME NEW i \in DOMAIN scans' PROVE ScanKept(scans[i])'
    <3>1. PICK p : p = scans'[i]
      OBVIOUS
    <3>2. ScanKept(p)
      <4>1. CASE i = k
        BY <1>3, <1>4, <3>1, <4>1, AddedScans
      <4>2. CASE i # k
        <5>1. i \in DOMAIN scans
          BY <1>4, <2>1, <4>2, AddedScans DEF ScansGrow
        <5> QED BY <1>4, <3>1, <5>1, AddedScans DEF IInv, ScansKept, ScansGrow
      <4> QED BY <4>1, <4>2
    <3>3. ScanKept(p)'
      BY <1>1, <1>5, <3>2, ScanStays
    <3> QED BY <3>1, <3>3, Zenon DEF ScanKept, ProofsKept, SecProof
  <2>2. ASSUME NEW i \in DOMAIN scans', NEW f \in scans'[i].findings
        PROVE  f.subject \in DOMAIN cases'
    <3>1. CASE i = k
      <4>1. f \in pending.findings
        BY <1>3, <1>4, <2>2, <3>1, AddedScans
      <4> QED BY <1>6, <4>1
    <3>2. CASE i # k
      <4>1. i \in DOMAIN scans /\ scans'[i] = scans[i]
        BY <1>4, <2>2, <3>2, AddedScans DEF ScansGrow
      <4> QED BY <1>6, <2>2, <4>1 DEF IInv, ScansKept
    <3> QED BY <3>1, <3>2
  <2> QED BY <1>1, <1>4, <2>1, <2>2, AddedScans DEF ScansKept
<1>8. ASSUME NEW s \in DOMAIN cases'
      PROVE  CaseKept(s, cases[s], events[s])'
  <2>1. PICK c, es : c = cases'[s] /\ es = events'[s]
    OBVIOUS
  <2> SUFFICES CaseKept(s, c, es)'
    BY <2>1, Zenon DEF CaseKept, CaseTyped, EventsKept, CorrectionKept
  <2>2. CASE s \notin found
    <3>1. s \in DOMAIN cases /\ c = cases[s] /\ es = events[s]
      BY <1>2, <1>6, <1>8, <2>1, <2>2 DEF IInv, CasesKept
    <3>2. CaseKept(s, c, es)
      BY <3>1 DEF IInv, CasesKept
    <3>3. ~ Finds(q, s)
      BY <1>3, <2>2 DEF Finds
    <3> QED BY <1>4, <3>2, <3>3, CaseMissed
  <2>3. CASE s \in found
    <3>1. PICK f \in pending.findings : f.subject = s
      BY <2>3
    <3>2. Finding(pending, s) = f
      BY <1>3, <3>1, FindingIs
    <3>3. c = CaseAfter(s, k, f) /\ es = EventsAfter(s, k, f)
      BY <1>2, <1>6, <1>8, <2>1, <2>3, <3>2 DEF IInv, CasesKept
    <3>4. s \in Subjects /\ s \in Subjects'
      BY <1>1, <1>3, <3>1, SubjectsSame DEF ScanKept
    <3>5. \A g \in q.findings : g.subject = s => g.evid = f.evid
      BY <1>3, <3>1 DEF ScanKept
    <3>6. Len(scans) \in Nat /\ k \in DOMAIN scans' /\ Len(scans)' = k
      BY <1>4, AddedScans
    <3>7. \A type \in Observing : EventKept(ObservationEvent(type, k, f), k)
      BY <3>6 DEF EventKept, ObservationEvent
    <3>8. CASE s \notin DOMAIN cases
      <4>1. c = Opened(k, f) /\ es = <<ObservationEvent("opened", k, f)>>
        BY <3>3, <3>8 DEF CaseAfter, EventsAfter
      <4>2. CaseTyped(s, c)' /\ c.last = k /\ c.evid = f.evid /\ c.state = "open"
        BY <3>4, <3>6, <4>1 DEF CaseTyped, Opened
      <4>3. EventsKept(es, k)
        <5>1. PICK e : e = ObservationEvent("opened", k, f)
          OBVIOUS
        <5>2. EventKept(e, k) /\ e.type = "opened"
          BY <3>7, <5>1 DEF Observing, ObservationEvent
        <5>3. es = <<e>> /\ IsList(es)
          BY <4>1, <5>1 DEF IsList
        <5> QED BY <5>2, <5>3 DEF EventsKept
      <4> QED BY <1>4, <3>5, <4>2, <4>3, CaseSeen DEF IsCorrected
    <3>9. CASE s \in DOMAIN cases
      <4>1. PICK b, ds : b = cases[s] /\ ds = events[s]
        OBVIOUS
      <4>2. CaseKept(s, b, ds)
        BY <3>9, <4>1 DEF IInv, CasesKept
      <4>3. CaseTyped(s, b) /\ EventsKept(ds, k)
        BY <3>6, <4>2, EventsStay DEF CaseKept
      <4>4. /\ b = [state |-> b.state, owner |-> b.owner, first |-> b.first, count |-> b.count,
                    evid |-> b.evid, sev |-> b.sev, disp |-> b.disp, resolved |-> b.resolved,
                    review |-> b.review, ack |-> b.ack, verif |-> b.verif, last |-> b.last, seen |-> b.seen]
            /\ b.state \in {"open", "acknowledged", "deferred", "resolved"}
            /\ b.owner \in Owners \cup {None} /\ b.disp \in Outcomes \cup {"deferred", None}
            /\ b.verif \in 0..Len(scans)
        BY <4>3 DEF CaseTyped
      <4>5. b.verif \in 0..k
        BY <3>6, <4>4
      <4>6. CASE Unchanged(b, f)
        <5>1. c = [b EXCEPT !.seen = clock, !.last = k] /\ es = ds
          BY <3>3, <3>9, <4>1, <4>6 DEF CaseAfter, EventsAfter
        <5>2. c = [state |-> b.state, owner |-> b.owner, first |-> b.first, count |-> b.count,
                   evid |-> b.evid, sev |-> b.sev, disp |-> b.disp, resolved |-> b.resolved,
                   review |-> b.review, ack |-> b.ack, verif |-> b.verif, last |-> k, seen |-> clock]
          BY <4>4, <5>1
        <5>3. CaseTyped(s, c)' /\ c.last = k /\ c.evid = b.evid /\ c.state = b.state /\ c.disp = b.disp
          BY <3>4, <3>6, <4>4, <4>5, <5>2 DEF CaseTyped
        <5>4. b.evid = f.evid /\ ~ IsCorrected(c)
          BY <4>6, <5>3 DEF Unchanged, IsCorrected
        <5>5. c.state = "resolved" => Last(es).evid = c.evid /\ Last(es).actor # None
          BY <4>2, <5>1, <5>3 DEF CaseKept
        <5> QED BY <1>4, <3>5, <4>3, <5>1, <5>3, <5>4, <5>5, CaseSeen
      <4>7. CASE ~ Unchanged(b, f)
        <5>1. c = Changed(b, k, f)
          BY <3>3, <3>9, <4>1, <4>7 DEF CaseAfter
        <5>2. PICK type \in {"reopened", "evidence_changed"} : es = Append(ds, ObservationEvent(type, k, f))
          BY <3>3, <3>9, <4>1, <4>7 DEF EventsAfter
        <5>3. /\ c.last = k /\ c.evid = f.evid /\ c.verif = 0 /\ c.disp = None
              /\ c.owner \in {b.owner, None}
              /\ c.state = IF Recurs(b) THEN "open" ELSE b.state
              /\ c = [state |-> c.state, owner |-> c.owner, first |-> c.first, count |-> c.count,
                      evid |-> c.evid, sev |-> c.sev, disp |-> c.disp, resolved |-> c.resolved,
                      review |-> c.review, ack |-> c.ack, verif |-> c.verif, last |-> c.last, seen |-> c.seen]
          BY <4>4, <5>1 DEF Changed
        <5>4. c.state \in {"open", "acknowledged"}
          BY <4>4, <5>3 DEF Recurs
        <5>5. CaseTyped(s, c)'
          <6>1. c.last \in DOMAIN scans' /\ c.verif \in 0..Len(scans)'
            BY <3>6, <5>3
          <6>2. c.owner \in Owners \cup {None} /\ c.disp \in Outcomes \cup {"deferred", None}
            BY <4>4, <5>3
          <6> QED BY <3>4, <5>3, <5>4, <6>1, <6>2 DEF CaseTyped
        <5>6. EventsKept(es, k)
          <6>1. PICK e : e = ObservationEvent(type, k, f)
            OBVIOUS
          <6>2. EventKept(e, k)
            BY <3>7, <6>1 DEF Observing
          <6>3. EventsKept(Append(ds, e), k)
            BY <4>3, <6>2, EventsMore
          <6> QED BY <5>2, <6>1, <6>3
        <5> QED BY <1>4, <3>5, <5>3, <5>4, <5>5, <5>6, CaseSeen DEF IsCorrected
      <4> QED BY <4>6, <4>7
    <3> QED BY <3>8, <3>9
  <2> QED BY <2>2, <2>3
<1>9. CasesKept'
  BY <1>6, <1>8 DEF CasesKept
<1>10. Rest'
  <2>1. DOMAIN factors' \subseteq 1..MaxClock
    BY <1>1, <1>3, FactorsTyped DEF IInv, Rest
  <2> QED BY <1>1, <2>1 DEF IInv, Rest
<1> QED BY <1>7, <1>9, <1>10 DEF IInv

-----------------------------------------------------------------------------
(* The decisions of a person.                                              *)

LEMMA DecidedStep ==
  ASSUME IInv, NEW s \in DOMAIN cases, NEW c, NEW e, Decided(s, c, e), CaseTyped(s, c),
         e.type \in Deciding, c.last = cases[s].last, c.evid = cases[s].evid,
         c.state = "resolved" => e.evid = c.evid /\ e.actor # None,
         IsCorrected(c) => CorrectionKept(s, c)
  PROVE  IInv'
<1>1. /\ cases' = [cases EXCEPT ![s] = c]
      /\ events' = [events EXCEPT ![s] = Append(events[s], e)]
      /\ UNCHANGED <<rule, world, clock, pending, scans, factors>>
  BY DEF Decided
<1>2. DOMAIN cases' = DOMAIN cases /\ DOMAIN events' = DOMAIN cases /\ s \in DOMAIN events
      /\ cases'[s] = c /\ events'[s] = Append(events[s], e)
      /\ \A x \in DOMAIN cases : x # s => cases'[x] = cases[x] /\ events'[x] = events[x]
  BY <1>1 DEF IInv, CasesKept
<1>3. ScansKept'
  <2>1. UNCHANGED <<world, scans, rule, pending, DOMAIN cases>>
    BY <1>1, <1>2
  <2>2. IsList(scans') /\ (\A k \in DOMAIN scans' : \A f \in scans'[k].findings : f.subject \in DOMAIN cases')
    BY <2>1 DEF IInv, ScansKept
  <2>3. \A p : ScanKept(p) => ScanKept(p)'
    BY <2>1, ScanStays, KeptSame
  <2>4. \A k \in DOMAIN scans' : ScanKept(scans[k])'
    <3> SUFFICES ASSUME NEW k \in DOMAIN scans' PROVE ScanKept(scans[k])'
      OBVIOUS
    <3>1. PICK p : p = scans[k]
      OBVIOUS
    <3>2. ScanKept(p)'
      BY <2>1, <2>3, <3>1 DEF IInv, ScansKept
    <3>3. p = scans'[k]
      BY <2>1, <3>1
    <3> QED BY <3>2, <3>3, Zenon DEF ScanKept, ProofsKept, SecProof
  <2>5. (pending = None \/ ScanKept(pending))'
    <3>1. PICK p : p = pending
      OBVIOUS
    <3>2. p = None \/ ScanKept(p)'
      BY <2>3, <3>1 DEF IInv, ScansKept
    <3>3. p = pending'
      BY <2>1, <3>1
    <3> QED BY <3>2, <3>3, Zenon DEF ScanKept, ProofsKept, SecProof
  <2> QED BY <2>2, <2>4, <2>5 DEF ScansKept
<1>4. ScansGrow /\ DOMAIN scans' = DOMAIN scans /\ KeptGrows
  BY <1>1, ScansSame, KeptSame DEF IInv
<1>5. \A x, b, es : CaseKept(x, b, es) => CaseKept(x, b, es)'
  <2> SUFFICES ASSUME NEW x, NEW b, NEW es, CaseKept(x, b, es) PROVE CaseKept(x, b, es)'
    OBVIOUS
  <2>1. \A k \in DOMAIN scans' : k > Len(scans) => ~ Finds(scans'[k], x)
    BY <1>4 DEF ScansGrow
  <2> QED BY <1>1, <1>4, <2>1, CaseStays
<1>6. CaseKept(s, c, Append(events[s], e))
  <2>1. CaseKept(s, cases[s], events[s])
    BY DEF IInv, CasesKept
  <2>2. EventKept(e, Len(scans))
    BY DEF EventKept, Deciding, Observing
  <2>3. EventsKept(Append(events[s], e), Len(scans)) /\ Last(Append(events[s], e)) = e
    BY <2>1, <2>2, EventsMore DEF CaseKept
  <2>4. /\ \A k \in DOMAIN scans : Finds(scans[k], s) => k <= c.last
        /\ \A f \in scans[c.last].findings : f.subject = s => f.evid = c.evid
    BY <2>1 DEF CaseKept
  <2> QED BY <2>3, <2>4 DEF CaseKept
<1>7. ASSUME NEW x \in DOMAIN cases' PROVE CaseKept(x, cases[x], events[x])'
  <2>1. PICK b, es : b = cases'[x] /\ es = events'[x]
    OBVIOUS
  <2>2. CaseKept(x, b, es)
    <3>1. CASE x = s
      BY <1>2, <1>6, <2>1, <3>1
    <3>2. CASE x # s
      BY <1>2, <1>7, <2>1, <3>2 DEF IInv, CasesKept
    <3> QED BY <3>1, <3>2
  <2>3. CaseKept(x, b, es)'
    BY <1>5, <2>2
  <2> QED BY <2>1, <2>3, Zenon DEF CaseKept, CaseTyped, EventsKept, CorrectionKept
<1>8. CasesKept'
  BY <1>2, <1>7 DEF CasesKept
<1>9. Rest'
  BY <1>1 DEF IInv, Rest
<1> QED BY <1>3, <1>8, <1>9 DEF IInv

LEMMA CaseShape ==
  ASSUME IInv, NEW s \in DOMAIN cases, NEW c, c = cases[s]
  PROVE  /\ CaseTyped(s, c)
         /\ c = [state |-> c.state, owner |-> c.owner, first |-> c.first, count |-> c.count,
                 evid |-> c.evid, sev |-> c.sev, disp |-> c.disp, resolved |-> c.resolved,
                 review |-> c.review, ack |-> c.ack, verif |-> c.verif, last |-> c.last, seen |-> c.seen]
<1>1. CaseTyped(s, c)
  BY DEF IInv, CasesKept, CaseKept
<1> QED BY <1>1 DEF CaseTyped

LEMMA AcknowledgeStep ==
  ASSUME IInv, NEW s \in DOMAIN cases, NEW who \in Owners, NEW evid, Acknowledge(s, who, evid)
  PROVE  IInv'
<1>1. PICK c : c = cases[s]
  OBVIOUS
<1>0. PICK d : d = [c EXCEPT !.state = "acknowledged", !.owner = who, !.ack = clock]
  OBVIOUS
<1> DEFINE e == Decision("acknowledged", who, None, 0, evid, 0, None)
<1>2. Decided(s, d, e)
  BY <1>0, <1>1 DEF Acknowledge
<1>3. CaseTyped(s, c)
      /\ c = [state |-> c.state, owner |-> c.owner, first |-> c.first, count |-> c.count,
              evid |-> c.evid, sev |-> c.sev, disp |-> c.disp, resolved |-> c.resolved,
              review |-> c.review, ack |-> c.ack, verif |-> c.verif, last |-> c.last, seen |-> c.seen]
  BY <1>1, CaseShape
<1>4. d = [state |-> "acknowledged", owner |-> who, first |-> c.first, count |-> c.count,
           evid |-> c.evid, sev |-> c.sev, disp |-> c.disp, resolved |-> c.resolved,
           review |-> c.review, ack |-> clock, verif |-> c.verif, last |-> c.last, seen |-> c.seen]
  BY <1>0, <1>3
<1>5. CaseTyped(s, d) /\ d.last = c.last /\ d.evid = c.evid /\ d.state = "acknowledged"
  BY <1>3, <1>4 DEF CaseTyped
<1>6. e.type \in Deciding
  BY DEF Decision, Deciding
<1> HIDE DEF e
<1> QED BY <1>1, <1>2, <1>5, <1>6, DecidedStep DEF IsCorrected

LEMMA DeferStep ==
  ASSUME IInv, NEW s \in DOMAIN cases, NEW who \in Owners, NEW evid, NEW until,
         Defer(s, who, evid, until)
  PROVE  IInv'
<1>1. PICK c : c = cases[s]
  OBVIOUS
<1>0. PICK d : d = [c EXCEPT !.state = "deferred", !.owner = who, !.disp = "deferred",
                             !.resolved = 0, !.review = until, !.verif = 0]
  OBVIOUS
<1> DEFINE e == Decision("deferred", who, "deferred", 0, evid, until, None)
<1>2. Decided(s, d, e)
  BY <1>0, <1>1 DEF Defer
<1>3. CaseTyped(s, c)
      /\ c = [state |-> c.state, owner |-> c.owner, first |-> c.first, count |-> c.count,
              evid |-> c.evid, sev |-> c.sev, disp |-> c.disp, resolved |-> c.resolved,
              review |-> c.review, ack |-> c.ack, verif |-> c.verif, last |-> c.last, seen |-> c.seen]
  BY <1>1, CaseShape
<1>4. d = [state |-> "deferred", owner |-> who, first |-> c.first, count |-> c.count,
           evid |-> c.evid, sev |-> c.sev, disp |-> "deferred", resolved |-> 0,
           review |-> until, ack |-> c.ack, verif |-> 0, last |-> c.last, seen |-> c.seen]
  BY <1>0, <1>3
<1>5. Len(scans) \in Nat
  BY ListIs DEF IInv, ScansKept
<1>6. CaseTyped(s, d) /\ d.last = c.last /\ d.evid = c.evid /\ d.state = "deferred"
  BY <1>3, <1>4, <1>5 DEF CaseTyped
<1>7. e.type \in Deciding
  BY DEF Decision, Deciding
<1> HIDE DEF e
<1> QED BY <1>1, <1>2, <1>6, <1>7, DecidedStep DEF IsCorrected

LEMMA ResolveStep ==
  ASSUME IInv, NEW s \in DOMAIN cases, NEW who \in Owners, NEW evid, NEW disp \in Verdicts,
         NEW k \in 0..Len(scans), Resolve(s, who, evid, disp, k)
  PROVE  IInv'
<1>1. PICK c : c = cases[s]
  OBVIOUS
<1>2. PICK contract :
        contract = IF disp = "accepted" /\ NeedsContract(c) THEN Contract(c, scans) ELSE None
  OBVIOUS
<1>0. PICK d : d = [c EXCEPT !.state = "resolved", !.owner = who, !.disp = disp,
                             !.resolved = clock, !.review = 0, !.verif = k]
  OBVIOUS
<1> DEFINE e == Decision("resolved", who, disp, k, evid, 0, contract)
<1>3. /\ c.evid = evid /\ IF k = 0 THEN disp \notin Corrected ELSE Clears(k, c, s)
      /\ disp \in Corrected => Proves(k, c, s)
      /\ Decided(s, d, e)
  BY <1>0, <1>1, <1>2, Zenon DEF Resolve, StillCurrent
<1>4. CaseTyped(s, c)
      /\ c = [state |-> c.state, owner |-> c.owner, first |-> c.first, count |-> c.count,
              evid |-> c.evid, sev |-> c.sev, disp |-> c.disp, resolved |-> c.resolved,
              review |-> c.review, ack |-> c.ack, verif |-> c.verif, last |-> c.last, seen |-> c.seen]
  BY <1>1, CaseShape
<1>5. d = [state |-> "resolved", owner |-> who, first |-> c.first, count |-> c.count,
           evid |-> c.evid, sev |-> c.sev, disp |-> disp, resolved |-> clock,
           review |-> 0, ack |-> c.ack, verif |-> k, last |-> c.last, seen |-> c.seen]
  BY <1>0, <1>4
<1>6. CaseTyped(s, d) /\ d.last = c.last /\ d.evid = c.evid /\ d.verif = k /\ d.disp = disp
  BY <1>4, <1>5, VerdictAssumption DEF CaseTyped
<1>7. e.type \in Deciding /\ e.evid = evid /\ e.actor = who
  BY DEF Decision, Deciding
<1>8. e.actor # None
  BY <1>7, ReviewAssumption
<1>9. ASSUME IsCorrected(d) PROVE CorrectionKept(s, d)
  <2>1. disp \in Corrected /\ k # 0 /\ k \in DOMAIN scans
    <3>1. disp \in Corrected
      BY <1>6, <1>9 DEF IsCorrected
    <3>2. k # 0
      BY <1>3, <3>1
    <3>3. Len(scans) \in Nat /\ DOMAIN scans = 1..Len(scans)
      BY ListIs DEF IInv, ScansKept
    <3> QED BY <3>1, <3>2, <3>3
  <2>2. k > c.last /\ scans[k].boundary >= scans[c.last].boundary
    BY <1>3, <2>1 DEF Clears
  <2>3. /\ rule \in {"sec", "price"} /\ s \in DOMAIN scans[k].proofs
        /\ rule = "price" => scans[k].proofs[s].at > scans[c.last].boundary
    BY <1>3, <2>1 DEF Proves
  <2>4. ProofsKept(scans[k])
    BY <2>1 DEF IInv, ScansKept, ScanKept
  <2>5. rule = "sec" => SecProof(scans[k])
    BY <2>3, <2>4 DEF ProofsKept
  <2>6. ASSUME rule = "price"
        PROVE  \E j \in DOMAIN world.kept :
                  /\ world.kept[j].at > scans[c.last].boundary
                  /\ PairKept(s, world.kept[j].at, scans[k].boundary)
    <3>1. PairKept(s, scans[k].proofs[s].at, scans[k].boundary)
      BY <2>3, <2>4, <2>6 DEF ProofsKept
    <3>2. PICK j \in DOMAIN world.kept : world.kept[j].at = scans[k].proofs[s].at
      BY <3>1 DEF PairKept
    <3> QED BY <2>3, <2>6, <3>1, <3>2
  <2>7. c.last \in Int /\ k \in Int
    BY <1>4, ListIs DEF CaseTyped, IInv, ScansKept
  <2> QED BY <1>6, <2>2, <2>3, <2>5, <2>6, <2>7 DEF CorrectionKept
<1> HIDE DEF e
<1> QED BY <1>1, <1>3, <1>6, <1>7, <1>8, <1>9, DecidedStep

LEMMA ReviewStep ==
  ASSUME IInv, Review
  PROVE  IInv'
<1>1. PICK s \in DOMAIN cases, who \in Owners : \E evid \in Read(s) :
        \/ Acknowledge(s, who, evid)
        \/ Defer(s, who, evid, clock + 1)
        \/ \E disp \in Verdicts, k \in 0..Len(scans) : Resolve(s, who, evid, disp, k)
  BY Zenon DEF Review
<1> QED BY <1>1, AcknowledgeStep, DeferStep, ResolveStep

-----------------------------------------------------------------------------
(* The start.                                                              *)

LEMMA LegacyIs ==
  ASSUME Rest, rule = "sec", SecScan(world, 1).ok, SecScan(world, 1).findings # {}
  PROVE  /\ ScanKept(Legacy) /\ Legacy.at = 2
         /\ \E f : Legacy.findings = {f} /\ f.subject = "issuer" /\ f.sev = 2
<1> DEFINE r == SecScan(world, 1)
           p == Built(r, 1)
           q == Legacy
<1>1. ScanGood(r)
  BY SecGood
<1>2. r.proofs = NoProof /\ r.findings = {SecMissing(world, Warning(world), 1)}
  BY DEF SecScan, Withheld, Found
<1>3. PICK f : r.findings = {f} /\ f.subject = "issuer" /\ f.sev = 2
  BY <1>2 DEF SecMissing
<1> HIDE DEF r
<1>4. PICK id : id = [asof |-> 1, boundary |-> r.boundary, found |-> r.findings, extra |-> r.extra]
  OBVIOUS
<1>5. p = [id |-> id, asof |-> 1, boundary |-> r.boundary, findings |-> r.findings,
           context |-> r.context, proofs |-> r.proofs, policy |-> "v2", at |-> 0]
  BY <1>4 DEF Built
<1>6. PICK jd : jd = [id EXCEPT !.boundary = 2]
  OBVIOUS
<1>7. q = [p EXCEPT !.policy = "v1", !.boundary = 2, !.id.boundary = 2, !.at = 2]
  BY Zenon DEF Legacy, r
<1> HIDE DEF p, q
<1>8. q = [id |-> jd, asof |-> 1, boundary |-> 2, findings |-> r.findings,
           context |-> r.context, proofs |-> r.proofs, policy |-> "v1", at |-> 2]
  BY <1>5, <1>6, <1>7
<1>9. /\ q.id = jd /\ q.asof = 1 /\ q.boundary = 2 /\ q.findings = r.findings
      /\ q.context = r.context /\ q.proofs = r.proofs /\ q.policy = "v1" /\ q.at = 2
  BY <1>8
<1>10. ProofsKept(q)
  BY <1>2, <1>9, NoProofs DEF ProofsKept, r
<1>11. q.asof \in 1..MaxClock /\ q.boundary \in Int
  BY <1>9, ReviewAssumption
<1>12. q = [id |-> q.id, asof |-> q.asof, boundary |-> q.boundary, findings |-> q.findings,
            context |-> q.context, proofs |-> q.proofs, policy |-> q.policy, at |-> q.at]
  BY <1>8, <1>9
<1>13. ScanKept(q)
  BY <1>1, <1>9, <1>10, <1>11, <1>12 DEF ScanKept, ScanGood
<1> QED BY <1>3, <1>9, <1>13 DEF q

LEMMA OneIsList ==
  ASSUME NEW x
  PROVE  IsList(<<x>>) /\ Len(<<x>>) = 1 /\ DOMAIN <<x>> = 1..1 /\ <<x>>[1] = x
  BY DEF IsList

LEMMA InitIInv == Init => IInv
<1> SUFFICES ASSUME Init PROVE IInv
  OBVIOUS
<1>1. rule \in Rules /\ world = FirstWorld[rule] /\ pending = None /\ factors = [d \in {} |-> 0]
  BY DEF Init
<1>2. Rest
  <2>1. world \in [data : Contents(rule), kept : Seq(Response(rule))] /\ world.kept # <<>>
    BY <1>1, WorldAssumption
  <2>2. clock \in 1..MaxClock
    BY <1>1, ReviewAssumption, LegacyAssumption DEF Init
  <2>3. DOMAIN factors \subseteq 1..MaxClock
    BY <1>1
  <2> QED BY <1>1, <2>1, <2>2, <2>3 DEF Rest
<1>3. CASE scans = <<>> /\ cases = [s \in {} |-> 0] /\ events = [s \in {} |-> <<>>]
  <2>1. IsList(scans) /\ DOMAIN scans = {} /\ DOMAIN cases = {} /\ DOMAIN events = {}
    BY <1>3 DEF IsList
  <2> QED BY <1>1, <1>2, <2>1 DEF IInv, ScansKept, CasesKept
<1>4. CASE /\ rule = "sec" /\ clock = 2
           /\ scans  = <<Legacy>>
           /\ cases  = [s \in {"issuer"} |-> Opened(1, Finding(Legacy, s))]
           /\ events = [s \in {"issuer"} |-> <<ObservationEvent("opened", 1, Finding(Legacy, s))>>]
  <2>1. SecScan(world, 1).ok /\ SecScan(world, 1).findings # {}
    BY <1>1, <1>4, LegacyAssumption
  <2>2. PICK f : Legacy.findings = {f} /\ f.subject = "issuer" /\ ScanKept(Legacy)
    BY <1>2, <1>4, <2>1, LegacyIs
  <2>3. Finding(Legacy, "issuer") = f
    BY <2>2, FindingIs
  <2>4. IsList(scans) /\ Len(scans) = 1 /\ DOMAIN scans = 1..1 /\ scans[1] = Legacy
    BY <1>4, OneIsList
  <2>5. DOMAIN cases = {"issuer"} /\ DOMAIN events = {"issuer"}
        /\ cases["issuer"] = Opened(1, f)
        /\ events["issuer"] = <<ObservationEvent("opened", 1, f)>>
    BY <1>4, <2>3
  <2>6. ScansKept
    BY <1>1, <2>2, <2>4, <2>5 DEF ScansKept
  <2>7. "issuer" \in Subjects
    BY <2>2 DEF ScanKept
  <2>8. CaseTyped("issuer", Opened(1, f))
    BY <2>4, <2>7 DEF CaseTyped, Opened
  <2>9. EventsKept(<<ObservationEvent("opened", 1, f)>>, Len(scans))
    <3>1. PICK e : e = ObservationEvent("opened", 1, f)
      OBVIOUS
    <3>2. EventKept(e, 1) /\ e.type = "opened"
      BY <3>1 DEF EventKept, Observing, ObservationEvent
    <3>3. IsList(<<e>>) /\ <<e>> # <<>> /\ DOMAIN <<e>> = 1..1 /\ <<e>>[1] = e
      BY OneIsList
    <3>4. EventsKept(<<e>>, 1)
      BY <3>2, <3>3 DEF EventsKept
    <3> QED BY <2>4, <3>1, <3>4
  <2>10. CaseKept("issuer", Opened(1, f), <<ObservationEvent("opened", 1, f)>>)
    <3>1. PICK c : c = Opened(1, f)
      OBVIOUS
    <3>2. c.last = 1 /\ c.state = "open" /\ c.evid = f.evid
      BY <3>1 DEF Opened
    <3>3. \A k \in DOMAIN scans : k <= c.last
      BY <2>4, <3>2
    <3>4. \A g \in scans[c.last].findings : g.evid = c.evid
      BY <2>2, <2>4, <3>2
    <3>5. ~ IsCorrected(c) /\ c.state # "resolved"
      BY <3>2 DEF IsCorrected
    <3> QED BY <2>8, <2>9, <3>1, <3>3, <3>4, <3>5 DEF CaseKept
  <2>11. CasesKept
    BY <2>5, <2>10 DEF CasesKept
  <2> QED BY <1>2, <2>6, <2>11 DEF IInv
<1> QED BY <1>3, <1>4 DEF Init

LEMMA Inductive == IInv /\ [Next]_vars => IInv'
<1> SUFFICES ASSUME IInv, [Next]_vars PROVE IInv'
  OBVIOUS
<1>1. CASE Next
  BY <1>1, TickStep, IngestStep, EditStep, ScanStep, RecordStep, RepeatStep, ReviewStep DEF Next
<1>2. CASE UNCHANGED vars
  <2>1. UNCHANGED <<rule, world, clock, pending, scans, cases, events, factors>>
    BY <1>2 DEF vars
  <2>2. ScansKept' /\ CasesKept'
    BY <2>1, QuietStep, KeptSame
  <2>3. Rest'
    BY <2>1 DEF IInv, Rest
  <2> QED BY <2>2, <2>3 DEF IInv
<1> QED BY <1>1, <1>2

THEOREM Invariant == Spec => []IInv
<1> QED BY InitIInv, Inductive, PTL DEF Spec

-----------------------------------------------------------------------------
(* What the invariant says.                                                *)

LEMMA IInvType == IInv => TypeOK
<1> SUFFICES ASSUME IInv PROVE TypeOK
  OBVIOUS
<1>1. ASSUME NEW s \in DOMAIN cases
      PROVE  /\ s \in Subjects
             /\ cases[s].state \in {"open", "acknowledged", "deferred", "resolved"}
             /\ cases[s].owner \in Owners \cup {None}
             /\ cases[s].disp \in Outcomes \cup {"deferred", None}
             /\ cases[s].last \in DOMAIN scans /\ cases[s].verif \in 0..Len(scans)
             /\ events[s][1].type = "opened"
  BY DEF IInv, CasesKept, CaseKept, CaseTyped, EventsKept
<1> QED BY <1>1 DEF TypeOK, IInv, Rest, CasesKept

LEMMA IInvCorrection == IInv => CorrectionHolds
<1> SUFFICES ASSUME IInv, NEW s \in DOMAIN cases, NEW c, c = cases[s], IsCorrected(c)
             PROVE  /\ \A k \in c.verif..Len(scans) : ~ Finds(scans[k], s)
                    /\ \E k \in DOMAIN world.kept :
                         /\ world.kept[k].at \in scans[c.last].boundary..scans[c.verif].boundary
                              \/ scans[c.last].policy = "v1"
                         /\ IF rule = "sec" THEN world.kept[k].data.rows > 0
                            ELSE \E j \in DOMAIN world.kept :
                                   /\ world.kept[j].at <= scans[c.verif].boundary
                                   /\ ~ UnexplainedMove(world.kept[j].data[s - 1], world.kept[k].data[s])
  BY Zenon DEF CorrectionHolds
<1>1. CaseKept(s, c, events[s]) /\ CorrectionKept(s, c)
  BY DEF IInv, CasesKept, CaseKept
<1>2. Len(scans) \in Nat /\ DOMAIN scans = 1..Len(scans)
  BY ListIs DEF IInv, ScansKept
<1>3. c.last \in 1..Len(scans) /\ c.verif \in 0..Len(scans) /\ c.last < c.verif /\ c.verif \in DOMAIN scans
  BY <1>1, <1>2 DEF CaseKept, CaseTyped, CorrectionKept
<1>4. \A k \in c.verif..Len(scans) : ~ Finds(scans[k], s)
  <2> SUFFICES ASSUME NEW k \in c.verif..Len(scans), Finds(scans[k], s) PROVE FALSE
    OBVIOUS
  <2>1. k \in DOMAIN scans /\ k > c.last
    BY <1>2, <1>3
  <2>2. k <= c.last
    BY <1>1, <2>1 DEF CaseKept
  <2> QED BY <1>3, <2>1, <2>2
<1>5. scans[c.last].boundary \in Int /\ scans[c.verif].boundary \in Int
      /\ scans[c.verif].boundary >= scans[c.last].boundary
  BY <1>1, <1>2, <1>3 DEF IInv, ScansKept, ScanKept, CorrectionKept
<1>6. CASE rule = "sec"
  <2>1. PICK k \in DOMAIN world.kept : world.kept[k].at = scans[c.verif].boundary
                                       /\ world.kept[k].data.rows > 0
    BY <1>1, <1>6 DEF CorrectionKept, SecProof
  <2>2. world.kept[k].at \in scans[c.last].boundary..scans[c.verif].boundary
    BY <1>5, <2>1
  <2> QED BY <1>4, <1>6, <2>1, <2>2
<1>7. CASE rule = "price"
  <2>1. PICK i \in DOMAIN world.kept : world.kept[i].at > scans[c.last].boundary
                                       /\ PairKept(s, world.kept[i].at, scans[c.verif].boundary)
    BY <1>1, <1>7 DEF CorrectionKept
  <2>2. PICK j, k \in DOMAIN world.kept :
          /\ world.kept[k].at = world.kept[i].at /\ world.kept[i].at <= scans[c.verif].boundary
          /\ world.kept[j].at <= scans[c.verif].boundary
          /\ ~ UnexplainedMove(world.kept[j].data[s - 1], world.kept[k].data[s])
    BY <2>1 DEF PairKept
  <2>3. world.kept[k].at \in Int
    BY KeptIs DEF IInv
  <2>4. world.kept[k].at \in scans[c.last].boundary..scans[c.verif].boundary
    BY <1>5, <2>1, <2>2, <2>3
  <2> QED BY <1>4, <1>7, <2>2, <2>4
<1> QED BY <1>1, <1>6, <1>7 DEF CorrectionKept

LEMMA IInvHidden == IInv => NothingHidden
<1> SUFFICES ASSUME IInv, scans # <<>>, NEW f \in Last(scans).findings, NEW s, s = f.subject
             PROVE  /\ s \in DOMAIN cases /\ cases[s].evid = f.evid
                    /\ cases[s].state = "resolved" =>
                         /\ Last(events[s]).evid = f.evid
                         /\ Last(events[s]).actor # None
                         /\ ~ IsCorrected(cases[s])
  BY Zenon DEF NothingHidden
<1>1. PICK n : n = Len(scans)
  OBVIOUS
<1>2. n \in Nat /\ DOMAIN scans = 1..n /\ n # 0
  <2>1. scans \in Seq({scans[i] : i \in DOMAIN scans})
    BY DEF IInv, ScansKept, IsList
  <2> QED BY <1>1, <2>1
<1>3. f \in scans[n].findings /\ n \in DOMAIN scans
  BY <1>1, <1>2 DEF Last
<1>4. s \in DOMAIN cases
  BY <1>3 DEF IInv, ScansKept
<1>5. PICK c : c = cases[s]
  OBVIOUS
<1>6. CaseKept(s, c, events[s])
  BY <1>4, <1>5 DEF IInv, CasesKept
<1>7. Finds(scans[n], s)
  BY <1>3 DEF Finds
<1>8. c.last = n
  <2>1. n <= c.last /\ c.last \in DOMAIN scans
    BY <1>3, <1>6, <1>7 DEF CaseKept, CaseTyped
  <2> QED BY <1>2, <2>1
<1>9. c.evid = f.evid
  BY <1>3, <1>6, <1>8 DEF CaseKept
<1>10. ~ IsCorrected(c)
  <2> SUFFICES ASSUME IsCorrected(c) PROVE FALSE
    OBVIOUS
  <2>1. c.last < c.verif /\ c.verif \in 0..n
    BY <1>1, <1>6 DEF CaseKept, CaseTyped, CorrectionKept
  <2> QED BY <1>2, <1>8, <2>1
<1> QED BY <1>4, <1>5, <1>6, <1>9, <1>10 DEF CaseKept

-----------------------------------------------------------------------------
(* The replay in the next state: only the rule is read from the state.     *)

ReplaysRun ==
    \A es, c, s, ss : IsList(es) =>
        \E f : Runs(f, es, c, s, ss) /\ Replayed(es, c, s, ss) = f[Len(es)]

LEMMA ReplaysRunning == ReplaysRun
  BY ReplayRuns DEF ReplaysRun

LEMMA StepNext ==
  ASSUME rule' = rule, NEW p, NEW e, NEW c, NEW s, NEW ss
  PROVE  Step(p, e, c, s, ss)' = Step(p, e, c, s, ss)
<1>1. NeedsContract(c)' <=> NeedsContract(c)
  BY DEF NeedsContract
<1>2. ReviewFits(p, e, c, ss)' <=> ReviewFits(p, e, c, ss)
  BY <1>1, Zenon DEF ReviewFits
<1>3. Fits(p, e, c, s, ss)' = Fits(p, e, c, s, ss)
  BY <1>2, Zenon DEF Fits
<1> QED BY <1>3, Zenon DEF Step

LEMMA ReplayNext ==
  ASSUME rule' = rule, NEW es, IsList(es), NEW c, NEW s, NEW ss
  PROVE  Replayed(es, c, s, ss)' = Replayed(es, c, s, ss)
<1>1. Len(es) \in Nat /\ DOMAIN es = 1..Len(es)
  BY ListIs
<1>2. PICK f : Runs(f, es, c, s, ss) /\ Replayed(es, c, s, ss) = f[Len(es)]
  BY ReplayRuns
<1>3. ReplaysRun'
  BY ReplaysRunning, PTL
<1>4. PICK g : Runs(g, es, c, s, ss)' /\ Replayed(es, c, s, ss)' = g[Len(es)]
  BY <1>3, Zenon DEF ReplaysRun, IsList
<1>5. g[0] = Nothing /\ \A i \in DOMAIN es : g[i] = Step(g[i - 1], es[i], c, s, ss)'
  BY <1>4, Zenon DEF Runs, Nothing
<1> DEFINE T == {n \in Nat : n <= Len(es) => f[n] = g[n]}
<1>6. 0 \in T
  BY <1>2, <1>5 DEF Runs
<1>7. ASSUME NEW n \in Nat, n \in T PROVE n + 1 \in T
  <2> SUFFICES ASSUME n + 1 <= Len(es) PROVE f[n + 1] = g[n + 1]
    OBVIOUS
  <2>1. f[n] = g[n] /\ n + 1 \in DOMAIN es /\ (n + 1) - 1 = n
    BY <1>1, <1>7
  <2>2. f[n + 1] = Step(f[n], es[n + 1], c, s, ss)
    BY <1>2, <2>1 DEF Runs
  <2>3. PICK p, e : p = g[n] /\ e = es[n + 1]
    OBVIOUS
  <2>4. g[n + 1] = Step(p, e, c, s, ss)'
    <3>1. g[n + 1] = Step(g[(n + 1) - 1], es[n + 1], c, s, ss)'
      BY <1>5, <2>1, Zenon
    <3> QED BY <2>1, <2>3, <3>1, Zenon
  <2>5. Step(p, e, c, s, ss)' = Step(p, e, c, s, ss)
    BY StepNext
  <2> QED BY <2>1, <2>2, <2>3, <2>4, <2>5
<1>8. T \in SUBSET Nat
  OBVIOUS
<1> HIDE DEF T
<1>9. T = Nat
  BY <1>6, <1>7, <1>8, Smallest
<1>10. f[Len(es)] = g[Len(es)]
  BY <1>1, <1>9 DEF T
<1> QED BY <1>2, <1>4, <1>10

LEMMA VerifiedNext ==
  ASSUME rule' = rule, NEW es, IsList(es), NEW c, NEW s, NEW ss, Verified(c, s, es, ss, 0)
  PROVE  Verified(c, s, es, ss, 0)'
<1>1. Replayed(es, c, s, ss)' = Replayed(es, c, s, ss)
  BY ReplayNext
<1> QED BY <1>1, Zenon DEF Verified, Manifest

LEMMA IntactNext ==
  ASSUME rule' = rule, NEW s, IsList(events'[s]), Verified(cases'[s], s, events'[s], scans', 0)
  PROVE  Intact(s)'
<1>1. PICK c, es, ss : c = cases'[s] /\ es = events'[s] /\ ss = scans'
  OBVIOUS
<1>2. Verified(c, s, es, ss, 0) /\ IsList(es)
  BY <1>1
<1>3. Verified(c, s, es, ss, 0)'
  BY <1>2, VerifiedNext
<1> QED BY <1>1, <1>3, Zenon DEF Intact

(* A scan that does not see a case leaves its replay as it was.            *)
LEMMA ReplayStays ==
  ASSUME NEW q, Adding(q), NEW s, NEW c, NEW es, c.last \in DOMAIN scans, EventsKept(es, Len(scans))
  PROVE  Replayed(es, c, s, scans') = Replayed(es, c, s, scans)
<1>1. PICK ss, tt : ss = scans /\ tt = scans'
  OBVIOUS
<1>2. \A k \in DOMAIN ss : k \in DOMAIN tt /\ tt[k] = ss[k]
  BY <1>1, AddedScans DEF ScansGrow
<1>3. Contract(c, tt) = Contract(c, ss)
  BY <1>1, <1>2 DEF Contract
<1>4. ASSUME NEW i \in DOMAIN es, NEW p
      PROVE  Step(p, es[i], c, s, tt) = Step(p, es[i], c, s, ss)
  <2>1. PICK e : e = es[i]
    OBVIOUS
  <2>2. e.type \in Observing => e.scan \in DOMAIN ss
    BY <1>1, <2>1, ListIs, AddedScans DEF EventsKept, EventKept, ScansGrow
  <2>3. e.type \in Observing => (ObservationFits(p, e, c, s, tt) <=> ObservationFits(p, e, c, s, ss))
    BY <1>2, <2>2, Zenon DEF ObservationFits
  <2>4. ReviewFits(p, e, c, tt) <=> ReviewFits(p, e, c, ss)
    BY <1>3, Zenon DEF ReviewFits
  <2>5. Fits(p, e, c, s, tt) = Fits(p, e, c, s, ss)
    BY <2>3, <2>4, Zenon DEF Fits
  <2>6. Step(p, e, c, s, tt) = Step(p, e, c, s, ss)
    BY <2>5, Zenon DEF Step
  <2> QED BY <2>1, <2>6
<1>5. Replayed(es, c, s, tt) = Replayed(es, c, s, ss)
  <2>1. IsList(es)
    BY DEF EventsKept
  <2> QED BY <1>4, <2>1, ReplaySame
<1> QED BY <1>1, <1>5

LEMMA VerifiedStays ==
  ASSUME NEW q, Adding(q), NEW s, NEW c, NEW es, c.last \in DOMAIN scans,
         EventsKept(es, Len(scans)), ~ Finds(q, s), Verified(c, s, es, scans, 0)
  PROVE  Verified(c, s, es, scans', 0)
<1>1. PICK ss, tt, p : ss = scans /\ tt = scans' /\ p = Replayed(es, c, s, scans)
  OBVIOUS
<1>2. Replayed(es, c, s, tt) = p /\ Replayed(es, c, s, ss) = p
  BY <1>1, ReplayStays
<1>3. /\ Len(ss) \in Nat /\ DOMAIN ss = 1..Len(ss) /\ DOMAIN tt = 1..Len(ss) + 1
      /\ tt[Len(ss) + 1] = q /\ \A k \in DOMAIN ss : tt[k] = ss[k]
  BY <1>1, AddedScans DEF ScansGrow
<1> DEFINE held(uu) == {k \in DOMAIN uu : k >= p.from /\ k # 0
                            /\ [subject |-> s, evid |-> p.evid] \in Manifest(uu[k])}
<1>4. [subject |-> s, evid |-> p.evid] \notin Manifest(q)
  <2> SUFFICES ASSUME NEW f \in q.findings, [subject |-> s, evid |-> p.evid] = [subject |-> f.subject, evid |-> f.evid]
               PROVE  FALSE
    BY DEF Manifest
  <2>1. f.subject = s
    OBVIOUS
  <2> QED BY <2>1 DEF Finds
<1>5. held(tt) = held(ss)
  <2>1. \A k \in DOMAIN tt : k \notin DOMAIN ss => k = Len(ss) + 1
    BY <1>3
  <2>2. DOMAIN ss \subseteq DOMAIN tt
    BY <1>3
  <2>3. \A k \in DOMAIN tt : k \notin DOMAIN ss => k \notin held(tt)
    BY <1>3, <1>4, <2>1
  <2>4. \A k \in DOMAIN ss : Manifest(tt[k]) = Manifest(ss[k])
    BY <1>3
  <2> QED BY <2>2, <2>3, <2>4, Zenon
<1>6. /\ es # <<>> /\ p.ok /\ held(ss) # {}
      /\ c = [state |-> p.state, owner |-> p.owner, first |-> p.first, count |-> p.count,
              evid |-> p.evid, sev |-> p.sev, disp |-> p.disp, resolved |-> p.resolved,
              review |-> p.review, ack |-> p.ack, verif |-> p.verif,
              last |-> Max(held(ss)), seen |-> ss[Max(held(ss))].at]
  BY <1>1, Zenon DEF Verified
<1>7. Max(held(ss)) \in DOMAIN ss
  <2>1. held(ss) \in SUBSET (0..Len(ss)) /\ held(ss) \subseteq DOMAIN ss
    BY <1>3
  <2> HIDE DEF held
  <2> QED BY <1>3, <1>6, <2>1, MaxOf
<1>8. tt[Max(held(ss))] = ss[Max(held(ss))]
  BY <1>3, <1>7
<1>9. Verified(c, s, es, tt, 0)
  <2>1. Max(held(tt)) = Max(held(ss)) /\ tt[Max(held(tt))].at = ss[Max(held(ss))].at
    BY <1>5, <1>8, Zenon
  <2>2. c = [state |-> p.state, owner |-> p.owner, first |-> p.first, count |-> p.count,
              evid |-> p.evid, sev |-> p.sev, disp |-> p.disp, resolved |-> p.resolved,
              review |-> p.review, ack |-> p.ack, verif |-> p.verif,
              last |-> Max(held(tt)), seen |-> tt[Max(held(tt))].at]
    BY <1>6, <2>1, Zenon
  <2>3. held(tt) # {}
    BY <1>5, <1>6, Zenon
  <2> QED BY <1>2, <1>6, <2>2, <2>3, Zenon DEF Verified
<1> QED BY <1>1, <1>9

LEMMA DecidedReplays ==
  ASSUME IInv, IInv', CaseReplays, NEW s \in DOMAIN cases, NEW c, NEW e, Decided(s, c, e)
  PROVE  CaseReplays'
<1>1. /\ Verified(c, s, Append(events[s], e), scans, 0)
      /\ cases' = [cases EXCEPT ![s] = c]
      /\ events' = [events EXCEPT ![s] = Append(events[s], e)]
      /\ rule' = rule /\ scans' = scans
  BY DEF Decided
<1>2. ASSUME NEW x \in DOMAIN cases' PROVE Intact(x)'
  <2>1. x \in DOMAIN cases /\ s \in DOMAIN events /\ x \in DOMAIN events
    BY <1>1, <1>2 DEF IInv, CasesKept
  <2>2. IsList(events'[x])
    BY <1>2 DEF IInv, CasesKept, CaseKept, EventsKept
  <2>3. Verified(cases'[x], x, events'[x], scans', 0)
    <3>1. CASE x = s
      <4>1. cases'[x] = c /\ events'[x] = Append(events[s], e)
        BY <1>1, <2>1, <3>1
      <4> QED BY <1>1, <3>1, <4>1
    <3>2. CASE x # s
      <4>1. cases'[x] = cases[x] /\ events'[x] = events[x]
        BY <1>1, <2>1, <3>2
      <4>2. Intact(x)
        BY <2>1 DEF CaseReplays
      <4> QED BY <1>1, <4>1, <4>2 DEF Intact
    <3> QED BY <3>1, <3>2
  <2> QED BY <1>1, <2>2, <2>3, IntactNext
<1> QED BY <1>2 DEF CaseReplays

LEMMA RecordReplays ==
  ASSUME IInv, IInv', CaseReplays, Record
  PROVE  CaseReplays'
<1> DEFINE k     == Len(scans) + 1
           q     == Stamped(pending)
           found == {f.subject : f \in pending.findings}
<1>1. /\ pending # None /\ rule' = rule /\ world' = world
      /\ scans' = Append(scans, q) /\ Reconciles(pending)
  BY DEF Record
<1>2. /\ cases' = [s \in DOMAIN cases \cup found |->
                     IF s \in found THEN CaseAfter(s, k, Finding(pending, s)) ELSE cases[s]]
      /\ events' = [s \in DOMAIN events \cup found |->
                     IF s \in found THEN EventsAfter(s, k, Finding(pending, s)) ELSE events[s]]
  BY Zenon DEF Record
<1>3. ScanKept(pending) /\ q.findings = pending.findings
  BY <1>1, StampedIs DEF IInv, ScansKept
<1> HIDE DEF q
<1>4. Adding(q)
  BY <1>1 DEF Adding, IInv, ScansKept
<1>5. Len(scans') = k
  BY <1>4, AddedScans
<1>6. \A f \in pending.findings :
        Verified(CaseAfter(f.subject, k, f), f.subject, EventsAfter(f.subject, k, f), scans', 0)
  BY <1>1, <1>5, Zenon DEF Reconciles, q
<1>7. ASSUME NEW s \in DOMAIN cases' PROVE Intact(s)'
  <2>1. s \in DOMAIN cases \cup found /\ DOMAIN events = DOMAIN cases
    BY <1>2, <1>7 DEF IInv, CasesKept
  <2>2. IsList(events'[s])
    BY <1>7 DEF IInv, CasesKept, CaseKept, EventsKept
  <2>3. Verified(cases'[s], s, events'[s], scans', 0)
    <3>1. CASE s \in found
      <4>1. PICK f \in pending.findings : f.subject = s
        BY <3>1
      <4>2. Finding(pending, s) = f
        BY <1>3, <4>1, FindingIs
      <4>3. cases'[s] = CaseAfter(s, k, f) /\ events'[s] = EventsAfter(s, k, f)
        BY <1>2, <2>1, <3>1, <4>2
      <4> QED BY <1>6, <4>1, <4>3
    <3>2. CASE s \notin found
      <4>1. PICK c, es : c = cases[s] /\ es = events[s]
        OBVIOUS
      <4>2. s \in DOMAIN cases /\ cases'[s] = c /\ events'[s] = es
        BY <1>2, <2>1, <3>2, <4>1
      <4>3. CaseKept(s, c, es) /\ Verified(c, s, es, scans, 0)
        BY <4>1, <4>2 DEF IInv, CasesKept, CaseReplays, Intact
      <4>4. ~ Finds(q, s)
        BY <1>3, <3>2 DEF Finds
      <4>5. Verified(c, s, es, scans', 0)
        BY <1>4, <4>3, <4>4, VerifiedStays DEF CaseKept, CaseTyped
      <4> QED BY <4>2, <4>5
    <3> QED BY <3>1, <3>2
  <2> QED BY <1>1, <2>2, <2>3, IntactNext
<1> QED BY <1>7 DEF CaseReplays

LEMMA QuietReplays ==
  ASSUME IInv, CaseReplays, UNCHANGED <<rule, scans, cases, events>>
  PROVE  CaseReplays'
<1>1. ASSUME NEW s \in DOMAIN cases' PROVE Intact(s)'
  <2>1. IsList(events'[s]) /\ Verified(cases'[s], s, events'[s], scans', 0)
    BY <1>1 DEF IInv, CasesKept, CaseKept, EventsKept, CaseReplays, Intact
  <2> QED BY <2>1, IntactNext
<1> QED BY <1>1 DEF CaseReplays

LEMMA NextReplays == IInv /\ IInv' /\ CaseReplays /\ [Next]_vars => CaseReplays'
<1> SUFFICES ASSUME IInv, IInv', CaseReplays, [Next]_vars PROVE CaseReplays'
  OBVIOUS
<1>1. CASE \/ Tick \/ SetBack \/ Ingest \/ Edit \/ Damage \/ Scan \/ Repeat \/ Discard
           \/ UNCHANGED vars
  <2>1. UNCHANGED <<rule, scans, cases, events>>
    BY <1>1 DEF Tick, SetBack, Ingest, Edit, Damage, Scan, Repeat, Discard, vars
  <2> QED BY <2>1, QuietReplays
<1>2. CASE Record
  BY <1>2, RecordReplays
<1>3. CASE Review
  <2>1. PICK s \in DOMAIN cases, who \in Owners : \E evid \in Read(s) :
          \/ Acknowledge(s, who, evid)
          \/ Defer(s, who, evid, clock + 1)
          \/ \E disp \in Verdicts, k \in 0..Len(scans) : Resolve(s, who, evid, disp, k)
    BY <1>3, Zenon DEF Review
  <2>2. \E c, e : Decided(s, c, e)
    BY <2>1, Zenon DEF Acknowledge, Defer, Resolve
  <2> QED BY <2>2, DecidedReplays
<1> QED BY <1>1, <1>2, <1>3 DEF Next

(* The case of a scan of the older policy has one event.                   *)
LEMMA LegacyReplays ==
  ASSUME NEW f, NEW p, NEW e, NEW c, NEW ss, p.findings = {f}, p.at = clock, f.subject = "issuer", f.sev = 2,
         ss = <<p>>, clock \in Nat, e = ObservationEvent("opened", 1, f), c = Opened(1, f)
  PROVE  Verified(c, "issuer", <<e>>, ss, 0)
<1>0. PICK yes, es : yes = TRUE /\ es = <<e>>
  OBVIOUS
<1>1. IsList(<<e>>) /\ Len(<<e>>) = 1 /\ DOMAIN <<e>> = 1..1 /\ <<e>>[1] = e /\ <<e>> # <<>>
  BY OneIsList
<1>2. IsList(ss) /\ DOMAIN ss = 1..1 /\ ss[1] = p
  BY OneIsList
<1>3. PICK g : Runs(g, <<e>>, c, "issuer", ss) /\ Replayed(<<e>>, c, "issuer", ss) = g[1]
  BY <1>1, ReplayRuns
<1>4. g[1] = Step(Nothing, e, c, "issuer", ss)
  <2>1. 1 \in DOMAIN <<e>> /\ 1 - 1 = 0
    BY <1>1
  <2>2. g[1] = Step(g[1 - 1], <<e>>[1], c, "issuer", ss) /\ g[0] = Nothing
    BY <1>3, <2>1, Zenon DEF Runs
  <2> QED BY <1>1, <2>1, <2>2
<1>5. Fits(Nothing, e, c, "issuer", ss)
  <2>1. /\ e.type = "opened" /\ e.scan = 1 /\ e.at = clock /\ e.evid = f.evid
    BY DEF ObservationEvent
  <2>2. Manifest(p) = {[subject |-> "issuer", evid |-> f.evid]}
    BY DEF Manifest
  <2>3. Nothing.ok /\ Nothing.at = 0 /\ Nothing.state = None
    BY DEF Nothing
  <2> QED BY <1>2, <2>1, <2>2, <2>3 DEF Fits, ObservationFits, Observing
<1>6. Max({0, 2}) = 2
  <2>1. {0, 2} \in SUBSET (0..2) /\ {0, 2} # {}
    OBVIOUS
  <2> QED BY <2>1, MaxOf
<1>7. PICK r : r = g[1]
  OBVIOUS
<1>8. r = [state |-> "open", owner |-> None, first |-> clock, count |-> 1, evid |-> f.evid, sev |-> 2,
           disp |-> None, resolved |-> 0, review |-> 0, ack |-> 0, verif |-> 0,
           from |-> 1, at |-> clock, ok |-> yes]
  <2>1. Observe(Nothing, e) =
          [state |-> "open", owner |-> None, first |-> clock, count |-> 1, evid |-> f.evid, sev |-> 2,
           disp |-> None, resolved |-> 0, review |-> 0, ack |-> 0, verif |-> 0,
           from |-> 1, at |-> 0, ok |-> yes]
    <3>1. PICK n : n = Nothing
      OBVIOUS
    <3>2. n = [state |-> None, owner |-> None, first |-> 0, count |-> 0, evid |-> None, sev |-> 0,
               disp |-> None, resolved |-> 0, review |-> 0, ack |-> 0, verif |-> 0,
               from |-> 0, at |-> 0, ok |-> yes]
      BY <1>0, <3>1, Zenon DEF Nothing
    <3>3. e.type = "opened" /\ e.scan = 1 /\ e.at = clock /\ e.evid = f.evid /\ e.sev = 2
      BY DEF ObservationEvent
    <3>4. Observe(n, e) =
            [n EXCEPT !.state = "open", !.owner = n.owner, !.ack = n.ack, !.first = clock,
                      !.count = n.count + 1, !.evid = f.evid, !.sev = Max({n.sev, 2}), !.from = 1,
                      !.disp = None, !.resolved = 0, !.review = 0, !.verif = 0]
      BY <3>3, "opened" # "reopened", "opened" # "evidence_changed", Zenon DEF Observe
    <3>5. n.owner = None /\ n.ack = 0 /\ n.count + 1 = 1 /\ Max({n.sev, 2}) = 2
      BY <1>6, <3>2
    <3>6. Observe(n, e) =
            [n EXCEPT !.state = "open", !.owner = None, !.ack = 0, !.first = clock,
                      !.count = 1, !.evid = f.evid, !.sev = 2, !.from = 1,
                      !.disp = None, !.resolved = 0, !.review = 0, !.verif = 0]
      BY <3>4, <3>5, Zenon
    <3>7. PICK o : o = Observe(n, e)
      OBVIOUS
    <3>8. o = [n EXCEPT !.state = "open", !.owner = None, !.ack = 0, !.first = clock,
                        !.count = 1, !.evid = f.evid, !.sev = 2, !.from = 1,
                        !.disp = None, !.resolved = 0, !.review = 0, !.verif = 0]
      BY <3>6, <3>7, Zenon
    <3>9. o = [state |-> "open", owner |-> None, first |-> clock, count |-> 1, evid |-> f.evid, sev |-> 2,
               disp |-> None, resolved |-> 0, review |-> 0, ack |-> 0, verif |-> 0,
               from |-> 1, at |-> 0, ok |-> yes]
      BY <3>2, <3>8, ZenonT(60)
    <3> QED BY <3>1, <3>7, <3>9, Zenon
  <2>2. e.type \in Observing /\ e.at = clock
    BY DEF Observing, ObservationEvent
  <2>3. Fits(Nothing, e, c, "issuer", ss) = TRUE
    BY <1>5, Zenon DEF Fits
  <2>4. r = [Observe(Nothing, e) EXCEPT !.ok = yes, !.at = clock]
    BY <1>0, <1>4, <1>7, <2>2, <2>3, Zenon DEF Step
  <2>5. PICK o : o = Observe(Nothing, e)
    OBVIOUS
  <2>6. o = [state |-> "open", owner |-> None, first |-> clock, count |-> 1, evid |-> f.evid, sev |-> 2,
             disp |-> None, resolved |-> 0, review |-> 0, ack |-> 0, verif |-> 0,
             from |-> 1, at |-> 0, ok |-> yes]
    BY <2>1, <2>5, Zenon
  <2>7. r = [o EXCEPT !.ok = yes, !.at = clock]
    BY <2>4, <2>5, Zenon
  <2> QED BY <2>6, <2>7, ZenonT(60)
<1> DEFINE held == {k \in DOMAIN ss : k >= r.from /\ k # 0
                      /\ [subject |-> "issuer", evid |-> r.evid] \in Manifest(ss[k])}
<1>9. held = {1}
  <2>1. [subject |-> "issuer", evid |-> r.evid] \in Manifest(p) /\ r.from = 1
    BY <1>8 DEF Manifest
  <2>2. DOMAIN ss = {1}
    BY <1>2
  <2> QED BY <1>2, <2>1, <2>2
<1>10. Max({1}) = 1
  <2>1. {1} \in SUBSET (0..1) /\ {1} # {}
    OBVIOUS
  <2> QED BY <2>1, MaxOf
<1>11. c = [state |-> r.state, owner |-> r.owner, first |-> r.first, count |-> r.count,
            evid |-> r.evid, sev |-> r.sev, disp |-> r.disp, resolved |-> r.resolved,
            review |-> r.review, ack |-> r.ack, verif |-> r.verif,
            last |-> Max(held), seen |-> ss[Max(held)].at]
  <2>1. Max(held) = 1 /\ ss[Max(held)].at = clock
    BY <1>2, <1>9, <1>10
  <2> HIDE DEF held
  <2> QED BY <1>8, <2>1 DEF Opened
<1>12. held # {} /\ r.ok
  BY <1>0, <1>8, <1>9
<1>13. Replayed(es, c, "issuer", ss) = r /\ es # <<>>
  BY <1>0, <1>1, <1>3, <1>7
<1>14. Verified(c, "issuer", es, ss, 0)
  BY <1>11, <1>12, <1>13, ZenonT(60) DEF Verified
<1> QED BY <1>0, <1>14

LEMMA InitReplays == Init => CaseReplays
<1> SUFFICES ASSUME Init, NEW s \in DOMAIN cases PROVE Intact(s)
  BY DEF CaseReplays
<1>1. IInv
  BY InitIInv
<1>2. /\ rule = "sec" /\ clock = 2
      /\ scans  = <<Legacy>>
      /\ cases  = [x \in {"issuer"} |-> Opened(1, Finding(Legacy, x))]
      /\ events = [x \in {"issuer"} |-> <<ObservationEvent("opened", 1, Finding(Legacy, x))>>]
  BY Zenon DEF Init
<1>3. SecScan(world, 1).ok /\ SecScan(world, 1).findings # {}
  <2>1. "sec" \in Rules /\ world = FirstWorld["sec"]
    BY <1>2 DEF Init
  <2> QED BY <2>1, LegacyAssumption
<1>4. PICK f : Legacy.findings = {f} /\ f.subject = "issuer" /\ f.sev = 2
               /\ ScanKept(Legacy) /\ Legacy.at = 2
  BY <1>1, <1>2, <1>3, LegacyIs DEF IInv
<1>5. Finding(Legacy, "issuer") = f
  BY <1>4, FindingIs
<1>6. s = "issuer" /\ cases[s] = Opened(1, f) /\ events[s] = <<ObservationEvent("opened", 1, f)>>
  BY <1>2, <1>5
<1>7. PICK p, e, c : p = Legacy /\ e = ObservationEvent("opened", 1, f) /\ c = Opened(1, f)
  OBVIOUS
<1>8. Verified(c, "issuer", <<e>>, scans, 0)
  BY <1>2, <1>4, <1>7, LegacyReplays
<1> QED BY <1>6, <1>7, <1>8 DEF Intact

-----------------------------------------------------------------------------

(* Every column has its type, and every case replays from its events after *)
(* any sequence of scans and decisions: _verify_case (alerts.py:2033)      *)
(* never refuses what the ledger itself wrote.                             *)
THEOREM QueueHolds == Spec => []QueueInv
<1>1. Init => IInv /\ CaseReplays
  BY InitIInv, InitReplays
<1>2. (IInv /\ CaseReplays) /\ [Next]_vars => (IInv /\ CaseReplays)'
  BY Inductive, NextReplays
<1>3. IInv /\ CaseReplays => QueueInv
  BY IInvType DEF QueueInv
<1> QED BY <1>1, <1>2, <1>3, PTL DEF Spec

(* A case stands corrected only on a response retained after the finding,  *)
(* and only until a scan finds it again (alerts.py:2377-2429): an edit of  *)
(* the store by hand clears nothing.                                       *)
THEOREM CorrectionTrue == Spec => []CorrectionHolds
<1> QED BY Invariant, IInvCorrection, PTL

(* What the newest scan found is on the queue, or a person who had read    *)
(* this evidence decided it without calling it corrected                   *)
(* (_record_finding, alerts.py:3144).                                      *)
THEOREM NothingHides == Spec => []NothingHidden
<1> QED BY Invariant, IInvHidden, PTL

=============================================================================
