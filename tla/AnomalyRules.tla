----------------------------- MODULE AnomalyRules -----------------------------
(***************************************************************************)
(* The seven detectors of src/src/aios/anomalies.py as operators.  A       *)
(* detector reads the analytical store as it stands on a decision date,    *)
(* together with the exact provider responses retained for it, and either  *)
(* withholds its whole scan or returns its findings, the boundary of the   *)
(* evidence it could have used and the proofs that earlier findings are    *)
(* cleared by newer retained evidence.                                     *)
(*                                                                         *)
(* A world of a rule is [data, kept]: data is what the store holds, kept   *)
(* the retained responses in order of receipt, each [at, data, intact].    *)
(* A finding is [subject, sev, evid]; evid stands for the hash of the old  *)
(* and new value and of the evidence, which always names the date.         *)
(***************************************************************************)
EXTENDS Integers, Sequences, FiniteSets, FiniteSetsExt, SequencesExt

CONSTANTS Lookback,     \* sessions, or filing vintages, a rule looks back
          MinDrop       \* smallest fall of coverage that is reported

Distance(a, b) == IF a >= b THEN a - b ELSE b - a

(* A scan that is withheld, and one that is complete. *)
Withheld == [ok |-> FALSE]
Found(boundary, findings, extra, context, proofs) ==
    [ok |-> TRUE, boundary |-> boundary, findings |-> findings,
     extra |-> extra, context |-> context, proofs |-> proofs]

(* No proof that any finding is cleared. *)
NoProof == [s \in {} |-> 0]

(* The newest retained fetch a scan of this date could have used: its day  *)
(* counts, not whether the scan read it.                                   *)
Received(w, asof) == {w.kept[k].at : k \in {k \in DOMAIN w.kept : w.kept[k].at <= asof}}
Boundary(w, asof) == Max(Received(w, asof))

(* Assembling a scan: the boundary must exist, and two findings that share *)
(* a subject withhold the scan.                                            *)
Scanned(w, asof, findings, extra, context, proofs) ==
    IF \/ Received(w, asof) = {}
       \/ \E f, g \in findings : f # g /\ f.subject = g.subject
    THEN Withheld
    ELSE Found(Boundary(w, asof), findings, extra, context, proofs)

-----------------------------------------------------------------------------
(* SEC coverage.  A response is [rows, filed, stage, heir]: rows is 0 for  *)
(* an answer without facts, else the content; filed is the day the facts   *)
(* became knowable; stage is "registration" while the issuer has filed no  *)
(* periodic form; heir says that it took over from another issuer.         *)

(* A retained response can be read back only if its bytes are intact.      *)
Readable(w, k) == w.kept[k].intact

(* Zero rows on this date: the replay of the response shows no visible row *)
VisibleRows(w, k, asof) ==
    IF w.kept[k].data.filed <= asof THEN w.kept[k].data.rows ELSE 0

(* Ingests with facts that could prove coverage, newest first; one whose   *)
(* rows all lie in the future says nothing about this date.                *)
Candidates(w, asof) ==
    {k \in DOMAIN w.kept : w.kept[k].data.rows > 0
                           /\ (Readable(w, k) => VisibleRows(w, k, asof) > 0)}

(* The newest relevant ingest decides: it proves coverage when the rows in *)
(* the store are exactly its replay, and an invalid one is never replaced  *)
(* by an older one.                                                        *)
Matches(w, k) == w.data.rows = w.kept[k].data.rows
Refuted(w, asof) ==
    /\ Candidates(w, asof) # {}
    /\ LET k == Max(Candidates(w, asof)) IN ~ Readable(w, k) \/ ~ Matches(w, k)
Proven(w, asof) == IF Candidates(w, asof) = {} THEN 0 ELSE Max(Candidates(w, asof))

(* The answers without facts.  One of a missing issuer that can no longer  *)
(* be read back withholds the scan; the newest one is the warning.         *)
Empty(w)   == {k \in DOMAIN w.kept : w.kept[k].data.rows = 0}
Warning(w) == IF {k \in Empty(w) : Readable(w, k)} = {} THEN 0
              ELSE Max({k \in Empty(w) : Readable(w, k)})

(* What the filing index of the warning says, and who owned the security   *)
(* before the issuer.                                                      *)
Stage(w, k) == w.kept[k].data.stage
Heir(w, k)  == w.kept[k].data.heir

(* A gap is cleared when an ingest with facts came after the warning.      *)
SecProofs(w, asof) ==
    LET k == Proven(w, asof) IN
    IF k # 0 /\ Warning(w) # 0 /\ Warning(w) < k
    THEN [s \in {"issuer"} |-> [at |-> w.kept[k].at, rows |-> w.data.rows]]
    ELSE NoProof

SecMissing(w, k, asof) ==
    [subject |-> "issuer", sev |-> 2,
     evid |-> [asof |-> asof, value |-> [run |-> k, stage |-> Stage(w, k), heir |-> Heir(w, k)]]]

(* The boundary is the newest response the scan consumed.                  *)
SecScan(w, asof) ==
    LET k == Proven(w, asof) IN
    IF Refuted(w, asof) THEN Withheld
    ELSE IF k # 0
    THEN Found(w.kept[k].at, {}, SecProofs(w, asof), Last(w.kept).at, SecProofs(w, asof))
    ELSE IF Warning(w) = 0 \/ \E j \in Empty(w) : ~ Readable(w, j) THEN Withheld
    ELSE Found(w.kept[Warning(w)].at, {SecMissing(w, Warning(w), asof)},
               NoProof, Last(w.kept).at, NoProof)

-----------------------------------------------------------------------------
(* Unexplained price moves.  data is the sequence of sessions, each        *)
(* [close, action, complete]: action says a split or dividend is declared. *)

Window(bars, asof) ==
    {i \in DOMAIN bars : i <= asof /\ i > asof - Lookback}

(* A move of a quarter or more without a declared action.                  *)
UnexplainedMove(before, after) ==
    4 * Distance(after.close, before.close) >= before.close /\ ~ after.action
Unexplained(bars, i) == UnexplainedMove(bars[i - 1], bars[i])

PriceFinding(bars, i, asof) ==
    [subject |-> i,
     sev     |-> IF 2 * Distance(bars[i].close, bars[i - 1].close) >= bars[i - 1].close
                 THEN 3 ELSE 2,
     evid    |-> [asof |-> asof, value |-> <<bars[i - 1], bars[i]>>]]

(* The intact responses whose replay yields the stored row.                *)
Replays(w, k, i) == i \in DOMAIN w.kept[k].data /\ w.kept[k].data[i] = w.data[i]
Sources(w, i, asof) ==
    {w.kept[k].at : k \in {k \in DOMAIN w.kept :
        w.kept[k].intact /\ w.kept[k].at <= asof /\ Replays(w, k, i)}}

(* A finding of an open case is cleared when the stored pair no longer     *)
(* triggers the rule and both rows replay from retained responses.         *)
PriceProofs(w, asof, subjects) ==
    LET bars    == w.data
        cleared == {i \in subjects :
                      /\ i <= asof /\ i \in DOMAIN bars /\ i - 1 \in DOMAIN bars
                      /\ bars[i].complete
                      /\ ~ Unexplained(bars, i)
                      /\ Sources(w, i, asof) # {}
                      /\ Sources(w, i - 1, asof) # {}}
    IN  [i \in cleared |-> [at |-> Max(Sources(w, i, asof)), rows |-> bars[i]]]

PriceScan(w, asof, subjects) ==
    LET bars   == w.data
        window == Window(bars, asof)
        pairs  == {i \in window : i - 1 \in window}
    IN  IF pairs = {} \/ \E i \in window : ~ bars[i].complete
        THEN Withheld
        ELSE Scanned(w, asof,
                     {PriceFinding(bars, i, asof) : i \in {i \in pairs : Unexplained(bars, i)}},
                     Cardinality(window), NoProof, PriceProofs(w, asof, subjects))

-----------------------------------------------------------------------------
(* Coverage deterioration: three counts of members against the coverage    *)
(* the previous recorded scan measured.                                    *)

Metrics == {"filed", "priced", "identified"}

Fallen(baseline, now, m) == baseline.value[m] - now[m]

CoverageScan(w, asof, baseline) ==
    LET now   == w.data
        drops == {m \in Metrics : baseline.known /\ Fallen(baseline, now, m) >= MinDrop}
    IN  IF baseline.known /\ baseline.asof > asof
        THEN Withheld
        ELSE Scanned(w, asof,
                     {[subject |-> m,
                       sev  |-> IF Fallen(baseline, now, m) >= 5 THEN 3 ELSE 2,
                       evid |-> [asof |-> asof, value |-> <<baseline.asof, baseline.value[m], now[m]>>]]
                        : m \in drops},
                     now, baseline, NoProof)

-----------------------------------------------------------------------------
(* Mapping drift: data is a set of provider windows                        *)
(* [security, provider, symbol, from, to], to = 0 for an open window.      *)

Covers(m, asof) == m.from <= asof /\ (m.to = 0 \/ m.to > asof)

Ambiguous(active) ==
    {<<m.security, m.provider>> : m \in {m \in active : \E n \in active :
        n # m /\ n.security = m.security /\ n.provider = m.provider}}
Contested(active) ==
    {<<m.provider, m.symbol>> : m \in {m \in active : \E n \in active :
        n.security # m.security /\ n.provider = m.provider /\ n.symbol = m.symbol}}

MappingScan(w, asof) ==
    LET active == {m \in w.data : Covers(m, asof)}
    IN  Scanned(w, asof,
                {[subject |-> s, sev |-> 3, evid |-> [asof |-> asof,
                    value |-> {m \in active : m.security = s[1] /\ m.provider = s[2]}]]
                   : s \in Ambiguous(active)}
                \cup
                {[subject |-> s, sev |-> 3, evid |-> [asof |-> asof,
                    value |-> {m \in active : m.provider = s[1] /\ m.symbol = s[2]}]]
                   : s \in Contested(active)},
                Cardinality(active), NoProof, NoProof)

-----------------------------------------------------------------------------
(* Share counts: data is a set of rows [ticker, period, filed, value]; the *)
(* rows of both share classes of an issuer answer for the issuer.          *)

(* The distinct observations of the last filing vintages known on the day. *)
Vintages(rows, asof) ==
    LET known == {r.filed : r \in {r \in rows : r.filed <= asof /\ r.period <= r.filed}}
    IN  {v \in known : Cardinality({u \in known : u > v}) < Lookback}
Observed(rows, asof) ==
    {[period |-> r.period, filed |-> r.filed, value |-> r.value] :
        r \in {r \in rows : r.filed \in Vintages(rows, asof) /\ r.period <= r.filed}}

(* A vintage is represented by its latest period, at its smallest value.   *)
Representative(usable, v) ==
    LET filed  == {r \in usable : r.filed = v}
        latest == {r \in filed : r.period = Max({q.period : q \in filed})}
    IN  CHOOSE r \in latest : r.value = Min({q.value : q \in latest})

Jumped(before, after) == 10 * Distance(after.value, before.value) >= 3 * before.value

(* Neighbours among the rows of one vintage, by period and then value.     *)
Before(r, s) ==
    \/ r.period < s.period
    \/ r.period = s.period /\ r.value < s.value
NextRow(rows, r, s) == Before(r, s) /\ ~ \E t \in rows : Before(r, t) /\ Before(t, s)

ShareJump(kind, before, after, asof) ==
    [subject |-> IF kind = "inter" THEN <<kind, after.filed>>
                 ELSE <<kind, after.filed, after.period, before>>,
     sev  |-> IF 2 * Distance(after.value, before.value) >= before.value THEN 3 ELSE 2,
     evid |-> [asof |-> asof, value |-> <<before, after>>]]

(* A count that cannot be true is a finding of its own and stays out of    *)
(* the comparisons.                                                        *)
Impossible(r, asof) ==
    [subject |-> <<"invalid", r.period, r.filed>>, sev |-> 3,
     evid |-> [asof |-> asof, value |-> r]]

SharesScan(w, asof) ==
    LET rows   == Observed(w.data, asof)
        usable == {r \in rows : r.value > 0}
        dated  == {r.filed : r \in usable}
        follows(u, v) == u < v /\ ~ \E t \in dated : u < t /\ t < v
        inter  == {ShareJump("inter", Representative(usable, p[1]), Representative(usable, p[2]), asof) :
                     p \in {p \in dated \X dated : follows(p[1], p[2])
                              /\ Jumped(Representative(usable, p[1]), Representative(usable, p[2]))}}
        intra  == {ShareJump("intra", p[1], p[2], asof) :
                     p \in {p \in usable \X usable :
                              /\ p[1].filed = p[2].filed
                              /\ NextRow({r \in usable : r.filed = p[1].filed}, p[1], p[2])
                              /\ Jumped(p[1], p[2])}}
    IN  Scanned(w, asof,
                IF Cardinality(rows) < 2 THEN {}
                ELSE {Impossible(r, asof) : r \in rows \ usable} \cup inter \cup intra,
                Cardinality(rows), NoProof, NoProof)

-----------------------------------------------------------------------------
(* Conflicting filings: one metric of one period, known on one day, with   *)
(* more than one value.  data is a set of [metric, period, filed, value].  *)

Key(r) == <<r.metric, r.period, r.filed>>

FilingsScan(w, asof) ==
    LET known == {r \in w.data : r.filed <= asof /\ r.period <= r.filed}
        twice == {Key(r) : r \in {r \in known : \E q \in known : Key(q) = Key(r) /\ q.value # r.value}}
    IN  Scanned(w, asof,
                {[subject |-> k, sev |-> 3,
                  evid |-> [asof |-> asof, value |-> {r.value : r \in {r \in known : Key(r) = k}}]]
                   : k \in twice},
                Cardinality(twice), NoProof, NoProof)

-----------------------------------------------------------------------------
(* Factor percentiles: data gives the score of each member, or -1 where it *)
(* is withheld; the baseline is the newest snapshot taken before the day.  *)

Scored(scores) == {t \in DOMAIN scores : scores[t] >= 0}

FactorScan(w, asof, baseline) ==
    LET now   == w.data
        both  == IF baseline.known THEN Scored(now) \cap Scored(baseline.value) ELSE {}
        moved == {t \in both : Distance(now[t], baseline.value[t]) >= 40}
    IN  Scanned(w, asof,
                {[subject |-> t,
                  sev  |-> IF Distance(now[t], baseline.value[t]) >= 60 THEN 3 ELSE 2,
                  evid |-> [asof |-> asof, value |-> <<baseline.asof, baseline.value[t], now[t]>>]]
                   : t \in moved},
                now, <<baseline.asof, Cardinality(both)>>, NoProof)
=============================================================================
