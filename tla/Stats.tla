-------------------------------- MODULE Stats --------------------------------
(***************************************************************************)
(* The figures of one level (internal/bench/stats.go), and the demo target *)
(* (internal/server/demo.go), whose agents make up operations in the order *)
(* of the strategy and fold them into counters and two histograms, where   *)
(* the engine keeps every sample for summarize.  Here both are done with   *)
(* the same samples.                                                       *)
(*                                                                         *)
(* A latency is a number, a percentile is asked for in thousandths, and a  *)
(* raw error text is a model value with a key it is normalized to.  A      *)
(* tally, as the samples are one and the histograms are, says how often;   *)
(* to count is to count the units of a tally, and to sort is to give each  *)
(* place what belongs there.                                               *)
(***************************************************************************)
EXTENDS Integers, Sequences, FiniteSetsExt, Functions

CONSTANTS
  Ids,           \* of the agents
  SessionCommits,
  Latencies,     \* from 1 on
  latHistIdx,    \* latency -> bucket, named by the value it stands for; does not decrease
  Percents,      \* that are asked for: 500, 950, 990, 999 in the code
  FloatAbove,    \* <<percent, number>> whose product of floats is above a whole one
  Raw, Key,      \* error texts, and normalizeErr of each
  Before(_, _),  \* the order of strings
  maxDistinctErrors,
  MaxSamples     \* bound: samples of a level

ASSUME StatsAssumption ==
  /\ SessionCommits \in Nat \ {0} /\ Latencies \subseteq Nat \ {0}
  /\ latHistIdx \in [Latencies -> Nat \ {0}] /\ \A l, m \in Latencies : l <= m => latHistIdx[l] <= latHistIdx[m]
  /\ Percents \subseteq 1..1000 /\ DOMAIN Key = Raw
  /\ maxDistinctErrors \in Nat \ {0} /\ MaxSamples \in Nat

\* p / 100 * float64(n) is not exact. As far as a rank can tell (n below 2^40), it
\* makes a difference only if the exact product is a whole number: then it may come out
\* above it, and be rounded up to the next. For 99.9, which is no float, it does so for
\* 1000 and most of its multiples; for 50, 95 and 99 it does not (tried to 3 million).
ASSUME FloatAssumption ==
  \A f \in FloatAbove :
    /\ f[1] \in Percents \ {1000} /\ f[2] \in Nat \ {0}
    /\ (f[1] * f[2]) % 1000 = 0

\* The group of what is folded. An error says first what failed ("push: ...",
\* "clone: ...", or "(no message)"), so no key reads like it.
Other == "(other errors)"
Messages == Range(Key) \cup {Other}

ASSUME MessagesAssumption ==
  /\ Other \notin Range(Key)
  /\ \A k, l \in Messages : Before(k, l) <=> k # l /\ ~Before(l, k)
  /\ \A k, l, m \in Messages : Before(k, l) /\ Before(l, m) => Before(k, m)

VARIABLES
  strategy,
  pushesLeft,  \* agent -> pushes that remain in its session
  kept,        \* the samples the engine would keep: kind -> how often
  agg          \* demoAgg

statsVars == <<strategy, pushesLeft, kept, agg>>

\* What is told apart of samples. dur: of the successful ones; msg: of the errors.
Op == {"push", "clone"}
Kind == [op : Op, res : {"ok"}, warm : BOOLEAN, dur : Latencies]
        \cup [op : {"push"}, res : {"cas"}, warm : BOOLEAN]
        \cup [op : Op, res : {"err"}, warm : BOOLEAN, msg : Raw]
Buckets == Range(latHistIdx)
Counters == {"pushes", "ok", "cas", "errs", "clones", "cloneOK", "cloneErrs"}

\* What a tally f counts, one by one.
Units(f) == UNION {{x} \X (1..f[x]) : x \in DOMAIN f}
Total(f) == Cardinality(Units(f))

Samples == Units(kept)  \* <<kind, number>>

StatsInit ==
  /\ strategy \in {"branch", "clone", "session"}
  /\ pushesLeft = [a \in Ids |-> 0]
  /\ kept = [s \in Kind |-> 0]
  /\ agg = [n |-> [c \in Counters |-> 0], lat |-> [b \in Buckets |-> 0], cloneLat |-> [b \in Buckets |-> 0]]

-----------------------------------------------------------------------------
(* The demo target *)

NextOp(left) ==
  IF strategy = "clone" \/ (strategy = "session" /\ left = 0) THEN "clone" ELSE "push"

\* demoAgg.add: what began in the warm-up is in no figure.
Counted(s) ==
  IF s.op = "clone" THEN {"clones"} \cup (IF s.res = "ok" THEN {"cloneOK"} ELSE {"cloneErrs"})
  ELSE {"pushes"} \cup (CASE s.res = "ok" -> {"ok"} [] s.res = "cas" -> {"cas"} [] OTHER -> {"errs"})

InHist(h, s) == [h EXCEPT ![latHistIdx[s.dur]] = @ + 1]

Unfiltered(s) ==  \* wrong: the warm-up is measured
  [n        |-> [c \in Counters |-> agg.n[c] + IF c \in Counted(s) THEN 1 ELSE 0],
   lat      |-> IF s.op = "push" /\ s.res = "ok" THEN InHist(agg.lat, s) ELSE agg.lat,
   cloneLat |-> IF s.op = "clone" /\ s.res = "ok" THEN InHist(agg.cloneLat, s) ELSE agg.cloneLat]

Add(s) ==
  IF s.warm THEN agg
  ELSE [n        |-> [c \in Counters |-> agg.n[c] + IF c \in Counted(s) THEN 1 ELSE 0],
        lat      |-> IF s.op = "push" /\ s.res = "ok" THEN InHist(agg.lat, s) ELSE agg.lat,
        cloneLat |-> IF s.op = "clone" /\ s.res = "ok" THEN InHist(agg.cloneLat, s) ELSE agg.cloneLat]

\* The session after an operation: a clone that failed is tried again.
AnyClone(left, s) == IF s.op = "clone" THEN SessionCommits ELSE left - 1  \* wrong: a failed one opens a session
Session(left, s) ==
  IF s.op = "clone" THEN (IF s.res = "ok" THEN SessionCommits ELSE left) ELSE left - 1

\* An agent completes an operation; one that is cut off by the end of the window
\* leaves no trace.
Complete(a, s) ==
  /\ Total(kept) < MaxSamples /\ s.op = NextOp(pushesLeft[a])
  /\ pushesLeft' = IF strategy = "session" THEN [pushesLeft EXCEPT ![a] = Session(@, s)] ELSE pushesLeft
  /\ kept' = [kept EXCEPT ![s] = @ + 1]
  /\ agg' = Add(s)
  /\ UNCHANGED strategy

Over == Total(kept) = MaxSamples /\ UNCHANGED statsVars

StatsNext == (\E a \in Ids, s \in Kind : Complete(a, s)) \/ Over

StatsSpec == StatsInit /\ [][StatsNext]_statsVars

-----------------------------------------------------------------------------
(* The histograms: quantile, maxValue *)

\* The rank of a percentile among n values, which are numbered from 1: the product of
\* floats, rounded up.
CeilOf(p, n) == (p * n + 999) \div 1000 + (IF <<p, n>> \in FloatAbove THEN 1 ELSE 0)

Upto(h, b) == Cardinality({u \in Units(h) : u[1] <= b})

Quantile(h, p) ==
  IF Total(h) = 0 THEN 0
  ELSE LET rank == Max({1, CeilOf(p, Total(h))}) IN Min({b \in Buckets : Upto(h, b) >= rank})

MaxValue(h) == Max({0} \cup {b \in Buckets : h[b] > 0})

\* demoAgg.result: of the clone strategy the clones are the primary figures.
DemoResult ==
  LET clone == strategy = "clone"
      n == agg.n
      h == IF clone THEN agg.cloneLat ELSE agg.lat IN
  [pushes    |-> IF clone THEN n["clones"] ELSE n["pushes"],
   ok        |-> IF clone THEN n["cloneOK"] ELSE n["ok"],
   cas       |-> IF clone THEN 0 ELSE n["cas"],
   errs      |-> IF clone THEN n["cloneErrs"] ELSE n["errs"],
   clones    |-> n["clones"], cloneOK |-> n["cloneOK"], cloneErrs |-> n["cloneErrs"],
   quantiles |-> [p \in Percents |-> Quantile(h, p)], max |-> MaxValue(h),
   cloneQuantiles |-> [p \in Percents |-> Quantile(agg.cloneLat, p)]]

-----------------------------------------------------------------------------
(* summarize *)

\* The samples in the figures.
All(op) == {u \in Samples : ~u[1].warm /\ u[1].op = op}
Of(op, res) == {u \in All(op) : u[1].res = res}

\* The durations of the samples in D, sorted: in place k, the least that k of them
\* do not exceed.
AtMost(D, l) == Cardinality({u \in D : u[1].dur <= l})
Sorted(D) == [k \in 1..Cardinality(D) |-> Min({l \in Latencies : AtMost(D, l) >= k})]

\* percentile: the nearest rank of an already sorted sequence.
Floored(s, p) == IF s = <<>> THEN 0 ELSE s[Min({Max({(p * Len(s)) \div 1000, 1}), Len(s)})]  \* wrong
Percentile(s, p) == IF s = <<>> THEN 0 ELSE s[Min({Max({CeilOf(p, Len(s)), 1}), Len(s)})]

\* errGroups of the errors in E: the keys by their counts, the most frequent first
\* and the rest in one group, which may outrank some of the others. As no two groups
\* have the same message, a group is sorted to the place that so many are before it.
ByFreq(g, h) == \/ g.count > h.count
                \/ g.count = h.count /\ Before(g.message, h.message)
InOrder(G) == [i \in 1..Cardinality(G) |-> CHOOSE g \in G : Cardinality({h \in G : ByFreq(h, g)}) = i - 1]

OfKey(E, k) == {u \in E : Key[u[1].msg] = k}
Grouped(E) == InOrder({[message |-> k, count |-> Cardinality(OfKey(E, k))] : k \in {Key[u[1].msg] : u \in E}})

FromNext == maxDistinctErrors + 2  \* wrong
FirstFolded == maxDistinctErrors + 1

ErrGroups(E) ==
  LET all == Grouped(E) IN
  IF Len(all) <= maxDistinctErrors THEN all
  ELSE LET rest == FirstFolded..Len(all)
           other == [message |-> Other, count |-> Total([i \in rest |-> all[i].count])] IN
       InOrder({all[i] : i \in 1..maxDistinctErrors} \cup {other})

\* A failed clone has a text and no race for a ref to lose, so all but the
\* successful are errors.
Summarize ==
  LET clone == strategy = "clone"
      primary == IF clone THEN "clone" ELSE "push"
      durs == Sorted(Of(primary, "ok"))
      cloneDurs == Sorted(Of("clone", "ok")) IN
  [pushes    |-> Cardinality(All(primary)),
   ok        |-> Cardinality(Of(primary, "ok")),
   cas       |-> IF clone THEN 0 ELSE Cardinality(Of("push", "cas")),
   errs      |-> Cardinality(Of(primary, "err")),
   clones    |-> Cardinality(All("clone")),
   cloneOK   |-> Cardinality(Of("clone", "ok")),
   cloneErrs |-> Cardinality(Of("clone", "err")),
   quantiles |-> [p \in Percents |-> Percentile(durs, p)],
   max       |-> IF durs = <<>> THEN 0 ELSE durs[Len(durs)],
   cloneQuantiles |-> [p \in Percents |-> Percentile(cloneDurs, p)],
   errors    |-> ErrGroups(Of(primary, "err"))]

-----------------------------------------------------------------------------
(* Properties *)

\* What the demo publishes is what summarize would have of the same samples: the
\* counts exactly, the latencies to the bucket.
InBucket(l) == IF l = 0 THEN 0 ELSE latHistIdx[l]

DemoAgreesWithSummary ==
  LET d == DemoResult
      e == Summarize IN
  /\ \A c \in {"pushes", "ok", "cas", "errs", "clones", "cloneOK", "cloneErrs"} : d[c] = e[c]
  /\ d.max = InBucket(e.max)
  /\ Total([i \in DOMAIN e.errors |-> e.errors[i].count]) = d.errs
  /\ \A p \in Percents : /\ d.quantiles[p] = InBucket(e.quantiles[p])
                         /\ d.cloneQuantiles[p] = InBucket(e.cloneQuantiles[p])

\* A percentile is a latency that occurred, with that share of the samples at or
\* below it and no more than that share below; less, unless the rank was computed
\* above a whole one (then the p99.9 of 1000 samples is their maximum).
NearestRank ==
  \A op \in Op, p \in Percents :
    LET D == Of(op, "ok")
        n == Cardinality(D)
        l == Percentile(Sorted(D), p)
        below == Cardinality({u \in D : u[1].dur < l}) IN
    D # {} => /\ \E u \in D : u[1].dur = l
              /\ AtMost(D, l) * 1000 >= p * n /\ below * 1000 <= p * n
              /\ <<p, n>> \notin FloatAbove => below * 1000 < p * n

\* The breakdown of the errors accounts for every one of them, however many texts
\* there are: it is bounded, in order, and what was folded is as rare as what is
\* listed, or rarer.
ErrorsAddUp ==
  \A op \in Op :
    LET E == Of(op, "err")
        e == ErrGroups(E)
        listed == {i \in DOMAIN e : e[i].message # Other} IN
    /\ Total([i \in DOMAIN e |-> e[i].count]) = Cardinality(E)
    /\ Cardinality(listed) <= maxDistinctErrors
    /\ \A i, j \in DOMAIN e : i < j => e[i].count >= e[j].count /\ e[i].message # e[j].message
    /\ \A i \in listed : e[i].count = Cardinality(OfKey(E, e[i].message))
    /\ \A m \in Range(Key) \ {e[i].message : i \in listed}, i \in listed : Cardinality(OfKey(E, m)) <= e[i].count

FiguresAreTrue == NearestRank /\ ErrorsAddUp

\* The operations of the session strategy come in sessions: for every clone that
\* succeeded, and no other, SessionCommits pushes, those still to come included.
SessionMix ==
  strategy = "session" =>
    Cardinality({u \in Samples : u[1].op = "push"}) + Total(pushesLeft)
      = SessionCommits * Cardinality({u \in Samples : u[1].op = "clone" /\ u[1].res = "ok"})
=============================================================================
