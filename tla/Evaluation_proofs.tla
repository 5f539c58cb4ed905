------------------------- MODULE Evaluation_proofs --------------------------
(***************************************************************************)
(* Proofs about both evaluations, for every dataset and every parser.      *)
(*                                                                         *)
(* ChallengeGate: a report that passes a baseline has lost nothing since   *)
(* the report the baseline was made from; and to have lost nothing is      *)
(* transitive, however the rates that are compared cross their             *)
(* denominators.                                                           *)
(*                                                                         *)
(* ReservationEvaluation: each counter that the loop adds to is the size   *)
(* of the set of cases, or of fields of cases, that it stands for.         *)
(***************************************************************************)
EXTENDS ChallengeGate, ReservationEvaluation, FiniteSetTheorems, SequenceTheorems, TLAPS

-----------------------------------------------------------------------------
(* Arithmetic.                                                             *)

LEMMA Times ==
  ASSUME NEW a \in Nat, NEW b \in Nat, NEW x \in Nat, a <= b
  PROVE  /\ a * x \in Nat /\ b * x \in Nat
         /\ a * x <= b * x
<1>1. PICK d \in Nat : b = a + d
  BY b - a \in Nat
<1>2. b * x = a * x + d * x /\ a * x \in Nat /\ d * x \in Nat
  BY <1>1
<1>. QED  BY <1>2

LEMMA Cancel ==
  ASSUME NEW a \in Nat, NEW b \in Nat, NEW x \in Nat, x > 0, a * x <= b * x
  PROVE  a <= b
<1>1. SUFFICES ASSUME b + 1 <= a PROVE FALSE
  OBVIOUS
<1>2. (b + 1) * x <= a * x
  BY <1>1, Times
<1>3. (b + 1) * x = b * x + x /\ b * x \in Nat /\ a * x \in Nat
  OBVIOUS
<1>. QED  BY <1>2, <1>3

(* A rate that is no lower, of no fewer, counts no fewer.                  *)
LEMMA HigherCounts ==
  ASSUME NEW g \in Nat, NEW n \in Nat, NEW h \in Nat, NEW m \in Nat,
         h <= m, m <= n,
         CheckHigher([numerator |-> g, denominator |-> n], [numerator |-> h, denominator |-> m])
  PROVE  h <= g
<1>1. CASE m = 0
  BY <1>1
<1>2. CASE m > 0
  <2>1. h * n <= g * m
    BY <1>2 DEF CheckHigher
  <2>2. m * h <= n * h
    BY Times
  <2>3. h * m <= g * m
    BY <2>1, <2>2
  <2>. QED  BY <1>2, <2>3, Cancel
<1>. QED  BY <1>1, <1>2

(* A share of g among g + b that is no lower than that of h among h + w.   *)
LEMMA HigherShare ==
  ASSUME NEW g \in Nat, NEW b \in Nat, NEW h \in Nat, NEW w \in Nat,
         CheckHigher([numerator |-> g, denominator |-> g + b],
                     [numerator |-> h, denominator |-> h + w])
  PROVE  b * h <= w * g
<1>1. CASE h + w = 0
  BY <1>1
<1>2. CASE h + w > 0
  <2>1. h * (g + b) <= g * (h + w)
    BY <1>2 DEF CheckHigher
  <2>2. h * (g + b) = h * g + h * b /\ g * (h + w) = g * h + g * w
    OBVIOUS
  <2>3. h * g = g * h /\ h * b = b * h /\ g * w = w * g
    OBVIOUS
  <2>4. g * h \in Nat /\ b * h \in Nat /\ w * g \in Nat
    OBVIOUS
  <2>. QED  BY <2>1, <2>2, <2>3, <2>4
<1>. QED  BY <1>1, <1>2

LEMMA ShareTransitive ==
  ASSUME NEW g1 \in Nat, NEW b1 \in Nat, NEW g2 \in Nat, NEW b2 \in Nat,
         NEW g3 \in Nat, NEW b3 \in Nat,
         g1 <= g2, b2 * g1 <= b1 * g2, b3 * g2 <= b2 * g3
  PROVE  b3 * g1 <= b1 * g3
<1>1. CASE g2 = 0
  BY <1>1
<1>2. CASE g2 > 0
  <2>1. (b3 * g2) * g1 <= (b2 * g3) * g1
    <3>1. b3 * g2 \in Nat /\ b2 * g3 \in Nat
      OBVIOUS
    <3>. QED  BY <3>1, Times
  <2>2. (b2 * g1) * g3 <= (b1 * g2) * g3
    <3>1. b2 * g1 \in Nat /\ b1 * g2 \in Nat
      OBVIOUS
    <3>. QED  BY <3>1, Times
  <2>3. (b3 * g2) * g1 = (b3 * g1) * g2 /\ (b2 * g3) * g1 = (b2 * g1) * g3
          /\ (b1 * g2) * g3 = (b1 * g3) * g2
    OBVIOUS
  <2>4. (b3 * g1) * g2 <= (b1 * g3) * g2
    <3>1. (b3 * g1) * g2 \in Nat /\ (b2 * g1) * g3 \in Nat /\ (b1 * g3) * g2 \in Nat
      OBVIOUS
    <3>. QED  BY <2>1, <2>2, <2>3, <3>1
  <2>5. b3 * g1 \in Nat /\ b1 * g3 \in Nat
    OBVIOUS
  <2>. QED  BY <1>2, <2>4, <2>5, Cancel
<1>. QED  BY <1>1, <1>2
-----------------------------------------------------------------------------
(* Outcomes and measures.                                                  *)

LEMMA ReportTypes ==
  ASSUME NEW r \in Reports
  PROVE  /\ r.dataset \in Datasets
         /\ IsFiniteSet(Cases(r))
         /\ \A c \in Cases(r) : r.outcome[c] \in Outcomes
<1>1. PICK d \in Datasets :
        r \in [dataset : {d}, evaluator : Evaluators, outcome : [DOMAIN d.missing -> Outcomes]]
  BY DEF Reports
<1>. QED  BY <1>1, GateAssumption DEF Cases

LEMMA OutcomeTypes ==
  ASSUME NEW o \in Outcomes
  PROVE  /\ o.kind \in {"valid"} \cup Failed
         /\ o.kind \in Failed => o.missing = {}
BY DEF Outcomes, Failed

(* The cases that were answered still are, where there is no new reason.   *)
LEMMA ValidKept ==
  ASSUME NEW old \in Reports, NEW r \in Reports, NEW C \in SUBSET Cases(old),
         r.dataset = old.dataset,
         \A c \in Cases(old) : Reasons(r, c) \subseteq Reasons(old, c)
  PROVE  Valid(old, C) \subseteq Valid(r, C)
<1>1. SUFFICES ASSUME NEW c \in Valid(old, C), r.outcome[c].kind # "valid"
               PROVE  FALSE
  BY DEF Valid
<1>2. c \in Cases(old) /\ c \in Cases(r) /\ old.outcome[c].kind = "valid"
  BY DEF Valid, Cases
<1>3. r.outcome[c].kind \in Failed
  BY <1>1, <1>2, ReportTypes, OutcomeTypes
<1>4. r.outcome[c].kind \in Reasons(old, c)
  BY <1>2, <1>3 DEF Reasons
<1>5. "valid" \notin Failed
  BY DEF Failed
<1>6. r.outcome[c].kind \in Fields \cup {"route", "confirmation_fields"}
  BY <1>2, <1>4, <1>5 DEF Reasons
<1>. QED  BY <1>3, <1>6, GateAssumption DEF Failed

Right(r, C) == Cardinality(RightlyMissing(r, C))
Wrong(r, C) == Cardinality(WronglyMissing(r, C))

(* The fields that should be asked for.                                    *)
Asked(r, C) == {p \in Valid(r, C) \X Fields : p[2] \in Expected(r, p[1])}

(* What the abstention metrics count.                                      *)
LEMMA Abstentions ==
  ASSUME NEW r \in Reports, NEW C \in SUBSET Cases(r)
  PROVE  /\ Right(r, C) \in Nat /\ Wrong(r, C) \in Nat
         /\ AbstentionMetrics(r, Valid(r, C)) =
              [precision |-> [numerator |-> Right(r, C), denominator |-> Right(r, C) + Wrong(r, C)],
               recall |-> [numerator |-> Right(r, C), denominator |-> Cardinality(Asked(r, C))]]
         /\ IsFiniteSet(Asked(r, C))
         /\ Right(r, C) <= Cardinality(Asked(r, C))
<1>. DEFINE V == Valid(r, C)
            predicted == {p \in V \X Fields : p[2] \in Missing(r, p[1])}
            expected == {p \in V \X Fields : p[2] \in Expected(r, p[1])}
<1>1. V \subseteq C /\ V \subseteq Cases(r)
  BY DEF Valid
<1>2. \A c \in C : c \notin V => Missing(r, c) = {}
  BY ReportTypes, OutcomeTypes DEF Valid, Missing
<1>3. IsFiniteSet(V \X Fields)
  BY <1>1, ReportTypes, FS_Subset, FS_Product, GateAssumption
<1>4. IsFiniteSet(predicted) /\ IsFiniteSet(expected)
  BY <1>3, FS_Subset
<1>5. predicted \cap expected = RightlyMissing(r, C)
  BY <1>1, <1>2 DEF RightlyMissing
<1>6. predicted \ expected = WronglyMissing(r, C)
  BY <1>1, <1>2 DEF WronglyMissing
<1>7. /\ IsFiniteSet(predicted \cap expected)
      /\ IsFiniteSet(predicted \ expected)
      /\ Cardinality(predicted \ expected)
           = Cardinality(predicted) - Cardinality(predicted \cap expected)
      /\ Cardinality(predicted \cap expected) <= Cardinality(expected)
  BY <1>4, FS_Difference, FS_Intersection
<1>8. Cardinality(predicted) \in Nat /\ Right(r, C) \in Nat /\ Wrong(r, C) \in Nat
  BY <1>4, <1>5, <1>6, <1>7, FS_CardinalityType DEF Right, Wrong
<1>9. Cardinality(predicted) = Right(r, C) + Wrong(r, C)
  <2>1. Wrong(r, C) = Cardinality(predicted) - Right(r, C)
    BY <1>5, <1>6, <1>7, Zenon DEF Right, Wrong
  <2>. HIDE DEF predicted
  <2>. QED  BY <1>8, <2>1
<1>10. AbstentionMetrics(r, V)
         = [precision |-> Proportion(predicted \cap expected, predicted),
            recall    |-> Proportion(predicted \cap expected, expected)]
  BY DEF AbstentionMetrics
<1>11. expected = Asked(r, C)
  BY DEF Asked
<1>. HIDE DEF predicted, expected, V
<1>12. /\ Proportion(predicted \cap expected, predicted)
            = [numerator |-> Right(r, C), denominator |-> Right(r, C) + Wrong(r, C)]
       /\ Proportion(predicted \cap expected, expected)
            = [numerator |-> Right(r, C), denominator |-> Cardinality(Asked(r, C))]
  BY <1>5, <1>9, <1>11 DEF Proportion, Right
<1>13. Right(r, C) <= Cardinality(Asked(r, C)) /\ IsFiniteSet(Asked(r, C))
  BY <1>4, <1>5, <1>7, <1>11 DEF Right
<1>. QED  BY <1>8, <1>10, <1>12, <1>13 DEF V

-----------------------------------------------------------------------------
(* One change: what passes the baseline made from a report has lost        *)
(* nothing since that report.                                              *)

LEMMA ReasonsKept ==
  ASSUME NEW old \in Reports, NEW r \in Reports, VerifyBaseline(r, CreateBaseline(old))
  PROVE  /\ r.dataset = old.dataset
         /\ \A c \in Cases(old) : Reasons(r, c) \subseteq Reasons(old, c)
<1>1. r.dataset = old.dataset /\ Cases(r) = Cases(old)
  BY DEF VerifyBaseline, CreateBaseline, Cases
<1>2. SUFFICES ASSUME NEW c \in Cases(old), Reasons(r, c) # {}
               PROVE  Reasons(r, c) \subseteq Reasons(old, c)
  BY <1>1
<1>. DEFINE f == [id |-> c, category |-> r.dataset.category[c], reasons |-> Reasons(r, c)]
<1>3. f \in Failures(r)
  BY <1>1, <1>2 DEF Failures
<1>4. PICK k \in Failures(old) : k.id = f.id /\ f.reasons \subseteq k.reasons
  BY <1>3 DEF VerifyBaseline, Known, CreateBaseline
<1>5. k.id = c /\ k.reasons = Reasons(old, k.id)
  BY <1>4 DEF Failures
<1>. QED  BY <1>4, <1>5

LEMMA PassedLosesNothing ==
  ASSUME NEW old \in Reports, NEW r \in Reports, VerifyBaseline(r, CreateBaseline(old))
  PROVE  NothingLostSince(old, r)
<1>1. /\ r.dataset = old.dataset
      /\ \A c \in Cases(old) : Reasons(r, c) \subseteq Reasons(old, c)
  BY ReasonsKept
<1>2. ASSUME NEW k \in Categories(old)
      PROVE  AbstainsNoWorse(old, r, InCategory(old, k))
  <2>. DEFINE C == InCategory(old, k)
              now == AbstentionMetrics(r, Valid(r, C))
              was == AbstentionMetrics(old, Valid(old, C))
  <2>1. Cases(r) = Cases(old) /\ InCategory(r, k) = C /\ Categories(r) = Categories(old)
    BY <1>1 DEF Cases, InCategory, Categories
  <2>2. C \in SUBSET Cases(old) /\ C \in SUBSET Cases(r)
    BY <2>1 DEF InCategory
  <2>3. CheckHigher(now.precision, was.precision) /\ CheckHigher(now.recall, was.recall)
    <3>1. CompareMeasures(Measures(r, C, {Fields}), Measures(old, C, {Fields}))
      BY <1>2, <2>1 DEF VerifyBaseline, CreateBaseline, CompareSummary, Summary
    <3>2. Measures(r, C, {Fields}).abstention = now /\ Measures(old, C, {Fields}).abstention = was
      BY DEF Measures
    <3>. QED  BY <3>1, <3>2 DEF CompareMeasures
  <2>4. Asked(old, C) \subseteq Asked(r, C)
    BY <1>1, <2>2, ValidKept DEF Expected, Asked
  <2>5. /\ Cardinality(Asked(old, C)) <= Cardinality(Asked(r, C))
        /\ Cardinality(Asked(old, C)) \in Nat /\ Cardinality(Asked(r, C)) \in Nat
    BY <2>2, <2>4, Abstentions, FS_Subset, FS_CardinalityType
  <2>6. \A x \in {old, r} :
          /\ Right(x, C) \in Nat /\ Wrong(x, C) \in Nat
          /\ Right(x, C) <= Cardinality(Asked(x, C))
          /\ AbstentionMetrics(x, Valid(x, C)) =
               [precision |-> [numerator |-> Right(x, C), denominator |-> Right(x, C) + Wrong(x, C)],
                recall |-> [numerator |-> Right(x, C), denominator |-> Cardinality(Asked(x, C))]]
    BY <2>2, Abstentions
  <2>7. /\ CheckHigher([numerator |-> Right(r, C), denominator |-> Cardinality(Asked(r, C))],
                       [numerator |-> Right(old, C), denominator |-> Cardinality(Asked(old, C))])
        /\ CheckHigher([numerator |-> Right(r, C), denominator |-> Right(r, C) + Wrong(r, C)],
                       [numerator |-> Right(old, C), denominator |-> Right(old, C) + Wrong(old, C)])
    BY <2>3, <2>6
  <2>. HIDE DEF C
  <2>8. Right(old, C) <= Right(r, C)
    BY <2>5, <2>6, <2>7, HigherCounts
  <2>9. Wrong(r, C) * Right(old, C) <= Wrong(old, C) * Right(r, C)
    BY <2>6, <2>7, HigherShare
  <2>. QED  BY <2>6, <2>8, <2>9 DEF AbstainsNoWorse, Right, Wrong, C
<1>. QED  BY <1>1, <1>2 DEF NothingLostSince

-----------------------------------------------------------------------------
(* Many changes.                                                           *)

LEMMA AbstentionTypes ==
  ASSUME NEW r \in Reports, NEW k
  PROVE  /\ Cardinality(RightlyMissing(r, InCategory(r, k))) \in Nat
         /\ Cardinality(WronglyMissing(r, InCategory(r, k))) \in Nat
BY Abstentions DEF InCategory, Right, Wrong

LEMMA NothingLostReflexive ==
  ASSUME NEW r \in Reports
  PROVE  NothingLostSince(r, r)
BY AbstentionTypes DEF NothingLostSince, AbstainsNoWorse

LEMMA NothingLostTransitive ==
  ASSUME NEW a \in Reports, NEW b \in Reports, NEW c \in Reports,
         NothingLostSince(a, b), NothingLostSince(b, c)
  PROVE  NothingLostSince(a, c)
<1>1. /\ b.dataset = a.dataset /\ c.dataset = a.dataset
      /\ Cases(b) = Cases(a) /\ Categories(b) = Categories(a)
  BY DEF NothingLostSince, Cases, Categories
<1>2. ASSUME NEW k \in Categories(a)
      PROVE  AbstainsNoWorse(a, c, InCategory(a, k))
  <2>1. InCategory(b, k) = InCategory(a, k) /\ InCategory(c, k) = InCategory(a, k)
    BY <1>1 DEF InCategory, Cases
  <2>2. AbstainsNoWorse(a, b, InCategory(a, k)) /\ AbstainsNoWorse(b, c, InCategory(a, k))
    BY <1>1, <2>1 DEF NothingLostSince
  <2>. DEFINE right(x) == Cardinality(RightlyMissing(x, InCategory(a, k)))
              wrong(x) == Cardinality(WronglyMissing(x, InCategory(a, k)))
  <2>3. \A x \in {a, b, c} : right(x) \in Nat /\ wrong(x) \in Nat
    BY <2>1, AbstentionTypes
  <2>4. /\ right(a) <= right(b) /\ right(b) <= right(c)
        /\ wrong(b) * right(a) <= wrong(a) * right(b)
        /\ wrong(c) * right(b) <= wrong(b) * right(c)
    BY <2>2 DEF AbstainsNoWorse
  <2>. HIDE DEF right, wrong
  <2>5. right(a) <= right(c) /\ wrong(c) * right(a) <= wrong(a) * right(c)
    BY <2>3, <2>4, ShareTransitive
  <2>. QED  BY <2>5 DEF AbstainsNoWorse, right, wrong
<1>3. \A x \in Cases(a) : Reasons(c, x) \subseteq Reasons(a, x)
  BY <1>1 DEF NothingLostSince
<1>. QED  BY <1>1, <1>2, <1>3 DEF NothingLostSince

(* The baseline was made from some report in between.                      *)
IInv ==
  /\ origin \in Reports
  /\ accepted \in Reports
  /\ NothingLostSince(origin, accepted)
  /\ \E m \in Reports : baseline = CreateBaseline(m) /\ NothingLostSince(origin, m)

LEMMA Invariance == Spec => []IInv
<1>1. Init => IInv
  BY NothingLostReflexive DEF Init, IInv
<1>2. IInv /\ [Next]_vars => IInv'
  <2>. SUFFICES ASSUME IInv, [Next]_vars PROVE IInv'
    OBVIOUS
  <2>1. CASE Rebaseline
    BY <2>1 DEF IInv, Rebaseline
  <2>2. ASSUME NEW r \in Reports, Accept(r) PROVE IInv'
    <3>1. PICK m \in Reports : baseline = CreateBaseline(m) /\ NothingLostSince(origin, m)
      BY DEF IInv
    <3>2. NothingLostSince(m, r)
      BY <2>2, <3>1, PassedLosesNothing DEF Accept
    <3>3. NothingLostSince(origin, r)
      BY <3>1, <3>2, NothingLostTransitive DEF IInv
    <3>. QED  BY <2>2, <3>1, <3>3 DEF IInv, Accept
  <2>3. CASE UNCHANGED vars
    BY <2>3 DEF IInv, vars
  <2>. QED  BY <2>1, <2>2, <2>3 DEF Next
<1>. QED  BY <1>1, <1>2, PTL DEF Spec

(* The gate is a ratchet: however many changes are let in and baselines    *)
(* made, nothing is lost since the first.                                  *)
THEOREM Ratchet == Spec => []NothingLost
<1>1. IInv => NothingLost
  BY DEF IInv, NothingLost
<1>. QED  BY <1>1, Invariance, PTL

(* The baseline file is always one that its schema accepts.                *)
THEOREM TypeCorrect == Spec => []TypeOK
<1>1. IInv => TypeOK
  <2>. SUFFICES ASSUME IInv PROVE TypeOK
    OBVIOUS
  <2>1. PICK m \in Reports : baseline = CreateBaseline(m)
    BY DEF IInv
  <2>2. m.dataset \in Datasets /\ m.evaluator \in Evaluators
    BY DEF Reports
  <2>3. \A k \in Failures(m) : k.reasons # {} /\ k.category = m.dataset.category[k.id]
                                /\ k.reasons = Reasons(m, k.id)
    BY DEF Failures
  <2>4. \A k, l \in Failures(m) : k.id = l.id => k = l
    BY DEF Failures
  <2>. QED  BY <2>1, <2>2, <2>3, <2>4 DEF IInv, TypeOK, CreateBaseline
<1>. QED  BY <1>1, Invariance, PTL

-----------------------------------------------------------------------------
(* Improvements.  A report that is no worse in any case has, in every      *)
(* measure, at least the parts the old one had of at least its whole, and  *)
(* all of what its whole has more.                                         *)

LEMMA HigherParts ==
  ASSUME NEW W, NEW P \in SUBSET W, NEW V, NEW Q \in SUBSET V, IsFiniteSet(V),
         W \subseteq V, P \subseteq Q, V \ W \subseteq Q
  PROVE  CheckHigher(Proportion(Q, V), Proportion(P, W))
<1>1. IsFiniteSet(W) /\ IsFiniteSet(P) /\ IsFiniteSet(Q) /\ IsFiniteSet(V \ W)
        /\ IsFiniteSet(Q \ P)
  BY FS_Subset
<1>. DEFINE w == Cardinality(W)
            p == Cardinality(P)
            v == Cardinality(V)
            q == Cardinality(Q)
            more == Cardinality(V \ W)
<1>2. w \in Nat /\ p \in Nat /\ v \in Nat /\ q \in Nat /\ more \in Nat
  BY <1>1, FS_CardinalityType
<1>3. v = w + more
  <2>1. V \cap W = W
    OBVIOUS
  <2>2. more = v - w
    BY <2>1, FS_Difference
  <2>. HIDE DEF v, w, more
  <2>. QED  BY <1>2, <2>2
<1>4. p <= w
  BY <1>1, FS_Subset
<1>5. p + more <= q
  <2>1. Cardinality(Q \ P) = q - p
    <3>1. Q \cap P = P
      OBVIOUS
    <3>. QED  BY <1>1, <3>1, FS_Difference
  <2>2. more <= Cardinality(Q \ P)
    <3>1. V \ W \in SUBSET (Q \ P)
      OBVIOUS
    <3>. QED  BY <1>1, <3>1, FS_Subset
  <2>3. Cardinality(Q \ P) \in Nat
    BY <1>1, FS_CardinalityType
  <2>. HIDE DEF q, p, more
  <2>. QED  BY <1>2, <2>1, <2>2, <2>3
<1>. HIDE DEF w, p, v, q, more
<1>6. p * v <= q * w
  <2>1. p * v = p * w + p * more /\ (p + more) * w = p * w + more * w
    BY <1>2, <1>3
  <2>2. p * more <= w * more /\ w * more = more * w
    BY <1>2, <1>4, Times
  <2>3. (p + more) * w <= q * w
    BY <1>2, <1>5, Times
  <2>4. p * w \in Nat /\ p * more \in Nat /\ more * w \in Nat /\ q * w \in Nat
    BY <1>2
  <2>. QED  BY <2>1, <2>2, <2>3, <2>4
<1>7. v = 0 => p = 0
  BY <1>2, <1>3, <1>4
<1>8. CheckHigher([numerator |-> q, denominator |-> v], [numerator |-> p, denominator |-> w])
  <2>1. q * w \in Nat /\ p * v \in Nat
    BY <1>2
  <2>. QED  BY <1>6, <1>7, <2>1 DEF CheckHigher
<1>. QED  BY <1>8 DEF Proportion, p, q, v, w

LEMMA LowerParts ==
  ASSUME NEW W, NEW P \in SUBSET W, NEW V, NEW Q \in SUBSET P, IsFiniteSet(V),
         W \subseteq V
  PROVE  CheckLower(Proportion(Q, V), Proportion(P, W))
<1>1. IsFiniteSet(W) /\ IsFiniteSet(P) /\ IsFiniteSet(Q)
  BY FS_Subset
<1>. DEFINE w == Cardinality(W)
            p == Cardinality(P)
            v == Cardinality(V)
            q == Cardinality(Q)
<1>2. w \in Nat /\ p \in Nat /\ v \in Nat /\ q \in Nat
  BY <1>1, FS_CardinalityType
<1>3. p <= w /\ w <= v /\ q <= p
  BY <1>1, FS_Subset
<1>. HIDE DEF w, p, v, q
<1>4. q * w <= p * v
  <2>1. q * w <= p * w
    BY <1>2, <1>3, Times
  <2>2. w * p <= v * p /\ w * p = p * w /\ v * p = p * v
    BY <1>2, <1>3, Times
  <2>3. q * w \in Nat /\ p * w \in Nat /\ p * v \in Nat
    BY <1>2
  <2>. QED  BY <2>1, <2>2, <2>3
<1>5. CheckLower([numerator |-> q, denominator |-> v], [numerator |-> p, denominator |-> w])
  <2>1. q * w \in Nat /\ p * v \in Nat
    BY <1>2
  <2>2. w = 0 => q = 0
    BY <1>2, <1>3
  <2>. QED  BY <1>4, <2>1, <2>2 DEF CheckLower
<1>. QED  BY <1>5 DEF Proportion, p, q, v, w

LEMMA MoreRightFewerWrong ==
  ASSUME NEW g \in Nat, NEW b \in Nat, NEW h \in Nat, NEW w \in Nat, h <= g, b <= w
  PROVE  CheckHigher([numerator |-> g, denominator |-> g + b],
                     [numerator |-> h, denominator |-> h + w])
<1>1. h * b <= g * w
  <2>1. h * b <= g * b
    BY Times
  <2>2. b * g <= w * g /\ b * g = g * b /\ w * g = g * w
    BY Times
  <2>3. h * b \in Nat /\ g * b \in Nat /\ g * w \in Nat
    OBVIOUS
  <2>. QED  BY <2>1, <2>2, <2>3
<1>2. h * (g + b) = h * g + h * b /\ g * (h + w) = g * h + g * w /\ h * g = g * h
  OBVIOUS
<1>3. h * (g + b) <= g * (h + w)
  <2>1. h * b \in Nat /\ g * w \in Nat /\ g * h \in Nat
    OBVIOUS
  <2>. QED  BY <1>1, <1>2, <2>1
<1>4. g + b = 0 => h = 0
  OBVIOUS
<1>. QED
  <2>1. h * (g + b) \in Nat /\ g * (h + w) \in Nat
    OBVIOUS
  <2>. QED  BY <1>3, <1>4, <2>1 DEF CheckHigher

Improves(old, r) ==
  /\ old \in Reports /\ r \in Reports
  /\ r.dataset = old.dataset /\ r.evaluator = old.evaluator
  /\ \A c \in Cases(r) : NoWorse(r, old, c) /\ ~HalfRight(r, old, c)

(* What no reason means.                                                   *)
LEMMA ReasonsSay ==
  ASSUME NEW r \in Reports, NEW c \in Cases(r)
  PROVE  /\ r.outcome[c].kind \in Failed =>
              Reasons(r, c) = {r.outcome[c].kind} /\ Missing(r, c) = {}
         /\ r.outcome[c].kind \in {"valid"} \cup Failed
         /\ r.outcome[c].kind \notin Failed =>
              /\ "route" \in Reasons(r, c) <=> Route(Missing(r, c)) # Route(Expected(r, c))
              /\ "confirmation_fields" \in Reasons(r, c) <=> Missing(r, c) # Expected(r, c)
              /\ \A f \in Fields : f \in Reasons(r, c) <=> f \notin r.outcome[c].matches
<1>1. r.outcome[c] \in Outcomes
  BY ReportTypes
<1>2. /\ r.outcome[c].kind \in {"valid"} \cup Failed
      /\ r.outcome[c].kind \in Failed => r.outcome[c].missing = {}
  BY <1>1, OutcomeTypes
<1>3. "route" \notin Fields /\ "confirmation_fields" \notin Fields
  BY GateAssumption
<1>. QED  BY <1>2, <1>3 DEF Reasons, Missing

(* One case that is no worse: where the old report had an answer the new   *)
(* one has one, and it is right about whatever the old one was; where it   *)
(* had none, the new one has none or is right about everything.            *)
LEMMA CaseImproves ==
  ASSUME NEW old, NEW r, Improves(old, r), NEW c \in Cases(old)
  PROVE  /\ Reasons(r, c) \subseteq Reasons(old, c)
         /\ r.outcome[c].kind \in Failed => old.outcome[c].kind = r.outcome[c].kind
         /\ Missing(old, c) \cap Expected(old, c) \subseteq Missing(r, c)
         /\ Missing(r, c) \ Expected(old, c) \subseteq Missing(old, c)
         /\ old.outcome[c].kind = "valid" => old.outcome[c].matches \cap Fields \subseteq r.outcome[c].matches
         /\ old.outcome[c].kind # "valid" /\ r.outcome[c].kind = "valid" =>
              /\ Reasons(r, c) = {} /\ Missing(r, c) = Expected(old, c)
              /\ Fields \subseteq r.outcome[c].matches
<1>1. old \in Reports /\ r \in Reports /\ r.dataset = old.dataset
  BY DEF Improves
<1>2. /\ c \in Cases(r) /\ Expected(r, c) = Expected(old, c)
      /\ NoWorse(r, old, c) /\ ~HalfRight(r, old, c)
  BY <1>1 DEF Improves, Cases, Expected
<1>3. "valid" \notin Failed
  BY DEF Failed
<1>4. CASE r.outcome[c] = old.outcome[c]
  BY <1>2, <1>4 DEF Reasons, Missing
<1>5. CASE r.outcome[c].kind = "valid" /\ old.outcome[c].kind \in Failed
  <2>1. Reasons(r, c) = {}
    BY <1>2, <1>5 DEF HalfRight
  <2>2. Missing(r, c) = Expected(old, c) /\ Fields \subseteq r.outcome[c].matches
    BY <1>1, <1>2, <1>3, <1>5, <2>1, ReasonsSay
  <2>3. Missing(old, c) = {}
    BY <1>5, ReasonsSay, <1>1
  <2>. QED  BY <1>3, <1>5, <2>1, <2>2, <2>3
<1>6. CASE /\ r.outcome[c].kind = "valid" /\ old.outcome[c].kind = "valid"
           /\ old.outcome[c].matches \subseteq r.outcome[c].matches
           /\ Missing(old, c) \cap Expected(old, c) \subseteq Missing(r, c)
           /\ Missing(r, c) \ Expected(r, c) \subseteq Missing(old, c)
           /\ Route(Missing(old, c)) = Route(Expected(old, c)) =>
                Route(Missing(r, c)) = Route(Expected(r, c))
  <2>1. Missing(old, c) = Expected(old, c) => Missing(r, c) = Expected(r, c)
    BY <1>2, <1>6
  <2>2. Reasons(r, c) \subseteq Reasons(old, c)
    BY <1>2, <1>3, <1>6, <2>1 DEF Reasons
  <2>. QED  BY <1>2, <1>3, <1>6, <2>2
<1>. QED  BY <1>2, <1>4, <1>5, <1>6 DEF NoWorse

LEMMA ValidImproves ==
  ASSUME NEW old, NEW r, Improves(old, r), NEW C \in SUBSET Cases(old)
  PROVE  /\ Valid(old, C) \subseteq Valid(r, C)
         /\ IsFiniteSet(C) /\ IsFiniteSet(Valid(r, C)) /\ Valid(r, C) \subseteq C
         /\ C \in SUBSET Cases(r)
         /\ \A c \in Valid(old, C) : old.outcome[c].kind = "valid"
         /\ \A c \in Valid(r, C) \ Valid(old, C) :
              old.outcome[c].kind # "valid" /\ r.outcome[c].kind = "valid"
<1>1. old \in Reports /\ r \in Reports /\ Cases(r) = Cases(old)
  BY DEF Improves, Cases
<1>2. IsFiniteSet(C) /\ Valid(r, C) \subseteq C /\ IsFiniteSet(Valid(r, C))
  BY <1>1, ReportTypes, FS_Subset DEF Valid
<1>3. \A c \in C : r.outcome[c].kind \in {"valid"} \cup Failed
  BY <1>1, ReasonsSay
<1>4. "valid" \notin Failed
  BY DEF Failed
<1>5. Valid(old, C) \subseteq Valid(r, C)
  BY <1>3, <1>4, CaseImproves DEF Valid
<1>. QED  BY <1>1, <1>2, <1>5 DEF Valid

LEMMA CountsMore ==
  ASSUME NEW S, NEW T \in SUBSET S, IsFiniteSet(S)
  PROVE  Cardinality(T) \in Nat /\ Cardinality(S) \in Nat /\ Cardinality(T) <= Cardinality(S)
BY FS_Subset, FS_CardinalityType

LEMMA FieldsImprove ==
  ASSUME NEW old, NEW r, Improves(old, r), NEW C \in SUBSET Cases(old), NEW F \in SUBSET Fields
  PROVE  CompareAggregate(FieldMetric(r, Valid(r, C), F), FieldMetric(old, Valid(old, C), F))
<1>. DEFINE V == Valid(r, C)
            W == Valid(old, C)
            absentV == {p \in V \X F : p[2] \in Expected(r, p[1])}
            absentW == {p \in W \X F : p[2] \in Expected(old, p[1])}
<1>1. \A c \in Cases(old) : Expected(r, c) = Expected(old, c)
  BY DEF Improves, Expected
<1>2. /\ W \subseteq V /\ V \subseteq C /\ IsFiniteSet(V)
      /\ \A c \in W : old.outcome[c].kind = "valid"
      /\ \A c \in V \ W : old.outcome[c].kind # "valid" /\ r.outcome[c].kind = "valid"
  BY ValidImproves
<1>3. IsFiniteSet(V \X F)
  BY <1>2, GateAssumption, FS_Subset, FS_Product
<1>. HIDE DEF V, W
<1>4. CheckHigher(Proportion({p \in V \X F : p[2] \in r.outcome[p[1]].matches}, V \X F),
                  Proportion({p \in W \X F : p[2] \in old.outcome[p[1]].matches}, W \X F))
  <2>. DEFINE Q == {p \in V \X F : p[2] \in r.outcome[p[1]].matches}
              P == {p \in W \X F : p[2] \in old.outcome[p[1]].matches}
  <2>1. P \subseteq Q
    BY <1>2, CaseImproves
  <2>2. (V \X F) \ (W \X F) \subseteq Q
    BY <1>2, CaseImproves
  <2>3. P \subseteq W \X F /\ Q \subseteq V \X F /\ W \X F \subseteq V \X F
    BY <1>2
  <2>. HIDE DEF P, Q
  <2>4. CheckHigher(Proportion(Q, V \X F), Proportion(P, W \X F))
    BY <1>3, <2>1, <2>2, <2>3, HigherParts
  <2>. QED  BY <2>4 DEF P, Q
<1>5. CheckLower(Proportion({p \in absentV : p[2] \notin Missing(r, p[1])}, absentV),
                 Proportion({p \in absentW : p[2] \notin Missing(old, p[1])}, absentW))
  <2>. DEFINE Q == {p \in absentV : p[2] \notin Missing(r, p[1])}
              P == {p \in absentW : p[2] \notin Missing(old, p[1])}
  <2>1. absentW \subseteq absentV /\ IsFiniteSet(absentV)
    BY <1>1, <1>2, <1>3, FS_Subset
  <2>2. Q \subseteq P
    <3>1. SUFFICES ASSUME NEW p \in Q PROVE p \in P
      OBVIOUS
    <3>2. p[1] \in V /\ p[2] \in F /\ p = <<p[1], p[2]>> /\ p[2] \in Expected(old, p[1])
            /\ p[2] \notin Missing(r, p[1]) /\ p[1] \in Cases(old)
      BY <1>1, <1>2
    <3>3. p[1] \in W
      BY <1>2, <3>2, CaseImproves
    <3>4. p[2] \notin Missing(old, p[1])
      BY <3>2, CaseImproves
    <3>. QED  BY <3>2, <3>3, <3>4
  <2>3. P \subseteq absentW
    OBVIOUS
  <2>. HIDE DEF P, Q, absentV, absentW
  <2>4. CheckLower(Proportion(Q, absentV), Proportion(P, absentW))
    BY <2>1, <2>2, <2>3, LowerParts
  <2>. QED  BY <2>4 DEF P, Q
<1>6. CheckLower(Proportion({p \in (V \X F) \ absentV : p[2] \in Missing(r, p[1])},
                            (V \X F) \ absentV),
                 Proportion({p \in (W \X F) \ absentW : p[2] \in Missing(old, p[1])},
                            (W \X F) \ absentW))
  <2>. DEFINE presentV == (V \X F) \ absentV
              presentW == (W \X F) \ absentW
              Q == {p \in presentV : p[2] \in Missing(r, p[1])}
              P == {p \in presentW : p[2] \in Missing(old, p[1])}
  <2>1. presentW \subseteq presentV /\ IsFiniteSet(presentV)
    BY <1>1, <1>2, <1>3, FS_Subset
  <2>2. Q \subseteq P
    <3>1. SUFFICES ASSUME NEW p \in Q PROVE p \in P
      OBVIOUS
    <3>2. p[1] \in V /\ p[2] \in F /\ p = <<p[1], p[2]>> /\ p[2] \notin Expected(old, p[1])
            /\ p[2] \in Missing(r, p[1]) /\ p[1] \in Cases(old)
      BY <1>1, <1>2
    <3>3. p[1] \in W
      BY <1>2, <3>2, CaseImproves
    <3>4. p[2] \in Missing(old, p[1])
      BY <3>2, CaseImproves
    <3>. QED  BY <1>1, <3>2, <3>3, <3>4
  <2>3. P \subseteq presentW
    OBVIOUS
  <2>. HIDE DEF P, Q, presentV, presentW
  <2>4. CheckLower(Proportion(Q, presentV), Proportion(P, presentW))
    BY <2>1, <2>2, <2>3, LowerParts
  <2>. QED  BY <2>4 DEF P, Q, presentV, presentW
<1>7. FieldMetric(r, V, F) =
        [exact |-> Proportion({p \in V \X F : p[2] \in r.outcome[p[1]].matches}, V \X F),
         falsePositive |-> Proportion({p \in absentV : p[2] \notin Missing(r, p[1])}, absentV),
         falseNegative |-> Proportion({p \in (V \X F) \ absentV : p[2] \in Missing(r, p[1])},
                                      (V \X F) \ absentV)]
  BY DEF FieldMetric
<1>8. FieldMetric(old, W, F) =
        [exact |-> Proportion({p \in W \X F : p[2] \in old.outcome[p[1]].matches}, W \X F),
         falsePositive |-> Proportion({p \in absentW : p[2] \notin Missing(old, p[1])}, absentW),
         falseNegative |-> Proportion({p \in (W \X F) \ absentW : p[2] \in Missing(old, p[1])},
                                      (W \X F) \ absentW)]
  BY DEF FieldMetric
<1>9. CompareAggregate(FieldMetric(r, V, F), FieldMetric(old, W, F))
  <2>. HIDE DEF absentV, absentW
  <2>. QED  BY <1>4, <1>5, <1>6, <1>7, <1>8 DEF CompareAggregate
<1>. QED  BY <1>9 DEF V, W

LEMMA AbstentionImproves ==
  ASSUME NEW old, NEW r, Improves(old, r), NEW C \in SUBSET Cases(old)
  PROVE  /\ CheckHigher(AbstentionMetrics(r, Valid(r, C)).precision,
                        AbstentionMetrics(old, Valid(old, C)).precision)
         /\ CheckHigher(AbstentionMetrics(r, Valid(r, C)).recall,
                        AbstentionMetrics(old, Valid(old, C)).recall)
<1>1. /\ old \in Reports /\ r \in Reports
      /\ \A c \in Cases(old) : Expected(r, c) = Expected(old, c)
  BY DEF Improves, Expected
<1>2. /\ Valid(old, C) \subseteq Valid(r, C) /\ Valid(r, C) \subseteq C /\ IsFiniteSet(C)
      /\ C \in SUBSET Cases(r)
      /\ \A c \in Valid(r, C) \ Valid(old, C) :
           old.outcome[c].kind # "valid" /\ r.outcome[c].kind = "valid"
  BY ValidImproves
<1>3. IsFiniteSet(C \X Fields)
  BY <1>2, GateAssumption, FS_Product
<1>4. RightlyMissing(old, C) \subseteq RightlyMissing(r, C)
  BY <1>1, CaseImproves DEF RightlyMissing
<1>5. WronglyMissing(r, C) \subseteq WronglyMissing(old, C)
  BY <1>1, CaseImproves DEF WronglyMissing
<1>6. IsFiniteSet(RightlyMissing(r, C)) /\ IsFiniteSet(WronglyMissing(old, C))
  BY <1>3, FS_Subset DEF RightlyMissing, WronglyMissing
<1>7. Right(old, C) <= Right(r, C) /\ Wrong(r, C) <= Wrong(old, C)
  BY <1>4, <1>5, <1>6, CountsMore DEF Right, Wrong
<1>8. \A x \in {old, r} :
        /\ Right(x, C) \in Nat /\ Wrong(x, C) \in Nat /\ IsFiniteSet(Asked(x, C))
        /\ AbstentionMetrics(x, Valid(x, C)) =
             [precision |-> [numerator |-> Right(x, C), denominator |-> Right(x, C) + Wrong(x, C)],
              recall |-> [numerator |-> Right(x, C), denominator |-> Cardinality(Asked(x, C))]]
  BY <1>1, <1>2, Abstentions
<1>9. CheckHigher(AbstentionMetrics(r, Valid(r, C)).precision,
                  AbstentionMetrics(old, Valid(old, C)).precision)
  <2>1. CheckHigher([numerator |-> Right(r, C), denominator |-> Right(r, C) + Wrong(r, C)],
                    [numerator |-> Right(old, C), denominator |-> Right(old, C) + Wrong(old, C)])
    BY <1>7, <1>8, MoreRightFewerWrong
  <2>. QED  BY <1>8, <2>1
<1>10. CheckHigher(AbstentionMetrics(r, Valid(r, C)).recall,
                   AbstentionMetrics(old, Valid(old, C)).recall)
  <2>1. \A x \in {old, r} : RightlyMissing(x, C) \subseteq Asked(x, C)
    <3>1. \A x \in {old, r}, c \in C : c \notin Valid(x, C) => Missing(x, c) = {}
      BY <1>1, <1>2, ReasonsSay DEF Valid
    <3>. QED  BY <3>1 DEF RightlyMissing, Asked
  <2>2. Asked(old, C) \subseteq Asked(r, C)
    BY <1>1, <1>2 DEF Asked
  <2>3. Asked(r, C) \ Asked(old, C) \subseteq RightlyMissing(r, C)
    BY <1>1, <1>2, CaseImproves DEF Asked, RightlyMissing
  <2>4. CheckHigher(Proportion(RightlyMissing(r, C), Asked(r, C)),
                    Proportion(RightlyMissing(old, C), Asked(old, C)))
    BY <1>4, <1>8, <2>1, <2>2, <2>3, HigherParts
  <2>. QED  BY <1>8, <2>4 DEF Proportion, Right
<1>. QED  BY <1>9, <1>10

LEMMA RouteImproves ==
  ASSUME NEW old, NEW r, Improves(old, r), NEW C \in SUBSET Cases(old)
  PROVE  CompareRoute(RouteMetrics(r, Valid(r, C)), RouteMetrics(old, Valid(old, C)))
<1>. DEFINE V == Valid(r, C)
            W == Valid(old, C)
<1>1. /\ old \in Reports /\ r \in Reports
      /\ \A c \in Cases(old) : c \in Cases(r) /\ Expected(r, c) = Expected(old, c)
  BY DEF Improves, Expected, Cases
<1>2. /\ W \subseteq V /\ V \subseteq C /\ IsFiniteSet(V) /\ IsFiniteSet(W)
      /\ \A c \in W : old.outcome[c].kind = "valid"
      /\ \A c \in V \ W : old.outcome[c].kind # "valid" /\ r.outcome[c].kind = "valid"
  BY ValidImproves, FS_Subset
<1>3. \A c \in V : r.outcome[c].kind \notin Failed
  BY DEF Valid, Failed
<1>4. "valid" \notin Failed
  BY DEF Failed
<1>. HIDE DEF V, W
<1>5. \A c \in V : Route(Missing(r, c)) # Route(Expected(old, c)) =>
        c \in W /\ Route(Missing(old, c)) # Route(Expected(old, c))
  <2>1. SUFFICES ASSUME NEW c \in V, Route(Missing(r, c)) # Route(Expected(old, c))
                 PROVE  c \in W /\ Route(Missing(old, c)) # Route(Expected(old, c))
    OBVIOUS
  <2>2. c \in Cases(old) /\ c \in Cases(r)
    BY <1>1, <1>2
  <2>3. "route" \in Reasons(r, c)
    BY <1>1, <1>3, <2>1, <2>2, ReasonsSay
  <2>4. c \in W
    BY <1>2, <2>2, <2>3, CaseImproves
  <2>5. "route" \in Reasons(old, c) /\ old.outcome[c].kind \notin Failed
    BY <1>2, <1>4, <2>2, <2>3, <2>4, CaseImproves
  <2>. QED  BY <1>1, <2>2, <2>4, <2>5, ReasonsSay
<1>6. \A missing : Route(missing) \in Routes
  BY DEF Route, Routes
<1>7. ASSUME NEW e \in Routes
      PROVE  Cardinality(Routed(r, V, e, e)) >= Cardinality(Routed(old, W, e, e))
  <2>1. Routed(old, W, e, e) \subseteq Routed(r, V, e, e)
    <3>1. SUFFICES ASSUME NEW c \in Routed(old, W, e, e)
                   PROVE  c \in Routed(r, V, e, e)
      OBVIOUS
    <3>2. c \in W /\ c \in V /\ c \in Cases(old)
            /\ Route(Expected(old, c)) = e /\ Route(Missing(old, c)) = e
      BY <1>2 DEF Routed
    <3>3. Route(Missing(r, c)) = e
      BY <1>5, <3>2
    <3>. QED  BY <1>1, <3>2, <3>3 DEF Routed
  <2>2. IsFiniteSet(Routed(r, V, e, e))
    BY <1>2, FS_Subset DEF Routed
  <2>. QED  BY <2>1, <2>2, CountsMore
<1>8. ASSUME NEW e \in Routes, NEW a \in Routes, e # a
      PROVE  Cardinality(Routed(r, V, e, a)) <= Cardinality(Routed(old, W, e, a))
  <2>1. Routed(r, V, e, a) \subseteq Routed(old, W, e, a)
    <3>1. SUFFICES ASSUME NEW c \in Routed(r, V, e, a)
                   PROVE  c \in Routed(old, W, e, a)
      OBVIOUS
    <3>2. c \in V /\ c \in Cases(old)
            /\ Route(Expected(old, c)) = e /\ Route(Missing(r, c)) = a
      BY <1>1, <1>2 DEF Routed
    <3>3. c \in W /\ Route(Missing(old, c)) # e
      BY <1>5, <1>8, <3>2
    <3>4. Route(Missing(old, c)) = a
      BY <1>6, <1>8, <3>3 DEF Routes
    <3>. QED  BY <3>2, <3>3, <3>4 DEF Routed
  <2>2. IsFiniteSet(Routed(old, W, e, a))
    BY <1>2, FS_Subset DEF Routed
  <2>. QED  BY <2>1, <2>2, CountsMore
<1>9. CheckHigher(Proportion({c \in V : Route(Expected(r, c)) = Route(Missing(r, c))}, V),
                  Proportion({c \in W : Route(Expected(old, c)) = Route(Missing(old, c))}, W))
  <2>. DEFINE Q == {c \in V : Route(Expected(r, c)) = Route(Missing(r, c))}
              P == {c \in W : Route(Expected(old, c)) = Route(Missing(old, c))}
  <2>1. P \subseteq Q /\ V \ W \subseteq Q
    BY <1>1, <1>2, <1>5
  <2>2. P \subseteq W /\ Q \subseteq V
    OBVIOUS
  <2>. HIDE DEF P, Q
  <2>3. CheckHigher(Proportion(Q, V), Proportion(P, W))
    BY <1>2, <2>1, <2>2, HigherParts
  <2>. QED  BY <2>3 DEF P, Q
<1>10. CompareRoute(RouteMetrics(r, V), RouteMetrics(old, W))
  BY <1>7, <1>8, <1>9 DEF CompareRoute, RouteMetrics
<1>. QED  BY <1>10 DEF V, W

LEMMA MeasuresImprove ==
  ASSUME NEW old, NEW r, Improves(old, r), NEW C \in SUBSET Cases(old),
         NEW FF \in SUBSET SUBSET Fields
  PROVE  CompareMeasures(Measures(r, C, FF), Measures(old, C, FF))
<1>. DEFINE V == Valid(r, C)
            W == Valid(old, C)
            now == Measures(r, C, FF)
            was == Measures(old, C, FF)
<1>1. /\ old \in Reports /\ r \in Reports
      /\ \A c \in Cases(old) : c \in Cases(r) /\ Expected(r, c) = Expected(old, c)
  BY DEF Improves, Expected, Cases
<1>2. /\ W \subseteq V /\ V \subseteq C /\ IsFiniteSet(V) /\ IsFiniteSet(C)
      /\ \A c \in W : old.outcome[c].kind = "valid"
      /\ \A c \in V \ W : old.outcome[c].kind # "valid" /\ r.outcome[c].kind = "valid"
  BY ValidImproves
<1>3. \A c \in V : r.outcome[c].kind \notin Failed
  BY DEF Valid, Failed
<1>4. "valid" \notin Failed
  BY DEF Failed
<1>. HIDE DEF V, W
<1>5. CheckHigher(now.caseExact, was.caseExact)
  <2>. DEFINE Q == {c \in V : Reasons(r, c) = {}}
              P == {c \in W : Reasons(old, c) = {}}
  <2>1. P \subseteq Q
    BY <1>2, CaseImproves
  <2>2. V \ W \subseteq Q
    BY <1>2, CaseImproves
  <2>3. P \subseteq W /\ Q \subseteq V
    OBVIOUS
  <2>. HIDE DEF P, Q
  <2>4. CheckHigher(Proportion(Q, V), Proportion(P, W))
    BY <1>2, <2>1, <2>2, <2>3, HigherParts
  <2>. QED  BY <2>4 DEF P, Q, V, W, Measures
<1>6. CheckHigher(now.confirmationSetExact, was.confirmationSetExact)
  <2>. DEFINE Q == {c \in V : Missing(r, c) = Expected(r, c)}
              P == {c \in W : Missing(old, c) = Expected(old, c)}
  <2>1. P \subseteq Q
    <3>1. SUFFICES ASSUME NEW c \in P PROVE Missing(r, c) = Expected(r, c)
      BY <1>2
    <3>2. c \in W /\ c \in V /\ c \in Cases(old) /\ c \in Cases(r) /\ Missing(old, c) = Expected(old, c)
      BY <1>1, <1>2
    <3>3. "confirmation_fields" \notin Reasons(old, c)
      BY <1>1, <1>2, <1>4, <3>2, ReasonsSay
    <3>4. "confirmation_fields" \notin Reasons(r, c)
      BY <3>2, <3>3, CaseImproves
    <3>. QED  BY <1>1, <1>3, <3>2, <3>4, ReasonsSay
  <2>2. V \ W \subseteq Q
    BY <1>1, <1>2, CaseImproves
  <2>3. P \subseteq W /\ Q \subseteq V
    OBVIOUS
  <2>. HIDE DEF P, Q
  <2>4. CheckHigher(Proportion(Q, V), Proportion(P, W))
    BY <1>2, <2>1, <2>2, <2>3, HigherParts
  <2>. QED  BY <2>4 DEF P, Q, V, W, Measures
<1>7. \A F \in DOMAIN was.fields : CompareAggregate(now.fields[F], was.fields[F])
  BY FieldsImprove DEF Measures
<1>8. /\ CheckHigher(now.abstention.precision, was.abstention.precision)
      /\ CheckHigher(now.abstention.recall, was.abstention.recall)
  BY AbstentionImproves DEF Measures
<1>9. CompareRoute(now.route, was.route)
  BY RouteImproves DEF Measures
<1>10. ASSUME NEW k \in Failed
       PROVE  now.failed[k] <= was.failed[k]
  <2>1. {c \in C : r.outcome[c].kind = k} \subseteq {c \in C : old.outcome[c].kind = k}
    BY CaseImproves
  <2>2. IsFiniteSet({c \in C : old.outcome[c].kind = k})
    BY <1>2, FS_Subset
  <2>3. Cardinality({c \in C : r.outcome[c].kind = k}) <= Cardinality({c \in C : old.outcome[c].kind = k})
    BY <2>1, <2>2, CountsMore
  <2>. QED  BY <2>3 DEF Measures
<1>. HIDE DEF now, was
<1>11. CompareMeasures(now, was)
  BY <1>5, <1>6, <1>7, <1>8, <1>9, <1>10 DEF CompareMeasures
<1>. QED  BY <1>11 DEF now, was

LEMMA ImprovedPasses ==
  ASSUME NEW old, NEW r, Improves(old, r)
  PROVE  VerifyBaseline(r, CreateBaseline(old))
<1>1. /\ old \in Reports /\ r \in Reports
      /\ r.dataset = old.dataset /\ r.evaluator = old.evaluator
      /\ Cases(r) = Cases(old) /\ Categories(r) = Categories(old)
      /\ \A k : InCategory(r, k) = InCategory(old, k) /\ InCategory(old, k) \in SUBSET Cases(old)
  BY DEF Improves, Cases, Categories, InCategory
<1>2. Cardinality(Valid(r, Cases(r))) >= Cardinality(Valid(old, Cases(old)))
  <2>1. Valid(old, Cases(old)) \subseteq Valid(r, Cases(old)) /\ IsFiniteSet(Valid(r, Cases(old)))
    BY ValidImproves
  <2>. QED  BY <1>1, <2>1, CountsMore
<1>3. CompareMeasures(Summary(r).overall, Summary(old).overall)
  <2>1. {Fields} \cup {{f} : f \in Fields} \in SUBSET SUBSET Fields
    OBVIOUS
  <2>. QED  BY <1>1, <2>1, MeasuresImprove DEF Summary
<1>4. ASSUME NEW k \in Categories(old)
      PROVE  CompareMeasures(Summary(r).byCategory[k], Summary(old).byCategory[k])
  <2>1. CompareMeasures(Measures(r, InCategory(old, k), {Fields}),
                        Measures(old, InCategory(old, k), {Fields}))
    BY <1>1, MeasuresImprove
  <2>. QED  BY <1>1, <1>4, <2>1 DEF Summary
<1>5. CompareSummary(Summary(r), Summary(old))
  <2>1. /\ Summary(r).cases = Summary(old).cases
        /\ Summary(r).validOutputs >= Summary(old).validOutputs
        /\ DOMAIN Summary(old).byCategory = Categories(old)
        /\ DOMAIN Summary(r).byCategory = Categories(old)
    BY <1>1, <1>2 DEF Summary
  <2>. QED  BY <1>3, <1>4, <2>1 DEF CompareSummary
<1>6. ASSUME NEW f \in Failures(r)
      PROVE  Known(f, CreateBaseline(old))
  <2>1. PICK c \in Cases(r) :
          /\ Reasons(r, c) # {}
          /\ f = [id |-> c, category |-> r.dataset.category[c], reasons |-> Reasons(r, c)]
    BY DEF Failures
  <2>2. c \in Cases(old) /\ Reasons(r, c) \subseteq Reasons(old, c) /\ Reasons(old, c) # {}
    BY <1>1, <2>1, CaseImproves
  <2>3. [id |-> c, category |-> old.dataset.category[c], reasons |-> Reasons(old, c)] \in Failures(old)
    BY <2>2 DEF Failures
  <2>. QED  BY <1>1, <2>1, <2>2, <2>3 DEF Known, CreateBaseline
<1>. QED  BY <1>1, <1>5, <1>6 DEF VerifyBaseline, CreateBaseline

(* A half-right answer has a reason that a failure never has.              *)
LEMMA HalfRightIsRefused ==
  ASSUME NEW old \in Reports, NEW r \in Reports, r.dataset = old.dataset,
         NEW c \in Cases(r), HalfRight(r, old, c)
  PROVE  ~VerifyBaseline(r, CreateBaseline(old))
<1>. DEFINE failure == [id |-> c, category |-> r.dataset.category[c], reasons |-> Reasons(r, c)]
<1>1. failure \in Failures(r) /\ Reasons(r, c) # {}
  BY DEF Failures, HalfRight
<1>2. SUFFICES ASSUME Known(failure, CreateBaseline(old))
               PROVE  FALSE
  BY <1>1 DEF VerifyBaseline
<1>3. c \in Cases(old) /\ Reasons(r, c) \subseteq Reasons(old, c)
  BY <1>2 DEF Known, CreateBaseline, Failures
<1>4. Reasons(old, c) \subseteq Failed
  BY <1>3, ReasonsSay DEF HalfRight
<1>5. Reasons(r, c) \subseteq Fields \cup {"route", "confirmation_fields"}
  BY DEF HalfRight, Reasons, Failed
<1>6. Failed \cap (Fields \cup {"route", "confirmation_fields"}) = {}
  BY GateAssumption DEF Failed
<1>. QED  BY <1>1, <1>3, <1>4, <1>5, <1>6

(* Which improvements are let in: verifyReservationChallengeBaseline finds *)
(* no regression in a report that is no worse in any case than the one the *)
(* baseline was made from, unless a case that failed is now half right,    *)
(* and then it always finds one.                                           *)
THEOREM ImprovementsAreLetIn == Spec => []ImprovementsPass
<1>1. IInv => ImprovementsPass
  <2>1. ASSUME NEW r \in Reports, accepted \in Reports,
               r.dataset = accepted.dataset, r.evaluator = accepted.evaluator,
               \A c \in Cases(r) : NoWorse(r, accepted, c)
        PROVE  VerifyBaseline(r, CreateBaseline(accepted)) <=>
                 \A c \in Cases(r) : ~HalfRight(r, accepted, c)
    <3>1. CASE \A c \in Cases(r) : ~HalfRight(r, accepted, c)
      BY <2>1, <3>1, ImprovedPasses DEF Improves
    <3>2. CASE \E c \in Cases(r) : HalfRight(r, accepted, c)
      BY <2>1, <3>2, HalfRightIsRefused
    <3>. QED  BY <3>1, <3>2
  <2>. QED  BY <2>1 DEF IInv, ImprovementsPass
<1>. QED  BY <1>1, Invariance, PTL

-----------------------------------------------------------------------------
(* The evaluation command.                                                 *)

Output == [kind : {"extractor_error", "invalid_output"}] \cup [kind : {"draft"}, draft : Drafts]

Counters ==
  [passed : Nat, exact : [RequiredFields -> Nat], falsePositives : Nat, abstentions : Nat,
   correctAbstentions : Nat, confirmation : Nat, invalidOutputs : Nat, extractorErrors : Nat]

Failure ==
  [id : Nat,
   reasons : SUBSET (RequiredFields \cup {"issues", "invalid_output", "extractor_error"})]

(* What the loop has read is part of the dataset.                          *)
PartlyRead ==
  /\ dataset \in EvaluationDatasets \cup {NoDataset}
  /\ outputs \in Seq(Output) /\ Len(outputs) <= Len(dataset)
  /\ report \in Counters
  /\ failures \in Seq(Failure)
  /\ exit \in {"running", "passed", "failed", "error"}

(* The command ends when all of it is read, or none.                       *)
Ending ==
  /\ exit = "passed" => Len(outputs) = Len(dataset) /\ failures = <<>>
  /\ exit = "failed" => failures # <<>>
  /\ exit = "error" => outputs = <<>>

Tallied == PartlyRead /\ Counted /\ Listed /\ Ending

(* Comparing sorted lists is asking for each missing field once.           *)
LEMMA IssuesConfirm ==
  ASSUME NEW actual \in Seq(STRING), NEW expected, IsFiniteSet(expected)
  PROVE  SameIssues(actual, expected) <=> ListsEach(actual, expected)
<1>1. Len(actual) \in Nat /\ DOMAIN actual = 1..Len(actual) /\ actual \in [1..Len(actual) -> STRING]
  BY LenProperties
<1>2. IsFiniteSet(1..Len(actual)) /\ Cardinality(1..Len(actual)) = Len(actual)
  BY <1>1, FS_Interval
<1>3. Cardinality(expected) \in Nat
  BY FS_CardinalityType
<1>4. ASSUME {actual[n] : n \in DOMAIN actual} = expected
      PROVE  actual \in Surjection(1..Len(actual), expected)
  <2>1. actual \in [1..Len(actual) -> expected]
    BY <1>1, <1>4
  <2>2. \A f \in expected : \E k \in 1..Len(actual) : actual[k] = f
    BY <1>1, <1>4
  <2>. QED  BY <2>1, <2>2 DEF Surjection
<1>5. ASSUME {actual[n] : n \in DOMAIN actual} = expected
      PROVE  Len(actual) = Cardinality(expected) <=>
               \A k, l \in DOMAIN actual : actual[k] = actual[l] => k = l
  <2>1. Cardinality(expected) = Cardinality(1..Len(actual)) <=> actual \in Injection(1..Len(actual), expected)
    BY <1>2, <1>4, <1>5, FS_Surjection
  <2>2. actual \in [1..Len(actual) -> expected]
    BY <1>4, <1>5 DEF Surjection
  <2>3. actual \in Injection(1..Len(actual), expected) <=>
          \A k, l \in 1..Len(actual) : actual[k] = actual[l] => k = l
    BY <2>2 DEF Injection, IsInjective
  <2>. QED  BY <1>1, <1>2, <2>1, <2>3
<1>6. {actual[n] : n \in DOMAIN actual} = expected <=>
        /\ \A f \in expected : \E k \in DOMAIN actual : actual[k] = f
        /\ \A k \in DOMAIN actual : actual[k] \in expected
  OBVIOUS
<1>. QED  BY <1>5, <1>6 DEF SameIssues, ListsEach

(* The fields of one more case.                                            *)
LEMMA OneMoreCase ==
  ASSUME NEW S, IsFiniteSet(S), NEW T, IsFiniteSet(T), NEW n, \A p \in S : p[1] # n
  PROVE  /\ IsFiniteSet(S \cup ({n} \X T))
         /\ Cardinality(S \cup ({n} \X T)) = Cardinality(S) + Cardinality(T)
<1>1. IsFiniteSet({n}) /\ Cardinality({n}) = 1
  BY FS_Singleton
<1>2. IsFiniteSet({n} \X T) /\ Cardinality({n} \X T) = 1 * Cardinality(T)
  BY <1>1, FS_Product
<1>3. S \cap ({n} \X T) = {}
  OBVIOUS
<1>4. IsFiniteSet(S \cup ({n} \X T))
      /\ Cardinality(S \cup ({n} \X T)) = Cardinality(S) + Cardinality({n} \X T) - Cardinality({})
  BY <1>2, <1>3, FS_Union
<1>5. Cardinality({}) = 0 /\ Cardinality(S) \in Nat /\ Cardinality(T) \in Nat
  BY FS_EmptySet, FS_CardinalityType
<1>. QED  BY <1>2, <1>4, <1>5

(* The dataset as it is loaded.                                            *)
LEMMA Labels ==
  ASSUME NEW d \in EvaluationDatasets \cup {NoDataset}
  PROVE  /\ Len(d) \in Nat /\ DOMAIN d = 1..Len(d)
         /\ \A n \in DOMAIN d : d[n] \in [RequiredFields -> {"none", "real", "impossible"}]
<1> DEFINE Label == [RequiredFields -> {"none", "real", "impossible"}]
<1>1. d \in Seq(Label)
  BY EvaluationAssumption, EmptySeq DEF NoDataset
<1> HIDE DEF Label
<1>2. Len(d) \in Nat /\ DOMAIN d = 1..Len(d) /\ d \in [1..Len(d) -> Label]
  BY <1>1, LenProperties
<1>. QED  BY <1>2 DEF Label

(* What was read stays as it is when the next case is read.                *)
LEMMA NextCase ==
  ASSUME PartlyRead, Evaluating, NEW n, n = Case, NEW o \in Output, outputs' = Append(outputs, o), dataset' = dataset
  PROVE  /\ Len(outputs) \in Nat /\ DOMAIN outputs = 1..Len(outputs)
         /\ outputs' \in Seq(Output) /\ Len(outputs') = n /\ Len(outputs') <= Len(dataset)
         /\ DOMAIN outputs' = DOMAIN outputs \cup {n} /\ n \notin DOMAIN outputs
         /\ \A k \in DOMAIN outputs : outputs'[k] = outputs[k] /\ outputs[k] \in Output
         /\ outputs'[n] = o
         /\ n \in DOMAIN dataset
<1>1. Len(outputs) \in Nat /\ DOMAIN outputs = 1..Len(outputs) /\ outputs \in [1..Len(outputs) -> Output]
  BY LenProperties DEF PartlyRead
<1>2. /\ outputs' \in Seq(Output) /\ Len(outputs') = Len(outputs) + 1
      /\ \A k \in 1..Len(outputs) : outputs'[k] = outputs[k]
      /\ outputs'[Len(outputs) + 1] = o
  BY AppendProperties DEF PartlyRead
<1>3. DOMAIN outputs' = 1..(Len(outputs) + 1)
  BY <1>2, LenProperties
<1>4. Len(dataset) \in Nat /\ DOMAIN dataset = 1..Len(dataset)
  BY Labels DEF PartlyRead
<1>. QED  BY <1>1, <1>2, <1>3, <1>4 DEF Evaluating, Case

LEMMA AnsweredTypes ==
  ASSUME PartlyRead
  PROVE  /\ IsFiniteSet(Answered) /\ IsFiniteSet(AnsweredFields)
         /\ Answered \subseteq DOMAIN outputs
         /\ Answered \subseteq DOMAIN dataset
         /\ \A n \in Answered : outputs[n].draft \in Drafts
<1>1. Len(outputs) \in Nat /\ DOMAIN outputs = 1..Len(outputs) /\ outputs \in [1..Len(outputs) -> Output]
  BY LenProperties DEF PartlyRead
<1>2. Len(dataset) \in Nat /\ DOMAIN dataset = 1..Len(dataset)
  BY Labels DEF PartlyRead
<1>3. Answered \subseteq DOMAIN outputs
  BY DEF Answered
<1>4. IsFiniteSet(Answered)
  <2>1. IsFiniteSet(DOMAIN outputs)
    BY <1>1, FS_Interval
  <2>. QED  BY <1>3, <2>1, FS_Subset
<1>5. IsFiniteSet(AnsweredFields)
  BY <1>4, FS_Product, EvaluationAssumption DEF AnsweredFields
<1>6. Answered \subseteq DOMAIN dataset
  BY <1>1, <1>2, <1>3 DEF PartlyRead
<1>7. ASSUME NEW n \in Answered
      PROVE  outputs[n].draft \in Drafts
  <2>1. outputs[n] \in Output /\ outputs[n].kind = "draft"
    BY <1>1, <1>3 DEF Answered
  <2>2. outputs[n] \in [kind : {"draft"}, draft : Drafts]
    BY <2>1 DEF Output
  <2>. QED  BY <2>2
<1>. QED  BY <1>3, <1>4, <1>5, <1>6, <1>7

(* A failed case counts for its own counter only.                          *)
LEMMA NotAnswered ==
  ASSUME PartlyRead, Evaluating, NEW n, n = Case, NEW o \in Output, o.kind # "draft",
         outputs' = Append(outputs, o), dataset' = dataset
  PROVE  /\ Answered' = Answered
         /\ \A f \in RequiredFields : Exact(f)' = Exact(f)
         /\ Abstained' = Abstained /\ Unlabelled' = Unlabelled
         /\ {k \in Answered : Confirmed(k)}' = {k \in Answered : Confirmed(k)}
         /\ \A k \in DOMAIN outputs : Correct(k)' <=> Correct(k)
         /\ ~Correct(n)'
<1>1. /\ DOMAIN outputs' = DOMAIN outputs \cup {n}
      /\ \A k \in DOMAIN outputs : outputs'[k] = outputs[k]
      /\ outputs'[n] = o
  BY NextCase
<1>2. Answered' = Answered
  BY <1>1 DEF Answered
<1>3. \A k \in Answered : outputs'[k] = outputs[k]
  BY <1>1 DEF Answered
<1>4. \A k \in Answered : Confirmed(k)' <=> Confirmed(k)
  BY <1>3 DEF Confirmed
<1>5. \A f \in RequiredFields : Exact(f)' = Exact(f)
  BY <1>2, <1>3 DEF Exact
<1>6. AnsweredFields' = AnsweredFields /\ \A p \in AnsweredFields : outputs'[p[1]] = outputs[p[1]]
  BY <1>2, <1>3 DEF AnsweredFields
<1>7. Abstained' = Abstained /\ Unlabelled' = Unlabelled
  BY <1>6 DEF Abstained, Unlabelled
<1>8. {k \in Answered : Confirmed(k)}' = {k \in Answered : Confirmed(k)}
  BY <1>2, <1>4
<1>9. \A k \in DOMAIN outputs : Correct(k)' <=> Correct(k)
  BY <1>2, <1>3, <1>4 DEF Correct
<1>10. ~Correct(n)'
  BY <1>1 DEF Correct, Answered
<1>. QED  BY <1>2, <1>5, <1>7, <1>8, <1>9, <1>10

(* A draft counts for what its body compares.                              *)
LEMMA DraftAnswered ==
  ASSUME PartlyRead, Evaluating, NEW n, n = Case, NEW draft \in Drafts,
         outputs' = Append(outputs, [kind |-> "draft", draft |-> draft]), dataset' = dataset
  PROVE  /\ Answered' = Answered \cup {n} /\ n \notin Answered
         /\ \A f \in RequiredFields :
              Exact(f)' = Exact(f) \cup {k \in {n} : f \in Matched(draft, dataset[n])}
         /\ Abstained' = Abstained \cup ({n} \X Issues(draft.value))
         /\ Unlabelled' = Unlabelled \cup ({n} \X Issues(dataset[n]))
         /\ {k \in Answered : Confirmed(k)}'
              = {k \in Answered : Confirmed(k)}
                  \cup {k \in {n} : SameIssues(draft.issues, Issues(dataset[n]))}
         /\ \A k \in DOMAIN outputs : Correct(k)' <=> Correct(k)
         /\ Correct(n)' <=> FailureReasons(draft, dataset[n]) = {}
<1> DEFINE o == [kind |-> "draft", draft |-> draft]
<1>1. o \in Output /\ o.kind = "draft" /\ o.draft = draft
  BY DEF Output
<1> HIDE DEF o
<1>2. /\ DOMAIN outputs' = DOMAIN outputs \cup {n} /\ n \notin DOMAIN outputs
      /\ \A k \in DOMAIN outputs : outputs'[k] = outputs[k]
      /\ outputs'[n] = o
      /\ n \in DOMAIN dataset
  BY <1>1, NextCase DEF o
<1>3. Answered' = Answered \cup {n} /\ n \notin Answered
  BY <1>1, <1>2 DEF Answered
<1>4. \A k \in Answered : outputs'[k] = outputs[k]
  BY <1>2 DEF Answered
<1>5. \A k \in Answered : Confirmed(k)' <=> Confirmed(k)
  BY <1>4 DEF Confirmed
<1>6. Confirmed(n)' <=> SameIssues(draft.issues, Issues(dataset[n]))
  <2>1. draft.issues \in Seq(STRING) /\ IsFiniteSet(Issues(dataset[n]))
    BY EvaluationAssumption, FS_Subset DEF Issues
  <2>2. outputs'[n].draft = draft
    BY <1>1, <1>2
  <2>3. Confirmed(n)' <=> ListsEach(draft.issues, Issues(dataset[n]))
    BY <2>2 DEF Confirmed
  <2>. QED  BY <2>1, <2>3, IssuesConfirm
<1>7. \A f \in RequiredFields :
        Exact(f)' = Exact(f) \cup {k \in {n} : f \in Matched(draft, dataset[n])}
  BY <1>1, <1>2, <1>3, <1>4 DEF Exact, Matched
<1>8. AnsweredFields' = AnsweredFields \cup ({n} \X RequiredFields)
  BY <1>3 DEF AnsweredFields
<1>9. \A p \in AnsweredFields : p[1] \in Answered /\ outputs'[p[1]] = outputs[p[1]]
  BY <1>4 DEF AnsweredFields
<1>10. \A p \in {n} \X RequiredFields : p[1] = n /\ outputs'[p[1]].draft = draft
  BY <1>1, <1>2
<1>11. Abstained' = Abstained \cup ({n} \X Issues(draft.value))
  <2>1. Abstained' = Abstained
          \cup {p \in {n} \X RequiredFields : outputs'[p[1]].draft.value[p[2]] = "none"}
    BY <1>8, <1>9 DEF Abstained
  <2>2. {p \in {n} \X RequiredFields : outputs'[p[1]].draft.value[p[2]] = "none"}
          = {n} \X Issues(draft.value)
    BY <1>10 DEF Issues
  <2>. QED  BY <2>1, <2>2
<1>12. Unlabelled' = Unlabelled \cup ({n} \X Issues(dataset[n]))
  <2>1. Unlabelled' = Unlabelled
          \cup {p \in {n} \X RequiredFields : dataset[p[1]][p[2]] = "none"}
    BY <1>8 DEF Unlabelled
  <2>2. {p \in {n} \X RequiredFields : dataset[p[1]][p[2]] = "none"} = {n} \X Issues(dataset[n])
    BY DEF Issues
  <2>. QED  BY <2>1, <2>2
<1>13. {k \in Answered : Confirmed(k)}'
         = {k \in Answered : Confirmed(k)}
             \cup {k \in {n} : SameIssues(draft.issues, Issues(dataset[n]))}
  BY <1>3, <1>5, <1>6
<1>14. \A k \in DOMAIN outputs : Correct(k)' <=> Correct(k)
  BY <1>2, <1>3, <1>4, <1>5 DEF Correct
<1>15. Correct(n)' <=> FailureReasons(draft, dataset[n]) = {}
  <2>1. Correct(n)' <=> draft.value = dataset[n] /\ SameIssues(draft.issues, Issues(dataset[n]))
    BY <1>1, <1>2, <1>3, <1>6 DEF Correct
  <2>2. draft.value = dataset[n] <=> Matched(draft, dataset[n]) = RequiredFields
    <3>1. dataset[n] \in [RequiredFields -> {"none", "real", "impossible"}]
      BY <1>2, Labels DEF PartlyRead
    <3>2. draft.value \in [RequiredFields -> {"none", "real", "impossible", "other", "empty"}]
      BY EvaluationAssumption
    <3>. QED  BY <3>1, <3>2 DEF Matched
  <2>3. FailureReasons(draft, dataset[n]) = {} <=>
          /\ Matched(draft, dataset[n]) = RequiredFields
          /\ SameIssues(draft.issues, Issues(dataset[n]))
    BY DEF FailureReasons, Matched
  <2>. QED  BY <2>1, <2>2, <2>3
<1>. QED  BY <1>3, <1>7, <1>11, <1>12, <1>13, <1>14, <1>15

(* One more failure in the list.                                           *)
LEMMA FailureListed ==
  ASSUME PartlyRead, NEW n \in Nat, n = Case,
         NEW reasons \in SUBSET (RequiredFields \cup {"issues", "invalid_output", "extractor_error"}),
         Fail(reasons)
  PROVE  /\ failures' \in Seq(Failure) /\ failures' # <<>>
         /\ Len(failures) \in Nat /\ Len(failures') = Len(failures) + 1
         /\ {failures[k].id : k \in DOMAIN failures}' = {failures[k].id : k \in DOMAIN failures} \cup {n}
<1> DEFINE entry == [id |-> n, reasons |-> reasons]
<1>1. entry \in Failure /\ entry.id = n /\ failures' = Append(failures, entry)
  BY DEF Failure, Fail
<1> HIDE DEF entry
<1>2. Len(failures) \in Nat /\ DOMAIN failures = 1..Len(failures)
  BY LenProperties DEF PartlyRead
<1>3. /\ failures' \in Seq(Failure) /\ Len(failures') = Len(failures) + 1
      /\ \A k \in 1..Len(failures) : failures'[k] = failures[k]
      /\ failures'[Len(failures) + 1] = entry
  BY <1>1, AppendProperties DEF PartlyRead
<1>4. DOMAIN failures' = 1..(Len(failures) + 1)
  BY <1>2, <1>3, LenProperties
<1>5. \A id : id \in {failures[k].id : k \in DOMAIN failures}' <=>
               id \in {failures[k].id : k \in DOMAIN failures} \cup {n}
  BY <1>1, <1>2, <1>3, <1>4
<1>6. failures' # <<>>
  BY <1>2, <1>3, EmptySeq
<1>. QED  BY <1>2, <1>3, <1>5, <1>6

(* An extractor that throws or answers nonsense.                           *)
LEMMA ErrorStep ==
  ASSUME Tallied, ExtractorError \/ InvalidOutput
  PROVE  Tallied'
<1>1. Evaluating /\ dataset' = dataset /\ exit' = exit
  BY DEF ExtractorError, InvalidOutput
<1>2. PICK kind \in {"extractor_error", "invalid_output"} :
        /\ outputs' = Append(outputs, [kind |-> kind])
        /\ Fail({kind})
  BY DEF ExtractorError, InvalidOutput
<1> DEFINE o == [kind |-> kind]
<1>3. o \in Output /\ o.kind # "draft" /\ outputs' = Append(outputs, o)
  BY <1>2 DEF Output
<1> HIDE DEF o
<1>4. PICK n \in Nat : n = Case
  BY LenProperties DEF Tallied, PartlyRead, Case
<1>5. /\ outputs' \in Seq(Output) /\ Len(outputs') = n /\ n = Len(outputs) + 1
      /\ Len(outputs) \in Nat /\ Len(outputs') <= Len(dataset)
      /\ DOMAIN outputs' = DOMAIN outputs \cup {n} /\ n \notin DOMAIN outputs
  BY <1>1, <1>3, <1>4, NextCase DEF Tallied, Case
<1>6. /\ Answered' = Answered
      /\ \A f \in RequiredFields : Exact(f)' = Exact(f)
      /\ Abstained' = Abstained /\ Unlabelled' = Unlabelled
      /\ {k \in Answered : Confirmed(k)}' = {k \in Answered : Confirmed(k)}
      /\ \A k \in DOMAIN outputs : Correct(k)' <=> Correct(k)
      /\ ~Correct(n)'
  BY <1>1, <1>3, <1>4, NotAnswered DEF Tallied
<1>7. /\ failures' \in Seq(Failure) /\ failures' # <<>>
      /\ Len(failures) \in Nat /\ Len(failures') = Len(failures) + 1
      /\ {failures[k].id : k \in DOMAIN failures}' = {failures[k].id : k \in DOMAIN failures} \cup {n}
  BY <1>2, <1>4, FailureListed DEF Tallied
<1>8. /\ report' \in Counters
      /\ report'.invalidOutputs + report'.extractorErrors
           = report.invalidOutputs + report.extractorErrors + 1
      /\ report'.exact = report.exact /\ report'.abstentions = report.abstentions
      /\ report'.correctAbstentions = report.correctAbstentions
      /\ report'.falsePositives = report.falsePositives
      /\ report'.confirmation = report.confirmation /\ report'.passed = report.passed
  <2>1. report \in Counters
    BY DEF Tallied, PartlyRead
  <2>2. CASE report' = [report EXCEPT !.extractorErrors = @ + 1]
    BY <2>1, <2>2 DEF Counters
  <2>3. CASE report' = [report EXCEPT !.invalidOutputs = @ + 1]
    BY <2>1, <2>3 DEF Counters
  <2>. QED  BY <2>2, <2>3 DEF ExtractorError, InvalidOutput
<1>9. PartlyRead'
  BY <1>1, <1>5, <1>7, <1>8 DEF Tallied, PartlyRead
<1>10. Cardinality(Answered) \in Nat
  BY AnsweredTypes, FS_CardinalityType DEF Tallied
<1>11. Counted'
  <2>1. \A f \in RequiredFields : report'.exact[f] = Cardinality(Exact(f)')
    BY <1>6, <1>8 DEF Tallied, Counted
  <2>2. /\ report'.abstentions = Cardinality(Abstained')
        /\ report'.abstentions - report'.correctAbstentions = Cardinality(Abstained' \ Unlabelled')
        /\ report'.falsePositives = Cardinality(Unlabelled' \ Abstained')
    BY <1>6, <1>8 DEF Tallied, Counted
  <2>3. report'.confirmation = Cardinality({k \in Answered : Confirmed(k)}')
    BY <1>6, <1>8 DEF Tallied, Counted
  <2>4. report'.invalidOutputs + report'.extractorErrors + Cardinality(Answered') = Len(outputs')
    <3>1. report.invalidOutputs \in Nat /\ report.extractorErrors \in Nat
      BY DEF Tallied, PartlyRead, Counters
    <3>2. report.invalidOutputs + report.extractorErrors + Cardinality(Answered) = Len(outputs)
      BY DEF Tallied, Counted
    <3>. QED  BY <1>5, <1>6, <1>8, <1>10, <3>1, <3>2
  <2>. QED  BY <2>1, <2>2, <2>3, <2>4 DEF Counted
<1>12. Listed'
  <2>1. {k \in DOMAIN outputs : ~Correct(k)}' = {k \in DOMAIN outputs : ~Correct(k)} \cup {n}
    BY <1>5, <1>6
  <2>2. {failures[k].id : k \in DOMAIN failures}' = {k \in DOMAIN outputs : ~Correct(k)}'
    BY <1>7, <2>1 DEF Tallied, Listed
  <2>3. report.passed \in Nat /\ report.passed + Len(failures) = Len(outputs)
    BY DEF Tallied, Listed, PartlyRead, Counters
  <2>4. report'.passed + Len(failures') = Len(outputs')
    BY <1>5, <1>7, <1>8, <2>3
  <2>. QED  BY <2>2, <2>4 DEF Listed
<1>13. Ending'
  BY <1>1, <1>5 DEF Evaluating, Tallied, Ending
<1>. QED  BY <1>9, <1>11, <1>12, <1>13 DEF Tallied

(* What a comparison does to the counters.                                 *)
LEMMA CompareCounts ==
  ASSUME PartlyRead, NEW n, n = Case, n \in DOMAIN dataset, NEW draft \in Drafts, Compare(draft)
  PROVE  LET expected == dataset[n]
             absent == Issues(draft.value)
             reasons == FailureReasons(draft, expected)
         IN /\ report' \in Counters
            /\ \A f \in RequiredFields : report'.exact[f] =
                 report.exact[f] + IF f \in Matched(draft, expected) THEN 1 ELSE 0
            /\ report'.abstentions = report.abstentions + Cardinality(absent)
            /\ report'.correctAbstentions
                 = report.correctAbstentions + Cardinality(absent \cap Issues(expected))
            /\ report'.falsePositives
                 = report.falsePositives + Cardinality(Issues(expected) \ absent)
            /\ report'.confirmation = report.confirmation + IF "issues" \in reasons THEN 0 ELSE 1
            /\ report'.passed = report.passed + IF reasons = {} THEN 1 ELSE 0
            /\ report'.invalidOutputs = report.invalidOutputs
            /\ report'.extractorErrors = report.extractorErrors
<1> DEFINE expected == dataset[n]
           absent == Issues(draft.value)
           reasons == FailureReasons(draft, expected)
           a == Cardinality(absent)
           ca == Cardinality(absent \cap Issues(expected))
           fp == Cardinality(Issues(expected) \ absent)
           c == IF "issues" \in reasons THEN 0 ELSE 1
           p == IF reasons = {} THEN 1 ELSE 0
           exact == [f \in RequiredFields |->
                       report.exact[f] + IF f \in Matched(draft, expected) THEN 1 ELSE 0]
           newA == report.abstentions + a
           newCA == report.correctAbstentions + ca
           newFP == report.falsePositives + fp
           newC == report.confirmation + c
           newP == report.passed + p
<1>1. report' = [report EXCEPT !.exact = exact, !.abstentions = newA,
                               !.correctAbstentions = newCA, !.falsePositives = newFP,
                               !.confirmation = newC, !.passed = newP]
  BY Zenon DEF Compare
<1>2. a \in Nat /\ ca \in Nat /\ fp \in Nat /\ c \in Nat /\ p \in Nat
  BY EvaluationAssumption, FS_Subset, FS_CardinalityType DEF Issues
<1>3. report \in Counters /\ exact \in [RequiredFields -> Nat]
  BY DEF PartlyRead, Counters
<1>4. \A f \in RequiredFields :
        exact[f] = report.exact[f] + IF f \in Matched(draft, expected) THEN 1 ELSE 0
  OBVIOUS
<1> HIDE DEF a, ca, fp, c, p, exact
<1>5. newA \in Nat /\ newCA \in Nat /\ newFP \in Nat /\ newC \in Nat /\ newP \in Nat
  BY <1>2, <1>3 DEF Counters
<1> HIDE DEF newA, newCA, newFP, newC, newP
<1>6. /\ report' \in Counters
      /\ report'.exact = exact /\ report'.abstentions = newA
      /\ report'.correctAbstentions = newCA /\ report'.falsePositives = newFP
      /\ report'.confirmation = newC /\ report'.passed = newP
      /\ report'.invalidOutputs = report.invalidOutputs
      /\ report'.extractorErrors = report.extractorErrors
  BY <1>1, <1>3, <1>5 DEF Counters
<1>. QED  BY <1>4, <1>6 DEF a, ca, fp, c, p, newA, newCA, newFP, newC, newP

(* An extractor that answers a draft.                                      *)
LEMMA CompareStep ==
  ASSUME Tallied, NEW draft \in Drafts, Compare(draft)
  PROVE  Tallied'
<1>1. Evaluating /\ dataset' = dataset /\ exit' = exit
      /\ outputs' = Append(outputs, [kind |-> "draft", draft |-> draft])
  BY DEF Compare
<1>2. PICK n \in Nat : n = Case
  BY LenProperties DEF Tallied, PartlyRead, Case
<1> DEFINE expected == dataset[n]
           absent == Issues(draft.value)
           missing == Issues(expected)
           reasons == FailureReasons(draft, expected)
<1>3. /\ outputs' \in Seq(Output) /\ Len(outputs') = n /\ n = Len(outputs) + 1
      /\ Len(outputs) \in Nat /\ Len(outputs') <= Len(dataset)
      /\ DOMAIN outputs' = DOMAIN outputs \cup {n} /\ n \notin DOMAIN outputs
      /\ n \in DOMAIN dataset
  <2>1. [kind |-> "draft", draft |-> draft] \in Output
    BY DEF Output
  <2>. QED  BY <1>1, <1>2, <2>1, NextCase DEF Tallied, Case
<1>4. /\ Answered' = Answered \cup {n} /\ n \notin Answered
      /\ \A f \in RequiredFields :
           Exact(f)' = Exact(f) \cup {k \in {n} : f \in Matched(draft, expected)}
      /\ Abstained' = Abstained \cup ({n} \X absent)
      /\ Unlabelled' = Unlabelled \cup ({n} \X missing)
      /\ {k \in Answered : Confirmed(k)}'
           = {k \in Answered : Confirmed(k)} \cup {k \in {n} : SameIssues(draft.issues, missing)}
      /\ \A k \in DOMAIN outputs : Correct(k)' <=> Correct(k)
      /\ Correct(n)' <=> reasons = {}
  BY <1>1, <1>2, DraftAnswered DEF Tallied
<1>5. /\ report' \in Counters
      /\ \A f \in RequiredFields : report'.exact[f] =
           report.exact[f] + IF f \in Matched(draft, expected) THEN 1 ELSE 0
      /\ report'.abstentions = report.abstentions + Cardinality(absent)
      /\ report'.correctAbstentions = report.correctAbstentions + Cardinality(absent \cap missing)
      /\ report'.falsePositives = report.falsePositives + Cardinality(missing \ absent)
      /\ report'.confirmation = report.confirmation + IF "issues" \in reasons THEN 0 ELSE 1
      /\ report'.passed = report.passed + IF reasons = {} THEN 1 ELSE 0
      /\ report'.invalidOutputs = report.invalidOutputs
      /\ report'.extractorErrors = report.extractorErrors
  BY <1>2, <1>3, CompareCounts DEF Tallied
<1>6. IsFiniteSet(absent) /\ IsFiniteSet(missing)
      /\ IsFiniteSet(Answered) /\ IsFiniteSet(Abstained) /\ IsFiniteSet(Unlabelled)
  BY AnsweredTypes, EvaluationAssumption, FS_Subset DEF Tallied, Issues, Abstained, Unlabelled
<1>7. \A p \in Abstained \cup Unlabelled : p[1] # n
  BY <1>4 DEF Abstained, Unlabelled, AnsweredFields
<1>8. "issues" \in reasons <=> ~SameIssues(draft.issues, missing)
  BY EvaluationAssumption DEF FailureReasons
<1>9. reasons \in SUBSET (RequiredFields \cup {"issues", "invalid_output", "extractor_error"})
  BY DEF FailureReasons
<1>10. /\ report.abstentions \in Nat /\ report.correctAbstentions \in Nat
       /\ report.falsePositives \in Nat /\ report.confirmation \in Nat /\ report.passed \in Nat
       /\ report.invalidOutputs \in Nat /\ report.extractorErrors \in Nat
       /\ \A f \in RequiredFields : report.exact[f] \in Nat
  BY DEF Tallied, PartlyRead, Counters
<1> HIDE DEF expected, absent, missing, reasons
<1>11. PartlyRead' /\ Listed'
  <2>1. CASE reasons = {}
    <3>1. failures' = failures
      BY <1>2, <2>1 DEF Compare, reasons, expected
    <3>2. PartlyRead'
      BY <1>1, <1>3, <1>5, <3>1 DEF Tallied, PartlyRead
    <3>3. {k \in DOMAIN outputs : ~Correct(k)}' = {k \in DOMAIN outputs : ~Correct(k)}
      BY <1>3, <1>4, <2>1
    <3>4. {failures[k].id : k \in DOMAIN failures}' = {k \in DOMAIN outputs : ~Correct(k)}'
      BY <3>1, <3>3 DEF Tallied, Listed
    <3>5. report'.passed + Len(failures') = Len(outputs')
      <4>1. Len(failures) \in Nat /\ report.passed + Len(failures) = Len(outputs)
        BY LenProperties DEF Tallied, PartlyRead, Listed
      <4>. QED  BY <1>3, <1>5, <1>10, <2>1, <3>1, <4>1
    <3>. QED  BY <3>2, <3>4, <3>5 DEF Listed
  <2>2. CASE reasons # {}
    <3>1. Fail(reasons)
      BY <1>2, <2>2 DEF Compare, reasons, expected
    <3>2. /\ failures' \in Seq(Failure)
          /\ Len(failures) \in Nat /\ Len(failures') = Len(failures) + 1
          /\ {failures[k].id : k \in DOMAIN failures}' = {failures[k].id : k \in DOMAIN failures} \cup {n}
      BY <1>2, <1>9, <3>1, FailureListed DEF Tallied
    <3>3. PartlyRead'
      BY <1>1, <1>3, <1>5, <3>2 DEF Tallied, PartlyRead
    <3>4. {k \in DOMAIN outputs : ~Correct(k)}' = {k \in DOMAIN outputs : ~Correct(k)} \cup {n}
      BY <1>3, <1>4, <2>2
    <3>5. {failures[k].id : k \in DOMAIN failures}' = {k \in DOMAIN outputs : ~Correct(k)}'
      BY <3>2, <3>4 DEF Tallied, Listed
    <3>6. report'.passed + Len(failures') = Len(outputs')
      <4>1. report.passed + Len(failures) = Len(outputs)
        BY DEF Tallied, Listed
      <4>2. report'.passed = report.passed
        BY <1>5, <1>10, <2>2
      <4>3. report.passed \in Nat /\ Len(outputs') = Len(outputs) + 1
        BY <1>3, <1>10
      <4>. QED  BY <3>2, <4>1, <4>2, <4>3
    <3>. QED  BY <3>3, <3>5, <3>6 DEF Listed
  <2>. QED  BY <2>1, <2>2
<1>12. Counted'
  <2>1. \A f \in RequiredFields : report'.exact[f] = Cardinality(Exact(f)')
    <3> SUFFICES ASSUME NEW f \in RequiredFields
                 PROVE  report'.exact[f] = Cardinality(Exact(f)')
      OBVIOUS
    <3>1. IsFiniteSet(Exact(f)) /\ n \notin Exact(f)
      BY <1>4, <1>6, FS_Subset DEF Exact
    <3>2. Cardinality(Exact(f) \cup {n}) = Cardinality(Exact(f)) + 1
      BY <3>1, FS_AddElement
    <3>3. report.exact[f] = Cardinality(Exact(f))
      BY DEF Tallied, Counted
    <3>4. CASE f \in Matched(draft, expected)
      <4>1. Exact(f)' = Exact(f) \cup {n}
        BY <1>4, <3>4
      <4>. QED  BY <1>5, <3>2, <3>3, <3>4, <4>1
    <3>5. CASE f \notin Matched(draft, expected)
      <4>1. Exact(f)' = Exact(f)
        BY <1>4, <3>5
      <4>. QED  BY <1>5, <1>10, <3>3, <3>5, <4>1
    <3>. QED  BY <3>4, <3>5
  <2>2. report'.abstentions = Cardinality(Abstained')
    <3>1. Cardinality(Abstained') = Cardinality(Abstained) + Cardinality(absent)
      BY <1>4, <1>6, <1>7, OneMoreCase
    <3>. QED  BY <1>5, <3>1 DEF Tallied, Counted
  <2>3. report'.abstentions - report'.correctAbstentions = Cardinality(Abstained' \ Unlabelled')
    <3>1. Abstained' \ Unlabelled' = (Abstained \ Unlabelled) \cup ({n} \X (absent \ missing))
      BY <1>4, <1>7
    <3>2. IsFiniteSet(Abstained \ Unlabelled) /\ IsFiniteSet(absent \ missing)
      BY <1>6, FS_Subset
    <3> DEFINE S == Abstained \ Unlabelled
               T == absent \ missing
    <3>3. Cardinality(Abstained' \ Unlabelled') = Cardinality(S) + Cardinality(T)
      <4>1. \A p \in S : p[1] # n
        BY <1>7
      <4>2. IsFiniteSet(S) /\ IsFiniteSet(T) /\ Abstained' \ Unlabelled' = S \cup ({n} \X T)
        BY <3>1, <3>2
      <4> HIDE DEF S, T
      <4>3. Cardinality(S \cup ({n} \X T)) = Cardinality(S) + Cardinality(T)
        BY <4>1, <4>2, OneMoreCase
      <4>. QED  BY <4>2, <4>3
    <3>4. Cardinality(absent \ missing) = Cardinality(absent) - Cardinality(absent \cap missing)
      BY <1>6, FS_Difference
    <3>5. Cardinality(absent) \in Nat /\ Cardinality(absent \cap missing) \in Nat
      BY <1>6, FS_Subset, FS_CardinalityType
    <3>6. report.abstentions - report.correctAbstentions = Cardinality(Abstained \ Unlabelled)
      BY DEF Tallied, Counted
    <3>. QED  BY <1>5, <1>10, <3>3, <3>4, <3>5, <3>6
  <2>4. report'.falsePositives = Cardinality(Unlabelled' \ Abstained')
    <3>1. Unlabelled' \ Abstained' = (Unlabelled \ Abstained) \cup ({n} \X (missing \ absent))
      BY <1>4, <1>7
    <3>2. IsFiniteSet(Unlabelled \ Abstained) /\ IsFiniteSet(missing \ absent)
      BY <1>6, FS_Subset
    <3> DEFINE S == Unlabelled \ Abstained
               T == missing \ absent
    <3>3. Cardinality(Unlabelled' \ Abstained') = Cardinality(S) + Cardinality(T)
      <4>1. \A p \in S : p[1] # n
        BY <1>7
      <4>2. IsFiniteSet(S) /\ IsFiniteSet(T) /\ Unlabelled' \ Abstained' = S \cup ({n} \X T)
        BY <3>1, <3>2
      <4> HIDE DEF S, T
      <4>3. Cardinality(S \cup ({n} \X T)) = Cardinality(S) + Cardinality(T)
        BY <4>1, <4>2, OneMoreCase
      <4>. QED  BY <4>2, <4>3
    <3>. QED  BY <1>5, <3>3 DEF Tallied, Counted
  <2>5. report'.confirmation = Cardinality({k \in Answered : Confirmed(k)}')
    <3> DEFINE C == {k \in Answered : Confirmed(k)}
    <3>1. IsFiniteSet(C) /\ n \notin C
      BY <1>4, <1>6, FS_Subset
    <3>2. report.confirmation = Cardinality(C)
      BY DEF Tallied, Counted
    <3>3. C' = C \cup {k \in {n} : SameIssues(draft.issues, missing)}
      BY <1>4
    <3> HIDE DEF C
    <3>4. Cardinality(C \cup {n}) = Cardinality(C) + 1
      BY <3>1, FS_AddElement
    <3>5. CASE SameIssues(draft.issues, missing)
      <4>1. C' = C \cup {n}
        BY <3>3, <3>5
      <4>2. report'.confirmation = report.confirmation + 1
        BY <1>5, <1>8, <3>5
      <4>. QED  BY <3>2, <3>4, <4>1, <4>2 DEF C
    <3>6. CASE ~SameIssues(draft.issues, missing)
      <4>1. C' = C
        BY <3>3, <3>6
      <4>2. report'.confirmation = report.confirmation
        BY <1>5, <1>8, <1>10, <3>6
      <4>. QED  BY <3>2, <4>1, <4>2 DEF C
    <3>. QED  BY <3>5, <3>6
  <2>6. report'.invalidOutputs + report'.extractorErrors + Cardinality(Answered') = Len(outputs')
    <3>1. Cardinality(Answered') = Cardinality(Answered) + 1 /\ Cardinality(Answered) \in Nat
      BY <1>4, <1>6, FS_AddElement, FS_CardinalityType
    <3>2. report.invalidOutputs + report.extractorErrors + Cardinality(Answered) = Len(outputs)
      BY DEF Tallied, Counted
    <3>3. report'.invalidOutputs = report.invalidOutputs /\ report'.extractorErrors = report.extractorErrors
      BY <1>5
    <3>4. Len(outputs') = Len(outputs) + 1
      BY <1>3
    <3>. QED  BY <1>10, <3>1, <3>2, <3>3, <3>4
  <2>. QED  BY <2>1, <2>2, <2>3, <2>4, <2>5, <2>6 DEF Counted
<1>13. Ending'
  BY <1>1 DEF Evaluating, Tallied, Ending
<1>. QED  BY <1>11, <1>12, <1>13 DEF Tallied

LEMMA TalliedInit ==
  EvaluationInit => Tallied
<1> SUFFICES ASSUME EvaluationInit
             PROVE  Tallied
  OBVIOUS
<1>1. dataset = <<>> /\ outputs = <<>> /\ failures = <<>> /\ exit = "running"
  BY DEF EvaluationInit, NoDataset
<1>2. /\ report.passed = 0 /\ report.abstentions = 0 /\ report.correctAbstentions = 0
      /\ report.falsePositives = 0 /\ report.confirmation = 0
      /\ report.invalidOutputs = 0 /\ report.extractorErrors = 0
      /\ \A f \in RequiredFields : report.exact[f] = 0
      /\ report \in Counters
  BY DEF EvaluationInit, Counters
<1>3. Answered = {} /\ AnsweredFields = {} /\ DOMAIN outputs = {} /\ DOMAIN failures = {}
  BY <1>1 DEF Answered, AnsweredFields
<1>4. Cardinality({}) = 0 /\ Len(<<>>) = 0
  BY FS_EmptySet
<1>5. PartlyRead
  BY <1>1, <1>2, <1>4, EmptySeq DEF PartlyRead, NoDataset
<1>6. Counted
  <2>1. \A f \in RequiredFields : Exact(f) = {}
    BY <1>3 DEF Exact
  <2>2. Abstained = {} /\ Unlabelled = {} /\ {k \in Answered : Confirmed(k)} = {}
    BY <1>3 DEF Abstained, Unlabelled
  <2>3. Abstained \ Unlabelled = {} /\ Unlabelled \ Abstained = {}
    BY <2>2
  <2>4. Len(outputs) = 0 /\ Cardinality(Answered) = 0
    BY <1>1, <1>3, <1>4
  <2>5. report.abstentions - report.correctAbstentions = 0
        /\ report.invalidOutputs + report.extractorErrors + 0 = 0
    BY <1>2
  <2>6. \A f \in RequiredFields : report.exact[f] = Cardinality(Exact(f))
    BY <1>2, <1>4, <2>1
  <2>. QED  BY <1>2, <1>4, <2>2, <2>3, <2>4, <2>5, <2>6 DEF Counted
<1>7. Listed
  BY <1>1, <1>2, <1>3, <1>4 DEF Listed
<1>8. Ending
  BY <1>1 DEF Ending
<1>. QED  BY <1>5, <1>6, <1>7, <1>8 DEF Tallied

(* Loading: nothing has been read yet, and nothing is counted.             *)
LEMMA LoadStep ==
  ASSUME Tallied, Load
  PROVE  Tallied'
<1>1. dataset = <<>> /\ dataset' \in EvaluationDatasets
      /\ outputs' = outputs /\ report' = report /\ failures' = failures /\ exit' = exit
      /\ exit = "running"
  BY DEF Load, NoDataset
<1>2. Len(outputs) = 0 /\ DOMAIN outputs = {}
  <2>1. Len(outputs) \in Nat /\ Len(outputs) <= 0 /\ DOMAIN outputs = 1..Len(outputs)
    BY <1>1, LenProperties DEF Tallied, PartlyRead
  <2>. QED  BY <2>1
<1>3. Answered = {} /\ Answered' = {} /\ AnsweredFields = {} /\ AnsweredFields' = {}
  BY <1>1, <1>2 DEF Answered, AnsweredFields
<1>4. PartlyRead'
  <2>1. Len(dataset') \in Nat
    BY <1>1, Labels
  <2>. QED  BY <1>1, <1>2, <2>1 DEF Tallied, PartlyRead
<1>5. Counted'
  <2>1. \A f \in RequiredFields : Exact(f)' = Exact(f)
    BY <1>3 DEF Exact
  <2>2. Abstained' = Abstained /\ Unlabelled' = Unlabelled
    BY <1>3 DEF Abstained, Unlabelled
  <2>3. {k \in Answered : Confirmed(k)}' = {k \in Answered : Confirmed(k)}
    BY <1>3
  <2>. QED  BY <1>1, <1>3, <2>1, <2>2, <2>3 DEF Tallied, Counted
<1>6. Listed'
  <2>1. {k \in DOMAIN outputs : ~Correct(k)}' = {k \in DOMAIN outputs : ~Correct(k)}
    BY <1>1, <1>2
  <2>. QED  BY <1>1, <2>1 DEF Tallied, Listed
<1>7. Ending'
  BY <1>1 DEF Ending
<1>. QED  BY <1>4, <1>5, <1>6, <1>7 DEF Tallied

(* A step that counts nothing.                                             *)
LEMMA SameTally ==
  ASSUME Tallied, UNCHANGED <<dataset, outputs, report, failures>>,
         exit' \in {"running", "passed", "failed", "error"}, Ending'
  PROVE  Tallied'
<1>1. PartlyRead'
  BY DEF Tallied, PartlyRead
<1>2. Answered' = Answered /\ AnsweredFields' = AnsweredFields
  BY DEF Answered, AnsweredFields
<1>3. Counted'
  <2>1. \A f \in RequiredFields : Exact(f)' = Exact(f)
    BY <1>2 DEF Exact
  <2>2. Abstained' = Abstained /\ Unlabelled' = Unlabelled
    BY <1>2 DEF Abstained, Unlabelled
  <2>3. {k \in Answered : Confirmed(k)}' = {k \in Answered : Confirmed(k)}
    BY <1>2 DEF Confirmed
  <2>. QED  BY <1>2, <2>1, <2>2, <2>3 DEF Tallied, Counted
<1>4. Listed'
  <2>1. {k \in DOMAIN outputs : ~Correct(k)}' = {k \in DOMAIN outputs : ~Correct(k)}
    BY <1>2 DEF Correct, Confirmed
  <2>. QED  BY <2>1 DEF Tallied, Listed
<1>. QED  BY <1>1, <1>3, <1>4 DEF Tallied

(* The tally is right after every case, whatever the extractor does.       *)
THEOREM AlwaysTallied ==
  EvaluationSpec => []Tallied
<1>1. ASSUME Tallied, [EvaluationNext]_evaluation
      PROVE  Tallied'
  <2>1. CASE Load
    BY <1>1, <2>1, LoadStep
  <2>2. CASE LoadFails
    <3>1. outputs = <<>>
      <4>1. Len(outputs) \in Nat /\ Len(outputs) <= 0
        BY <1>1, <2>2, LenProperties DEF LoadFails, NoDataset, Tallied, PartlyRead
      <4>. QED  BY <1>1, <4>1, EmptySeq DEF Tallied, PartlyRead
    <3>. QED  BY <1>1, <2>2, <3>1, SameTally DEF LoadFails, Ending
  <2>3. CASE Finish
    BY <1>1, <2>3, SameTally DEF Finish, Ending
  <2>4. CASE ExtractorError \/ InvalidOutput
    BY <1>1, <2>4, ErrorStep
  <2>5. CASE \E draft \in Drafts : Compare(draft)
    BY <1>1, <2>5, CompareStep
  <2>6. CASE UNCHANGED evaluation
    BY <1>1, <2>6, SameTally DEF evaluation, Tallied, PartlyRead, Ending
  <2>. QED  BY <1>1, <2>1, <2>2, <2>3, <2>4, <2>5, <2>6 DEF EvaluationNext
<1>. QED  BY <1>1, TalliedInit, PTL DEF EvaluationSpec

(* A dataset that passes: each draft is as it is labelled, so the pipeline *)
(* asks for what the label says is missing.                                *)
LEMMA PassedAsks ==
  ASSUME Tallied, exit = "passed", NEW n \in DOMAIN dataset
  PROVE  AskedFor(outputs[n].draft) =
           Issues(dataset[n]) \cup {f \in RequiredFields : dataset[n][f] = "impossible"}
<1>1. Len(outputs) = Len(dataset) /\ failures = <<>>
  BY DEF Tallied, Ending
<1>2. n \in DOMAIN outputs
  <2>1. DOMAIN dataset = 1..Len(dataset) /\ DOMAIN outputs = 1..Len(outputs)
    BY Labels, LenProperties DEF Tallied, PartlyRead
  <2>. QED  BY <1>1, <2>1
<1>3. Correct(n)
  <2>1. {failures[k].id : k \in DOMAIN failures} = {}
    BY <1>1
  <2>. QED  BY <1>2, <2>1 DEF Tallied, Listed
<1>4. outputs[n].draft.value = dataset[n]
      /\ ListsEach(outputs[n].draft.issues, Issues(dataset[n]))
  BY <1>3 DEF Correct, Confirmed
<1>5. \A f \in RequiredFields : dataset[n][f] \in {"none", "real", "impossible"}
  BY Labels DEF Tallied, PartlyRead
<1>6. {outputs[n].draft.issues[k] : k \in DOMAIN outputs[n].draft.issues} = Issues(dataset[n])
  BY <1>4 DEF ListsEach
<1>7. {f \in RequiredFields : dataset[n][f] \in {"none", "empty", "impossible"}}
        = Issues(dataset[n]) \cup {f \in RequiredFields : dataset[n][f] = "impossible"}
  BY <1>5 DEF Issues
<1>. QED  BY <1>4, <1>6, <1>7 DEF AskedFor

(* The counters and the list are what a recount finds, for every dataset   *)
(* and every extractor, and the exit code is the verdict: a command that   *)
(* ends with 0 has read every case, and for each the pipeline would have   *)
(* asked for exactly what the label says is missing.                       *)
THEOREM RecountHolds ==
  EvaluationSpec => []Recount
<1>1. Tallied => Recount
  BY PassedAsks DEF Tallied, Ending, Verdict, Recount
<1>. QED  BY <1>1, AlwaysTallied, PTL

=============================================================================
