--------------------------- MODULE ChallengeGate ----------------------------
(***************************************************************************)
(* The challenge that guards the parser: every change is measured on a     *)
(* frozen dataset, and CI lets it in when its report passes the baseline.  *)
(* A maintainer may then make the report the baseline of later changes.    *)
(*                                                                         *)
(* A field is compared as a whole: of an outcome the model keeps which     *)
(* fields matched and which were found missing.  Rates and intervals are   *)
(* left out, the gate compares numerators and denominators.                *)
(***************************************************************************)
EXTENDS Naturals, FiniteSets

CONSTANTS
  Fields,      \* the fields of a reservation that are labelled
  OtherIssue,  \* an issue that is not about one of them
  Datasets,    \* what was frozen: the expected missing fields and the
               \* category of each case
  Evaluators   \* identities of the evaluator

ASSUME GateAssumption ==
  /\ IsFiniteSet(Fields)
  /\ OtherIssue \notin Fields
  /\ Fields \cap {"route", "confirmation_fields", "invalid_output", "extractor_error"} = {}
  /\ \A d \in Datasets :
       /\ IsFiniteSet(DOMAIN d.missing)
       /\ \A c \in DOMAIN d.missing : d.missing[c] \subseteq Fields
       /\ DOMAIN d.category = DOMAIN d.missing

VARIABLES
  origin,    \* the report the first baseline was made from
  accepted,  \* the report of the last change that was let in
  baseline   \* the baseline file

vars == <<origin, accepted, baseline>>

Routes == {"created", "needs_confirmation"}

Failed == {"invalid_output", "extractor_error"}

Outcomes ==
  [kind : {"valid"}, matches : SUBSET Fields, missing : SUBSET (Fields \cup {OtherIssue})]
    \cup [kind : Failed, matches : {{}}, missing : {{}}]

(* What evaluateReservationChallenge may find, with any parser.            *)
Reports ==
  UNION {[dataset : {d}, evaluator : Evaluators, outcome : [DOMAIN d.missing -> Outcomes]]
           : d \in Datasets}

Cases(r) == DOMAIN r.dataset.missing
Expected(r, c) == r.dataset.missing[c]
Missing(r, c) == r.outcome[c].missing
Valid(r, C) == {c \in C : r.outcome[c].kind = "valid"}

Route(missing) == IF missing = {} THEN "created" ELSE "needs_confirmation"

Reasons(r, c) ==
  IF r.outcome[c].kind \in Failed THEN {r.outcome[c].kind}
  ELSE (Fields \ r.outcome[c].matches)
         \cup {x \in {"route"} : Route(Missing(r, c)) # Route(Expected(r, c))}
         \cup {x \in {"confirmation_fields"} : Missing(r, c) # Expected(r, c)}

(* Mutant of Failures: every case is listed.                               *)
FailuresAll(r) ==
  {[id |-> c, category |-> r.dataset.category[c], reasons |-> Reasons(r, c)] : c \in Cases(r)}

Failures(r) ==
  {[id |-> c, category |-> r.dataset.category[c], reasons |-> Reasons(r, c)]
     : c \in {x \in Cases(r) : Reasons(r, x) # {}}}

-----------------------------------------------------------------------------
(* The measures of the cases C.                                            *)

Proportion(part, whole) ==
  [numerator |-> Cardinality(part), denominator |-> Cardinality(whole)]

(* The fields F of the valid outcomes V, one by one or added up.           *)
FieldMetric(r, V, F) ==
  LET asked   == V \X F
      absent  == {p \in asked : p[2] \in Expected(r, p[1])}
      present == asked \ absent
  IN [exact         |-> Proportion({p \in asked : p[2] \in r.outcome[p[1]].matches}, asked),
      falsePositive |-> Proportion({p \in absent : p[2] \notin Missing(r, p[1])}, absent),
      falseNegative |-> Proportion({p \in present : p[2] \in Missing(r, p[1])}, present)]

AbstentionMetrics(r, V) ==
  LET predicted == {p \in V \X Fields : p[2] \in Missing(r, p[1])}
      expected  == {p \in V \X Fields : p[2] \in Expected(r, p[1])}
  IN [precision |-> Proportion(predicted \cap expected, predicted),
      recall    |-> Proportion(predicted \cap expected, expected)]

Routed(r, V, expected, actual) ==
  {c \in V : Route(Expected(r, c)) = expected /\ Route(Missing(r, c)) = actual}

RouteMetrics(r, V) ==
  [confusion |-> [e \in Routes |-> [a \in Routes |-> Cardinality(Routed(r, V, e, a))]],
   accuracy  |-> Proportion({c \in V : Route(Expected(r, c)) = Route(Missing(r, c))}, V)]

(* FF are the sets of fields that are measured together.                   *)
Measures(r, C, FF) ==
  LET V == Valid(r, C)
  IN [caseExact            |-> Proportion({c \in V : Reasons(r, c) = {}}, V),
      fields               |-> [F \in FF |-> FieldMetric(r, V, F)],
      abstention           |-> AbstentionMetrics(r, V),
      route                |-> RouteMetrics(r, V),
      confirmationSetExact |-> Proportion({c \in V : Missing(r, c) = Expected(r, c)}, V),
      failed               |-> [k \in Failed |-> Cardinality({c \in C : r.outcome[c].kind = k})]]

Categories(r) == {r.dataset.category[c] : c \in Cases(r)}

InCategory(r, k) == {c \in Cases(r) : r.dataset.category[c] = k}

Summary(r) ==
  [cases        |-> Cardinality(Cases(r)),
   validOutputs |-> Cardinality(Valid(r, Cases(r))),
   overall      |-> Measures(r, Cases(r), {Fields} \cup {{f} : f \in Fields}),
   byCategory   |-> [k \in Categories(r) |-> Measures(r, InCategory(r, k), {Fields})]]

CreateBaseline(r) ==
  [dataset |-> r.dataset, evaluator |-> r.evaluator, summary |-> Summary(r),
   knownFailures |-> Failures(r)]

-----------------------------------------------------------------------------
(* The gate: nothing was found that is worse than in the baseline.         *)

(* Mutant of CheckHigher: a rate may not go down, nor stay.                *)
CheckHigherStrict(current, base) ==
  base.denominator > 0 =>
    /\ current.denominator = 0 => base.numerator = 0
    /\ current.numerator * base.denominator > base.numerator * current.denominator

CheckHigher(current, base) ==
  base.denominator > 0 =>
    /\ current.denominator = 0 => base.numerator = 0
    /\ current.numerator * base.denominator >= base.numerator * current.denominator

CheckLower(current, base) ==
  IF base.denominator = 0
  THEN current.numerator = 0
  ELSE current.denominator > 0 =>
         current.numerator * base.denominator <= base.numerator * current.denominator

CompareAggregate(current, base) ==
  /\ CheckHigher(current.exact, base.exact)
  /\ CheckLower(current.falsePositive, base.falsePositive)
  /\ CheckLower(current.falseNegative, base.falseNegative)

CompareRoute(current, base) ==
  /\ CheckHigher(current.accuracy, base.accuracy)
  /\ \A e \in Routes, a \in Routes :
       IF e = a THEN current.confusion[e][a] >= base.confusion[e][a]
                ELSE current.confusion[e][a] <= base.confusion[e][a]

CompareMeasures(current, base) ==
  /\ CheckHigher(current.caseExact, base.caseExact)
  /\ \A F \in DOMAIN base.fields : CompareAggregate(current.fields[F], base.fields[F])
  /\ CheckHigher(current.abstention.precision, base.abstention.precision)
  /\ CheckHigher(current.abstention.recall, base.abstention.recall)
  /\ CompareRoute(current.route, base.route)
  /\ CheckHigher(current.confirmationSetExact, base.confirmationSetExact)
  /\ \A k \in Failed : current.failed[k] <= base.failed[k]

CompareSummary(current, base) ==
  /\ current.cases = base.cases
  /\ current.validOutputs >= base.validOutputs
  /\ CompareMeasures(current.overall, base.overall)
  /\ \A k \in DOMAIN base.byCategory :
       /\ k \in DOMAIN current.byCategory
       /\ CompareMeasures(current.byCategory[k], base.byCategory[k])

(* Mutant of Known: the reasons are not compared.                          *)
KnownById(failure, base) ==
  \E k \in base.knownFailures : k.id = failure.id /\ k.category = failure.category

Known(failure, base) ==
  \E k \in base.knownFailures :
    k.id = failure.id /\ k.category = failure.category /\ failure.reasons \subseteq k.reasons

VerifyBaseline(r, base) ==
  /\ r.dataset = base.dataset
  /\ r.evaluator = base.evaluator
  /\ CompareSummary(Summary(r), base.summary)
  /\ \A f \in Failures(r) : Known(f, base)

-----------------------------------------------------------------------------
Init ==
  /\ origin \in Reports
  /\ accepted = origin
  /\ baseline = CreateBaseline(origin)

(* CI runs the challenge on a change, and exits with 0.                    *)
Accept(r) ==
  /\ VerifyBaseline(r, baseline)
  /\ accepted' = r
  /\ UNCHANGED <<origin, baseline>>

Rebaseline ==
  /\ baseline' = CreateBaseline(accepted)
  /\ UNCHANGED <<origin, accepted>>

Next == Rebaseline \/ \E r \in Reports : Accept(r)

Spec == Init /\ [][Next]_vars

-----------------------------------------------------------------------------
(* The variables are reports and a baseline that its schema accepts: a     *)
(* known failure has a reason, and no case is listed twice.                *)
TypeOK ==
  /\ origin \in Reports
  /\ accepted \in Reports
  /\ baseline.dataset \in Datasets
  /\ baseline.evaluator \in Evaluators
  /\ \A k, l \in baseline.knownFailures :
       /\ k.reasons # {}
       /\ k.id = l.id => k = l

RightlyMissing(r, C) == {p \in C \X Fields : p[2] \in Missing(r, p[1]) \cap Expected(r, p[1])}
WronglyMissing(r, C) == {p \in C \X Fields : p[2] \in Missing(r, p[1]) \ Expected(r, p[1])}

AbstainsNoWorse(old, r, C) ==
  /\ Cardinality(RightlyMissing(r, C)) >= Cardinality(RightlyMissing(old, C))
  /\ Cardinality(WronglyMissing(r, C)) * Cardinality(RightlyMissing(old, C))
       <= Cardinality(WronglyMissing(old, C)) * Cardinality(RightlyMissing(r, C))

NothingLostSince(old, r) ==
  /\ r.dataset = old.dataset
  /\ \A c \in Cases(old) : Reasons(r, c) \subseteq Reasons(old, c)
  /\ \A k \in Categories(old) : AbstainsNoWorse(old, r, InCategory(old, k))

(* However many changes and baselines there were, nothing was lost since   *)
(* the first: no case fails for a new reason, and in no category are fewer *)
(* of the fields that are missing noticed, or is a larger share of what is *)
(* asked for asked in vain.                                                *)
NothingLost == NothingLostSince(origin, accepted)

(* One case is answered no worse: nothing that was right about it is wrong *)
(* now.  Of a case that was not answered nothing was right.                *)
NoWorse(r, base, c) ==
  \/ r.outcome[c] = base.outcome[c]
  \/ r.outcome[c].kind = "valid" /\ base.outcome[c].kind \in Failed
  \/ /\ r.outcome[c].kind = "valid" /\ base.outcome[c].kind = "valid"
     /\ base.outcome[c].matches \subseteq r.outcome[c].matches
     /\ Missing(base, c) \cap Expected(base, c) \subseteq Missing(r, c)
     /\ Missing(r, c) \ Expected(r, c) \subseteq Missing(base, c)
     /\ Route(Missing(base, c)) = Route(Expected(base, c)) =>
          Route(Missing(r, c)) = Route(Expected(r, c))

(* A case that was not answered is answered now, but not entirely right.   *)
HalfRight(r, base, c) ==
  base.outcome[c].kind \in Failed /\ r.outcome[c].kind = "valid" /\ Reasons(r, c) # {}

(* Of the reports that are no worse in any case than the one the baseline  *)
(* was made from, the gate lets in those in which every case that failed   *)
(* to be answered and is answered now is entirely right, and no others: a  *)
(* half-right answer in the place of a failure is turned away.             *)
ImprovementsPass ==
  baseline = CreateBaseline(accepted) =>
    \A r \in Reports :
      ( /\ r.dataset = accepted.dataset /\ r.evaluator = accepted.evaluator
        /\ \A c \in Cases(r) : NoWorse(r, accepted, c) )
      => (VerifyBaseline(r, baseline) <=> \A c \in Cases(r) : ~HalfRight(r, accepted, c))

=============================================================================
