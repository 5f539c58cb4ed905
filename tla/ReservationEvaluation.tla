------------------------ MODULE ReservationEvaluation -----------------------
(***************************************************************************)
(* The command that runs the parser over a labelled dataset: it counts, in *)
(* one pass over the cases, what the extractor got right, and its exit     *)
(* code stops a change in CI.                                              *)
(*                                                                         *)
(* A value is `real', an `other' one than expected, or one that the schema *)
(* of drafts lets through though it is `empty' or no calendar date.  The   *)
(* rates, which divide by the totals, are left out; a reason's place in    *)
(* its list is too.                                                        *)
(***************************************************************************)
EXTENDS Naturals, Sequences, FiniteSets

CONSTANTS
  RequiredFields,      \* REQUIRED_RESERVATION_FIELDS
  EvaluationDatasets,  \* what is expected: for each case, a value for each field
  Drafts               \* the drafts an extractor may answer

(* The dataset's schema: at least one case; its values are not empty.  The *)
(* fields expected to be missing are the expected issues.                  *)
ASSUME EvaluationAssumption ==
  /\ IsFiniteSet(RequiredFields) /\ "issues" \notin RequiredFields
  /\ \A d \in EvaluationDatasets :
       d \in Seq([RequiredFields -> {"none", "real", "impossible"}]) /\ d # <<>>
  /\ \A o \in Drafts :
       /\ o.value \in [RequiredFields -> {"none", "real", "impossible", "other", "empty"}]
       /\ o.issues \in Seq(STRING)

VARIABLES
  dataset,   \* the cases, once they are loaded
  outputs,   \* what the extractor did for the cases so far
  report,    \* the counters
  failures,  \* the list of failures
  exit       \* "running", or the exit code: passed (0), failed (1), error (2)

evaluation == <<dataset, outputs, report, failures, exit>>

NoDataset == <<>>

Issues(expected) == {f \in RequiredFields : expected[f] = "none"}

EvaluationInit ==
  /\ dataset = NoDataset /\ outputs = <<>> /\ failures = <<>>
  /\ report = [passed |-> 0, exact |-> [f \in RequiredFields |-> 0], falsePositives |-> 0,
               abstentions |-> 0, correctAbstentions |-> 0, confirmation |-> 0,
               invalidOutputs |-> 0, extractorErrors |-> 0]
  /\ exit = "running"

(* loadReservationEvaluationDataset                                        *)
Load ==
  /\ exit = "running" /\ dataset = NoDataset
  /\ dataset' \in EvaluationDatasets
  /\ UNCHANGED <<outputs, report, failures, exit>>

(* Too many arguments, or a file that is too large or not a dataset.       *)
LoadFails ==
  /\ exit = "running" /\ dataset = NoDataset
  /\ exit' = "error"
  /\ UNCHANGED <<dataset, outputs, report, failures>>

-----------------------------------------------------------------------------
Evaluating == exit = "running" /\ Len(outputs) < Len(dataset)

Case == Len(outputs) + 1

Fail(reasons) == failures' = Append(failures, [id |-> Case, reasons |-> reasons])

ExtractorError ==
  /\ Evaluating
  /\ outputs' = Append(outputs, [kind |-> "extractor_error"])
  /\ report' = [report EXCEPT !.extractorErrors = @ + 1]
  /\ Fail({"extractor_error"})
  /\ UNCHANGED <<dataset, exit>>

InvalidOutput ==
  /\ Evaluating
  /\ outputs' = Append(outputs, [kind |-> "invalid_output"])
  /\ report' = [report EXCEPT !.invalidOutputs = @ + 1]
  /\ Fail({"invalid_output"})
  /\ UNCHANGED <<dataset, exit>>

(* Mutant of SameIssues: both are made sets.                               *)
SameIssuesAsSets(actual, expected) == {actual[n] : n \in DOMAIN actual} = expected

(* sameIssues: an issue that is listed twice is not the same.              *)
SameIssues(actual, expected) ==
  Len(actual) = Cardinality(expected) /\ {actual[n] : n \in DOMAIN actual} = expected

Matched(draft, expected) == {f \in RequiredFields : draft.value[f] = expected[f]}

FailureReasons(draft, expected) ==
  (RequiredFields \ Matched(draft, expected))
    \cup {r \in {"issues"} : ~SameIssues(draft.issues, Issues(expected))}

(* The body of the loop, for an output that is a draft.                    *)
Compare(draft) ==
  LET expected == dataset[Case]
      absent == Issues(draft.value)
      reasons == FailureReasons(draft, expected)
  IN /\ Evaluating
     /\ outputs' = Append(outputs, [kind |-> "draft", draft |-> draft])
     /\ report' = [report EXCEPT
          !.exact = [f \in RequiredFields |->
                       @[f] + IF f \in Matched(draft, expected) THEN 1 ELSE 0],
          !.abstentions = @ + Cardinality(absent),
          !.correctAbstentions = @ + Cardinality(absent \cap Issues(expected)),
          !.falsePositives = @ + Cardinality(Issues(expected) \ absent),
          !.confirmation = @ + IF "issues" \in reasons THEN 0 ELSE 1,
          !.passed = @ + IF reasons = {} THEN 1 ELSE 0]
     /\ IF reasons = {} THEN UNCHANGED failures ELSE Fail(reasons)
     /\ UNCHANGED <<dataset, exit>>

Finish ==
  /\ exit = "running" /\ dataset # NoDataset /\ Len(outputs) = Len(dataset)
  /\ exit' = IF failures = <<>> THEN "passed" ELSE "failed"
  /\ UNCHANGED <<dataset, outputs, report, failures>>

EvaluationNext ==
  \/ Load \/ LoadFails \/ Finish
  \/ ExtractorError \/ InvalidOutput \/ \E draft \in Drafts : Compare(draft)

EvaluationSpec == EvaluationInit /\ [][EvaluationNext]_evaluation

-----------------------------------------------------------------------------
(* findMissingFields: what the pipeline would ask for, given the draft.    *)
AskedFor(draft) ==
  {draft.issues[n] : n \in DOMAIN draft.issues}
    \cup {f \in RequiredFields : draft.value[f] \in {"none", "empty", "impossible"}}

Answered == {n \in DOMAIN outputs : outputs[n].kind = "draft"}

(* The pairs of an answered case and a field of it.                        *)
AnsweredFields == Answered \X RequiredFields

(* Each missing field is listed, and once, and nothing else is.            *)
ListsEach(issues, missing) ==
  /\ \A f \in missing : \E k \in DOMAIN issues : issues[k] = f
  /\ \A k, l \in DOMAIN issues : issues[k] \in missing /\ (issues[k] = issues[l] => k = l)

Confirmed(n) == ListsEach(outputs[n].draft.issues, Issues(dataset[n]))

Correct(n) == n \in Answered /\ outputs[n].draft.value = dataset[n] /\ Confirmed(n)

Exact(f) == {n \in Answered : outputs[n].draft.value[f] = dataset[n][f]}

Abstained == {p \in AnsweredFields : outputs[p[1]].draft.value[p[2]] = "none"}

Unlabelled == {p \in AnsweredFields : dataset[p[1]][p[2]] = "none"}

(* Each counter is the size of the set it is to count.                     *)
Counted ==
  /\ \A f \in RequiredFields : report.exact[f] = Cardinality(Exact(f))
  /\ report.abstentions = Cardinality(Abstained)
  /\ report.abstentions - report.correctAbstentions = Cardinality(Abstained \ Unlabelled)
  /\ report.falsePositives = Cardinality(Unlabelled \ Abstained)
  /\ report.confirmation = Cardinality({n \in Answered : Confirmed(n)})
  /\ report.invalidOutputs + report.extractorErrors + Cardinality(Answered) = Len(outputs)

(* The failures are the cases that are not all right, and no others.       *)
Listed ==
  /\ report.passed + Len(failures) = Len(outputs)
  /\ {failures[k].id : k \in DOMAIN failures} = {n \in DOMAIN outputs : ~Correct(n)}

(* When the exit code is 0, the pipeline would have asked, for every       *)
(* message, for exactly the fields that are labelled as missing, and for   *)
(* dates that the label itself gets wrong.                                 *)
Verdict ==
  /\ exit = "passed" =>
       \A n \in DOMAIN dataset :
         AskedFor(outputs[n].draft) =
           Issues(dataset[n]) \cup {f \in RequiredFields : dataset[n][f] = "impossible"}
  /\ exit = "failed" => failures # <<>>
  /\ exit = "error" => outputs = <<>>

(* The counters and the list are what a recount over all cases finds, and  *)
(* the exit code is the verdict.                                           *)
Recount == Counted /\ Listed /\ Verdict

=============================================================================
