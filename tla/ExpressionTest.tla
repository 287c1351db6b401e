---------------------------- MODULE ExpressionTest ----------------------------
(***************************************************************************)
(* The expression gRPC service's TestExpression and EvaluateExpression     *)
(* (expressionServiceServer, part_002).                                    *)
(*                                                                         *)
(* TestExpression runs one expression over a list of test cases: for each *)
(* case it parses the context JSON, evaluates, marshals the result and     *)
(* compares it with the expected JSON text, appending one TestResult per   *)
(* case and clearing allPassed on every failure; then it writes the        *)
(* summary "Executed N test cases, P passed, F failed".  The FEEL          *)
(* evaluator (the expression component) is an external edge: what it       *)
(* makes of the expression in a context is the function `eval`, fixed for  *)
(* the request, giving a JSON text or an evaluation or marshal error.      *)
(* Expression, names and error texts are left out.                         *)
(***************************************************************************)
EXTENDS Integers, Sequences, FiniteSets

CONSTANTS
    Ctxs,      \* well-formed context JSON texts ("" included)
    BadJson,   \* model value: a context text json.Unmarshal rejects
    Values,    \* JSON texts a result marshals to
    MaxCases   \* bound on the test cases of a request

\* What the evaluator does with the expression in a context.
EvalErr == "eval_error"
MarshalErr == "marshal_error"
Outcomes == Values \cup {EvalErr, MarshalErr}

ASSUME ExpressionTestAssumption ==
    /\ BadJson \notin Ctxs
    /\ EvalErr \notin Values /\ MarshalErr \notin Values
    /\ MaxCases \in Nat

\* A test case: its context text and its expected result text.
TestCase == [ctx : Ctxs \cup {BadJson}, expected : Values]

VARIABLES
    available,  \* GetExpressionComponent returns the expression component
    eval,       \* the evaluator's outcome per context
    cases,      \* req.TestCases
    phase,      \* "start", "loop" (in the for loop), "done" (response returned)
    i,          \* the index of the case the loop is at
    results,    \* the Passed field of each TestResult appended so far
    allPassed,  \* allPassed
    response    \* the TestExpressionResponse: AllPassed and the summary counts

vars == <<available, eval, cases, phase, i, results, allPassed, response>>

NoResponse == [all |-> FALSE, executed |-> 0, passed |-> 0, failed |-> 0, err |-> FALSE]

TypeOK ==
    /\ available \in BOOLEAN
    /\ eval \in [Ctxs -> Outcomes]
    /\ cases \in Seq(TestCase) /\ Len(cases) <= MaxCases
    /\ phase \in {"start", "loop", "done"}
    /\ i \in 1..Len(cases) + 1
    /\ results \in Seq(BOOLEAN)
    /\ allPassed \in BOOLEAN
    /\ response \in [all : BOOLEAN, executed : Nat, passed : Int, failed : Nat,
                     err : BOOLEAN]

\* Any request, against any evaluator, with or without the component.
Init ==
    /\ available \in BOOLEAN
    /\ eval \in [Ctxs -> Outcomes]
    /\ cases \in UNION {[1..n -> TestCase] : n \in 0..MaxCases}
    /\ phase = "start"
    /\ i = 1
    /\ results = <<>>
    /\ allPassed = FALSE
    /\ response = NoResponse

-----------------------------------------------------------------------------
\* getExpressionComponent: an error when the core has no expression
\* component (or one of another type).
GetExpressionComponentFails == ~available

\* countPassedTests and countFailedTests: the loop over the results counts
\* the positions whose Passed is true, resp. false.
CountPassedTests(rs) == Cardinality({k \in 1..Len(rs) : rs[k]})
CountFailedTests(rs) == Cardinality({k \in 1..Len(rs) : ~rs[k]})

\* EvaluateExpression on one context: the component error, the context
\* JSON error, the evaluation error and the marshal error are answered with
\* Success false; otherwise Success with the marshalled result.
EvaluateExpression(ctx) ==
    CASE GetExpressionComponentFails -> [success |-> FALSE, result |-> ""]
      [] ctx = BadJson                -> [success |-> FALSE, result |-> ""]
      [] eval[ctx] \in {EvalErr, MarshalErr} -> [success |-> FALSE, result |-> ""]
      [] OTHER                        -> [success |-> TRUE, result |-> eval[ctx]]

\* TestExpression starts: without the component it answers AllPassed false
\* with the error as summary and no results.
StartTest ==
    /\ phase = "start"
    /\ IF GetExpressionComponentFails
         THEN /\ phase' = "done"
              /\ response' = [NoResponse EXCEPT !.err = TRUE]
              /\ UNCHANGED allPassed
         ELSE /\ phase' = "loop"
              /\ allPassed' = TRUE
              /\ UNCHANGED response
    /\ UNCHANGED <<available, eval, cases, i, results>>

\* A failed case: appended with Passed false, allPassed cleared, continue.
FailCase ==
    /\ results' = Append(results, FALSE)
    /\ allPassed' = FALSE
    /\ i' = i + 1

\* The context of case i is not valid JSON.
BadContext ==
    /\ phase = "loop" /\ i <= Len(cases)
    /\ cases[i].ctx = BadJson
    /\ FailCase
    /\ UNCHANGED <<available, eval, cases, phase, response>>

\* Mutant: the failure is appended but the loop does not continue, so the
\* case is compared as well.
EvaluateFailsNoContinue ==
    /\ phase = "loop" /\ i <= Len(cases)
    /\ cases[i].ctx # BadJson
    /\ eval[cases[i].ctx] \in {EvalErr, MarshalErr}
    /\ results' = results \o <<FALSE, FALSE>>
    /\ allPassed' = FALSE
    /\ i' = i + 1
    /\ UNCHANGED <<available, eval, cases, phase, response>>

\* The evaluator fails, or the result does not marshal.
EvaluateFails ==
    /\ phase = "loop" /\ i <= Len(cases)
    /\ cases[i].ctx # BadJson
    /\ eval[cases[i].ctx] \in {EvalErr, MarshalErr}
    /\ FailCase
    /\ UNCHANGED <<available, eval, cases, phase, response>>

\* Mutant: a mismatch does not clear allPassed.
CompareResultKeepsAllPassed ==
    /\ phase = "loop" /\ i <= Len(cases)
    /\ cases[i].ctx # BadJson
    /\ eval[cases[i].ctx] \in Values
    /\ results' = Append(results, eval[cases[i].ctx] = cases[i].expected)
    /\ UNCHANGED allPassed
    /\ i' = i + 1
    /\ UNCHANGED <<available, eval, cases, phase, response>>

\* The result's JSON text is compared with the expected text.
CompareResult ==
    /\ phase = "loop" /\ i <= Len(cases)
    /\ cases[i].ctx # BadJson
    /\ eval[cases[i].ctx] \in Values
    /\ LET passed == eval[cases[i].ctx] = cases[i].expected IN
         /\ results' = Append(results, passed)
         /\ allPassed' = (allPassed /\ passed)
    /\ i' = i + 1
    /\ UNCHANGED <<available, eval, cases, phase, response>>

\* Mutant: the failed count is off by one.
SummarizeOffByOne ==
    /\ phase = "loop" /\ i > Len(cases)
    /\ phase' = "done"
    /\ response' = [all |-> allPassed,
                    executed |-> Len(cases),
                    passed |-> Len(cases) - Len(results) + CountPassedTests(results),
                    failed |-> CountFailedTests(results) - 1,
                    err |-> FALSE]
    /\ UNCHANGED <<available, eval, cases, i, results, allPassed>>

\* After the loop: the summary counts the cases, the passed ones as
\* len(TestCases) - len(results) + countPassedTests(results), and the
\* failed ones.
Summarize ==
    /\ phase = "loop" /\ i > Len(cases)
    /\ phase' = "done"
    /\ response' = [all |-> allPassed,
                    executed |-> Len(cases),
                    passed |-> Len(cases) - Len(results) + CountPassedTests(results),
                    failed |-> CountFailedTests(results),
                    err |-> FALSE]
    /\ UNCHANGED <<available, eval, cases, i, results, allPassed>>

\* The response has been returned.
Done ==
    /\ phase = "done"
    /\ UNCHANGED vars

Next == StartTest \/ BadContext \/ EvaluateFails \/ CompareResult \/ Summarize \/ Done

Spec == Init /\ [][Next]_vars

-----------------------------------------------------------------------------
(***************************************************************************)
(* Properties.                                                             *)
(***************************************************************************)

\* Reference: case k passes when EvaluateExpression on its context succeeds
\* with exactly the expected result.
Verdict(k) ==
    LET r == EvaluateExpression(cases[k].ctx) IN r.success /\ r.result = cases[k].expected

PassedCases == {k \in 1..Len(cases) : Verdict(k)}

\* Once TestExpression has returned with the component, its results are one
\* per test case, in order, and each says what EvaluateExpression makes of
\* the same expression and context: a test case passes exactly when the
\* single evaluation succeeds with the expected result.
VerdictsMatchEvaluate ==
    phase = "done" /\ available =>
        /\ Len(results) = Len(cases)
        /\ \A k \in 1..Len(cases) : results[k] <=> Verdict(k)

\* The summary of a returned TestExpression counts every case once, as
\* passed or failed, the passed count is the number of passing cases, and
\* AllPassed holds exactly when none failed.
SummaryCounts ==
    phase = "done" /\ available =>
        /\ response.passed = Cardinality(PassedCases)
        /\ response.passed + response.failed = response.executed
        /\ response.all <=> response.failed = 0

=============================================================================
