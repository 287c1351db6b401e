------------------------- MODULE ExpressionTest_proofs -------------------------
(***************************************************************************)
(* TLAPS proof that TestExpression's per-case results agree with           *)
(* EvaluateExpression, for any number of test cases, contexts and result   *)
(* texts.                                                                  *)
(***************************************************************************)
EXTENDS ExpressionTest, SequenceTheorems, FiniteSetTheorems, TLAPS

USE ExpressionTestAssumption

\* The loop's invariant: before the loop nothing is recorded; in the loop
\* the component is there and one result per case before i is recorded;
\* after it every case has its result; and each recorded result is the
\* reference verdict of its case.
VerdictInv ==
    /\ available \in BOOLEAN
    /\ eval \in [Ctxs -> Outcomes]
    /\ cases \in Seq(TestCase)
    /\ phase \in {"start", "loop", "done"}
    /\ results \in Seq(BOOLEAN)
    /\ i \in Nat
    /\ phase = "start" => results = <<>> /\ i = 1
    /\ phase = "loop" => available /\ Len(results) = i - 1 /\ i <= Len(cases) + 1
    /\ phase = "done" /\ available => Len(results) = Len(cases)
    /\ \A k \in 1..Len(results) : results[k] <=> Verdict(k)

\* The steps that leave the case list, the evaluator and the component alone
\* leave every reference verdict as it was.
LEMMA VerdictUnchanged ==
    ASSUME NEW k,
           available' = available, eval' = eval, cases' = cases
    PROVE  Verdict(k)' = Verdict(k)
BY DEF Verdict, EvaluateExpression, GetExpressionComponentFails

THEOREM VerdictInvInit == Init => VerdictInv
<1> SUFFICES ASSUME Init PROVE VerdictInv
    OBVIOUS
<1>1. cases \in Seq(TestCase)
  <2>1. PICK n \in 0..MaxCases : cases \in [1..n -> TestCase]
    BY DEF Init
  <2>2. n \in Nat
    BY <2>1, SMT
  <2>. QED
    BY <2>1, <2>2, SMT
<1>. QED
  BY <1>1 DEF Init, VerdictInv

\* One failed case: the result appended is FALSE, and so is the verdict.
LEMMA FailCasePreserves ==
    ASSUME VerdictInv, phase = "loop", i <= Len(cases), FailCase,
           UNCHANGED <<available, eval, cases, phase, response>>,
           ~Verdict(i)
    PROVE  VerdictInv'
<1>1. Len(results) = i - 1 /\ i \in 1..Len(cases)
  BY DEF VerdictInv
<1>2. results' \in Seq(BOOLEAN) /\ Len(results') = i /\ results'[i] = FALSE
      /\ \A k \in 1..i - 1 : results'[k] = results[k]
  <2>1. results \in Seq(BOOLEAN) /\ i \in Nat
    BY DEF VerdictInv
  <2>2. results' = Append(results, FALSE)
    BY DEF FailCase
  <2>3. /\ Append(results, FALSE) \in Seq(BOOLEAN)
        /\ Len(Append(results, FALSE)) = Len(results) + 1
        /\ \A k \in 1..Len(results) : Append(results, FALSE)[k] = results[k]
        /\ Append(results, FALSE)[Len(results) + 1] = FALSE
    BY <2>1, AppendProperties
  <2>4. Len(results) + 1 = i /\ 1..i - 1 = 1..Len(results)
    BY <1>1, <2>1
  <2>. QED
    BY <2>2, <2>3, <2>4
<1>3. \A k \in 1..Len(results') : results'[k] <=> Verdict(k)'
  <2> TAKE k \in 1..Len(results')
  <2>1. Verdict(k)' = Verdict(k)
    BY VerdictUnchanged
  <2>2. CASE k = i
    BY <1>2, <2>1, <2>2
  <2>3. CASE k # i
    BY <1>1, <1>2, <2>1, <2>3 DEF VerdictInv
  <2>. QED
    BY <2>2, <2>3
<1>. QED
  BY <1>1, <1>2, <1>3 DEF VerdictInv, FailCase

THEOREM VerdictInvNext == VerdictInv /\ [Next]_vars => VerdictInv'
<1> SUFFICES ASSUME VerdictInv, [Next]_vars PROVE VerdictInv'
    OBVIOUS
<1>1. CASE StartTest
  BY <1>1 DEF VerdictInv, StartTest, GetExpressionComponentFails
<1>2. CASE BadContext
  <2>1. ~Verdict(i)
    BY <1>2 DEF BadContext, Verdict, EvaluateExpression
  <2>. QED
    BY <1>2, <2>1, FailCasePreserves DEF BadContext
<1>3. CASE EvaluateFails
  <2>1. ~Verdict(i)
    BY <1>3 DEF EvaluateFails, Verdict, EvaluateExpression
  <2>. QED
    BY <1>3, <2>1, FailCasePreserves DEF EvaluateFails
<1>4. CASE CompareResult
  <2>1. Len(results) = i - 1 /\ i \in 1..Len(cases) /\ available
    BY <1>4 DEF VerdictInv, CompareResult
  <2>2. Verdict(i) <=> (eval[cases[i].ctx] = cases[i].expected)
    <3>1. cases[i] \in TestCase
      BY <2>1 DEF VerdictInv
    <3>2. cases[i].ctx \in Ctxs /\ eval[cases[i].ctx] \in Values
      BY <1>4, <3>1 DEF CompareResult, TestCase
    <3>3. eval[cases[i].ctx] \notin {EvalErr, MarshalErr}
      BY <3>2
    <3>. QED
      BY <2>1, <3>2, <3>3 DEF Verdict, EvaluateExpression, GetExpressionComponentFails
  <2>3. results' \in Seq(BOOLEAN) /\ Len(results') = i
        /\ (results'[i] <=> Verdict(i))
        /\ \A k \in 1..i - 1 : results'[k] = results[k]
    <3>1. results \in Seq(BOOLEAN) /\ i \in Nat
      BY DEF VerdictInv
    <3>2. results' = Append(results, eval[cases[i].ctx] = cases[i].expected)
      BY <1>4 DEF CompareResult
    <3>3. /\ Append(results, eval[cases[i].ctx] = cases[i].expected) \in Seq(BOOLEAN)
          /\ Len(Append(results, eval[cases[i].ctx] = cases[i].expected)) = Len(results) + 1
          /\ \A k \in 1..Len(results) :
                Append(results, eval[cases[i].ctx] = cases[i].expected)[k] = results[k]
          /\ Append(results, eval[cases[i].ctx] = cases[i].expected)[Len(results) + 1]
                = (eval[cases[i].ctx] = cases[i].expected)
      BY <3>1, AppendProperties
    <3>4. Len(results) + 1 = i /\ 1..i - 1 = 1..Len(results)
      BY <2>1, <3>1
    <3>. QED
      BY <2>2, <3>2, <3>3, <3>4
  <2>4. \A k \in 1..Len(results') : results'[k] <=> Verdict(k)'
    <3> TAKE k \in 1..Len(results')
    <3>1. Verdict(k)' = Verdict(k)
      BY <1>4, VerdictUnchanged DEF CompareResult
    <3>2. CASE k = i
      BY <2>3, <3>1, <3>2
    <3>3. CASE k # i
      BY <2>1, <2>3, <3>1, <3>3 DEF VerdictInv
    <3>. QED
      BY <3>2, <3>3
  <2>. QED
    BY <1>4, <2>1, <2>3, <2>4 DEF VerdictInv, CompareResult
<1>5. CASE Summarize
  <2>1. \A k \in 1..Len(results) : Verdict(k)' = Verdict(k)
    BY <1>5, VerdictUnchanged DEF Summarize
  <2>. QED
    BY <1>5, <2>1 DEF VerdictInv, Summarize
<1>6. CASE Done \/ UNCHANGED vars
  <2>1. \A k \in 1..Len(results) : Verdict(k)' = Verdict(k)
    BY <1>6, VerdictUnchanged DEF Done, vars
  <2>. QED
    BY <1>6, <2>1 DEF VerdictInv, Done, vars
<1>. QED
  BY <1>1, <1>2, <1>3, <1>4, <1>5, <1>6 DEF Next

\* TestExpression's results agree with EvaluateExpression case by case
\* (VerdictsMatchEvaluate), for every request and evaluator.
THEOREM VerdictsMatchEvaluateHolds == Spec => []VerdictsMatchEvaluate
<1>1. VerdictInv => VerdictsMatchEvaluate
  BY DEF VerdictInv, VerdictsMatchEvaluate
<1>. QED
  BY <1>1, VerdictInvInit, VerdictInvNext, PTL DEF Spec


-----------------------------------------------------------------------------
(***************************************************************************)
(* The summary.  countPassedTests and countFailedTests split the results   *)
(* in two; allPassed is the conjunction of the results once the loop has   *)
(* begun; and the response of a TestExpression that ran its loop is the    *)
(* summary of its results.                                                 *)
(***************************************************************************)

\* The response Summarize builds from the results.
SummaryOf ==
    [all |-> allPassed,
     executed |-> Len(cases),
     passed |-> Len(cases) - Len(results) + CountPassedTests(results),
     failed |-> CountFailedTests(results),
     err |-> FALSE]

\* allPassed is cleared by the first failed case and only then.
AllPassedInv ==
    phase # "start" /\ available => (allPassed <=> \A k \in 1..Len(results) : results[k])

\* What a TestExpression with the component returns is the summary.
ResponseInv == phase = "done" /\ available => response = SummaryOf

SummaryInv == VerdictInv /\ TypeOK /\ AllPassedInv /\ ResponseInv


\* The positions of the passed and of the failed results.
PassedAt(rs) == {k \in 1..Len(rs) : rs[k]}
FailedAt(rs) == {k \in 1..Len(rs) : ~rs[k]}

\* countPassedTests and countFailedTests count every result once: their
\* counts add up to the number of results, and none failed exactly when
\* every result passed.
LEMMA CountsSplit ==
    ASSUME NEW rs \in Seq(BOOLEAN)
    PROVE  /\ CountPassedTests(rs) \in Nat
           /\ CountFailedTests(rs) \in Nat
           /\ CountPassedTests(rs) + CountFailedTests(rs) = Len(rs)
           /\ CountFailedTests(rs) = 0 <=> \A k \in 1..Len(rs) : rs[k]
<1>1. IsFiniteSet(1..Len(rs)) /\ Cardinality(1..Len(rs)) = Len(rs)
  <2>1. Len(rs) \in Nat
    OBVIOUS
  <2> QED  BY <2>1, FS_Interval
<1>2. IsFiniteSet(PassedAt(rs)) /\ IsFiniteSet(FailedAt(rs))
  BY <1>1, FS_Subset DEF PassedAt, FailedAt
<1>3. Cardinality(PassedAt(rs)) \in Nat /\ Cardinality(FailedAt(rs)) \in Nat
  BY <1>2, FS_CardinalityType
<1>4. PassedAt(rs) \cup FailedAt(rs) = 1..Len(rs) /\ PassedAt(rs) \cap FailedAt(rs) = {}
  BY DEF PassedAt, FailedAt
<1>5. Cardinality(PassedAt(rs)) + Cardinality(FailedAt(rs)) = Len(rs)
  <2>1. Cardinality(PassedAt(rs) \cup FailedAt(rs)) = Cardinality(PassedAt(rs)) + Cardinality(FailedAt(rs)) - Cardinality(PassedAt(rs) \cap FailedAt(rs))
    BY <1>2, FS_Union
  <2>2. Cardinality(PassedAt(rs) \cap FailedAt(rs)) = 0
    BY <1>4, FS_EmptySet
  <2>3. Cardinality(PassedAt(rs) \cup FailedAt(rs)) = Len(rs)
    BY <1>1, <1>4, Zenon
  <2>4. Len(rs) \in Nat
    OBVIOUS
  <2> QED  BY <1>3, <2>1, <2>2, <2>3, <2>4
<1>6. Cardinality(FailedAt(rs)) = 0 <=> FailedAt(rs) = {}
  BY <1>2, FS_EmptySet
<1>7. FailedAt(rs) = {} <=> \A k \in 1..Len(rs) : rs[k]
  BY DEF FailedAt
<1> QED  BY <1>3, <1>5, <1>6, <1>7 DEF CountPassedTests, CountFailedTests, PassedAt, FailedAt


\* The type of the response.
ResponseType == [all : BOOLEAN, executed : Nat, passed : Int, failed : Nat, err : BOOLEAN]

\* A step that leaves the request, the evaluator and the component alone
\* keeps TypeOK when it keeps the loop's variables in their types.
LEMMA TypeOKKept ==
    ASSUME TypeOK, available' = available, eval' = eval, cases' = cases,
           phase' \in {"start", "loop", "done"}, i' \in 1..Len(cases) + 1,
           results' \in Seq(BOOLEAN), allPassed' \in BOOLEAN, response' \in ResponseType
    PROVE  TypeOK'
<1>1. available' \in BOOLEAN /\ eval' \in [Ctxs -> Outcomes]
  BY DEF TypeOK
<1>2. cases' \in Seq(TestCase) /\ Len(cases') <= MaxCases /\ i' \in 1..Len(cases') + 1
  BY DEF TypeOK
<1> QED  BY <1>1, <1>2 DEF TypeOK, ResponseType

\* Whether the result of case i matches its expected text.
CasePassed == eval[cases[i].ctx] = cases[i].expected

\* A response with fields of the right types has the response type.
LEMMA ResponseTyped ==
    ASSUME NEW a \in BOOLEAN, NEW e \in Nat, NEW p \in Int, NEW f \in Nat, NEW r \in BOOLEAN
    PROVE  [all |-> a, executed |-> e, passed |-> p, failed |-> f, err |-> r] \in ResponseType
BY DEF ResponseType

THEOREM SummaryInvInit == Init => SummaryInv
<1> SUFFICES ASSUME Init PROVE SummaryInv
    OBVIOUS
<1>1. VerdictInv
  BY VerdictInvInit
<1>2. cases \in Seq(TestCase) /\ Len(cases) <= MaxCases
  <2>1. PICK n \in 0..MaxCases : cases \in [1..n -> TestCase]
    BY DEF Init
  <2>2. n \in Nat
    BY <2>1, SMT
  <2>3. Len(cases) = n
    BY <1>1, <2>1, <2>2 DEF VerdictInv
  <2> QED  BY <1>1, <2>1, <2>3 DEF VerdictInv
<1>3. TypeOK
  <2>1. available \in BOOLEAN /\ eval \in [Ctxs -> Outcomes] /\ phase = "start"
        /\ results = <<>> /\ allPassed = FALSE /\ i = 1 /\ response = NoResponse
    BY DEF Init
  <2>2. i \in 1..Len(cases) + 1
    BY <1>2, <2>1
  <2>4. results \in Seq(BOOLEAN) /\ allPassed \in BOOLEAN
    <3>1. results \in Seq(BOOLEAN)
      BY <2>1
    <3>2. allPassed \in BOOLEAN
      BY <2>1, Zenon
    <3> QED  BY <3>1, <3>2
  <2>5. FALSE \in BOOLEAN /\ 0 \in Nat /\ 0 \in Int
    OBVIOUS
  <2>3. response \in ResponseType
    BY <2>1, <2>5, ResponseTyped, Zenon DEF NoResponse
  <2> QED  BY <1>2, <2>1, <2>2, <2>3, <2>4 DEF TypeOK, ResponseType
<1> QED  BY <1>1, <1>3 DEF Init, SummaryInv, AllPassedInv, ResponseInv

\* A failed case keeps the summary invariant: allPassed is cleared and a
\* FALSE result is appended.
LEMMA FailCaseSummary ==
    ASSUME SummaryInv, phase = "loop", i <= Len(cases), FailCase,
           UNCHANGED <<available, eval, cases, phase, response>>
    PROVE  (TypeOK /\ AllPassedInv /\ ResponseInv)'
<1>1. results \in Seq(BOOLEAN) /\ i \in 1..Len(cases) /\ Len(results) = i - 1
      /\ Len(cases) <= MaxCases
  BY DEF SummaryInv, TypeOK, VerdictInv
<1>2. /\ results' \in Seq(BOOLEAN)
      /\ Len(results') = Len(results) + 1
      /\ results'[Len(results) + 1] = FALSE
  <2>1. results' = Append(results, FALSE)
    BY DEF FailCase
  <2> QED  BY <1>1, <2>1, AppendProperties
<1>3. TypeOK'
  <2>0. i' = i + 1 /\ allPassed' = FALSE
    BY DEF FailCase
  <2>a. i' \in 1..Len(cases) + 1
    BY <1>1, <2>0
  <2>b. allPassed' \in BOOLEAN
    BY <2>0
  <2>1. i' \in 1..Len(cases) + 1 /\ allPassed' \in BOOLEAN
    BY <2>a, <2>b
  <2>2. response \in ResponseType /\ phase \in {"start", "loop", "done"}
    BY DEF SummaryInv, TypeOK, ResponseType
  <2> QED  BY <1>2, <2>1, <2>2, TypeOKKept DEF SummaryInv
<1>4. AllPassedInv'
  <2>1. allPassed' = FALSE
    BY DEF FailCase
  <2>2. Len(results) + 1 \in 1..Len(results')
    BY <1>1, <1>2
  <2> QED  BY <1>2, <2>1, <2>2 DEF AllPassedInv
<1> QED  BY <1>3, <1>4 DEF ResponseInv

THEOREM SummaryInvNext == SummaryInv /\ [Next]_vars => SummaryInv'
<1> SUFFICES ASSUME SummaryInv, [Next]_vars PROVE SummaryInv'
    OBVIOUS
<1>0. VerdictInv'
  BY VerdictInvNext DEF SummaryInv
<1> SUFFICES (TypeOK /\ AllPassedInv /\ ResponseInv)'
  BY <1>0 DEF SummaryInv
<1>1. CASE StartTest
  <2>1. CASE GetExpressionComponentFails
    <3>a. response' = [all |-> FALSE, executed |-> 0, passed |-> 0, failed |-> 0, err |-> TRUE]
      BY <1>1, <2>1 DEF StartTest, NoResponse
    <3>d. FALSE \in BOOLEAN /\ TRUE \in BOOLEAN /\ 0 \in Nat /\ 0 \in Int
      OBVIOUS
    <3>b. response' \in ResponseType
      BY <3>a, <3>d, ResponseTyped, Zenon
    <3>c. TypeOK'
      BY <1>1, <2>1, <3>b, TypeOKKept DEF StartTest, SummaryInv, TypeOK
    <3> QED  BY <1>1, <2>1, <3>c DEF StartTest, AllPassedInv, ResponseInv,
                                      GetExpressionComponentFails
  <2>2. CASE ~GetExpressionComponentFails
    <3>a. results = <<>>
      BY <1>1 DEF StartTest, SummaryInv, VerdictInv
    <3>b. TypeOK'
      BY <1>1, <2>2, TypeOKKept DEF StartTest, SummaryInv, TypeOK, ResponseType
    <3> QED  BY <1>1, <2>2, <3>a, <3>b DEF StartTest, AllPassedInv, ResponseInv
  <2> QED  BY <2>1, <2>2
<1>2. CASE BadContext
  BY <1>2, FailCaseSummary DEF BadContext
<1>3. CASE EvaluateFails
  BY <1>3, FailCaseSummary DEF EvaluateFails
<1>4. CASE CompareResult
  <2>1. results \in Seq(BOOLEAN) /\ i \in 1..Len(cases) /\ Len(results) = i - 1
        /\ available
    BY <1>4 DEF SummaryInv, TypeOK, VerdictInv, CompareResult
  <2>2. /\ results' \in Seq(BOOLEAN)
        /\ Len(results') = Len(results) + 1
        /\ (results'[Len(results) + 1] <=> CasePassed)
        /\ \A k \in 1..Len(results) : results'[k] = results[k]
    <3>a. results' = Append(results, CasePassed)
      BY <1>4 DEF CompareResult, CasePassed
    <3>b. CasePassed \in BOOLEAN
      BY DEF CasePassed
    <3>c. /\ Append(results, CasePassed) \in Seq(BOOLEAN)
          /\ Len(Append(results, CasePassed)) = Len(results) + 1
          /\ Append(results, CasePassed)[Len(results) + 1] = CasePassed
          /\ \A k \in 1..Len(results) : Append(results, CasePassed)[k] = results[k]
      BY <2>1, <3>b, AppendProperties
    <3> QED  BY <3>a, <3>c
  <2>3. TypeOK'
    <3>a. i' \in 1..Len(cases) + 1 /\ allPassed' \in BOOLEAN
      BY <1>4, <2>1 DEF CompareResult, SummaryInv, TypeOK
    <3>b. response \in ResponseType /\ phase \in {"start", "loop", "done"}
      BY DEF SummaryInv, TypeOK, ResponseType
    <3> QED  BY <1>4, <2>2, <3>a, <3>b, TypeOKKept DEF SummaryInv, CompareResult
  <2>4. AllPassedInv'
    <3>a. allPassed' = (allPassed /\ CasePassed)
      BY <1>4 DEF CompareResult, CasePassed
    <3>b. allPassed <=> \A k \in 1..Len(results) : results[k]
      BY <1>4, <2>1 DEF SummaryInv, AllPassedInv, CompareResult
    <3>c. 1..Len(results') = (1..Len(results)) \cup {Len(results) + 1}
      BY <2>1, <2>2
    <3> QED  BY <2>2, <3>a, <3>b, <3>c DEF AllPassedInv
  <2> QED  BY <1>4, <2>3, <2>4 DEF CompareResult, ResponseInv
<1>5. CASE Summarize
  <2>1. results \in Seq(BOOLEAN)
    BY DEF SummaryInv, TypeOK
  <2>2. CountPassedTests(results) \in Nat /\ CountFailedTests(results) \in Nat
    BY <2>1, CountsSplit
  <2>3. response' = SummaryOf
    BY <1>5 DEF Summarize, SummaryOf
  <2>6. SummaryOf' = SummaryOf
    BY <1>5 DEF Summarize, SummaryOf, CountPassedTests, CountFailedTests
  <2>4. TypeOK'
    <3>a. Len(cases) \in Nat /\ allPassed \in BOOLEAN /\ Len(results) \in Nat
      BY <2>1 DEF SummaryInv, TypeOK
    <3>e. Len(cases) - Len(results) + CountPassedTests(results) \in Int
      BY <2>2, <3>a
    <3>f. FALSE \in BOOLEAN
      OBVIOUS
    <3>g. SummaryOf \in ResponseType
      BY <2>2, <3>a, <3>e, <3>f, ResponseTyped, Zenon DEF SummaryOf
    <3>b. response' \in ResponseType
      BY <2>3, <3>g
    <3>c. allPassed' \in BOOLEAN /\ i' \in 1..Len(cases) + 1
      BY <1>5, <3>a, Zenon DEF Summarize, SummaryInv, TypeOK
    <3> QED  BY <1>5, <2>1, <3>b, <3>c, TypeOKKept DEF Summarize, SummaryInv
  <2>5. AllPassedInv'
    BY <1>5 DEF Summarize, SummaryInv, AllPassedInv
  <2> QED  BY <2>3, <2>4, <2>5, <2>6 DEF ResponseInv
<1>6. CASE Done \/ UNCHANGED vars
  <2>1. UNCHANGED vars
    BY <1>6 DEF Done
  <2>2. TypeOK'
    BY <2>1, TypeOKKept DEF vars, SummaryInv, TypeOK, ResponseType
  <2>3. SummaryOf' = SummaryOf
    BY <2>1 DEF vars, SummaryOf, CountPassedTests, CountFailedTests
  <2> QED  BY <2>1, <2>2, <2>3 DEF vars, SummaryInv, AllPassedInv, ResponseInv
<1> QED  BY <1>1, <1>2, <1>3, <1>4, <1>5, <1>6 DEF Next

\* TestExpression keeps every variable in its type; in particular the
\* summary's counts are natural numbers (TypeOK).
THEOREM ExpressionTestTypeCorrect == Spec => []TypeOK
<1>1. SummaryInv => TypeOK
  BY DEF SummaryInv
<1> QED  BY <1>1, SummaryInvInit, SummaryInvNext, PTL DEF Spec

\* The summary TestExpression returns counts each case once, its passed
\* count is the number of cases EvaluateExpression passes, and AllPassed
\* holds exactly when none failed (SummaryCounts), for every request and
\* evaluator.
THEOREM SummaryCountsHolds == Spec => []SummaryCounts
<1>1. SummaryInv => SummaryCounts
  <2> SUFFICES ASSUME SummaryInv, phase = "done", available
               PROVE  /\ response.passed = Cardinality(PassedCases)
                      /\ response.passed + response.failed = response.executed
                      /\ response.all <=> response.failed = 0
    BY DEF SummaryCounts
  <2>1. response = SummaryOf
    BY DEF SummaryInv, ResponseInv
  <2>2. /\ results \in Seq(BOOLEAN)
        /\ Len(results) = Len(cases)
        /\ \A k \in 1..Len(cases) : results[k] <=> Verdict(k)
    BY DEF SummaryInv, TypeOK, VerdictInv
  <2>3. PassedAt(results) = PassedCases
    BY <2>2 DEF PassedAt, PassedCases
  <2>4. /\ CountPassedTests(results) = Cardinality(PassedCases)
        /\ CountPassedTests(results) \in Nat /\ CountFailedTests(results) \in Nat
        /\ CountPassedTests(results) + CountFailedTests(results) = Len(results)
        /\ CountFailedTests(results) = 0 <=> \A k \in 1..Len(results) : results[k]
    BY <2>2, <2>3, CountsSplit DEF CountPassedTests, PassedAt
  <2>5. allPassed <=> \A k \in 1..Len(results) : results[k]
    BY DEF SummaryInv, AllPassedInv
  <2>6. Len(cases) \in Nat
    BY DEF SummaryInv, TypeOK
  <2> QED  BY <2>1, <2>2, <2>4, <2>5, <2>6 DEF SummaryOf
<1> QED  BY <1>1, SummaryInvInit, SummaryInvNext, PTL DEF Spec

=============================================================================
