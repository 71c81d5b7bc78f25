------------------------------ MODULE EvalMetrics ------------------------------
(***************************************************************************)
(* The metrics of the three eval harnesses (evals/rust, python,            *)
(* typescript), over every small ranking, text and number of samples.      *)
(*                                                                         *)
(* recall@k, MRR and the nearest-rank percentiles are the same in the      *)
(* three; faithfulness differs in what each takes for a word.  A score is  *)
(* a fraction <<hits, of>>, and NaN is <<0, 0>>.  Samples are told apart   *)
(* by their rank in ascending order, so n samples are 1 .. n.              *)
(***************************************************************************)
EXTENDS Naturals, Sequences, FiniteSets, Functions

CONSTANTS
    Docs,           \* memory ids
    MaxText,        \* bound of the length of a text
    MaxSamples      \* bound of the number of samples

ASSUME BoundsAssumption == MaxText \in Nat /\ MaxSamples \in Nat

\* "a" is a stop word, and so are fourteen others.
Chars == {"a", "b", "accented", "_", ".", " "}
StopWords == {<<"a">>}

VARIABLES retrieved, expected,      \* sequences of ids without repetition
          wantedText, foundText,          \* texts
          count                     \* the number of samples

metricVars == <<retrieved, expected, wantedText, foundText, count>>

MetricsTypeOK ==
    /\ retrieved \in Seq(Docs) /\ IsInjective(retrieved)
    /\ expected \in Seq(Docs) /\ IsInjective(expected)
    /\ wantedText \in Seq(Chars) /\ foundText \in Seq(Chars)
    /\ count \in 0 .. MaxSamples

MetricsInit ==
    /\ retrieved = <<>> /\ expected = <<>> /\ wantedText = <<>> /\ foundText = <<>>
    /\ count = 0

-----------------------------------------------------------------------------
NaN == <<0, 0>>

RecallAtK(found, wanted, k) ==
    IF wanted = <<>> THEN NaN
    ELSE LET topK == {found[i] : i \in {j \in DOMAIN found : j <= k}}
         IN  <<Cardinality({i \in DOMAIN wanted : wanted[i] \in topK}), Len(wanted)>>

First(positions) == CHOOSE p \in positions : \A q \in positions : p <= q

Mrr(found, wanted) ==
    LET at == {i \in DOMAIN found : \E j \in DOMAIN wanted : wanted[j] = found[i]}
    IN  IF wanted = <<>> THEN NaN
        ELSE IF at = {} THEN <<0, 1>> ELSE <<1, First(at)>>

\* A wrong form: the rank is not rounded up.
PercentileDown(p, n) == (p * n) \div 100

\* The rank of the sample: ceil(p * n) - 1, clamped, counted from 1.
Percentile(p, n) == IF n = 0 THEN 0 ELSE (p * n + 99) \div 100

\* The words of a text: what lies between characters that are not of a word.
Words(text, wordChars) ==
    {SubSeq(text, x[1], x[2]) : x \in
        {y \in (1 .. Len(text)) \X (1 .. Len(text)) :
            /\ y[1] <= y[2]
            /\ \A n \in y[1] .. y[2] : text[n] \in wordChars
            /\ y[1] = 1 \/ text[y[1] - 1] \notin wordChars
            /\ y[2] = Len(text) \/ text[y[2] + 1] \notin wordChars}}

Covered(wordChars) ==
    LET asked == Words(wantedText, wordChars) \ StopWords
    IN  <<Cardinality(asked \cap Words(foundText, wordChars)), Cardinality(asked)>>

\* is_alphanumeric, of any script.
RustFaithfulness       == Covered({"a", "b", "accented"})
\* \w of Python: of any script, and the underscore.
PythonFaithfulness     == Covered({"a", "b", "accented", "_"})
\* \w of JavaScript: of ASCII, and the underscore.
TypescriptFaithfulness == Covered({"a", "b", "_"})

-----------------------------------------------------------------------------
\* The inputs grow, one kind at a time.
Ranking ==
    /\ wantedText \o foundText = <<>> /\ count = 0
    /\ \E d \in Docs :
          \/ d \notin Range(retrieved) /\ retrieved' = Append(retrieved, d) /\ UNCHANGED expected
          \/ d \notin Range(expected) /\ expected' = Append(expected, d) /\ UNCHANGED retrieved
    /\ UNCHANGED <<wantedText, foundText, count>>

Text ==
    /\ retrieved \o expected = <<>> /\ count = 0
    /\ \E c \in Chars :
          \/ Len(wantedText) < MaxText /\ wantedText' = Append(wantedText, c) /\ UNCHANGED foundText
          \/ Len(foundText) < MaxText /\ foundText' = Append(foundText, c) /\ UNCHANGED wantedText
    /\ UNCHANGED <<retrieved, expected, count>>

Sample ==
    /\ retrieved \o expected \o wantedText \o foundText = <<>>
    /\ count < MaxSamples
    /\ count' = count + 1
    /\ UNCHANGED <<retrieved, expected, wantedText, foundText>>

MetricsNext == Ranking \/ Text \/ Sample

MetricsSpec == MetricsInit /\ [][MetricsNext]_metricVars

-----------------------------------------------------------------------------
(* Properties *)

\* The sample is the least with p percent of all samples at or below it.
NearestRank(p) ==
    count > 0 =>
       /\ Percentile(p, count) \in 1 .. count
       /\ 100 * Percentile(p, count) >= p * count
       /\ 100 * (Percentile(p, count) - 1) < p * count

\* Cutting a ranking at k never scores better than a longer cut, all of it
\* scores what MRR says it can, and an expected id among the first k is one
\* whose reciprocal rank is at least 1/k.
RankingsCohere ==
    \A k \in 1 .. Len(retrieved) :
        LET r == RecallAtK(retrieved, expected, k)
            m == Mrr(retrieved, expected)
        IN  /\ RecallAtK(retrieved, expected, k - 1)[1] <= r[1] /\ r[1] <= r[2]
            /\ (r = NaN) <=> (m = NaN)
            /\ (r[1] > 0) <=> (m[1] = 1 /\ m[2] <= k)

\* "their scores are comparable": texts in ASCII without an underscore score
\* the same in the three harnesses (others may not), rankings and percentiles
\* mean the same thing for every input.
PortsAgree ==
    /\ \A p \in {50, 95, 99} : NearestRank(p)
    /\ RankingsCohere
    /\ {"_", "accented"} \cap (Range(wantedText) \cup Range(foundText)) = {} =>
          /\ RustFaithfulness = PythonFaithfulness
          /\ RustFaithfulness = TypescriptFaithfulness
=============================================================================
