-------------------------------- MODULE Finder --------------------------------
(***************************************************************************)
(* MbtiFinderScoringService: from the answers to the question set of the   *)
(* finder to a type, two alternatives and a confidence.                    *)
(*                                                                         *)
(* A type is the set of the axes whose positive letter (E, S, T, J) it     *)
(* has.  The score of an axis, a fraction of the most it can be, is kept   *)
(* in 1680ths, which hold it exactly for up to eight questions on the axis *)
(* (the question set of the repository asks seven); confidence is in units *)
(* of 1/10000, the digits that are stored.                                 *)
(***************************************************************************)
EXTENDS Integers, Sequences, FiniteSets, FiniteSetsExt

Axes == {"EI", "SN", "TF", "JP"}
AllTypes == SUBSET Axes

E == "EI"
S == "SN"
T == "TF"
J == "JP"
Question == [axis : Axes, direction : {-1, 1}]

(* ALL_TYPE_CODES, in their order.                                          *)
TypeCodes ==
  << {S, T, J}, {S, J}, {J}, {T, J}, {S, T}, {S}, {}, {T},
     {E, S, T}, {E, S}, {E}, {E, T}, {E, S, T, J}, {E, S, J}, {E, J}, {E, T, J} >>

Unit == 1680  \* of a normalized score
MaxAsked == 8 \* questions on one axis

\* Fault: the direction of a question is not heeded.
PointsUndirected(question, value) == value - 3
(* scoreAttempt: what an answer adds to its axis.                           *)
Points(question, value) == (value - 3) * question.direction

(* scoreAttempt: the axis scores, each over the most it can be.             *)
Normalized(questions, answers, axis) ==
  LET asked == {q \in DOMAIN questions : questions[q].axis = axis /\ q \in DOMAIN answers}
      axisMax == 2 * Cardinality(asked)
      axisScore == MapThenSumSet(LAMBDA q : Points(questions[q], answers[q]), asked)
  IN IF asked = {} THEN 0 ELSE (axisScore * Unit) \div axisMax

AxisScores(questions, answers) == [axis \in Axes |-> Normalized(questions, answers, axis)]

(* axisSignForType and scoreCandidate.                                      *)
Sign(axis, type) == IF axis \in type THEN 1 ELSE -1
ScoreCandidate(type, scores) == MapThenSumSet(LAMBDA axis : Sign(axis, type) * scores[axis], Axes)

(* scoreAttempt: the candidate with n others before it; the sort is stable, *)
(* so candidates of one score stay in the order of ALL_TYPE_CODES.          *)
Ranked(scores, n) ==
  LET candidates == 1 .. Len(TypeCodes)
      score == [i \in candidates |-> ScoreCandidate(TypeCodes[i], scores)]
      Before(i) == {k \in candidates : score[k] > score[i] \/ (score[k] = score[i] /\ k < i)}
  IN TypeCodes[CHOOSE i \in candidates : Cardinality(Before(i)) = n]

Magnitude(n) == IF n < 0 THEN -n ELSE n

Undecided == 5000 \* the confidences of no leaning and of a full one
Highest == 9900
(* The confidence: 0.5 and 0.49 times the mean magnitude, rounded.          *)
Confidence(scores) ==
  LET sum == MapThenSumSet(LAMBDA axis : Magnitude(scores[axis]), Axes)
      tenThousandths == Undecided + (4900 * sum + 2 * Unit) \div (4 * Unit)
  IN Min({Highest, tenThousandths})

(* scoreAttempt.                                                            *)
ScoreAttempt(questions, answers) ==
  LET scores == AxisScores(questions, answers)
  IN [predicted |-> Ranked(scores, 0), alternatives |-> <<Ranked(scores, 1), Ranked(scores, 2)>>,
      confidence |-> Confidence(scores)]

-----------------------------------------------------------------------------
\* Reference: the points of the answers to an axis, toward its positive letter;
\* an answer of 3 is undecided.
Toward(question, value) == IF question.direction = 1 THEN value ELSE 6 - value
Leaning(questions, answers, axis) ==
  LET asked == {q \in DOMAIN questions : questions[q].axis = axis}
      Strength(values) ==
        Cardinality({point \in asked \X values :
                       LET q == point[1]  v == point[2] IN
                       \/ v > 3 /\ Toward(questions[q], answers[q]) >= v
                       \/ v < 3 /\ Toward(questions[q], answers[q]) <= v})
  IN Strength(4 .. 5) - Strength(1 .. 2)
=============================================================================
