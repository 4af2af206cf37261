---------------------------- MODULE AnswerScoring ----------------------------
(***************************************************************************)
(* The deterministic scorer (scoring/service.ts).  A number as typed is    *)
(* its sign and its digits before and after the point, leading and         *)
(* trailing zeros included; any other text is a word, with or without      *)
(* spaces and wide letters around and in it.                               *)
(***************************************************************************)
EXTENDS Integers, FiniteSetsExt, SequencesExt

Number(sign, whole, fraction) ==
    [sort |-> "number", sign |-> sign, whole |-> whole, fraction |-> fraction]

Word(word, spaced) == [sort |-> "word", word |-> word, spaced |-> spaced]

\* Spacing and letter width do not count.
NormalizeText(text) == IF text.sort = "word" THEN [text EXCEPT !.spaced = FALSE] ELSE text

IsBlank(text) == NormalizeText(text) = Word("", FALSE)

\* The number that the digits of s spell.
Digits(s) ==
    LET upTo[n \in 0..Len(s)] == IF n = 0 THEN 0 ELSE 10 * upTo[n - 1] + s[n]
    IN upTo[Len(s)]

PowerOfTen(n) ==
    LET power[i \in 0..n] == IF i = 0 THEN 1 ELSE 10 * power[i - 1]
    IN power[n]

\* Digits are needed on one side of the point at least.
IsDecimal(text) == text.sort = "number" /\ Len(text.whole) + Len(text.fraction) > 0

\* An integer and the number of decimals it counts in, as few as will do.
ParseDecimal(text) ==
    LET unscaled == Digits(text.whole \o text.fraction) * (IF text.sign = "-" THEN -1 ELSE 1)
        trimmed == Max({n \in 0..Len(text.fraction) : unscaled % PowerOfTen(n) = 0})
    IN [coefficient |-> unscaled \div PowerOfTen(trimmed), scale |-> Len(text.fraction) - trimmed]

Greater(m, n) == IF m >= n THEN m ELSE n

Rescale(decimal, scale) == decimal.coefficient * PowerOfTen(scale - decimal.scale)

AbsoluteDifference(left, right) ==
    LET scale == Greater(left.scale, right.scale)
        difference == Rescale(left, scale) - Rescale(right, scale)
    IN [coefficient |-> IF difference >= 0 THEN difference ELSE -difference, scale |-> scale]

\* Mutant: the two sides are compared as integers, each in decimals of its own.
IsWithinUnscaledTolerance(answer, expected, tolerance) ==
    /\ tolerance.coefficient >= 0
    /\ AbsoluteDifference(answer, expected).coefficient <= tolerance.coefficient

IsWithinTolerance(answer, expected, tolerance) ==
    LET difference == AbsoluteDifference(answer, expected)
        scale == Greater(difference.scale, tolerance.scale)
    IN /\ tolerance.coefficient >= 0
       /\ Rescale(difference, scale) <= Rescale(tolerance, scale)

(***************************************************************************)
(* An answer is a text, a choice or "cannot start"; only the first two     *)
(* carry a value.                                                          *)
(***************************************************************************)
TextAnswer(text) == [kind |-> "text", value |-> text]

ChoiceAnswer(option) == [kind |-> "choice", value |-> option]

\* Is the answer's value, of the kind asked for, one of the accepted ones?
ScoreAccepted(kind, accepted, answer) ==
    IF answer.kind # kind \/ IsBlank(answer.value) THEN "invalid"
    ELSE IF NormalizeText(answer.value) \in {NormalizeText(text) : text \in accepted} THEN "correct"
    ELSE "incorrect"

ScoreText(key, answer) == ScoreAccepted("text", key.accepted, answer)

ScoreChoice(key, answer) == ScoreAccepted("choice", key.acceptedOptions, answer)

ScoreNumeric(key, answer) ==
    IF answer.kind # "text" \/ ~IsDecimal(answer.value) THEN "invalid"
    ELSE IF ~IsDecimal(key.expected) \/ ~IsDecimal(key.tolerance) THEN "invalid"
    ELSE LET tolerance == ParseDecimal(key.tolerance)
         IN CASE tolerance.coefficient < 0 -> "invalid"
              [] IsWithinTolerance(ParseDecimal(answer.value), ParseDecimal(key.expected), tolerance)
                     -> "correct"
              [] OTHER -> "incorrect"

\* No adapter decides expressions, and written solutions are left to the rubric.
Score(key, answer) ==
    CASE key.kind = "exact_text" -> ScoreText(key, answer)
      [] key.kind = "choice"     -> ScoreChoice(key, answer)
      [] key.kind = "numeric"    -> ScoreNumeric(key, answer)
      [] OTHER                   -> "invalid"
=============================================================================
