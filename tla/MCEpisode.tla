------------------------------ MODULE MCEpisode ------------------------------
(* Small courses of PracticeEpisode for TLC. *)
EXTENDS EpisodeProperties

Course(tasks, required, max, requests, again, atOnce) ==
    [tasks |-> tasks, initial |-> 1, gate |-> [required |-> required, max |-> max],
     evaluator |-> TRUE, requests |-> requests, repeats |-> again, atOnce |-> atOnce]

One(task) == <<task>>

\* Short answers: several pairs, so that the gate has something to count, and as many requests
\* as it takes to pass a gate of two in disorder; more of them where they come one at a time.
Yes == [kind |-> "exact_text", accepted |-> {Word("yes", FALSE)}]

TextCourses ==
    {Course(<<Yes, Yes, Yes>>, 2, 3, 4, 0, 2), Course(<<Yes, Yes, Yes>>, 2, 3, 5, 0, 1),
     Course(<<Yes, Yes>>, 2, 2, 4, 0, 2),
     Course(<<Yes, Yes>>, 1, 2, 3, 2, 2), Course(<<Yes, Yes>>, 1, 2, 5, 0, 1)}

\* Numbers: signs, zeros in front and behind, no digits on one side or on both.
Numerals ==
    {Number("", <<0>>, <<5>>), Number("+", <<>>, <<5, 0>>), Number("-", <<0>>, <<5>>),
     Number("", <<0, 0>>, <<4, 5>>), Number("", <<0>>, <<5, 5>>), Number("", <<0>>, <<5, 5, 1>>),
     Number("", <<1>>, <<>>), Number("-", <<1, 0>>, <<0>>), Number("", <<0>>, <<0>>),
     Number("-", <<>>, <<>>)}

NumericCourses ==
    {Course(One([kind |-> "numeric", expected |-> expected, tolerance |-> tolerance]), 1, 1, 2, 0, 2) :
        expected \in {Number("", <<0>>, <<5>>), Number("-", <<1, 0>>, <<>>), Number("", <<>>, <<>>)},
        tolerance \in {Number("", <<0>>, <<>>), Number("", <<0>>, <<0, 5>>),
                       Number("", <<1>>, <<0>>), Number("-", <<1>>, <<>>), Number("", <<>>, <<>>)}}

\* Written solutions: optional criteria, none at all, a final answer asked for, reasoning not.
Rubric(criteria, required, finalAnswer, reasoning) ==
    [kind |-> "written_solution", criteria |-> criteria,
     shape |-> [finalAnswer |-> finalAnswer, reasoning |-> reasoning, required |-> required]]

Rubrics == {Rubric(<<1, 2>>, <<1, 2>>, FALSE, TRUE), Rubric(<<1, 2>>, <<2>>, FALSE, TRUE),
            Rubric(<<1, 2>>, <<2>>, FALSE, FALSE), Rubric(<<1>>, <<1>>, TRUE, TRUE),
            Rubric(<<>>, <<>>, FALSE, TRUE)}

WrittenCourses ==
    {[Course(One(rubric), 1, 1, 2, 0, 2) EXCEPT !.evaluator = evaluator] :
        rubric \in Rubrics, evaluator \in BOOLEAN}

\* An expression, which nothing decides, and a choice, which the page has no form for.
OtherCourses ==
    {Course(One(task), 1, 1, 2, 0, 2) :
        task \in {[kind |-> "expression"], [kind |-> "choice", acceptedOptions |-> {Word("b", FALSE)}]}}

SmallCourses == TextCourses \cup NumericCourses \cup WrittenCourses \cup OtherCourses

\* A blank page and no answer at all are tried where spelling matters.
Answers(task) ==
    CASE task.kind = "exact_text" -> {TextAnswer(Word("yes", TRUE)), TextAnswer(Word("no", FALSE))}
      [] task.kind = "numeric" -> {TextAnswer(n) : n \in Numerals}
                                  \cup {TextAnswer(Word("half", FALSE)), [kind |-> "cannot_start"]}
      [] task.kind = "choice" -> {TextAnswer(Word("b", FALSE))}
                                 \cup {ChoiceAnswer(Word(option, TRUE)) : option \in {"a", "b", ""}}
      [] OTHER -> {TextAnswer(Word("because", FALSE))}

\* The provider may name a criterion it was not asked about.
Replies(task) ==
    {Reply(id, status) : id \in {1, 2, 3}, status \in Assessment \cup {"broken"}}
=============================================================================
