---------------------------- MODULE QuestionSchema ----------------------------
(***************************************************************************)
(* What a question may be (questions/question.schema.ts): the number of    *)
(* its options and test cases, and which options are correct, by its type. *)
(*                                                                         *)
(* An option is whether it is marked correct; of the test cases the number *)
(* counts; complete says that no text that is required is blank.           *)
(***************************************************************************)
EXTENDS Naturals, Sequences, FiniteSets, SequencesExt

CONSTANTS
  Languages,     \* the code languages in play, of CODE_LANGUAGES
  MaxOptions,    \* MAX_OPTIONS: 10 in the code
  MaxTestCases   \* MAX_TEST_CASES: 20 in the code

ASSUME SchemaAssumption ==
  /\ Languages \subseteq {"html", "css", "python", "javascript"}
  /\ "python" \in Languages
  /\ MaxOptions \in Nat /\ MaxOptions >= 3
  /\ MaxTestCases \in Nat \ {0}

SingleChoice == {"multiple_choice", "true_false"}
ChoiceTypes == SingleChoice \union {"multiple_answer"}
TextTypes == {"short_answer", "fill_in_blank"}
Types == ChoiceTypes \union TextTypes \union {"essay", "numeric_answer", "code_answer"}
Executable(language) == language \in {"python", "javascript"}

\* No written answer of these is graded by the server.
NeedsManualGrading(input) ==
  \/ input.type = "essay"
  \/ input.type = "code_answer" /\ ~Executable(input.language)

Marked(options) == {i \in DOMAIN options : options[i]}

\* How many options a question of a type may have.
OptionCounts(type) ==
  CASE type \in {"multiple_choice", "multiple_answer"} -> 2 .. MaxOptions
    [] type = "true_false" -> {2}
    [] type \in TextTypes -> 1 .. MaxOptions
    [] type = "numeric_answer" -> {1}
    [] OTHER -> {0}

\* Test cases are for the languages that run, and for these there are some;
\* the page to try a style sheet on is for css alone.
CodeFits(input) ==
  input.type = "code_answer" =>
    /\ input.testCases <= MaxTestCases
    /\ Executable(input.language) <=> input.testCases > 0
    /\ input.previewHtml => input.language = "css"

\* What is left of the schema when every blank is filled and the right options
\* are marked.
ShapeFits(input) == Len(input.options) \in OptionCounts(input.type) /\ CodeFits(input)

MarksFit(input) ==
  LET correct == Cardinality(Marked(input.options)) IN
  /\ input.type \in SingleChoice => correct = 1
  /\ input.type = "multiple_answer" => correct >= 2 /\ correct < Len(input.options)

\* questionInputSchema accepts the input.
Accepts(input) == input.complete /\ ShapeFits(input) /\ MarksFit(input)

\* The rows of a question that was accepted: every option of a type without
\* marks is stored as correct, and only a code question has a language, test
\* cases and a page to try its style on.
Stored(input) ==
  [input EXCEPT
     !.options = [i \in DOMAIN @ |-> @[i] \/ input.type \notin ChoiceTypes],
     !.language = IF input.type = "code_answer" THEN @ ELSE "none",
     !.testCases = IF input.type = "code_answer" THEN @ ELSE 0,
     !.previewHtml = @ /\ input.type = "code_answer"]

Inputs ==
  [type : Types, options : BoundedSeq(BOOLEAN, MaxOptions), language : Languages,
   testCases : 0 .. MaxTestCases, previewHtml : BOOLEAN, complete : BOOLEAN]
=============================================================================
