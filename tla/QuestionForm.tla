----------------------------- MODULE QuestionForm -----------------------------
(***************************************************************************)
(* The form a question is written in (features/questions/question-form),  *)
(* new or with the question to edit.  It offers what its type allows and   *)
(* turns its options and test cases over when the type or language turns.  *)
(***************************************************************************)
EXTENDS QuestionSchema

VARIABLES
  form,        \* the fields of the form, NoForm when it is not open
  editing,     \* initialData.id: the question that is edited, 0 for a new one
  submitting,  \* the button is disabled and says "Saving"
  torn,        \* history: the question was read while another save replaced it
  lost         \* history: the answer to the save of this form never came

formVars == <<form, editing, submitting, torn, lost>>

NoForm == [type |-> "none"]
IsOpen == form # NoForm
DefaultLanguage == "python"

DefaultTestCasesFor(language) == IF Executable(language) THEN 1 ELSE 0

DefaultOptionsFor(type) ==
  CASE type \in ChoiceTypes -> <<FALSE, FALSE>>
    [] type \in TextTypes \union {"numeric_answer"} -> <<TRUE>>
    [] OTHER -> <<>>

BlankForm ==
  [type |-> "multiple_choice", options |-> DefaultOptionsFor("multiple_choice"),
   language |-> DefaultLanguage, testCases |-> 0, previewHtml |-> FALSE, complete |-> FALSE]

\* The state a question that was read starts the form with.
FormOf(question) == [question EXCEPT !.language = IF @ = "none" THEN DefaultLanguage ELSE @]

\* The request the form sends.
Payload == [form EXCEPT !.previewHtml = @ /\ form.language = "css"]

-----------------------------------------------------------------------------
\* What the form offers.
IsCode == form.type = "code_answer"
OffersMarks == IsOpen /\ form.type \in ChoiceTypes
OffersRemoval ==
  /\ IsOpen
  /\ \/ form.type \in ChoiceTypes \ {"true_false"} /\ Len(form.options) > 2
     \/ form.type \in TextTypes /\ Len(form.options) > 1
OffersOption ==
  /\ IsOpen
  /\ form.type \in (ChoiceTypes \ {"true_false"}) \union TextTypes
  /\ Len(form.options) < MaxOptions
OffersTestCases == IsOpen /\ IsCode /\ Executable(form.language)

Set(fields) == form' = fields /\ UNCHANGED <<editing, submitting, torn, lost>>

\* What is complete after something was removed from the form: as much as was
\* before, or more.
CompleteAfterRemoval == IF form.complete THEN {TRUE} ELSE BOOLEAN

\* Types whose default options, or default test case, are blank.
StartsBlank(type) == type \notin {"true_false", "essay"}

\* The options are those of the new type. What css kept to be tried on stays.
HandleTypeChange(type) ==
  /\ IsOpen /\ type # form.type
  /\ \E complete \in IF StartsBlank(type) THEN {FALSE} ELSE CompleteAfterRemoval :
       Set([form EXCEPT
              !.type = type,
              !.options = DefaultOptionsFor(type),
              !.language = IF type = "code_answer" THEN @ ELSE DefaultLanguage,
              !.testCases = IF type = "code_answer" THEN DefaultTestCasesFor(form.language) ELSE 0,
              !.complete = complete])

\* Bug: a language that does not run keeps the test cases of the one before.
HandleLanguageKeepsCases(language) ==
  /\ IsOpen /\ IsCode /\ language # form.language
  /\ Set([form EXCEPT !.language = language, !.previewHtml = @ /\ language = "css"])

HandleCodeLanguageChange(language) ==
  /\ IsOpen /\ IsCode /\ language # form.language
  /\ LET testCases == IF Executable(language) /\ form.testCases > 0 THEN form.testCases
                      ELSE DefaultTestCasesFor(language)
     IN \E complete \in IF testCases > form.testCases THEN {FALSE}
                        ELSE IF testCases < form.testCases THEN CompleteAfterRemoval
                        ELSE {form.complete} :
          Set([form EXCEPT !.language = language, !.testCases = testCases,
                           !.previewHtml = @ /\ language = "css", !.complete = complete])

ChangePreview ==
  /\ IsOpen /\ IsCode /\ form.language = "css"
  /\ Set([form EXCEPT !.previewHtml = ~@])

\* Subject, text, the texts of the options and the outputs expected.
FillIn == IsOpen /\ Set([form EXCEPT !.complete = ~@])

AddTestCase ==
  /\ OffersTestCases /\ form.testCases < MaxTestCases
  /\ Set([form EXCEPT !.testCases = @ + 1, !.complete = FALSE])

RemoveTestCase ==
  /\ OffersTestCases /\ form.testCases > 1
  /\ \E complete \in CompleteAfterRemoval :
       Set([form EXCEPT !.testCases = @ - 1, !.complete = complete])

SetCorrectOption(i) ==
  /\ OffersMarks
  /\ IF form.type \in SingleChoice
       THEN Set([form EXCEPT !.options = [j \in DOMAIN @ |-> j = i]])
       ELSE Set([form EXCEPT !.options[i] = ~@])

\* Bug: the button is there however many options there are.
AddOptionAnyway ==
  /\ IsOpen /\ form.type \in {"multiple_choice", "multiple_answer"}
  /\ Set([form EXCEPT !.options = Append(@, FALSE), !.complete = FALSE])

AddOption ==
  /\ OffersOption
  /\ Set([form EXCEPT !.options = Append(@, FALSE), !.complete = FALSE])

RemoveOption(i) ==
  /\ OffersRemoval
  /\ \E complete \in CompleteAfterRemoval :
       Set([form EXCEPT !.options = RemoveAt(@, i), !.complete = complete])

Edit ==
  \/ \E type \in Types : HandleTypeChange(type)
  \/ \E language \in Languages : HandleCodeLanguageChange(language)
  \/ ChangePreview \/ FillIn
  \/ AddTestCase \/ RemoveTestCase
  \/ AddOption
  \/ IsOpen /\ \E i \in DOMAIN form.options : SetCorrectOption(i) \/ RemoveOption(i)

-----------------------------------------------------------------------------
FormTypeOK ==
  /\ form = NoForm \/ form \in Inputs
  /\ submitting \in BOOLEAN /\ torn \in BOOLEAN /\ lost \in BOOLEAN

\* However the type, the language and the rows were changed before, all that
\* the schema can still refuse in the form is a blank or a mark: the number of
\* options and of test cases is right for the type ("switching languages can
\* never leave the form in a state that would fail that rule on submit").  A
\* question that was read while it was being replaced is no such form.
FormFitsSchema == IsOpen /\ ~torn => ShapeFits(Payload)
=============================================================================
