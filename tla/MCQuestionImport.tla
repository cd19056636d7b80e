--------------------------- MODULE MCQuestionImport ---------------------------
(* Instances of QuestionImport for TLC. *)
EXTENDS QuestionImport

CONSTANTS k1, k2, csv, tab1, tab2, sheets1, sheets2, m1, m2, m3

Row(key, fits) == [key |-> key, fits |-> fits]

\* Under its detected mapping the file has a row twice and one that does not
\* fit; under the other mapping its rows are different questions.
MCRows ==
  [f \in Files |-> [m \in Mappings |->
     IF f = csv /\ m = m1 THEN << Row(k1, TRUE), Row(k2, FALSE), Row(k1, TRUE) >>
     ELSE IF f = csv /\ m = m2 THEN << Row(k1, TRUE), Row(k2, TRUE) >>
     ELSE << Row(k2, TRUE) >>]]

MCDetected == [f \in Files |-> m1]
MCTabs == [x \in Spreadsheets |-> IF x = sheets1 THEN {tab1} ELSE {tab2}]
=============================================================================
