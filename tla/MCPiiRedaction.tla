---------------------------- MODULE MCPiiRedaction ----------------------------
(* PiiRedaction on resumes of two lines of interest, alone or one after the  *)
(* other below up to three lines that fill the header.                       *)
EXTENDS PiiRedaction

Title(w) == Token("title", w)
Plain(w) == Token("plain", w)

MCNames == {<<"Bo", "Chen">>, <<"Priya", "Chen">>, <<"Bo">>, <<"Bo", "Bo">>,
            <<"Bo", "O'Brien">>, <<"Bo", "Chen.">>}
MCWords == {"Bo", "(Bo", "Priya", "Chen", "Chen.", "O'Brien", "OBrien", "Kafka", "Backend",
            "Engineer", "python", "profile", "github", "Main", "NY"}
MCDistinctive == {"Priya", "Chen", "OBrien", "Kafka", "Backend"}
MCPairs == {"Bo", "NY"}
MCTitles == {"skills", "experience"}

MCOpened == [w \in MCWords |-> IF w = "(Bo" THEN "Bo" ELSE w]
MCClosed == [w \in MCWords |-> IF w = "Chen." THEN "Chen" ELSE w]
MCBare == [w \in MCWords |-> IF w = "O'Brien" THEN "OBrien" ELSE MCClosed[MCOpened[w]]]

MCLines == {
  <<Title("Bo"), Title("Chen")>>, <<Title("Chen")>>, <<Title("Bo")>>,
  <<Title("Priya"), Title("Chen"), Token("email", "")>>,
  <<Title("Bo"), Title("Chen"), Token("phone", "")>>,
  <<Title("Bo"), Title("Bo"), Title("Chen"), Plain("python")>>,
  <<Plain("Chen"), Plain("python")>>, <<Title("Chen"), Comma, Title("Bo")>>,
  <<Plain("(Bo"), Title("Chen."), Plain("python")>>,
  <<Title("Bo"), Title("O'Brien"), Plain("O'Brien")>>,
  <<Title("Backend"), Title("Engineer")>>,
  <<Token("heading", "skills")>>, <<Token("heading", "experience")>>,
  <<Token("phone", "")>>, <<Token("phone", ""), Token("email", "")>>,
  <<Token("dob", "")>>,
  <<Plain("python"), Title("Kafka")>>,
  <<Title("Kafka"), Token("years", "")>>,
  <<Token("link", "github")>>, <<Token("link", "Chen"), Comma, Plain("python")>>,
  <<Token("link", "Bo")>>,
  <<Token("address", "Main"), Plain("python"), Comma, Title("NY"), Title("Chen")>>,
  <<Token("address", "Main"), Comma, Title("Kafka"), Comma, Title("NY")>>,
  <<Token("address", "Chen")>> }

MCFill == <<Plain("profile"), Plain("python")>>
MCTexts ==
  {[i \in 1..fill |-> MCFill] \o below :
     fill \in 0..3, below \in {<<a>> : a \in MCLines} \cup MCLines \X MCLines}
===============================================================================
