----------------------------- MODULE MCPackets ------------------------------
(***************************************************************************)
(* A resume whose only role the LinkedIn export dates differently and lists *)
(* twice; an older resume with an address that is not the profile's, and    *)
(* one, whose parsing may fail, with a role that the export does not have;  *)
(* and a form of which the profile answers all but a required question that *)
(* is sensitive.                                                            *)
(***************************************************************************)
EXTENDS Packets

Role(employer, start, end) ==
  [kind |-> "role", children |-> <<>>,
   data |-> [title |-> "Engineer", employer |-> employer, start |-> start, end |-> end]]
Item(kind, data) == [kind |-> kind, data |-> data, children |-> <<>>]

MCDocuments == {"resume", "older", "scan", "export"}
MCKindOf == [d \in MCDocuments |-> IF d = "export" THEN "linkedin_export" ELSE "resume"]
MCContent ==
  [d \in MCDocuments |->
     CASE d = "resume" -> << Role("Examplecorp", <<2020, 0>>, <<2022, 3>>) >>
       [] d = "older" -> << Item("contact", "old@example.com") >>
       [] d = "scan" -> << Role("Samplesoft", <<2018, 1>>, <<2020, 0>>) >>
       [] d = "export" -> << Role("Examplecorp Inc", <<2020, 5>>, <<2022, 4>>),
                             Role("Examplecorp Inc", <<2020, 5>>, <<2022, 4>>) >>]
MCAlike == {"Examplecorp", "Examplecorp Inc"} \X {"Examplecorp", "Examplecorp Inc"}
MCTyped == {[kind |-> "achievement", data |-> "led"]}
MCKeyOf == [q \in {"authorized"} |-> "work_authorization"]
=============================================================================
