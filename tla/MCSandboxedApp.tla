--------------------------- MODULE MCSandboxedApp ---------------------------
(* The instances of the run of SandboxedApp.                               *)
EXTENDS SandboxedApp

CONSTANTS A, B

\* One character each: A has two bytes, B has four and two units of UTF-16.
MCTexts == {A, B}
MCChars == [t \in MCTexts |-> 1]
MCUnits == [t \in MCTexts |-> IF t = A THEN 1 ELSE 2]
MCBytes == [t \in MCTexts |-> IF t = A THEN 2 ELSE 4]

MCDefaults == [f \in {"value", "total", "rows", "db"} |-> IF f = "value" THEN 4 ELSE 3]
MCBounds == [f \in {"value", "total", "rows", "db"} |->
               [min |-> IF f = "total" THEN 2 ELSE 1, max |-> 4]]

\* Some below the bounds, some above, one that is not a number.
MCOverrides == {[total |-> 2], [total |-> 9], [db |-> 0, value |-> 1], [db |-> Infinite]}

MCStatements == {[head |-> "INSERT", adds |-> 1], [head |-> "UPDATE", adds |-> 2],
                 [head |-> "WITH", adds |-> 1], [head |-> "DELETE", adds |-> -1]}

\* example.com, api.example.com and other.org.
MCHosts == {<<"com", "example">>, <<"com", "example", "api">>, <<"org", "other">>}
MCLists == {{}, {[wild |-> TRUE, name |-> <<"com", "example">>]},
            {[wild |-> FALSE, name |-> h] : h \in {<<"com", "example">>, <<"org", "other">>}}}

MCRecipients == {[user |-> "u", domain |-> <<"com", "example">>],
                 [user |-> "v", domain |-> <<"com", "example", "api">>]}
MCEntries == {[user |-> "u", wild |-> FALSE, domain |-> <<"com", "example">>],
              [user |-> None, wild |-> TRUE, domain |-> <<"com", "example">>]}
=============================================================================
