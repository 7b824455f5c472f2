------------------------- MODULE MCPowerShellAdapter --------------------------
\* Two hosts; the first profile has text of the user, the second is an empty file.
EXTENDS PowerShellAdapter

CONSTANTS WindowsPowerShell, PowerShell, text, empty

MCEdition == {WindowsPowerShell, PowerShell}
MCOrder == <<WindowsPowerShell, PowerShell>>
MCUsers == {text}
MCStart == [e \in MCEdition |-> IF e = WindowsPowerShell
              THEN [present |-> TRUE, text |-> text, block |-> "none"]
              ELSE [present |-> TRUE, text |-> empty, block |-> "none"]]
===============================================================================
