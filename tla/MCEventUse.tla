----------------------------- MODULE MCEventUse ----------------------------
(* Processes that set and unset an event, perhaps twice, and processes     *)
(* that request it, wait for it and release it.                            *)
EXTENDS EventUse, TLC, FiniteSets

Do(cmd) == Ask(cmd, "state", CHOOSE e \in Name : TRUE)
StateCalls == {Do(cmd) : cmd \in Command}

Use == <<Do("request"), Do("wait"), Do("release")>>
Provide == <<Do("set"), Do("unset")>>
SampleScripts == {Use, Provide, Use \o Use, Provide \o Provide}
Symmetry == Permutations(Client)
============================================================================
