----------------------------- MODULE MCMsgQueue ----------------------------
(* An engine, one test module controller and one test process.             *)
EXTENDS MsgQueue

CONSTANTS engine, tmc, tp

System == {engine, tmc, tp}
ReportLinks == {<<tmc, engine>>, <<tp, tmc>>}
(* The test process sends up to three messages, the controller two.        *)
Reports == [p \in System |-> IF p = tp THEN 3 ELSE IF p = tmc THEN 2 ELSE 0]
TwoEach == [p \in System |-> 2]
============================================================================
