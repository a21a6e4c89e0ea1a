----------------------------- MODULE MCOperator -----------------------------
(* Constants for model checking Operator and Notifier. *)
EXTENDS Notifier

MCWorkload == {"shop"}
MCAlertName == {"crashloop"}
MCSource == {"alertmanager"}
MCFp == {}
MCNoAdvisory == {}
MCTwoRequests == {"q1", "q2"}

MCFaults == {"store", "github", "answer", "crash"}
MCChatFaults == {"fails", "answer"}
=============================================================================
