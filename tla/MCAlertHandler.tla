--------------------------- MODULE MCAlertHandler ---------------------------
(* Constants for model checking AlertHandler. *)
EXTENDS AlertHandler

MCWorkload == {"shop"}
MCAlertName == {"crashloop", "restarts"}
MCOneAlertName == {"crashloop"}
MCSource == {"alertmanager"}
MCFp == {"f1", "f2"}
MCOneHandler == {"h1"}
MCHandler == {"h1", "h2"}

MCOneGroupOfTwo == {{"f1", "f2"}}
MCTwoGroups == {{"f1"}, {"f2"}}
MCSharedKey == [f \in MCFp |-> <<"shop", "crashloop">>]
MCOwnKeys == [f \in MCFp |-> <<"shop", IF f = "f1" THEN "crashloop" ELSE "restarts">>]

MCAllKeys == Key
MCNone == {}

MCNoFaults == {}
MCWebhookFaults == {"store", "hangup", "crash"}

\* The operator paused the pipeline before the first alert: every run is skipped.
MCPaused == created > 0 => paused
=============================================================================
