----------------------------- MODULE MCMonitors -----------------------------
(* Constants for model checking the poller beside failing workflows and manual analyses. *)
EXTENDS Poller

MCArgo == {"shopArgo"}
MCCI == {"shopCI"}
MCWorkload == MCArgo \cup MCCI
MCBlank == {NoAlertName}
MCSource == {"polling", "alertmanager", "manual", "github_webhook"}
MCDelivery == {"d1"}
MCNone == {}
MCNoKey == [f \in {} |-> <<"shopArgo", NoAlertName>>]
MCAllKeys == Key

MCFaults == {"api", "store", "crash"}
=============================================================================
