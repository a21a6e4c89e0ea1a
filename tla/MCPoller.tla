------------------------------ MODULE MCPoller ------------------------------
(* Constants for model checking Poller, under fairness. *)
EXTENDS Poller

MCWorkload == {"shop", "canary"}
MCIgnored == {"canary"}
MCAlertName == {"crashloop"}
MCAlertManager == {"alertmanager"}
MCNone == {}
MCFp == {"f1", "f2"}
MCOneHandler == {"h1"}
MCOneGroup == {{"f1", "f2"}}
MCKeyOf == [f \in MCFp |-> <<IF f = "f1" THEN "shop" ELSE "canary", "crashloop">>]
MCAllKeys == Key

MCCrash == {"crash"}
=============================================================================
