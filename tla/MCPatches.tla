------------------------------ MODULE MCPatches ------------------------------
(* Constants for model checking Patches. *)
EXTENDS Patches

Comments == {<<"comment", "file">>}

\* The chart's image, and the images of sidecars.
ImageFile == Comments \cup
    ({"image", "other"} \X {"file", "other"}) \cup ({"tag"} \X {"file", "image", "other"})

\* The probes of a chart, those of a manifest, and a liveness of something else.
ProbeFile == Comments \cup
    {<<"probes", "file">>, <<"liveness", "probes">>, <<"liveness", "file">>, <<"other", "file">>,
     <<"livenessProbe", "file">>, <<"livenessProbe", "other">>, <<"other", "liveness">>} \cup
    ({"initialDelaySeconds"} \X {"liveness", "livenessProbe", "other"})

\* The resources of the service and of a sidecar.
ResourceFile == Comments \cup
    {<<"resources", "file">>, <<"other", "file">>, <<"resources", "other">>} \cup
    ({"limits", "requests"} \X {"resources"}) \cup ({"cpu", "memory"} \X {"limits", "requests"})

MCForms == {[inside |-> ImageFile,
             values |-> {1, 2}, lines |-> 5, indent |-> 2, value |-> 2],
            [inside |-> ProbeFile,
             values |-> {10}, lines |-> 5, indent |-> 2, value |-> 60],
            [inside |-> ResourceFile,
             values |-> {100}, lines |-> 5, indent |-> 3, value |-> 300]}
=============================================================================
