----------------------------- MODULE MCPipeline -----------------------------
(* Constants for model checking Pipeline on its own. *)
EXTENDS PipelineLife

MCWorkload == {"shop"}
MCAlertName == {"crashloop"}
MCSource == {"alertmanager"}
MCFp == {}
MCNoAdvisory == {}

MCNoFaults == {}
MCFaults == {"github", "crash"}

\* Tickets differ by number only, and no step of Pipeline depends on the flap cooldown: states
\* in which tickets have changed places are one, and so are those that differ in `cooling', or
\* in what the end of a run leaves unread.
MCOf(t) ==
    <<[row[t] EXCEPT !.cooling = FALSE], pc[t], mem[t], github[t], mirror[t], resolving[t],
      IF pc[t] \in Active THEN goal[t] ELSE "-",
      IF pc[t] \in Active \/ github[t] = "automerged" THEN safe[t] ELSE FALSE>>
MCView ==
    LET kinds == {MCOf(t) : t \in Ticket} IN
    <<created, slots, paused, [k \in kinds |-> Cardinality({t \in Ticket : MCOf(t) = k})]>>

\* A third ticket is there for the slots and the limit, where no run was given up and
\* nobody has resolved or reviewed anything.
MCThirdIsPlain ==
    created > 2 =>
        /\ ~paused
        /\ \A t \in Existing :
             /\ "resolved" \notin row[t].took
             /\ pc[t] \notin {"aborted", "lost", "skipped"}
             /\ github[t] \notin {"merged", "closed"}

\* A pause is looked at only when a ticket is handed off, and matters to nobody before.
MCPauseMatters == paused => \E t \in Ticket : pc[t] \in {"created", "skipped"}
=============================================================================
