--------------------------- MODULE ScoutCallback ---------------------------
(***************************************************************************)
(* internal/api/router.go, handleTelegramCallback: a press of a button of  *)
(* a scout message ends with an edit of the message's keyboard.  Telegram  *)
(* sends each press with the keyboard as it was then, the handler replaces *)
(* one row of that copy by a link to the issue, and writes the whole copy  *)
(* back.                                                                   *)
(*                                                                         *)
(* There is one message with a row per source, so rows are named by their  *)
(* sources.  Presses that are refused before Create (chat, user, data, no  *)
(* message, no such draft, draft not accepted) change nothing.             *)
(***************************************************************************)
EXTENDS ScoutSpike

VARIABLES
    keyboard,  \* row -> the issue it links to, or NoIssue: the draft's buttons
    press      \* Press -> the handler's own variables, see Handler

callbackVars == <<keyboard, press>>

Keyboard == [Src -> Issue \cup {NoIssue}]

Blank == [s \in Src |-> NoIssue]

\* at: before, in or after Create.  msg: cq.Message.ReplyMarkup.  res: what Create
\* returned, NoIssue for an error.
Handler == [at: {"none", "received", "create", "edit"}, row: Src \cup {NoSrc},
            msg: Keyboard, res: Issue \cup {NoIssue}]

None == [at |-> "none", row |-> NoSrc, msg |-> Blank, res |-> NoIssue]

CallbackInit ==
    /\ ScoutInit
    /\ keyboard = Blank
    /\ press = [p \in Press |-> None]

\* The keyboards a delivery can carry: the one that is shown, or that of a press that
\* is still being handled and is delivered again.
Carried(s) == {keyboard} \cup {press[q].msg : q \in {q \in Press : press[q].row = s}}

\* FindDraft: the row still has its draft.
HasDraft(msg, s) == msg[s] = NoIssue

Receive(p, s) ==
    /\ press[p].at = "none"
    /\ \E msg \in Carried(s) :
         /\ HasDraft(msg, s)
         /\ press' = [press EXCEPT ![p] = [None EXCEPT !.at = "received", !.row = s, !.msg = msg]]
    /\ UNCHANGED <<scoutVars, keyboard>>

Enter(p) ==
    /\ press[p].at = "received"
    /\ EntryFor(p, press[p].row)
    /\ press' = [press EXCEPT ![p].at = "create"]
    /\ UNCHANGED keyboard

\* The issue Create returns: what the memo names when it unlocks, if the memo is live.
Returned(p) == IF live'[job[p].entry] THEN memo'[job[p].entry] ELSE NoIssue

Create(p) ==
    /\ press[p].at = "create"
    /\ CreateStep(p)
    /\ press' =
         IF job[p].step # "unlock" /\ job'[p].step = "unlock"
         THEN [press EXCEPT ![p].res = Returned(p)]
         ELSE IF job'[p] # Idle THEN press
         ELSE [press EXCEPT ![p] = IF @.res = NoIssue THEN None ELSE [@ EXCEPT !.at = "edit"]]
    /\ UNCHANGED keyboard

NextRow(h) == [s \in Src |-> IF s = h.row THEN h.msg[s] ELSE h.res]

\* The copy with the row of the press replaced.
Edited(h) == [h.msg EXCEPT ![h.row] = h.res]

\* EditMessageReplyMarkup; a failure is only logged.
Edit(p) ==
    /\ press[p].at = "edit"
    /\ keyboard' = Edited(press[p]) \/ UNCHANGED keyboard
    /\ press' = [press EXCEPT ![p] = None]
    /\ UNCHANGED scoutVars

Die == Crash /\ press' = [p \in Press |-> None] /\ UNCHANGED keyboard

Around ==
    /\ \/ \E i \in Issue : Index(i)
       \/ \E e \in Entry : Expire(e)
       \/ ByHand
    /\ UNCHANGED callbackVars

CallbackNext ==
    \/ \E p \in Press : (\E s \in Src : Receive(p, s)) \/ Enter(p) \/ Create(p) \/ Edit(p)
    \/ Around \/ Die

CallbackSpec == CallbackInit /\ [][CallbackNext]_<<scoutVars, callbackVars>>

CallbackTypeOK == keyboard \in Keyboard /\ press \in [Press -> Handler]

LinksOf(msg) == \A s \in Src : msg[s] # NoIssue => issue[msg[s]] = s

\* However presses overlap, are delivered twice or share a memo, and whatever an
\* edit of an old copy undoes: a row that shows a link, and the answer to a press,
\* name an issue of the row's own source.  A row that an edit took back to its draft
\* can be pressed again.
LinksTellTheTruth ==
    /\ CallbackTypeOK
    /\ LinksOf(keyboard)
    /\ \A p \in Press : LinksOf(press[p].msg) /\ (press[p].res # NoIssue => issue[press[p].res] = press[p].row)

-----------------------------------------------------------------------------
(* The inductive invariant behind the property *)

\* A press calls Create for the source of its row.
Serving ==
    \A p \in Press :
        /\ press[p] # None => press[p].row \in Src
        /\ press[p].at = "create" => job[p].step # "idle" /\ job[p].src = press[p].row

CallbackInv == ScoutInv /\ Serving /\ LinksTellTheTruth

=============================================================================
