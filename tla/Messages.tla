------------------------------ MODULE Messages ------------------------------
(***************************************************************************)
(* Private messages: handler/pm.go over store/sqlite/pm.go.  A message has *)
(* one row for both sides; deleting it hides it from one side and the row  *)
(* is never removed.  The hourly limit is RateLimiter's.                   *)
(***************************************************************************)
EXTENDS Requests

VARIABLES
    messages,  \* private_messages table: id -> row
    dealt      \* history: <<what, user, message>>, what users did to messages

messageVars == <<messages, dealt>>

MessageRow == [sender : Users, recipient : Users, read : BOOLEAN,
               senderDeleted : BOOLEAN, recipientDeleted : BOOLEAN]

MessagePCs == {"markRead", "hide"}

Sent == {m \in RowIds : messages[m] # None}

\* The message is in the user's box.
Visible(u, m) ==
    \/ messages[m].sender = u /\ ~messages[m].senderDeleted
    \/ messages[m].recipient = u /\ ~messages[m].recipientDeleted

-----------------------------------------------------------------------------

CreatePM(u, to) ==
    \E m \in RowIds :
        /\ NextKey(Sent, m)
        /\ messages' = [messages EXCEPT ![m] =
             [sender |-> u, recipient |-> to, read |-> FALSE,
              senderDeleted |-> FALSE, recipientDeleted |-> FALSE]]

\* After RateLimiter has admitted the request: one it denies is answered 429 and
\* changes nothing here.  The recipient was looked up and is somebody else;
\* accounts are never deleted, so the insert is the only step.
SendMessage(p) ==
    /\ At(p, "idle") /\ "send" \in kinds
    /\ \E u, to \in Users : to # u /\ CreatePM(u, to)
    /\ UNCHANGED <<threads, posts, lost, clock, kinds, req, dealt>>

\* Only the recipient's first view goes on to mark the message.
ViewMessage(p) ==
    /\ \E u \in Users, m \in Sent :
         /\ Visible(u, m)
         /\ dealt' = dealt \cup {<<"open", u, m>>}
         /\ IF messages[m].recipient = u /\ ~messages[m].read
            THEN Start(p, "open", [NoRequest EXCEPT !.pc = "markRead", !.user = u, !.row = m])
            ELSE At(p, "idle") /\ "open" \in kinds /\ UNCHANGED req
    /\ UNCHANGED <<threads, posts, lost, clock, kinds, messages>>

\* Mutant: the row that was read is written back with the flag set.
MarkPMReadWholeRow(p) ==
    /\ At(p, "markRead")
    /\ messages' = [messages EXCEPT ![req[p].row].read = TRUE,
                                    ![req[p].row].recipientDeleted = FALSE]
    /\ Finish(p)
    /\ UNCHANGED <<threads, posts, lost, clock, kinds, dealt>>

MarkPMRead(p) ==
    /\ At(p, "markRead")
    /\ messages' = [messages EXCEPT ![req[p].row].read = TRUE]
    /\ Finish(p)
    /\ UNCHANGED <<threads, posts, lost, clock, kinds, dealt>>

\* The message is read first, to see whose side it is; that the side has
\* deleted it already is not asked.
DeleteMessage(p) ==
    /\ \E u \in Users, m \in Sent :
         /\ u \in {messages[m].sender, messages[m].recipient}
         /\ Start(p, "deleteMessage",
                  [NoRequest EXCEPT !.pc = "hide", !.user = u, !.row = m])
    /\ UNCHANGED <<threads, posts, lost, clock, kinds, messages, dealt>>

DeletePMForSender(m) == messages' = [messages EXCEPT ![m].senderDeleted = TRUE]
DeletePMForRecipient(m) == messages' = [messages EXCEPT ![m].recipientDeleted = TRUE]

Hide(p) ==
    /\ At(p, "hide")
    /\ IF messages[req[p].row].sender = req[p].user
       THEN DeletePMForSender(req[p].row)
       ELSE DeletePMForRecipient(req[p].row)
    /\ dealt' = dealt \cup {<<"delete", req[p].user, req[p].row>>}
    /\ Finish(p)
    /\ UNCHANGED <<threads, posts, lost, clock, kinds>>

MessagesInit ==
    /\ messages = [m \in RowIds |-> None]
    /\ dealt = {}

MessagesNext(p) ==
    SendMessage(p) \/ ViewMessage(p) \/ MarkPMRead(p) \/ DeleteMessage(p) \/ Hide(p)

MessagesTypeOK ==
    /\ messages \in [RowIds -> MessageRow \cup {None}]
    /\ dealt \subseteq {"open", "delete"} \X Users \X RowIds
=============================================================================
