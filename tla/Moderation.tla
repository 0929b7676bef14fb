----------------------------- MODULE Moderation -----------------------------
(***************************************************************************)
(* What becomes of a message in the community chat: its update may be      *)
(* dropped; a router before link_moderation may take it; link_moderation   *)
(* removes it, with a warning that is taken away again after some seconds, *)
(* or hands it on to karma, which tracks it so that it can be voted on.    *)
(* Most steps are calls to Telegram that can fail.  Waiting updates and    *)
(* the tasks that take the warnings away are lost when the process stops.  *)
(***************************************************************************)
EXTENDS Records

CONSTANTS Messages,
          Links,        \* messages in which a link is found
          Notices,      \* the chat's own messages about somebody who joined
          Commands,     \* messages that an earlier router takes: /start, /settings and the
                        \* like, whoever sends them, or an answer in a dialog opened here
          Channels,     \* messages sent in the name of a chat or channel, or by a bot
          Author,       \* who sends each message, or has joined
          ChatAdmins    \* administrators of the chat, as Telegram has them

ASSUME ModerationAssumption ==
    /\ Links \subseteq Messages /\ Notices \subseteq Messages
    /\ Commands \subseteq Messages \ Notices /\ Channels \subseteq Messages \ Notices
    /\ Author \in [Messages -> Members]
    /\ ChatAdmins \subseteq Members

VARIABLES at,        \* how far the handling of each message is
          visible,   \* messages shown in the chat
          tracked,   \* messages with a message_feedback row
          warnings,  \* messages whose warning is shown
          cleanups,  \* messages whose warning is to be taken away
          troubled   \* messages on whose way a call failed or was never made

moderationVars == <<at, visible, tracked, warnings, cleanups, troubled>>

ModerationTypeOK ==
    /\ at \in [Messages -> {"unsent", "sent", "delete", "warn", "track", "done"}]
    /\ visible \subseteq Messages /\ tracked \subseteq Messages
    /\ warnings \subseteq Messages /\ cleanups \subseteq warnings
    /\ troubled \subseteq Messages

ModerationInit ==
    /\ at = [m \in Messages |-> "unsent"]
    /\ visible = {} /\ tracked = {} /\ warnings = {} /\ cleanups = {} /\ troubled = {}

Go(m, step) == at' = [at EXCEPT ![m] = step]

\* A call for m fails.
Trouble(m) == troubled' = troubled \cup {m}

-----------------------------------------------------------------------------

Send(m) ==
    /\ at[m] = "unsent" /\ Go(m, "sent")
    /\ visible' = visible \cup {m}
    /\ UNCHANGED <<tracked, warnings, cleanups, troubled>>

\* ThrottlingMiddleware: sent less than 700 ms after the last one.
Throttle(m) ==
    /\ at[m] = "sent" /\ Go(m, "done") /\ Trouble(m)
    /\ UNCHANGED <<visible, tracked, warnings, cleanups>>

Faulty_Take(m) == FALSE

\* A command is answered, or refused to who is no admin without an answer, and goes no
\* further; and so does what belongs to a dialog.
Take(m) ==
    /\ at[m] = "sent" /\ m \in Commands /\ Go(m, "done")
    /\ UNCHANGED <<visible, tracked, warnings, cleanups, troubled>>

Faulty_Exempt(m) == m \in Channels \/ m \notin Links

\* A message that link_moderation leaves alone.
Exempt(m) == m \in Channels \/ Author[m] \in ChatAdmins \/ m \notin Links

\* on_join_service_message; a failed deletion is ignored.
RemoveNotice(m) ==
    /\ at[m] = "sent" /\ m \in Notices /\ Go(m, "done")
    /\ \/ connected /\ visible' = visible \ {m} /\ UNCHANGED troubled
       \/ UNCHANGED visible /\ Trouble(m)
    /\ UNCHANGED <<tracked, warnings, cleanups>>

\* SkipHandler hands the message on to karma.  Who sent it is looked at before
\* anything else.
CheckLinks(m) ==
    /\ at[m] = "sent" /\ m \notin Notices \cup Commands
    /\ \/ /\ connected /\ ~ Exempt(m)
          /\ Go(m, "delete") /\ UNCHANGED troubled
       \/ /\ connected \/ m \in Channels
          /\ Exempt(m)
          /\ Go(m, "track") /\ UNCHANGED troubled
       \/ /\ ~ connected /\ m \notin Channels
          /\ Go(m, "track") /\ Trouble(m)
    /\ UNCHANGED <<visible, tracked, warnings, cleanups>>

\* get_chat_member fails.
StatusUnknown(m) ==
    /\ at[m] = "sent" /\ m \notin Notices \cup Commands \cup Channels /\ connected
    /\ Go(m, "track") /\ Trouble(m)
    /\ UNCHANGED <<visible, tracked, warnings, cleanups>>

Faulty_Delete(m) ==
    /\ at[m] = "delete"
    /\ visible' = visible \ {m} /\ Go(m, "track")
    /\ UNCHANGED <<tracked, warnings, cleanups, troubled>>

Delete(m) ==
    /\ at[m] = "delete"
    /\ visible' = visible \ {m} /\ Go(m, "warn")
    /\ UNCHANGED <<tracked, warnings, cleanups, troubled>>

\* The right is missing: handed on like any other.
DeleteRefused(m) ==
    /\ at[m] = "delete"
    /\ Go(m, "track") /\ Trouble(m)
    /\ UNCHANGED <<visible, tracked, warnings, cleanups>>

Faulty_Warn(m) ==
    /\ at[m] = "warn" /\ Go(m, "done")
    /\ warnings' = warnings \cup {m}
    /\ UNCHANGED <<visible, tracked, cleanups, troubled>>

\* The warning is sent and a task takes it away later; or sending it fails.
Warn(m) ==
    /\ at[m] = "warn" /\ Go(m, "done")
    /\ \/ warnings' = warnings \cup {m} /\ cleanups' = cleanups \cup {m}
       \/ UNCHANGED <<warnings, cleanups>>
    /\ UNCHANGED <<visible, tracked, troubled>>

\* on_group_message: tracked if the author may be voted on.
Track(m) ==
    /\ at[m] = "track" /\ Go(m, "done")
    /\ tracked' \in IF connected /\ m \notin Channels THEN {tracked, tracked \cup {m}}
                   ELSE {tracked}
    /\ UNCHANGED <<visible, warnings, cleanups, troubled>>

Faulty_CleanUp(m) ==
    /\ m \in cleanups
    /\ warnings' = warnings \ {m}
    /\ UNCHANGED <<at, visible, tracked, cleanups, troubled>>

\* _cleanup_warning; a failed deletion is ignored.
CleanUp(m) ==
    /\ m \in cleanups /\ cleanups' = cleanups \ {m}
    /\ \/ warnings' = warnings \ {m} /\ UNCHANGED troubled
       \/ UNCHANGED warnings /\ Trouble(m)
    /\ UNCHANGED <<at, visible, tracked>>

\* Flood control or the network: raises out of the handler, the message of a call
\* in flight deleted or not.
Raise(m) ==
    /\ at[m] \in {"sent", "delete", "warn", "track"}
    /\ visible' \in IF at[m] = "delete" \/ m \in Notices THEN {visible, visible \ {m}} ELSE {visible}
    /\ warnings' \in IF at[m] = "warn" THEN {warnings, warnings \cup {m}} ELSE {warnings}
    /\ Go(m, "done") /\ Trouble(m)
    /\ UNCHANGED <<tracked, cleanups>>

\* The process stops and starts again, with drop_pending_updates.
Stop ==
    /\ at' = [m \in Messages |-> IF at[m] = "unsent" THEN "unsent" ELSE "done"]
    /\ troubled' = troubled \cup cleanups \cup {m \in Messages : at[m] \notin {"unsent", "done"}}
    /\ cleanups' = {}
    /\ UNCHANGED <<visible, tracked, warnings>>

Moderate(m) ==
    \/ Throttle(m) \/ Take(m) \/ RemoveNotice(m) \/ CheckLinks(m) \/ StatusUnknown(m) \/ Delete(m)
    \/ DeleteRefused(m) \/ Warn(m) \/ Track(m) \/ CleanUp(m) \/ Raise(m)

-----------------------------------------------------------------------------
(***************************************************************************)
(* Properties                                                              *)
(***************************************************************************)

\* A message that was handled without trouble is in the chat if and only if it is no
\* notice and may have a link: an administrator's (link_moderation.py:100), one in the
\* name of a channel (link_moderation.py:81), or one that an earlier router took
\* (router.py:12).
LinksRemoved ==
    \A m \in Messages : at[m] = "done" /\ m \notin troubled =>
        (m \in visible <=>
            /\ m \notin Notices
            /\ m \in Links => m \in Commands \cup Channels \/ Author[m] \in ChatAdmins)

\* What is removed is not voted on: of a message that moderation took away no row
\* is kept that karma could be counted by (router.py:190, SkipHandler).
RemovedNotTracked == tracked \subseteq visible

\* A warning does not stay: it is shown only while its removal is pending, unless
\* that failed or was lost with the process (link_moderation.py:75).
WarningsPass == warnings \subseteq cleanups \cup troubled

\* link_moderation.py:75 "Delete link/mention-of-external-resource messages from
\* non-admin members.": in the chat that the bot is configured for, when no call for it
\* fails, a message with a link stays only if an administrator has sent it.
MembersLinksDeleted ==
    \A m \in visible \cap Links :
        connected /\ at[m] = "done" /\ m \notin troubled => Author[m] \in ChatAdmins
=============================================================================
