----------------------------- MODULE MemberTags -----------------------------
(***************************************************************************)
(* The tag next to a member's name in the chat, "<role> <karma>": a copy   *)
(* of two columns of the database, kept by Telegram.  Four handlers set    *)
(* it: for a reaction that changes karma, for a change of role, for a      *)
(* member who joins, and for /sync_tags.  Each reads role and karma, may   *)
(* have to wait before it gets through to Telegram, and what it writes to  *)
(* the database becomes visible afterwards, when it commits.               *)
(***************************************************************************)
EXTENDS Records, Integers

CONSTANTS NoTag,
          Handlers    \* what the event loop can have under way at a time

\* Without members there are no tags.
ASSUME TagsAssumption == Members # {}

VARIABLES karma,     \* karma_statistics.karma_points, as committed
          inChat,    \* Telegram: who is in the chat
          tag,       \* Telegram: the tags shown
          joined,    \* updates about members who joined, not yet handled
          handler    \* the handlers under way

tagVars == <<karma, inChat, tag, joined, handler>>

\* of: the member it is working on; roles: roles as loaded; points: karma to show,
\* and for a reaction to write; rest: members still to sync; again: the second
\* attempt; shown: members whose tag it set; alone: members whose tag no other
\* handler, nor anything else, had to do with since it began.
Handler == [kind : {"idle", "reaction", "role", "join", "sync"},
            at : {"write", "call", "next", "end"}, of : Members,
            roles : [Members -> Roles \cup {NoRole}], points : Int,
            rest : SUBSET Members, again : BOOLEAN,
            shown : SUBSET Members, alone : SUBSET Members]

Idle == [kind |-> "idle", at |-> "end", of |-> CHOOSE m \in Members : TRUE,
         roles |-> [m \in Members |-> NoRole], points |-> 0,
         rest |-> {}, again |-> FALSE, shown |-> {}, alone |-> {}]

TagsTypeOK ==
    /\ karma \in [Members -> Int]
    /\ inChat \subseteq Members /\ joined \subseteq Members
    /\ tag \in [Members -> (Roles \X Int) \cup {NoTag}]
    /\ handler \in [Handlers -> Handler]

TagsInit ==
    /\ karma = [m \in Members |-> 0]
    /\ inChat \in SUBSET Members /\ joined = {}
    /\ tag = [m \in Members |-> NoTag]
    /\ handler = [h \in Handlers |-> Idle]

-----------------------------------------------------------------------------

\* The members whose tag handler r may set.
Concerns(r) == CASE r.kind = "idle" -> {}
                 [] r.kind = "sync" -> {m \in Members : r.roles[m] # NoRole}
                 [] OTHER           -> {r.of}

\* Reactions to one author wait for each other in the database.
Orderly(r, s) == r.kind = "reaction" /\ s.kind = "reaction"

\* Something other than handler r happens to the members ms.
Disturb(r, ms) == [r EXCEPT !.alone = @ \ ms]

Begin(h, r) ==
    /\ handler[h] = Idle
    /\ LET others == {g \in Handlers \ {h} : ~ Orderly(handler[g], r)}
           busy   == UNION {Concerns(handler[g]) : g \in others}
       IN handler' = [g \in Handlers |->
              IF g = h THEN [r EXCEPT !.alone = Concerns(r) \ busy]
              ELSE IF g \in others THEN Disturb(handler[g], Concerns(r))
              ELSE handler[g]]

\* Nobody else has an uncommitted change of u's role.
RoleFree(u) == \A h \in Handlers : handler[h].kind = "role" => handler[h].of # u

\* The karma is read in a session of its own.
Faulty_Tagged(r) == IF r.of \in inChat THEN [tag EXCEPT ![r.of] = <<r.roles[r.of], karma[r.of]>>]
                    ELSE tag

\* The tags as a handler's call leaves them; <role> <karma> is short enough to be
\* shown in full.
Tagged(r) == IF r.of \in inChat THEN [tag EXCEPT ![r.of] = <<r.roles[r.of], r.points>>]
             ELSE tag

Advance(h, r) == handler' = [handler EXCEPT ![h] = r]

-----------------------------------------------------------------------------
(***************************************************************************)
(* How the handlers begin.                                                 *)
(***************************************************************************)

\* The statistics of the author are loaded and changed by d.
BeginReaction(h, u, d) ==
    /\ connected
    /\ Begin(h, [Idle EXCEPT !.kind = "reaction", !.at = "write", !.of = u,
                             !.points = karma[u] + d])
    /\ UNCHANGED <<karma, inChat, tag, joined>>

\* The handler that wrote the row before has ended.
StatsFree(h) ==
    \A g \in Handlers \ {h} :
        ~ (/\ handler[g].kind = "reaction" /\ handler[g].of = handler[h].of
           /\ handler[g].at \in {"call", "end"})

\* UPDATE of the statistics, which waits; then _refresh_author_tag.
WriteKarma(h) ==
    /\ handler[h].at = "write" /\ StatsFree(h)
    /\ Advance(h, [handler[h] EXCEPT
           !.roles = role,
           !.at = IF role[handler[h].of] = NoRole THEN "end" ELSE "call"])
    /\ UNCHANGED <<karma, inChat, tag, joined>>

\* on_change_role_apply: the new role is written, the karma read.  A role that the
\* member has already is not written, and waits for nobody: the handler only sets the
\* tag, as the one for a member who joins.
BeginRoleChange(h, u, r) ==
    /\ r = role[u] \/ RoleFree(u)
    /\ Begin(h, [Idle EXCEPT !.kind = IF r = role[u] THEN "join" ELSE "role",
                             !.of = u, !.points = karma[u],
                             !.roles = [role EXCEPT ![u] = r],
                             !.at = IF connected THEN "call" ELSE "end"])
    /\ UNCHANGED <<karma, inChat, tag, joined>>

\* on_member_joined.
BeginJoin(h, u) ==
    /\ u \in joined /\ joined' = joined \ {u}
    /\ IF connected /\ role[u] # NoRole
       THEN Begin(h, [Idle EXCEPT !.kind = "join", !.at = "call", !.of = u,
                                  !.roles = role, !.points = karma[u]])
       ELSE UNCHANGED handler
    /\ UNCHANGED <<karma, inChat, tag>>

\* ThrottlingMiddleware: Telegram announces the member in a message as well, from the
\* same user at the same time, and the later of the two updates is dropped.
DropJoin(u) ==
    /\ u \in joined /\ joined' = joined \ {u}
    /\ UNCHANGED <<karma, inChat, tag, handler>>

\* on_sync_tags: users and roles are loaded once,
BeginSync(h) ==
    /\ connected
    /\ Begin(h, [Idle EXCEPT !.kind = "sync", !.at = "next", !.roles = role,
                             !.rest = {u \in Members : role[u] # NoRole}])
    /\ UNCHANGED <<karma, inChat, tag, joined>>

\* the karma of each when it is their turn.
SyncNext(h) ==
    /\ handler[h].at = "next"
    /\ \E u \in handler[h].rest :
          Advance(h, [handler[h] EXCEPT !.of = u, !.rest = @ \ {u}, !.at = "call",
                                        !.again = FALSE, !.points = karma[u]])
    /\ UNCHANGED <<karma, inChat, tag, joined>>

-----------------------------------------------------------------------------
(***************************************************************************)
(* AccessService.set_member_tag, and the end of the handler.               *)
(***************************************************************************)

AfterCall(h) == IF handler[h].kind = "sync" THEN "next" ELSE "end"

TagApplied(h) ==
    /\ handler[h].at = "call" /\ handler[h].of \in inChat
    /\ tag' = Tagged(handler[h])
    /\ Advance(h, [handler[h] EXCEPT !.at = AfterCall(h), !.shown = @ \cup {handler[h].of}])
    /\ UNCHANGED <<karma, inChat, joined>>

\* Flood control, or not a member yet: tried again once, after a pause.
TagAgain(h) ==
    /\ handler[h].at = "call" /\ ~ handler[h].again
    /\ Advance(h, [handler[h] EXCEPT !.again = TRUE])
    /\ UNCHANGED <<karma, inChat, tag, joined>>

\* An admin of the chat, a deleted account, no member, or the second attempt.
TagRefused(h) ==
    /\ handler[h].at = "call"
    /\ Advance(h, [handler[h] EXCEPT !.at = AfterCall(h)])
    /\ UNCHANGED <<karma, inChat, tag, joined>>

Finished(h) == handler[h].rest = {} /\ handler[h].at \in {"next", "end"}

End(h) ==
    /\ handler[h] # Idle /\ Finished(h)
    /\ karma' = IF handler[h].kind = "reaction" THEN [karma EXCEPT ![handler[h].of] = handler[h].points]
                ELSE karma
    /\ role' = IF handler[h].kind = "role"
               THEN [role EXCEPT ![handler[h].of] = handler[h].roles[handler[h].of]] ELSE role
    /\ Advance(h, Idle)
    /\ UNCHANGED <<inChat, tag, joined>>

\* Another error of the network or of the database, the tag of a call in flight
\* set or not, or the end of the process.
Abort(h) ==
    /\ handler[h] # Idle
    /\ tag' \in IF handler[h].at = "call" THEN {tag, Tagged(handler[h])} ELSE {tag}
    /\ Advance(h, Idle)
    /\ UNCHANGED <<karma, inChat, joined>>

\* The tags u may show when every call in flight has been made or has not.
MayShow(u) ==
    {tag[u]} \cup {Tagged(handler[h])[u] : h \in {g \in Handlers : handler[g].at = "call"}}

\* The process stops: every handler is aborted, waiting updates are dropped.
StopHandlers ==
    /\ handler' = [h \in Handlers |-> Idle] /\ joined' = {}
    /\ tag' \in [Members -> UNION {MayShow(u) : u \in Members}]
    /\ \A u \in Members : tag'[u] \in MayShow(u)
    /\ UNCHANGED <<karma, inChat>>

-----------------------------------------------------------------------------
(***************************************************************************)
(* What else happens to tags and roles.                                    *)
(***************************************************************************)

\* Telegram keeps no tag for whoever is not in the chat.
Join(u) ==
    /\ u \notin inChat /\ inChat' = inChat \cup {u}
    /\ joined' = joined \cup {u}
    /\ handler' = [h \in Handlers |-> Disturb(handler[h], {u})]
    /\ UNCHANGED <<karma, tag>>

LeaveChat(u) ==
    /\ u \in inChat /\ inChat' = inChat \ {u}
    /\ tag' = [tag EXCEPT ![u] = NoTag]
    /\ handler' = [h \in Handlers |-> Disturb(handler[h], {u})]
    /\ UNCHANGED <<karma, joined>>

\* on_city: a new application overwrites the role, and no tag is set.
ApplyAs(u, r) ==
    /\ RoleFree(u) /\ role' = [role EXCEPT ![u] = r]
    /\ handler' = [h \in Handlers |-> Disturb(handler[h], {u})]
    /\ UNCHANGED <<karma, inChat, tag, joined>>

-----------------------------------------------------------------------------
(***************************************************************************)
(* Properties                                                              *)
(***************************************************************************)

\* The tag a handler leaves behind is the one on record: when it commits, every
\* member it tagged, and whom nothing but reactions interfered with, shows the
\* committed role and karma.  Reactions may overlap: the row of the author stays
\* locked through the call that sets the tag (karma.py:173).
TagOnRecord ==
    [][\A h \in Handlers : handler[h] # Idle /\ handler'[h] = Idle /\ End(h) =>
          \A u \in handler[h].shown \cap handler[h].alone :
              tag'[u] = <<role'[u], karma'[u]>>]_<<tagVars, recordVars>>

\* settings.py:85 "This command re-syncs everyone at once": with nothing under way,
\* the tags that are shown are those on record.
TagsShowRecord ==
    (\A h \in Handlers : handler[h] = Idle) =>
        \A u \in Members : tag[u] # NoTag => tag[u] = <<role[u], karma[u]>>
=============================================================================
