------------------------------ MODULE Records ------------------------------
(***************************************************************************)
(* The columns of users and settings that the community's modules share:   *)
(* MemberTags, Moderation and AdminPanel, put together in Community.       *)
(***************************************************************************)

CONSTANTS Members,     \* people with a row in users
          Roles,
          NoRole,      \* no role has been chosen yet
          SuperAdmins  \* super_admin_id_list of the configuration

ASSUME RecordsAssumption == NoRole \notin Roles /\ SuperAdmins \subseteq Members

VARIABLES role,       \* users.role_id
          admins,     \* users.is_admin
          banned,     \* users.is_banned
          connected   \* settings.community_chat_id is the community's chat

recordVars == <<role, admins, banned, connected>>

RecordsTypeOK ==
    /\ role \in [Members -> Roles \cup {NoRole}]
    /\ admins \subseteq Members /\ banned \subseteq Members
    /\ connected \in BOOLEAN

RecordsInit ==
    /\ role \in [Members -> Roles \cup {NoRole}]
    /\ admins = {} /\ banned = {}
    /\ connected \in BOOLEAN

\* UserService.is_admin
IsAdmin(p) == p \in SuperAdmins \cup admins
=============================================================================
