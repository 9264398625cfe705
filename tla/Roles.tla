------------------------------- MODULE Roles -------------------------------
(***************************************************************************)
(* Administrators and what they do to accounts: the ban and role handlers of *)
(* routers/admin.py behind require_admin_level.  A handler loads the caller   *)
(* and the account it changes, decides, and commits later the columns it      *)
(* changed; nothing is locked in between.                                     *)
(***************************************************************************)
EXTENDS Naturals

CONSTANTS
    AdminUsers,       \* the accounts
    FirstAdmin,      \* the one that scripts/create_admin.py made
    AdminCalls       \* requests of administrators in progress

ASSUME RolesAssumption == FirstAdmin \in AdminUsers

VARIABLES
    level,        \* admin_level of each account, 3 for a user who is no administrator
    banned,       \* is_banned of each account
    adminCalls,   \* the requests in progress
    unseated      \* history: an overtaken request has unseated a root since
                  \* a root last changed a role

roleVars == <<level, banned, adminCalls, unseated>>

Levels == 0 .. 3
Root(a) == level[a] = 0 /\ ~banned[a]
NoAdminCall == [what |-> "idle", actor |-> FirstAdmin, target |-> FirstAdmin,
                level |-> 3, ban |-> FALSE, writes |-> FALSE, lawful |-> FALSE]

RolesTypeOK ==
    /\ level \in [AdminUsers -> Levels]
    /\ banned \in [AdminUsers -> BOOLEAN]
    /\ adminCalls \in [AdminCalls ->
          [what: {"idle", "ban", "role"}, actor: AdminUsers, target: AdminUsers,
           level: Levels, ban: BOOLEAN, writes: BOOLEAN, lawful: BOOLEAN]]
    /\ unseated \in BOOLEAN

-----------------------------------------------------------------------------

\* require_admin_level on top of get_current_active_user.
RequireAdminLevel(actor, required) == ~banned[actor] /\ level[actor] <= required

BeginAdminCall(c, call) ==
    /\ adminCalls[c].what = "idle"
    /\ adminCalls' = [adminCalls EXCEPT ![c] = call]
    /\ UNCHANGED <<level, banned, unseated>>

\* What a handler will write: nothing, when the column has that value as it is
\* loaded.  History: a ban is lawful when it is not of a root, a change of role
\* when a root asks for it.
BanRequest(actor, target, ban) ==
    [what |-> "ban", actor |-> actor, target |-> target, level |-> 3, ban |-> ban,
     writes |-> ban # banned[target], lawful |-> level[target] # 0]

RoleRequest(actor, target, newLevel) ==
    [what |-> "role", actor |-> actor, target |-> target, level |-> newLevel,
     ban |-> FALSE, writes |-> newLevel # level[target], lawful |-> Root(actor)]

\* An administrator is banned, or pardoned, by a higher one only.
BanUser(c, actor, target, ban) ==
    /\ RequireAdminLevel(actor, 1)
    /\ level[target] # 3 => level[target] > level[actor]
    /\ BeginAdminCall(c, BanRequest(actor, target, ban))

\* Mutant: administrators may change their own role.
UpdateOwnRole(c, actor, target, newLevel) ==
    /\ RequireAdminLevel(actor, 0)
    /\ BeginAdminCall(c, RoleRequest(actor, target, newLevel))

UpdateUserRole(c, actor, target, newLevel) ==
    /\ RequireAdminLevel(actor, 0)
    /\ target # actor
    /\ BeginAdminCall(c, RoleRequest(actor, target, newLevel))

EndAdminCall(c) == adminCalls' = [adminCalls EXCEPT ![c] = NoAdminCall]

\* History: a lawful request finds a root to unseat, and its own actor is none
\* (any more).
OvertakenCall(c) ==
    LET me == adminCalls[c] IN
    /\ me.writes
    /\ \/ me.what = "ban" /\ me.ban
       \/ me.what = "role" /\ me.level # 0
    /\ me.lawful /\ Root(me.target) /\ ~Root(me.actor)

CommitBanUser(c) ==
    LET me == adminCalls[c] IN
    /\ me.what = "ban"
    /\ banned' = IF me.writes THEN [banned EXCEPT ![me.target] = me.ban] ELSE banned
    /\ unseated' = (unseated \/ OvertakenCall(c))
    /\ EndAdminCall(c)
    /\ UNCHANGED level

CommitUserRole(c) ==
    LET me == adminCalls[c] IN
    /\ me.what = "role"
    /\ level' = IF me.writes THEN [level EXCEPT ![me.target] = me.level] ELSE level
    /\ unseated' = (~Root(me.actor) /\ (unseated \/ OvertakenCall(c)))
    /\ EndAdminCall(c)
    /\ UNCHANGED banned

-----------------------------------------------------------------------------

RolesInit ==
    /\ level = [a \in AdminUsers |-> IF a = FirstAdmin THEN 0 ELSE 3]
    /\ banned = [a \in AdminUsers |-> FALSE]
    /\ adminCalls = [c \in AdminCalls |-> NoAdminCall]
    /\ unseated = FALSE

RolesNext ==
    \E c \in AdminCalls :
       \/ \E actor, target \in AdminUsers :
             \/ \E ban \in BOOLEAN : BanUser(c, actor, target, ban)
             \/ \E l \in Levels : UpdateUserRole(c, actor, target, l)
       \/ CommitBanUser(c) \/ CommitUserRole(c)

RolesSpec == RolesInit /\ [][RolesNext]_roleVars

-----------------------------------------------------------------------------

\* Whatever administrators do to each other, one of level 0 who is not banned
\* remains: only such a one can appoint another, so without it nobody could
\* ever again.  The exception is a request that unseats a root after its own
\* actor was unseated - two roots who demote each other both succeed
\* (admin.py:146 asks for the level as the request begins) - or bans one who was
\* promoted since; and it lasts until a root changes a role again.
RootRemains == unseated \/ \E a \in AdminUsers : Root(a)

=============================================================================
