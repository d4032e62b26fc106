------------------------------- MODULE Roles ---------------------------------
(***************************************************************************)
(* RolesService, PermissionsService, UsersService.assignRoles and the      *)
(* bootstrap of the database, over the tables roles, permissions,          *)
(* role_permissions and user_roles of one tenant.                          *)
(*                                                                         *)
(* The permissions of a role and the roles of a user are replaced as a     *)
(* whole: by a delete and an insert, or by one nested write that is refused*)
(* as a whole.  The database refuses an insert that names a row which is   *)
(* gone, or a pair that is there already.  Names, descriptions and the     *)
(* settings of the tenant are left out.                                    *)
(***************************************************************************)
EXTENDS Handlers

CONSTANTS
  Role,        \* ids a role may get
  Permission,  \* the permissions of the catalogue
  Member,      \* users of the tenant
  Owner,       \* the user whom the bootstrap makes administrator
  AdminRole,   \* the role Amministratore
  Gone         \* stands, where a handler holds an id, for a row that was deleted

ASSUME RolesAssumption ==
  /\ AdminRole \in Role
  /\ Owner \in Member
  /\ Null \notin Role \cup Member
  /\ Gone \notin Role \cup Permission
  /\ Role \cap Permission = {}

VARIABLES
  role,        \* table roles: the roles there are
  system,      \* those with isSystem set
  permission,  \* table permissions
  grants,      \* table role_permissions
  assigned,    \* table user_roles
  booted,      \* a bootstrap has been done, so there are users
  (*************************** history variables ***************************)
  asked,       \* the permissions that the last request for each role asked for
  given,       \* the roles that the last request for each user asked for
  meddled      \* has a client set the permissions of AdminRole, or changed the catalogue?

roleTables == <<role, system, permission, grants, assigned, booted>>
roleHistory == <<asked, given, meddled>>
roleVars == <<handlers, roleTables, roleHistory>>

-----------------------------------------------------------------------------
RolesInit ==
  /\ role = {}
  /\ system = {}
  /\ permission = {}
  /\ grants = [ro \in Role |-> {}]
  /\ assigned = [u \in Member |-> {}]
  /\ asked = grants
  /\ given = assigned
  /\ booted = FALSE
  /\ meddled = FALSE

OnRole(r, step, ro) == At(r, step) /\ ro = req[r].on
OnMember(r, step, u) == At(r, step) /\ u = req[r].on

\* A handler reads, and writes nothing in this step.
ReadRoles == UNCHANGED <<roleTables, roleHistory>>

\* Once row x is deleted, the ids of it that handlers hold name no row.
Forgetting(x) ==
  [r \in Request |->
     IF req[r] # Idle /\ x \in req[r].seen
       THEN [req[r] EXCEPT !.seen = (@ \ {x}) \cup {Gone}]
       ELSE req[r]]

-----------------------------------------------------------------------------
(* RolesService                                                            *)

\* The name is looked up, and the permissions are, before one nested insert.
CreateRole(r, ro, ps) ==
  /\ "roles" \in mix
  /\ ro \notin role /\ ro # AdminRole
  /\ ps \subseteq permission
  /\ Start(r, "insertRole", ro, ps)
  /\ ReadRoles

\* isSystem comes with the request.
MarkSystem(ro, marked) == system' = IF marked THEN system \cup {ro} ELSE system \ {ro}

InsertRole(r, ro, marked) ==
  /\ OnRole(r, "insertRole", ro)
  /\ ro \notin role /\ req[r].seen \subseteq permission
  /\ role' = role \cup {ro}
  /\ MarkSystem(ro, marked)
  /\ grants' = [grants EXCEPT ![ro] = req[r].seen]
  /\ asked' = [asked EXCEPT ![ro] = req[r].seen]
  /\ Finish(r)
  /\ UNCHANGED <<permission, assigned, given, booted, meddled>>

UpdateRole(r, ro, ps) ==
  /\ "roles" \in mix
  /\ ro \in role /\ ro \notin system
  /\ Start(r, "updateRole", ro, ps)
  /\ ReadRoles

\* The delete and the insert nested in an update are one transaction.
WriteRole(r, ro, marked) ==
  /\ OnRole(r, "updateRole", ro)
  /\ ro \in role /\ req[r].seen \subseteq permission
  /\ MarkSystem(ro, marked)
  /\ grants' = [grants EXCEPT ![ro] = req[r].seen]
  /\ asked' = [asked EXCEPT ![ro] = req[r].seen]
  /\ Finish(r)
  /\ UNCHANGED <<role, permission, assigned, given, booted, meddled>>

RefuseRole(r, ro) ==
  /\ \/ OnRole(r, "insertRole", ro) /\ ~(ro \notin role /\ req[r].seen \subseteq permission)
     \/ OnRole(r, "updateRole", ro) /\ ~(ro \in role /\ req[r].seen \subseteq permission)
     \/ OnRole(r, "deleteRole", ro) /\ ro \notin role
  /\ Finish(r)
  /\ ReadRoles

UsersOf(ro) == {u \in Member : ro \in assigned[u]}

RemoveRole(r, ro) ==
  /\ "roles" \in mix
  /\ ro \in role /\ ro \notin system
  /\ UsersOf(ro) = {}
  /\ Start(r, "deleteRole", ro, {})
  /\ ReadRoles

\* Its rows in role_permissions and user_roles go with it.
DeleteRole(r, ro) ==
  /\ OnRole(r, "deleteRole", ro)
  /\ ro \in role
  /\ role' = role \ {ro}
  /\ system' = system \ {ro}
  /\ grants' = [grants EXCEPT ![ro] = {}]
  /\ asked' = [asked EXCEPT ![ro] = {}]
  /\ assigned' = [u \in Member |-> assigned[u] \ {ro}]
  /\ req' = [Forgetting(ro) EXCEPT ![r] = Idle]
  /\ UNCHANGED <<permission, given, booted, meddled, mix, alone, unbroken>>

\* Neither isSystem nor the permissions are looked at.
SyncPermissions(r, ro, ps) ==
  /\ "sync" \in mix
  /\ ro \in role
  /\ Start(r, "deleteGrants", ro, ps)
  /\ meddled' = (meddled \/ ro = AdminRole)
  /\ UNCHANGED <<roleTables, asked, given>>

\* [mutant] the old permissions are kept
DeleteGrantsNothing(r, ro) ==
  /\ OnRole(r, "deleteGrants", ro)
  /\ Proceed(r, "insertGrants", req[r].seen)
  /\ UNCHANGED <<role, system, permission, grants, assigned, booted, roleHistory>>

DeleteGrants(r, ro) ==
  /\ OnRole(r, "deleteGrants", ro)
  /\ grants' = [grants EXCEPT ![ro] = {}]
  /\ Proceed(r, "insertGrants", req[r].seen)
  /\ UNCHANGED <<role, system, permission, assigned, booted, roleHistory>>

InsertGrants(r, ro) ==
  /\ OnRole(r, "insertGrants", ro)
  /\ ro \in role /\ req[r].seen \subseteq permission \ grants[ro]
  /\ grants' = [grants EXCEPT ![ro] = @ \cup req[r].seen]
  /\ asked' = [asked EXCEPT ![ro] = req[r].seen]
  /\ Finish(r)
  /\ UNCHANGED <<role, system, permission, assigned, given, booted, meddled>>

\* The insert is refused after the delete was done.
GrantsRefused(r, ro) ==
  /\ OnRole(r, "insertGrants", ro)
  /\ ~(ro \in role /\ req[r].seen \subseteq permission \ grants[ro])
  /\ Break(r)
  /\ ReadRoles

-----------------------------------------------------------------------------
(* PermissionsService                                                      *)

CreatePermission(p) ==
  /\ "permissions" \in mix
  /\ p \notin permission
  /\ AtOnce
  /\ permission' = permission \cup {p}
  /\ meddled' = TRUE
  /\ UNCHANGED <<role, system, grants, assigned, asked, given, booted>>

RemovePermission(p) ==
  /\ "permissions" \in mix
  /\ p \in permission
  /\ permission' = permission \ {p}
  /\ grants' = [ro \in Role |-> grants[ro] \ {p}]
  /\ asked' = [ro \in Role |-> asked[ro] \ {p}]
  /\ req' = Forgetting(p)
  /\ alone' = (alone /\ Quiet)
  /\ meddled' = TRUE
  /\ UNCHANGED <<mix, role, system, assigned, given, booted, unbroken>>

-----------------------------------------------------------------------------
(* UsersService                                                            *)

AssignRoles(r, u, ros) ==
  /\ "assign" \in mix
  /\ ros \subseteq role
  /\ Start(r, "deleteAssigned", u, ros)
  /\ ReadRoles

DeleteAssigned(r, u) ==
  /\ OnMember(r, "deleteAssigned", u)
  /\ assigned' = [assigned EXCEPT ![u] = {}]
  /\ Proceed(r, "insertAssigned", req[r].seen)
  /\ UNCHANGED <<role, system, permission, grants, booted, roleHistory>>

InsertAssigned(r, u) ==
  /\ OnMember(r, "insertAssigned", u)
  /\ req[r].seen \subseteq role \ assigned[u]
  /\ assigned' = [assigned EXCEPT ![u] = @ \cup req[r].seen]
  /\ given' = [given EXCEPT ![u] = req[r].seen]
  /\ Finish(r)
  /\ UNCHANGED <<role, system, permission, grants, asked, booted, meddled>>

AssignedRefused(r, u) ==
  /\ OnMember(r, "insertAssigned", u)
  /\ ~(req[r].seen \subseteq role \ assigned[u])
  /\ Break(r)
  /\ ReadRoles

\* UsersService.update with roleIds: a nested write, refused if a role is not there.
UpdateRolesOf(u, ros) ==
  /\ "assign" \in mix
  /\ ros \subseteq role
  /\ AtOnce
  /\ assigned' = [assigned EXCEPT ![u] = ros]
  /\ given' = [given EXCEPT ![u] = ros]
  /\ UNCHANGED <<role, system, permission, grants, asked, booted, meddled>>

-----------------------------------------------------------------------------
(* bootstrapDatabase, when a server starts; several may start at once      *)

Bootstrap(r) ==
  /\ booted => "bootstrap" \in mix
  /\ Start(r, "readPermissions", AdminRole, {})
  /\ permission' = Permission
  /\ UNCHANGED <<role, system, grants, assigned, booted, roleHistory>>

\* [mutant] only what the role grants already is granted again
ReadPermissionsGranted(r) ==
  /\ At(r, "readPermissions")
  /\ Proceed(r, "upsertRole", permission \cap grants[AdminRole])
  /\ ReadRoles

ReadPermissions(r) ==
  /\ At(r, "readPermissions")
  /\ Proceed(r, "upsertRole", permission)
  /\ ReadRoles

UpsertRole(r) ==
  /\ At(r, "upsertRole")
  /\ role' = role \cup {AdminRole}
  /\ system' = system \cup (IF AdminRole \in role THEN {} ELSE {AdminRole})
  /\ Proceed(r, "deleteAll", req[r].seen)
  /\ UNCHANGED <<permission, grants, assigned, booted, roleHistory>>

DeleteAll(r) ==
  /\ At(r, "deleteAll")
  /\ grants' = [grants EXCEPT ![AdminRole] = {}]
  /\ Proceed(r, "insertAll", req[r].seen)
  /\ UNCHANGED <<role, system, permission, assigned, booted, roleHistory>>

\* createMany with skipDuplicates; the user of the owner is given the role if it has not got it.
InsertAll(r) ==
  /\ At(r, "insertAll")
  /\ req[r].seen \subseteq permission
  /\ grants' = [grants EXCEPT ![AdminRole] = @ \cup req[r].seen]
  /\ asked' = [asked EXCEPT ![AdminRole] = req[r].seen]
  /\ assigned' = [assigned EXCEPT ![Owner] = @ \cup {AdminRole}]
  /\ given' = [given EXCEPT ![Owner] = @ \cup {AdminRole}]
  /\ booted' = TRUE
  /\ Finish(r)
  /\ UNCHANGED <<role, system, permission, meddled>>

\* A permission has been removed since it was read.
BootstrapRefused(r) ==
  /\ At(r, "insertAll")
  /\ ~(req[r].seen \subseteq permission)
  /\ Break(r)
  /\ ReadRoles

-----------------------------------------------------------------------------
RoleStep(r, ro) ==
  \/ \E marked \in BOOLEAN : InsertRole(r, ro, marked) \/ WriteRole(r, ro, marked)
  \/ DeleteRole(r, ro) \/ RefuseRole(r, ro)
  \/ DeleteGrants(r, ro) \/ InsertGrants(r, ro) \/ GrantsRefused(r, ro)

AssignStep(r, u) == DeleteAssigned(r, u) \/ InsertAssigned(r, u) \/ AssignedRefused(r, u)

BootstrapStep(r) ==
  ReadPermissions(r) \/ UpsertRole(r) \/ DeleteAll(r) \/ InsertAll(r) \/ BootstrapRefused(r)

RoleRequest(r) ==
  /\ booted
  /\ \/ \E ro \in Role, ps \in SUBSET Permission :
          CreateRole(r, ro, ps) \/ UpdateRole(r, ro, ps) \/ SyncPermissions(r, ro, ps)
     \/ \E ro \in Role : RemoveRole(r, ro)
     \/ \E u \in Member, ros \in SUBSET Role : AssignRoles(r, u, ros)

RolesAtOnce ==
  /\ booted
  /\ \/ \E p \in Permission : CreatePermission(p) \/ RemovePermission(p)
     \/ \E u \in Member, ros \in SUBSET Role : UpdateRolesOf(u, ros)

RolesNext ==
  \/ \E r \in Request : RoleRequest(r) \/ Bootstrap(r) \/ BootstrapStep(r)
  \/ \E r \in Request, ro \in Role : RoleStep(r, ro)
  \/ \E r \in Request, u \in Member : AssignStep(r, u)
  \/ \E r \in Request : Fail(r) /\ ReadRoles
  \/ RolesAtOnce

RolesSpec == HandlersInit /\ RolesInit /\ [][RolesNext]_roleVars

-----------------------------------------------------------------------------
(* Properties                                                              *)

\* A role grants and a user has what the last request for it asked for, as long as requests do
\* not overlap and every one is served to its end: the delete and the insert that replace the
\* rows of another table leave the new ones only, and no role that somebody has is removed.
ReplacedAsAsked == calm /\ Quiet => grants = asked /\ assigned = given

\* When no server is starting and none stopped halfway, the administrator may do everything
\* in the catalogue, however many servers have started at the same time, unless a client has
\* set the permissions of the role or changed the catalogue.
AdministratorHasAll ==
  booted /\ unbroken /\ Quiet /\ ~meddled => grants[AdminRole] = Permission
=============================================================================
