---------------------------- MODULE AdminConsole ----------------------------
(***************************************************************************)
(* The tables of the admin application (apps/admin): the users,            *)
(* organizations and projects pages and the stores behind them.  A store   *)
(* holds the rows and the filters as long as the document lives; the page  *)
(* number belongs to the page that is shown and starts at one.             *)
(*                                                                         *)
(* Filters on names, roles, environments and retention are left out: a     *)
(* user has a status and an organization, an organization a plan and a     *)
(* status, a project an organization.  A list is a set of rows, each with  *)
(* a place of its own that grows down the list and stands for its id too.  *)
(*                                                                         *)
(* Where two definitions of one thing stand together, such as PageStays    *)
(* and FirstPage, the first is a plausible slip that no specification      *)
(* uses: it is put in the place of the second to see that a property       *)
(* notices.                                                                *)
(***************************************************************************)
EXTENDS Integers, FiniteSets, FiniteSetsExt

CONSTANTS
  SeedUsers,    \* the mock data the stores start with
  SeedOrgs,
  SeedProjects,
  PageSize,     \* rows of a page of each table
  MaxChanges,   \* bound on the changes to rows
  MaxPage       \* bound on the page number

Tables == {"users", "organizations", "projects"}
Statuses == {"active", "invited", "suspended"}
Plans == {"free", "growth"}
OrgStatuses == {"active", "trial", "cancelled"}
OrgIds == {o.id : o \in SeedOrgs}

User == [at: Int, status: Statuses, org: OrgIds]
Organization == [at: Int, id: OrgIds, plan: Plans, status: OrgStatuses]
Project == [at: Int, org: OrgIds]

Listed(list) == IsFiniteSet(list) /\ \A r, q \in list : r.at = q.at => r = q

ASSUME AdminAssumption ==
  /\ SeedUsers \subseteq User /\ Listed(SeedUsers) /\ \A u \in SeedUsers : u.at > 0
  /\ SeedOrgs \subseteq Organization /\ Listed(SeedOrgs)
  /\ SeedProjects \subseteq Project /\ Listed(SeedProjects)
  /\ PageSize \in [Tables -> Nat \ {0}]
  /\ MaxChanges \in Nat /\ MaxPage \in Nat \ {0}

VARIABLES
  users, organizations, projects,   \* the stores: rows
  filters,    \* the stores: what each table is filtered by
  route,      \* the table that is shown, or "other"
  page,       \* React state of the page that is shown
  changes,    \* number of changes to rows
  shrunk      \* history: a row left the filtered list since the page number was set

rows == <<users, organizations, projects>>
adminVars == <<rows, filters, route, page, changes, shrunk>>

UserFilters == [status: Statuses \cup {"all"}, org: OrgIds \cup {"all"}]
OrgFilters == [plan: Plans \cup {"all"}, status: OrgStatuses \cup {"all"}]
ProjectFilters == [org: OrgIds \cup {"all"}]

AdminTypeOK ==
  /\ users \subseteq User /\ organizations \subseteq Organization /\ projects \subseteq Project
  /\ filters \in [users: UserFilters, organizations: OrgFilters, projects: ProjectFilters]
  /\ route \in Tables \cup {"other"}
  /\ page \in 1..MaxPage /\ changes \in 0..MaxChanges /\ shrunk \in BOOLEAN

AdminInit ==
  /\ users = SeedUsers /\ organizations = SeedOrgs /\ projects = SeedProjects
  /\ filters = [users |-> [status |-> "all", org |-> "all"],
                organizations |-> [plan |-> "all", status |-> "all"],
                projects |-> [org |-> "all"]]
  /\ route = "other" /\ page = 1 /\ changes = 0 /\ shrunk = FALSE

-----------------------------------------------------------------------------
(* What is shown.                                                          *)

Lets(filter, value) == filter \in {"all", value}

FilteredUsers ==
  {u \in users : Lets(filters.users.status, u.status) /\ Lets(filters.users.org, u.org)}

FilteredOrgs ==
  {o \in organizations :
     Lets(filters.organizations.plan, o.plan) /\ Lets(filters.organizations.status, o.status)}

FilteredProjects == {p \in projects : Lets(filters.projects.org, p.org)}

Filtered ==
  CASE route = "users" -> FilteredUsers
    [] route = "organizations" -> FilteredOrgs
    [] route = "projects" -> FilteredProjects
    [] OTHER -> {}

Ceil(n, d) == (n + d - 1) \div d

PagesOf(n) == IF n = 0 THEN 1 ELSE Ceil(n, PageSize[route])
TotalPages == PagesOf(Cardinality(Filtered))

\* How many rows there are down to a row.
Rank(r) == Cardinality({q \in Filtered : q.at <= r.at})

PageRows ==
  LET from == (page - 1) * PageSize[route]
  IN {r \in Filtered : from < Rank(r) /\ Rank(r) <= from + PageSize[route]}

-----------------------------------------------------------------------------
\* A page is mounted anew, with its number; the stores keep their filters.
Show(r) ==
  /\ r # route
  /\ route' = r /\ page' = 1 /\ shrunk' = FALSE
  /\ UNCHANGED <<rows, filters, changes>>

PageStays == page
\* setPage(1), beside every setFilter
FirstPage == 1

SetFilter(table, f) ==
  /\ route = table /\ f # filters[table]
  /\ filters' = [filters EXCEPT ![table] = f]
  /\ page' = FirstPage /\ shrunk' = FALSE
  /\ UNCHANGED <<rows, route, changes>>

FilterUsers(f) == SetFilter("users", f)
FilterOrganizations(f) == SetFilter("organizations", f)
FilterProjects(f) == SetFilter("projects", f)

-----------------------------------------------------------------------------
(* The menu of a row, and the dialog of the users page.                    *)

\* The page number is left alone when rows change.
RowsChange ==
  /\ changes < MaxChanges /\ changes' = changes + 1
  /\ UNCHANGED <<filters, route, page>>
  /\ shrunk' = (shrunk \/ Cardinality(Filtered') < Cardinality(Filtered))

Updated(list, row) == {IF r.at = row.at THEN row ELSE r : r \in list}
Without(list, row) == {r \in list : r.at # row.at}

NewUser(org) == [at |-> 0 - changes, status |-> "invited", org |-> org]

\* The new user comes first, whatever the filters let through.
Invite(org) ==
  /\ route = "users"
  /\ users' = users \cup {NewUser(org)}
  /\ UNCHANGED <<organizations, projects>> /\ RowsChange

Suspend(u) ==
  /\ route = "users" /\ u \in PageRows /\ u.status # "suspended"
  /\ users' = Updated(users, [u EXCEPT !.status = "suspended"])
  /\ UNCHANGED <<organizations, projects>> /\ RowsChange

Reactivate(u) ==
  /\ route = "users" /\ u \in PageRows /\ u.status = "suspended"
  /\ users' = Updated(users, [u EXCEPT !.status = "active"])
  /\ UNCHANGED <<organizations, projects>> /\ RowsChange

RemoveUser(u) ==
  /\ route = "users" /\ u \in PageRows
  /\ users' = Without(users, u)
  /\ UNCHANGED <<organizations, projects>> /\ RowsChange

ChangePlan(o, plan) ==
  /\ route = "organizations" /\ o \in PageRows /\ plan # o.plan
  /\ organizations' = Updated(organizations, [o EXCEPT !.plan = plan])
  /\ UNCHANGED <<users, projects>> /\ RowsChange

\* setStatus: an active organization is cancelled, any other made active.
ToggleStatus(o) ==
  /\ route = "organizations" /\ o \in PageRows
  /\ organizations' = Updated(organizations,
       [o EXCEPT !.status = IF o.status = "active" THEN "cancelled" ELSE "active"])
  /\ UNCHANGED <<users, projects>> /\ RowsChange

RemoveProject(p) ==
  /\ route = "projects" /\ p \in PageRows
  /\ projects' = Without(projects, p)
  /\ UNCHANGED <<users, organizations>> /\ RowsChange

-----------------------------------------------------------------------------
(* The pagers.  A number beyond the last page is possible, and Next is     *)
(* enabled on it.                                                          *)

TurnTo(p) ==
  /\ page' = p /\ p <= MaxPage
  /\ shrunk' = (shrunk /\ p > TotalPages)
  /\ UNCHANGED <<rows, filters, route, changes>>

OneMore == page + 1
\* The users page stays within the pages there are; the other two do not.
NextUsersPage == Min({TotalPages, page + 1})

UsersPrevious == route = "users" /\ page # 1 /\ TurnTo(Max({1, page - 1}))
UsersNext == route = "users" /\ page # TotalPages /\ TurnTo(NextUsersPage)

OrganizationsPrevious == route = "organizations" /\ page # 1 /\ TurnTo(page - 1)
OrganizationsNext == route = "organizations" /\ page # TotalPages /\ TurnTo(page + 1)

ProjectsPrevious == route = "projects" /\ page # 1 /\ TurnTo(page - 1)
ProjectsNext == route = "projects" /\ page # TotalPages /\ TurnTo(page + 1)

-----------------------------------------------------------------------------
UsersPage ==
  \/ \E f \in UserFilters : FilterUsers(f)
  \/ \E org \in OrgIds : Invite(org)
  \/ \E u \in users : Suspend(u) \/ Reactivate(u) \/ RemoveUser(u)
  \/ UsersPrevious \/ UsersNext

OrganizationsPage ==
  \/ \E f \in OrgFilters : FilterOrganizations(f)
  \/ \E o \in organizations : ToggleStatus(o) \/ \E plan \in Plans : ChangePlan(o, plan)
  \/ OrganizationsPrevious \/ OrganizationsNext

ProjectsPage ==
  \/ \E f \in ProjectFilters : FilterProjects(f)
  \/ \E p \in projects : RemoveProject(p)
  \/ ProjectsPrevious \/ ProjectsNext

AdminNext ==
  \/ \E r \in Tables \cup {"other"} : Show(r)
  \/ UsersPage \/ OrganizationsPage \/ ProjectsPage

AdminSpec == AdminInit /\ [][AdminNext]_adminVars

-----------------------------------------------------------------------------
(* Properties.                                                             *)

\* "No users match" and an empty table are shown only when nothing matches, unless rows
\* left the filtered list while a later page was shown: whatever was filtered, invited
\* and paged before, on this table or on others (the page number and the stores' filters
\* live apart).
MatchesAreShown == ~shrunk /\ Filtered # {} => PageRows # {}

\* From a page beyond the last one, Next on the users page leads back to users, as many
\* pages as may have gone meanwhile; the other tables have only Previous for that.
UsersNextLeadsBack ==
  [][UsersNext => page' <= TotalPages /\ (Filtered # {} => PageRows' # {})]_adminVars
=============================================================================
