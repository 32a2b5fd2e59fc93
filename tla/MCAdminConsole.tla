--------------------------- MODULE MCAdminConsole ---------------------------
(* Small instances of AdminConsole for TLC. *)
EXTENDS AdminConsole

\* Three rows of each table, two to a page: the last page holds one row.
ThreeUsers ==
  {[at |-> 1, status |-> "active", org |-> "acme"], [at |-> 2, status |-> "suspended", org |-> "acme"],
   [at |-> 3, status |-> "active", org |-> "globex"]}
ThreeOrgs ==
  {[at |-> 1, id |-> "acme", plan |-> "growth", status |-> "active"],
   [at |-> 2, id |-> "globex", plan |-> "free", status |-> "trial"],
   [at |-> 3, id |-> "hooli", plan |-> "free", status |-> "active"]}
ThreeProjects ==
  {[at |-> 1, org |-> "acme"], [at |-> 2, org |-> "globex"], [at |-> 3, org |-> "acme"]}
TwoRows == [t \in Tables |-> 2]
=============================================================================
