---------------------------- MODULE ProjectStore ----------------------------
(***************************************************************************)
(* The projects of the web application (apps/web): the ProjectStore        *)
(* provider of lib/project-store.tsx, which lives as long as the           *)
(* application shell, the project switcher and the create-project dialog   *)
(* of the side bar, and the project id kept in localStorage.               *)
(*                                                                         *)
(* The server answers a request in two steps: it computes the answer, and  *)
(* the answer arrives, so that a list may be computed before a project is  *)
(* created and arrive after it.                                            *)
(*                                                                         *)
(* Where two definitions of one thing stand together, such as ProjectKept  *)
(* and ProjectAfterFailure, the first is a plausible slip that no          *)
(* specification uses: it is put in the place of the second to see that a  *)
(* property notices.                                                       *)
(***************************************************************************)
EXTENDS Naturals, Sequences, FiniteSets, SequencesExt

CONSTANTS
  Projects,   \* project ids
  None,       \* no project
  MaxMounts   \* bound on how often the shell is mounted

ASSUME ProjectStoreAssumption == MaxMounts \in Nat /\ None \notin Projects

VARIABLES
  works,      \* localStorage can be used
  saved,      \* the stored project id, or None
  server,     \* the tenant's projects, newest first
  fresh,      \* ids not given out yet
  mounts,     \* how often the shell was mounted
  mounted,    \* the shell, and the provider in it, is on the page
  projects,   \* React state: the listed projects
  project,    \* React state: the active project, or None
  status,     \* React state: "loading", "ready" or "error"
  listing,    \* the request for the list: "none", "asked" or "answered"
  answer,     \* the answer on its way, when there is one
  creates,    \* create requests: id, answered by the server, shell still on the page
  createOpen, \* React state: the dialog is open
  submitting, \* React state of the dialog
  early,      \* history: this shell created a project before its list had arrived
  elsewhere,  \* history: since this shell last read or wrote the stored id, it was written by
              \* another tab, or for a project created after its shell had gone
  reopened    \* history: the dialog was opened while a create request was out

projectVars == <<works, saved, server, fresh, mounts, mounted, projects, project, status,
                 listing, answer, creates, createOpen, submitting, early, elsewhere, reopened>>
storage == <<works, saved>>
serverState == <<server, fresh, listing, answer, creates>>
shell == <<mounts, mounted, early>>
lists == <<projects, project, status>>
dialog == <<createOpen, submitting, reopened>>

Create == [id: Projects, done: BOOLEAN, here: BOOLEAN]

ProjectTypeOK ==
  /\ {works, mounted, createOpen, submitting, early, elsewhere, reopened} \subseteq BOOLEAN
  /\ {saved, project} \subseteq Projects \cup {None}
  /\ {server, projects, answer} \subseteq Seq(Projects)
  /\ fresh \subseteq Projects
  /\ mounts \in 0..MaxMounts
  /\ status \in {"loading", "ready", "error"}
  /\ listing \in {"none", "asked", "answered"}
  /\ creates \subseteq Create

ProjectInit ==
  /\ works \in BOOLEAN
  /\ saved \in IF works THEN Projects \cup {None} ELSE {None}
  /\ server \in {<<>>} \cup {<<p>> : p \in Projects}
  /\ fresh = Projects \ (Range(server) \cup {saved})
  /\ mounts = 0 /\ mounted = FALSE
  /\ projects = <<>> /\ project = None /\ status = "loading"
  /\ listing = "none" /\ answer = <<>>
  /\ creates = {} /\ createOpen = FALSE /\ submitting = FALSE
  /\ early = FALSE /\ elsewhere = FALSE /\ reopened = FALSE

-----------------------------------------------------------------------------
(* localStorage.                                                           *)

\* saveProjectId: errors are swallowed.
SaveProjectId(p) == saved' = IF works THEN p ELSE saved

\* selectInitial: the saved project if it is listed, else the first.
SelectInitial(list) ==
  CASE saved \in Range(list) -> saved
    [] saved \notin Range(list) /\ list # <<>> -> Head(list)
    [] OTHER -> None

-----------------------------------------------------------------------------
(* The shell comes and goes: signing in and out, reloading.                *)

\* The provider starts from nothing and its effect calls refresh.
Mount ==
  /\ ~mounted /\ mounts < MaxMounts
  /\ mounted' = TRUE /\ mounts' = mounts + 1
  /\ projects' = <<>> /\ project' = None /\ status' = "loading"
  /\ listing' = "asked" /\ answer' = <<>>
  /\ createOpen' = FALSE /\ submitting' = FALSE /\ early' = FALSE
  /\ UNCHANGED <<storage, server, fresh, creates, elsewhere, reopened>>

\* What a request does to the state of a shell that is gone is lost.
Abandoned == {[c EXCEPT !.here = FALSE] : c \in creates}

Unmount ==
  /\ mounted
  /\ mounted' = FALSE
  /\ listing' = "none" /\ answer' = <<>>
  /\ creates' = Abandoned
  /\ UNCHANGED <<storage, server, fresh, mounts, early, lists, dialog, elsewhere>>

\* The whole document goes: nobody hears the answers of its requests.
Reload ==
  /\ mounted
  /\ mounted' = FALSE
  /\ listing' = "none" /\ answer' = <<>>
  /\ creates' = {}
  /\ UNCHANGED <<storage, server, fresh, mounts, early, lists, dialog, elsewhere>>

-----------------------------------------------------------------------------
(* The list.                                                               *)

ListIsComputed ==
  /\ listing = "asked"
  /\ listing' = "answered" /\ answer' = server
  /\ UNCHANGED <<storage, server, fresh, creates, shell, lists, dialog, elsewhere>>

\* The rest of refresh.
ListArrives ==
  /\ listing = "answered"
  /\ projects' = answer /\ project' = SelectInitial(answer) /\ status' = "ready"
  /\ listing' = "none" /\ answer' = <<>>
  /\ elsewhere' = FALSE
  /\ UNCHANGED <<storage, server, fresh, creates, shell, dialog>>

ProjectKept == project
ProjectAfterFailure == None

\* refresh fails: no projects are shown.
ListFails ==
  /\ listing # "none"
  /\ projects' = <<>> /\ project' = ProjectAfterFailure /\ status' = "error"
  /\ listing' = "none" /\ answer' = <<>>
  /\ UNCHANGED <<storage, server, fresh, creates, shell, dialog, elsewhere>>

-----------------------------------------------------------------------------
(* The switcher and the dialog.                                            *)

\* setProject
SetProject(p) ==
  /\ mounted /\ p \in Range(projects)
  /\ project' = p /\ SaveProjectId(p)
  /\ elsewhere' = FALSE
  /\ UNCHANGED <<works, serverState, shell, projects, status, dialog>>

\* The dialog is opened anew, and its effect resets it.
OpenCreate ==
  /\ mounted /\ ~createOpen
  /\ createOpen' = TRUE /\ submitting' = FALSE
  /\ reopened' = (reopened \/ \E c \in creates : c.here)
  /\ UNCHANGED <<storage, serverState, shell, lists, elsewhere>>

\* Cancel is disabled while submitting; Escape, the close button and a click outside are not.
CloseCreate ==
  /\ mounted /\ createOpen
  /\ createOpen' = FALSE
  /\ UNCHANGED <<storage, serverState, shell, lists, submitting, reopened, elsewhere>>

SubmitAtWill == mounted /\ createOpen
CanSubmit == mounted /\ createOpen /\ ~submitting

\* onSubmit with a valid name
Submit(p) ==
  /\ CanSubmit /\ p \in fresh
  /\ fresh' = fresh \ {p}
  /\ submitting' = TRUE
  /\ creates' = creates \cup {[id |-> p, done |-> FALSE, here |-> TRUE]}
  /\ early' = (early \/ status = "loading")
  /\ UNCHANGED <<storage, server, listing, answer, mounts, mounted, lists, createOpen,
                 reopened, elsewhere>>

CreateIsDone(c) ==
  /\ c \in creates /\ ~c.done
  /\ server' = <<c.id>> \o server
  /\ creates' = (creates \ {c}) \cup {[c EXCEPT !.done = TRUE]}
  /\ UNCHANGED <<storage, fresh, listing, answer, shell, lists, dialog, elsewhere>>

SaveNothing(p) == saved' = saved
SaveCreated(p) == SaveProjectId(p)

\* createProject goes on, and onSubmit after it; the id is saved even if the shell is gone.
CreateSucceeds(c) ==
  /\ c \in creates /\ c.done
  /\ creates' = creates \ {c}
  /\ IF c.here
     THEN /\ projects' = Append(projects, c.id) /\ project' = c.id
          /\ createOpen' = FALSE /\ submitting' = FALSE
     ELSE UNCHANGED <<projects, project, createOpen, submitting>>
  /\ SaveCreated(c.id)
  /\ elsewhere' = ~c.here
  /\ UNCHANGED <<works, server, fresh, listing, answer, shell, status, reopened>>

\* The request failed, or its answer got lost: a toast, and the button comes back.
CreateFails(c) ==
  /\ c \in creates
  /\ creates' = creates \ {c}
  /\ submitting' = (submitting /\ ~c.here)
  /\ UNCHANGED <<storage, server, fresh, listing, answer, shell, lists, createOpen,
                 reopened, elsewhere>>

-----------------------------------------------------------------------------
(* The other tabs of the browser share localStorage and the tenant.        *)

\* The request of createProject in another tab is done.
CreatedElsewhere(p) ==
  /\ p \in fresh
  /\ fresh' = fresh \ {p} /\ server' = <<p>> \o server
  /\ UNCHANGED <<storage, listing, answer, creates, shell, lists, dialog, elsewhere>>

\* setProject, or the rest of createProject, in another tab.
SavedElsewhere(p) ==
  /\ works /\ p \in Range(server)
  /\ SaveProjectId(p) /\ elsewhere' = TRUE
  /\ UNCHANGED <<works, serverState, shell, lists, dialog>>

-----------------------------------------------------------------------------
\* What the user does, with the effects of the last rendering done.
ProjectUser ==
  \/ Unmount \/ Reload \/ OpenCreate
  \/ \E p \in Projects : SetProject(p) \/ Submit(p)

ProjectAnswers ==
  \/ ListArrives \/ ListFails
  \/ \E c \in creates : CreateSucceeds(c) \/ CreateFails(c)

ProjectServer ==
  \/ ListIsComputed
  \/ \E c \in creates : CreateIsDone(c)

OtherTabs == \E p \in Projects : CreatedElsewhere(p) \/ SavedElsewhere(p)

-----------------------------------------------------------------------------
(* Properties.                                                             *)

\* The active project is one of the listed ones and there is one whenever any is listed,
\* in whatever order lists and created projects arrive; and no project is listed twice
\* unless one was created before the list had arrived (refresh, createProject).
ActiveIsListed ==
  /\ (project = None) = (projects = <<>>)
  /\ project # None => project \in Range(projects)
  /\ ~early => Cardinality(Range(projects)) = Len(projects)

\* The active project is the saved one, as a reload would choose it, as long as the saved
\* one is listed, in whatever order lists and created projects arrive, unless another tab
\* or a create request of a shell that had gone stored its own since (setProject,
\* createProject, selectInitial).
SavedIsActive ==
  mounted /\ status = "ready" /\ ~elsewhere /\ saved \in Range(projects) => project = saved

\* One dialog does not create two projects at a time, unless it was closed and opened
\* again while the first was under way (the disabled buttons of the dialog).
OneCreateAtATime ==
  ~reopened => Cardinality({c \in creates : c.here}) <= 1
=============================================================================
