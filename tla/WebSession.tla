----------------------------- MODULE WebSession -----------------------------
(***************************************************************************)
(* Signing in and out of the web application (apps/web): the AuthProvider  *)
(* of lib/auth-store.tsx in every open tab, the session the tabs share in  *)
(* localStorage, the 401 handling of lib/api, the two route guards and the *)
(* sign-in and sign-up forms.                                              *)
(*                                                                         *)
(* A handler runs to its end without interruption, so each is one action;  *)
(* a handler that awaits an answer is split where it awaits.  What a tab   *)
(* writes to localStorage the others read at once but hear of later, by a  *)
(* storage event that carries nothing: its handler reads the storage.      *)
(*                                                                         *)
(* Where two definitions of one thing stand together, such as              *)
(* PersistNewOnly and Persist, the first is a plausible slip that no       *)
(* specification uses: it is put in the place of the second to see that a  *)
(* property notices.                                                       *)
(***************************************************************************)
EXTENDS BrowserTabs, Naturals, FiniteSets

CONSTANTS
  Users,      \* accounts that sign in
  None,       \* no session
  MaxLogins,  \* bound on submitted forms
  MaxReloads  \* bound on reloads

ASSUME WebSessionAssumption ==
  /\ {MaxLogins, MaxReloads} \subseteq Nat
  /\ None \notin Users \X Nat

VARIABLES
  works,      \* localStorage can be used (it cannot in some private modes)
  stored,     \* the token of the stored AuthSession, or None
  dead,       \* tokens past their exp claim
  issued,     \* number of forms submitted so far, each with a token of its own
  reloads,    \* number of reloads so far
  group,      \* group[t]: the route group the tab shows: none, app/(auth) behind
              \* RedirectIfAuthed, or app/(app) behind RequireAuth
  session,    \* session[t]: React state of the AuthProvider: the token, or None
  status,     \* status[t]: React state of the AuthProvider
  notice,     \* notice[t]: a storage event is on its way
  submitting, \* submitting[t]: React state of the form on the page
  logins,     \* logins[t]: sign-in requests of t not answered yet
  calls       \* calls[t]: tokens of API requests of t not answered yet (None: without one)

tabState == <<group, session, status, notice, submitting, logins, calls>>
vars == <<works, stored, dead, issued, reloads, tabState>>

Tokens == Users \X Nat   \* the owner of a token and the login that obtained it
Login == [tok: Tokens, mounted: BOOLEAN]   \* mounted: its form is still on the page

\* Types of the state.
TypeOK ==
  /\ works \in BOOLEAN
  /\ stored \in Tokens \cup {None}
  /\ dead \subseteq Tokens
  /\ issued \in 0..MaxLogins /\ reloads \in 0..MaxReloads
  /\ group \in [Tabs -> {"closed", "auth", "app"}]
  /\ session \in [Tabs -> Tokens \cup {None}]
  /\ status \in [Tabs -> {"loading", "authenticated", "unauthenticated"}]
  /\ notice \in [Tabs -> BOOLEAN]
  /\ submitting \in [Tabs -> BOOLEAN]
  /\ logins \in [Tabs -> SUBSET Login]
  /\ calls \in [Tabs -> SUBSET (Tokens \cup {None})]

Init ==
  /\ works \in BOOLEAN
  /\ stored = None /\ dead = {}
  /\ issued = 0 /\ reloads = 0
  /\ group = [t \in Tabs |-> "closed"]
  /\ session = [t \in Tabs |-> None]
  /\ status = [t \in Tabs |-> "loading"]
  /\ notice = [t \in Tabs |-> FALSE]
  /\ submitting = [t \in Tabs |-> FALSE]
  /\ logins = [t \in Tabs |-> {}]
  /\ calls = [t \in Tabs |-> {}]

-----------------------------------------------------------------------------
(* localStorage.                                                           *)

\* A change of the item is announced to the other documents of the origin.
Announce(t) == [s \in Tabs |-> notice[s] \/ (s # t /\ group[s] # "closed")]

PersistNewOnly(t, s) ==
  IF works /\ s # stored /\ s # None
  THEN stored' = s /\ notice' = Announce(t)
  ELSE UNCHANGED <<stored, notice>>

\* persistSession: write or remove the item; errors are swallowed.
Persist(t, s) ==
  IF works /\ s # stored
  THEN stored' = s /\ notice' = Announce(t)
  ELSE UNCHANGED <<stored, notice>>

\* setSession and setStatus, always together.
Adopt(t, s) ==
  /\ session' = [session EXCEPT ![t] = s]
  /\ status' = [status EXCEPT ![t] = IF s = None THEN "unauthenticated" ELSE "authenticated"]

\* logout
Logout(t) == Persist(t, None) /\ Adopt(t, None)

-----------------------------------------------------------------------------
(* A tab's life.                                                           *)

\* A document is loaded: React state is fresh, nothing of the old one is heard again.
Load(t, p) ==
  /\ group' = [group EXCEPT ![t] = p]
  /\ session' = [session EXCEPT ![t] = None]
  /\ status' = [status EXCEPT ![t] = "loading"]
  /\ notice' = [notice EXCEPT ![t] = FALSE]
  /\ submitting' = [submitting EXCEPT ![t] = FALSE]
  /\ logins' = [logins EXCEPT ![t] = {}]
  /\ calls' = [calls EXCEPT ![t] = {}]
  /\ UNCHANGED <<works, stored, dead, issued>>

Open(t, p) == group[t] = "closed" /\ Load(t, p) /\ UNCHANGED reloads

Reload(t) ==
  /\ group[t] # "closed" /\ reloads < MaxReloads
  /\ reloads' = reloads + 1
  /\ Load(t, group[t])

\* isTokenExpired on the stored session
StoredExpired == stored \in dead

\* The mount effect: adopt the stored session, drop it when it has expired.
Hydrate(t) ==
  /\ group[t] # "closed" /\ status[t] = "loading"
  /\ IF StoredExpired THEN Logout(t) ELSE Adopt(t, stored) /\ UNCHANGED <<stored, notice>>
  /\ UNCHANGED <<works, dead, issued, reloads, group, submitting, logins, calls>>

\* onStorage: another tab has changed the item; whatever it holds now is adopted.
Storage(t) ==
  /\ notice[t]
  /\ notice' = [notice EXCEPT ![t] = FALSE]
  /\ Adopt(t, stored)
  /\ UNCHANGED <<works, stored, dead, issued, reloads, group, submitting, logins, calls>>

-----------------------------------------------------------------------------
(* The forms.                                                              *)

\* The submit button is disabled while a request of the form is out.
ButtonEnabled(t) == group[t] = "auth" /\ ~submitting[t]

\* onSubmit of LoginForm and SignupForm, valid input.
Submit(t, u) ==
  /\ ButtonEnabled(t) /\ issued < MaxLogins
  /\ submitting' = [submitting EXCEPT ![t] = TRUE]
  /\ issued' = issued + 1
  /\ logins' = [logins EXCEPT ![t] = @ \cup {[tok |-> <<u, issued + 1>>, mounted |-> TRUE]}]
  /\ UNCHANGED <<works, stored, dead, reloads, group, session, status, notice, calls>>

\* The forms of t leave the page; their requests stay on their way.
Unmounted(t) == {[l EXCEPT !.mounted = FALSE] : l \in logins[t]}

\* Tokens came back: applySession, then router.replace to the dashboard, also when the
\* form has gone or the tab was signed in by other means.
LoginOk(t, l) ==
  /\ l \in logins[t]
  /\ Persist(t, l.tok) /\ Adopt(t, l.tok)
  /\ group' = [group EXCEPT ![t] = "app"]
  /\ submitting' = [submitting EXCEPT ![t] = FALSE]
  /\ logins' = [logins EXCEPT ![t] = {[m EXCEPT !.mounted = FALSE] : m \in logins[t] \ {l}}]
  /\ UNCHANGED <<works, dead, issued, reloads, calls>>

StillSubmitting(t, l) == TRUE
\* setSubmitting(false) reaches the form only while it is mounted.
SubmittingAfterError(t, l) == submitting[t] /\ ~l.mounted

\* The request failed: a toast, and the button comes back.
LoginFail(t, l) ==
  /\ l \in logins[t]
  /\ logins' = [logins EXCEPT ![t] = @ \ {l}]
  /\ submitting' = [submitting EXCEPT ![t] = SubmittingAfterError(t, l)]
  /\ UNCHANGED <<works, stored, dead, issued, reloads, group, session, status, notice, calls>>

-----------------------------------------------------------------------------
(* API calls and signing out.                                              *)

\* apiRequest and searchLogs read the token from the storage, not from React state.
\* Without one apiRequest throws at once; searchLogs asks all the same.
Call(t) ==
  /\ group[t] = "app" /\ status[t] = "authenticated"
  /\ calls' = [calls EXCEPT ![t] = @ \cup {stored}]
  /\ UNCHANGED <<works, stored, dead, issued, reloads, group, session, status, notice,
                 submitting, logins>>

Answered(t, k) ==
  /\ k \in calls[t] \ {None}
  /\ calls' = [calls EXCEPT ![t] = @ \ {k}]
  /\ UNCHANGED <<works, stored, dead, issued, reloads, group, session, status, notice,
                 submitting, logins>>

\* 401: the event logify:unauthorized signs the tab out, whoever is signed in by now.
Refused(t, k) ==
  /\ k \in calls[t] /\ k \in dead \cup {None}
  /\ calls' = [calls EXCEPT ![t] = @ \ {k}]
  /\ Logout(t)
  /\ UNCHANGED <<works, dead, issued, reloads, group, submitting, logins>>

\* onSignOut of the account menu, after the confirmation.
SignOut(t) ==
  /\ group[t] = "app" /\ status[t] = "authenticated"
  /\ Logout(t)
  /\ group' = [group EXCEPT ![t] = "auth"]
  /\ UNCHANGED <<works, dead, issued, reloads, submitting, logins, calls>>

\* Time passes the exp claim of a token.
Expire(k) ==
  /\ k \notin dead
  /\ dead' = dead \cup {k}
  /\ UNCHANGED <<works, stored, issued, reloads, tabState>>

-----------------------------------------------------------------------------
(* The route guards.                                                       *)

SignedOutAndIdle(t) == status[t] = "unauthenticated" /\ calls[t] = {}
SignedOut(t) == status[t] = "unauthenticated"

\* RequireAuth
GuardApp(t) ==
  /\ group[t] = "app" /\ SignedOut(t)
  /\ group' = [group EXCEPT ![t] = "auth"]
  /\ UNCHANGED <<works, stored, dead, issued, reloads, session, status, notice,
                 submitting, logins, calls>>

RedirectsOwnLogin(t) == status[t] = "authenticated" /\ submitting[t]
Redirects(t) == status[t] = "authenticated"

\* RedirectIfAuthed: the forms are unmounted.
GuardAuth(t) ==
  /\ group[t] = "auth" /\ Redirects(t)
  /\ group' = [group EXCEPT ![t] = "app"]
  /\ submitting' = [submitting EXCEPT ![t] = FALSE]
  /\ logins' = [logins EXCEPT ![t] = Unmounted(t)]
  /\ UNCHANGED <<works, stored, dead, issued, reloads, session, status, notice, calls>>

-----------------------------------------------------------------------------
TabStep(t) ==
  \/ \E p \in {"auth", "app"} : Open(t, p)
  \/ Reload(t) \/ Hydrate(t) \/ Storage(t)
  \/ \E u \in Users : Submit(t, u)
  \/ \E l \in logins[t] : LoginOk(t, l) \/ LoginFail(t, l)
  \/ Call(t)
  \/ \E k \in calls[t] : Answered(t, k) \/ Refused(t, k)
  \/ SignOut(t) \/ GuardApp(t) \/ GuardAuth(t)

HeldTokens == ({stored} \cup {session[t] : t \in Tabs}) \ {None}

Next == (\E t \in Tabs : TabStep(t)) \/ (\E k \in HeldTokens : Expire(k))

Spec == Init /\ [][Next]_vars

\* React runs the effects of what it has rendered, the browser delivers storage events,
\* and a request is answered or fails.
FairSpec ==
  Spec /\ \A t \in Tabs :
    /\ WF_vars(Hydrate(t)) /\ WF_vars(Storage(t))
    /\ WF_vars(GuardApp(t)) /\ WF_vars(GuardAuth(t))
    /\ WF_vars(\E l \in logins[t] : LoginOk(t, l) \/ LoginFail(t, l))

-----------------------------------------------------------------------------
(* Properties.                                                             *)

\* A tab that has hydrated and has no storage event coming shows the stored session, and
\* its status says whether there is one: whoever signs in or out, in whichever tab, and
\* however late an answer is ("Keep auth state in sync across tabs", auth-store.tsx:148,
\* and "Dashboard content is never rendered without a session", require-auth.tsx:12).
TabsFollowStorage ==
  \A t \in Tabs : group[t] # "closed" /\ status[t] # "loading" =>
    /\ (status[t] = "authenticated") = (session[t] # None)
    /\ works /\ ~notice[t] => session[t] = stored

\* The two guards do not send a tab back and forth: in the end every tab is behind
\* RequireAuth exactly when it is signed in, whatever expires, is refused or is answered
\* late, with or without a usable localStorage.
GuardsSettle ==
  <>[](\A t \in Tabs : group[t] # "closed" => ((group[t] = "app") = (status[t] = "authenticated")))

\* Signing out in one tab takes every other tab off its dashboard (onStorage, RequireAuth).
SignedOutTabsLeave ==
  \A t \in Tabs : works /\ stored = None /\ group[t] = "app" ~> stored # None \/ group[t] # "app"

\* The disabled submit button comes back or the form goes away, also when the tab was
\* signed in and out by others while the request was on its way (login-form.tsx:44-52).
SubmitButtonReturns ==
  \A t \in Tabs : group[t] = "auth" /\ submitting[t] ~> group[t] # "auth" \/ ~submitting[t]
=============================================================================
