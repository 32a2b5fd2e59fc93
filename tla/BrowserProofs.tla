---------------------------- MODULE BrowserProofs ----------------------------
(***************************************************************************)
(* Proofs about what the web applications keep in the browser: the session *)
(* that tabs share (WebSession), the Assist conversations and dashboards   *)
(* each tab loads and stores (SavedViews), and the tables of the admin     *)
(* application (AdminConsole), for any tabs, users, dashboards, rows and   *)
(* bounds.                                                                 *)
(***************************************************************************)
EXTENDS WebSession, SavedViews, AdminConsole, FiniteSetTheorems, WellFoundedInduction, TLAPS

-----------------------------------------------------------------------------
(* The session.  Types and TabsFollowStorage are inductive together: every *)
(* change of the stored session is announced to the other tabs in the same *)
(* step in which the tab that makes it adopts it.                          *)

SessionInv == TypeOK /\ TabsFollowStorage

USE WebSessionAssumption DEF tabState

\* The initial states: every tab is closed.
LEMMA SessionInit == Init => SessionInv
<1> SUFFICES ASSUME Init PROVE SessionInv
  OBVIOUS
<1>1. TypeOK
  BY DEF Init, TypeOK, Login
<1>2. TabsFollowStorage
  BY DEF Init, TabsFollowStorage
<1> QED
  BY <1>1, <1>2 DEF SessionInv

\* Writing the storage and adopting what was written, with the tab's page, forms and
\* requests changed at will as long as no other tab opens.
LEMMA PersistAndAdopt ==
  ASSUME TypeOK, TabsFollowStorage, NEW t \in Tabs, NEW s \in Tokens \cup {None},
         Persist(t, s), Adopt(t, s), UNCHANGED works,
         \A q \in Tabs \ {t} : group'[q] = group[q]
  PROVE  /\ stored' \in Tokens \cup {None}
         /\ notice' \in [Tabs -> BOOLEAN]
         /\ session' \in [Tabs -> Tokens \cup {None}]
         /\ status' \in [Tabs -> {"loading", "authenticated", "unauthenticated"}]
         /\ TabsFollowStorage'
<1>1. CASE works /\ s # stored
  <2>1. stored' = s /\ notice' = Announce(t)
    BY <1>1 DEF Persist
  <2>2. \A q \in Tabs \ {t} : group'[q] # "closed" => notice'[q]
    BY <2>1 DEF Announce
  <2>3. \A q \in Tabs \ {t} : session'[q] = session[q] /\ status'[q] = status[q]
    BY DEF Adopt, TypeOK
  <2>4. session'[t] = s /\ status'[t] = IF s = None THEN "unauthenticated" ELSE "authenticated"
    BY DEF Adopt, TypeOK
  <2>5. TabsFollowStorage'
    BY <2>1, <2>2, <2>3, <2>4 DEF TabsFollowStorage
  <2> QED
    BY <2>1, <2>5 DEF Announce, Adopt, TypeOK
<1>2. CASE ~(works /\ s # stored)
  <2>1. UNCHANGED <<stored, notice>>
    BY <1>2 DEF Persist
  <2>2. \A q \in Tabs \ {t} : session'[q] = session[q] /\ status'[q] = status[q]
    BY DEF Adopt, TypeOK
  <2>3. session'[t] = s /\ status'[t] = IF s = None THEN "unauthenticated" ELSE "authenticated"
    BY DEF Adopt, TypeOK
  <2>4. TabsFollowStorage'
    BY <1>2, <2>1, <2>2, <2>3 DEF TabsFollowStorage
  <2> QED
    BY <2>1, <2>4 DEF Adopt, TypeOK
<1> QED
  BY <1>1, <1>2

\* Adopting what the storage holds.
LEMMA AdoptStored ==
  ASSUME TypeOK, TabsFollowStorage, NEW t \in Tabs, Adopt(t, stored), UNCHANGED <<works, stored, group>>,
         \A q \in Tabs \ {t} : notice'[q] = notice[q]
  PROVE  /\ session' \in [Tabs -> Tokens \cup {None}]
         /\ status' \in [Tabs -> {"loading", "authenticated", "unauthenticated"}]
         /\ TabsFollowStorage'
<1>1. \A q \in Tabs \ {t} : session'[q] = session[q] /\ status'[q] = status[q]
  BY DEF Adopt, TypeOK
<1>2. /\ session'[t] = stored
      /\ status'[t] = IF stored = None THEN "unauthenticated" ELSE "authenticated"
  BY DEF Adopt, TypeOK
<1>3. TabsFollowStorage'
  BY <1>1, <1>2 DEF TabsFollowStorage
<1> QED
  BY <1>3 DEF Adopt, TypeOK

\* A step that leaves the storage and what the tabs show of it alone, and opens no tab.
LEMMA SameSessions ==
  ASSUME TabsFollowStorage, UNCHANGED <<works, stored, session, status, notice>>,
         \A q \in Tabs : group'[q] = "closed" <=> group[q] = "closed"
  PROVE  TabsFollowStorage'
BY DEF TabsFollowStorage

\* A new document starts as "loading".
LEMMA SessionLoad ==
  ASSUME SessionInv, NEW t \in Tabs, NEW p \in {"auth", "app"}, Load(t, p),
         reloads' \in 0..MaxReloads
  PROVE  SessionInv'
<1> USE DEF SessionInv
<1>1. TypeOK'
  BY DEF Load, TypeOK
<1>2. TabsFollowStorage'
  <2>1. status'[t] = "loading"
    BY DEF Load, TypeOK
  <2>2. \A q \in Tabs \ {t} : /\ session'[q] = session[q] /\ status'[q] = status[q]
                              /\ notice'[q] = notice[q] /\ group'[q] = group[q]
    BY DEF Load, TypeOK
  <2> QED
    BY <2>1, <2>2 DEF Load, TabsFollowStorage
<1> QED
  BY <1>1, <1>2

\* Requests and forms in flight stay well typed.
LEMMA LoginsTyped ==
  ASSUME TypeOK, NEW t \in Tabs, NEW l \in logins[t]
  PROVE  /\ l \in Login /\ l.tok \in Tokens
         /\ [logins EXCEPT ![t] = {[m EXCEPT !.mounted = FALSE] : m \in logins[t] \ {l}}] \in [Tabs -> SUBSET Login]
         /\ [logins EXCEPT ![t] = @ \ {l}] \in [Tabs -> SUBSET Login]
<1>1. l \in Login /\ l.tok \in Tokens
  BY DEF TypeOK, Login
<1>2. {[m EXCEPT !.mounted = FALSE] : m \in logins[t] \ {l}} \subseteq Login
  <2>1. logins[t] \ {l} \subseteq Login
    BY DEF TypeOK
  <2> QED
    BY <2>1 DEF Login
<1>3. logins \in [Tabs -> SUBSET Login]
  BY DEF TypeOK
<1>4. [logins EXCEPT ![t] = {[m EXCEPT !.mounted = FALSE] : m \in logins[t] \ {l}}] \in [Tabs -> SUBSET Login]
  BY <1>2, <1>3
<1>5. [logins EXCEPT ![t] = @ \ {l}] \in [Tabs -> SUBSET Login]
  BY <1>3
<1> QED
  BY <1>1, <1>4, <1>5

\* Every step of a tab keeps the invariant.
LEMMA SessionTabStep == ASSUME SessionInv, NEW t \in Tabs, TabStep(t) PROVE SessionInv'
<1> USE DEF SessionInv
<1>1. CASE \E p \in {"auth", "app"} : Open(t, p)
  <2>1. PICK p \in {"auth", "app"} : Open(t, p)
    BY <1>1
  <2> QED
    BY <2>1, SessionLoad DEF Open, TypeOK
<1>2. CASE Reload(t)
  <2>1. group[t] \in {"auth", "app"} /\ reloads' \in 0..MaxReloads
    BY <1>2 DEF Reload, TypeOK
  <2> QED
    BY <1>2, <2>1, SessionLoad DEF Reload
<1>3. CASE Hydrate(t)
  <2>1. CASE StoredExpired
    <3>1. Persist(t, None) /\ Adopt(t, None)
      BY <1>3, <2>1 DEF Hydrate, Logout
    <3>2. UNCHANGED <<works, dead, issued, reloads, group, submitting, logins, calls>>
      BY <1>3 DEF Hydrate
    <3> QED
      BY <3>1, <3>2, PersistAndAdopt DEF TypeOK
  <2>2. CASE ~StoredExpired
    <3>1. Adopt(t, stored) /\ UNCHANGED <<stored, notice>>
      BY <1>3, <2>2 DEF Hydrate
    <3>2. UNCHANGED <<works, dead, issued, reloads, group, submitting, logins, calls>>
      BY <1>3 DEF Hydrate
    <3> QED
      BY <3>1, <3>2, AdoptStored DEF TypeOK
  <2> QED
    BY <2>1, <2>2
<1>4. CASE Storage(t)
  <2>1. /\ Adopt(t, stored) /\ notice' = [notice EXCEPT ![t] = FALSE]
        /\ UNCHANGED <<works, stored, dead, issued, reloads, group, submitting, logins, calls>>
    BY <1>4 DEF Storage
  <2>2. \A q \in Tabs \ {t} : notice'[q] = notice[q]
    BY <2>1 DEF TypeOK
  <2>3. /\ session' \in [Tabs -> Tokens \cup {None}]
        /\ status' \in [Tabs -> {"loading", "authenticated", "unauthenticated"}]
        /\ TabsFollowStorage'
    BY <2>1, <2>2, AdoptStored
  <2>4. TypeOK'
    BY <2>1, <2>3 DEF TypeOK
  <2> QED
    BY <2>3, <2>4
<1>5. CASE \E u \in Users : Submit(t, u)
  <2>1. PICK u \in Users : Submit(t, u)
    BY <1>5
  <2>2. [tok |-> <<u, issued + 1>>, mounted |-> TRUE] \in Login
    BY DEF Login, Tokens, TypeOK
  <2>3. issued' \in 0..MaxLogins
    BY <2>1, WebSessionAssumption DEF Submit, TypeOK
  <2>4. logins' \in [Tabs -> SUBSET Login]
    BY <2>1, <2>2 DEF Submit, TypeOK
  <2>5. TypeOK'
    BY <2>1, <2>3, <2>4 DEF Submit, TypeOK
  <2> QED
    BY <2>1, <2>5, SameSessions DEF Submit
<1>6. CASE \E l \in logins[t] : LoginOk(t, l)
  <2>1. PICK l \in logins[t] : LoginOk(t, l)
    BY <1>6
  <2>2. /\ Persist(t, l.tok) /\ Adopt(t, l.tok)
        /\ group' = [group EXCEPT ![t] = "app"]
        /\ submitting' = [submitting EXCEPT ![t] = FALSE]
        /\ logins' = [logins EXCEPT ![t] = {[m EXCEPT !.mounted = FALSE] : m \in logins[t] \ {l}}]
        /\ UNCHANGED <<works, dead, issued, reloads, calls>>
    BY <2>1 DEF LoginOk
  <2>3. l.tok \in Tokens /\ \A q \in Tabs \ {t} : group'[q] = group[q]
    BY <2>2, LoginsTyped DEF TypeOK
  <2>4. /\ stored' \in Tokens \cup {None} /\ notice' \in [Tabs -> BOOLEAN]
        /\ session' \in [Tabs -> Tokens \cup {None}]
        /\ status' \in [Tabs -> {"loading", "authenticated", "unauthenticated"}]
        /\ TabsFollowStorage'
    BY <2>2, <2>3, PersistAndAdopt
  <2>5. TypeOK'
    BY <2>2, <2>4, LoginsTyped DEF TypeOK
  <2> QED
    BY <2>4, <2>5
<1>7. CASE \E l \in logins[t] : LoginFail(t, l)
  <2>1. PICK l \in logins[t] : LoginFail(t, l)
    BY <1>7
  <2>2. SubmittingAfterError(t, l) \in BOOLEAN
    BY DEF SubmittingAfterError
  <2>3. TypeOK'
    BY <2>1, <2>2, LoginsTyped DEF LoginFail, TypeOK
  <2> QED
    BY <2>1, <2>3, SameSessions DEF LoginFail
<1>8. CASE Call(t) \/ \E k \in calls[t] : Answered(t, k)
  <2>1. TypeOK'
    BY <1>8 DEF Call, Answered, TypeOK
  <2> QED
    BY <1>8, <2>1, SameSessions DEF Call, Answered
<1>9. CASE \E k \in calls[t] : Refused(t, k)
  <2>1. PICK k \in calls[t] : Refused(t, k)
    BY <1>9
  <2>2. /\ Persist(t, None) /\ Adopt(t, None)
        /\ calls' = [calls EXCEPT ![t] = @ \ {k}]
        /\ UNCHANGED <<works, dead, issued, reloads, group, submitting, logins>>
    BY <2>1 DEF Refused, Logout
  <2> QED
    BY <2>2, PersistAndAdopt DEF TypeOK
<1>10. CASE SignOut(t)
  <2>1. /\ Persist(t, None) /\ Adopt(t, None)
        /\ group' = [group EXCEPT ![t] = "auth"]
        /\ UNCHANGED <<works, dead, issued, reloads, submitting, logins, calls>>
    BY <1>10 DEF SignOut, Logout
  <2>2. \A q \in Tabs \ {t} : group'[q] = group[q]
    BY <2>1 DEF TypeOK
  <2> QED
    BY <2>1, <2>2, PersistAndAdopt DEF TypeOK
<1>11. CASE GuardApp(t)
  <2>1. TypeOK'
    BY <1>11 DEF GuardApp, TypeOK
  <2> QED
    BY <1>11, <2>1, SameSessions DEF GuardApp, TypeOK
<1>12. CASE GuardAuth(t)
  <2>0. logins[t] \subseteq Login
    BY DEF TypeOK
  <2>1. Unmounted(t) \subseteq Login
    BY <2>0 DEF Unmounted, Login
  <2>2. TypeOK'
    BY <1>12, <2>1 DEF GuardAuth, TypeOK
  <2> QED
    BY <1>12, <2>2, SameSessions DEF GuardAuth, TypeOK
<1> QED
  BY <1>1, <1>2, <1>3, <1>4, <1>5, <1>6, <1>7, <1>8, <1>9, <1>10, <1>11, <1>12 DEF TabStep

\* Time changes no tab.
LEMMA SessionExpire == ASSUME SessionInv, NEW k \in HeldTokens, Expire(k) PROVE SessionInv'
<1> USE DEF SessionInv
<1>1. k \in Tokens
  BY DEF HeldTokens, TypeOK
<1>2. TypeOK'
  BY <1>1 DEF Expire, TypeOK
<1> QED
  BY <1>2, SameSessions DEF Expire

\* The invariant holds at all times.
THEOREM SessionInvHolds == Spec => []SessionInv
<1>1. SessionInv /\ [Next]_vars => SessionInv'
  <2> SUFFICES ASSUME SessionInv, [Next]_vars PROVE SessionInv'
    OBVIOUS
  <2>1. CASE UNCHANGED vars
    BY <2>1, SameSessions DEF SessionInv, TypeOK, vars
  <2>2. CASE Next
    BY <2>2, SessionTabStep, SessionExpire DEF Next
  <2> QED
    BY <2>1, <2>2
<1> QED
  BY SessionInit, <1>1, PTL DEF Spec

\* The state of the tabs, the storage and the requests in flight is well typed.
THEOREM SessionTypes == Spec => []TypeOK
<1>1. SessionInv => TypeOK
  BY DEF SessionInv
<1> QED
  BY SessionInvHolds, <1>1, PTL

\* For any number of tabs and users, a hydrated tab without a pending storage event shows
\* the stored session, and its status says whether there is one.
THEOREM TabsAgree == Spec => []TabsFollowStorage
<1>1. SessionInv => TabsFollowStorage
  BY DEF SessionInv
<1> QED
  BY SessionInvHolds, <1>1, PTL

HIDE WebSessionAssumption DEF tabState

-----------------------------------------------------------------------------
(* The tabs.  Only what a step does to the tab's own view and phase, and   *)
(* to the history of disturbances, matters to the two stores.              *)

Phases == {"away", "fresh", "loading", "loaded", "unsaved", "ready"}
Views == {"away", "assist"} \cup Boards

\* A step of tab t that shows nothing but what belongs to store s.
OnlyStore(t, s) ==
  /\ \A u \in Tabs \ {t} : view'[u] = view[u] /\ phase'[u] = phase[u]
  /\ StoreOf(view[t]) \in {"away", s} /\ StoreOf(view'[t]) \in {"away", s}
  /\ disturbed \subseteq disturbed' /\ disturbed' \subseteq disturbed \cup {s}
  /\ mounts <= mounts' /\ edits <= edits'
  /\ TabsTypeOK'

LEMMA StoreOfViews ==
  /\ StoreOf("assist") = "assist" /\ StoreOf("away") = "away"
  /\ \A b \in Boards : StoreOf(b) = "boards" /\ b # "away" /\ b # "assist"
  /\ \A v \in Views : /\ (StoreOf(v) = "assist") = (v = "assist")
                      /\ (StoreOf(v) = "away") = (v = "away")
                      /\ (StoreOf(v) = "boards") = (v \in Boards)
BY SavedStateAssumption DEF StoreOf, Views

\* The route of a store is shown.
LEMMA Mounting ==
  ASSUME TabsTypeOK, NEW t \in Tabs, NEW v \in Views \ {"away"}, MountView(t, v)
  PROVE  /\ OnlyStore(t, StoreOf(v))
         /\ view[t] = "away" /\ view'[t] = v /\ phase'[t] = "fresh"
         /\ mounts' = mounts + 1 /\ mounts' \in 0..MaxMounts
         /\ \A u \in Tabs \ {t} : StoreOf(view[u]) = StoreOf(v) => StoreOf(v) \in disturbed'
<1>1. /\ view \in [Tabs -> Views] /\ view' = [view EXCEPT ![t] = v]
      /\ phase \in [Tabs -> Phases] /\ phase' = [phase EXCEPT ![t] = "fresh"]
  BY DEF TabsTypeOK, MountView, Phases, Views
<1>2. /\ \A u \in Tabs \ {t} : view'[u] = view[u] /\ phase'[u] = phase[u]
      /\ view[t] = "away" /\ view'[t] = v /\ phase'[t] = "fresh"
  BY <1>1 DEF MountView
<1>3. mounts' = mounts + 1 /\ mounts' \in 0..MaxMounts /\ mounts <= mounts' /\ edits' = edits
  BY SavedStateAssumption DEF MountView, TabsTypeOK
<1>4. /\ disturbed \subseteq disturbed' /\ disturbed' \subseteq disturbed \cup {StoreOf(v)}
      /\ \A u \in Tabs \ {t} : StoreOf(view[u]) = StoreOf(v) => StoreOf(v) \in disturbed'
  BY DEF MountView
<1>5. StoreOf(v) \in Stores
  BY StoreOfViews DEF Views, Stores
<1>6. TabsTypeOK'
  <2>1. view' \in [Tabs -> Views] /\ phase' \in [Tabs -> Phases]
    BY <1>1 DEF Phases
  <2>2. \A u \in Tabs : (view'[u] = "away") = (phase'[u] = "away")
    BY <1>1, <1>2 DEF TabsTypeOK
  <2>3. edits' \in 0..MaxEdits /\ disturbed' \subseteq Stores
    BY <1>3, <1>4, <1>5 DEF TabsTypeOK
  <2> QED
    BY <1>3, <2>1, <2>2, <2>3 DEF TabsTypeOK, Phases, Views
<1>7. StoreOf(view[t]) = "away" /\ StoreOf(view'[t]) = StoreOf(v)
  BY <1>2, StoreOfViews
<1> QED
  BY <1>2, <1>3, <1>4, <1>6, <1>7 DEF OnlyStore, TabsTypeOK

\* The route of a store is left.
LEMMA Unmounting ==
  ASSUME TabsTypeOK, NEW t \in Tabs, UnmountView(t), edits' \in 0..MaxEdits, edits <= edits'
  PROVE  /\ OnlyStore(t, StoreOf(view[t]))
         /\ view[t] # "away" /\ view'[t] = "away" /\ phase'[t] = "away"
         /\ phase[t] \in {"loading", "loaded"} => StoreOf(view[t]) \in disturbed'
         /\ mounts' = mounts
<1>1. /\ view \in [Tabs -> Views] /\ view' = [view EXCEPT ![t] = "away"]
      /\ phase \in [Tabs -> Phases] /\ phase' = [phase EXCEPT ![t] = "away"]
  BY DEF TabsTypeOK, UnmountView, Phases, Views
<1>2. /\ \A u \in Tabs \ {t} : view'[u] = view[u] /\ phase'[u] = phase[u]
      /\ view[t] # "away" /\ view'[t] = "away" /\ phase'[t] = "away"
  BY <1>1 DEF UnmountView
<1>3. mounts' = mounts /\ mounts \in 0..MaxMounts
  BY DEF UnmountView, TabsTypeOK
<1>4. /\ disturbed \subseteq disturbed' /\ disturbed' \subseteq disturbed \cup {StoreOf(view[t])}
      /\ phase[t] \in {"loading", "loaded"} => StoreOf(view[t]) \in disturbed'
  BY DEF UnmountView
<1>5. StoreOf(view[t]) \in Stores
  BY <1>1, <1>2, StoreOfViews DEF Views, Stores
<1>6. TabsTypeOK'
  <2>1. view' \in [Tabs -> Views] /\ phase' \in [Tabs -> Phases]
    BY <1>1 DEF Phases, Views
  <2>2. \A u \in Tabs : (view'[u] = "away") = (phase'[u] = "away")
    BY <1>1, <1>2 DEF TabsTypeOK
  <2>3. disturbed' \subseteq Stores
    BY <1>4, <1>5 DEF TabsTypeOK
  <2> QED
    BY <1>3, <2>1, <2>2, <2>3 DEF TabsTypeOK, Phases, Views
<1>7. StoreOf(view'[t]) = "away"
  BY <1>2, StoreOfViews
<1> QED
  BY <1>2, <1>3, <1>4, <1>6, <1>7 DEF OnlyStore

\* React goes on with the provider that is mounted.
LEMMA Going ==
  ASSUME TabsTypeOK, NEW t \in Tabs, NEW p \in Phases \ {"away"}, view[t] # "away", GoesTo(t, p)
  PROVE  /\ OnlyStore(t, StoreOf(view[t])) /\ phase'[t] = p
         /\ UNCHANGED <<view, mounts, edits, disturbed>>
<1>1. /\ phase \in [Tabs -> Phases] /\ phase' = [phase EXCEPT ![t] = p]
      /\ UNCHANGED <<view, mounts, edits, disturbed>>
  BY DEF TabsTypeOK, GoesTo, Phases
<1>2. /\ \A u \in Tabs \ {t} : phase'[u] = phase[u]
      /\ phase'[t] = p
  BY <1>1
<1>3. TabsTypeOK'
  <2>1. phase' \in [Tabs -> Phases]
    BY <1>1
  <2>2. \A u \in Tabs : (view'[u] = "away") = (phase'[u] = "away")
    BY <1>1, <1>2 DEF TabsTypeOK
  <2> QED
    BY <1>1, <2>1, <2>2 DEF TabsTypeOK, Phases, Views
<1>4. mounts <= mounts /\ edits <= edits
  BY DEF TabsTypeOK
<1> QED
  BY <1>1, <1>2, <1>3, <1>4 DEF OnlyStore

\* A step of the user that changes no route.
LEMMA Staying ==
  ASSUME TabsTypeOK, NEW t \in Tabs, UNCHANGED showing, edits' \in 0..MaxEdits, edits <= edits'
  PROVE  OnlyStore(t, StoreOf(view[t]))
<1>1. TabsTypeOK'
  BY DEF TabsTypeOK, showing
<1>2. mounts <= mounts
  BY DEF TabsTypeOK
<1> QED
  BY <1>1, <1>2 DEF OnlyStore, showing

-----------------------------------------------------------------------------
(* The conversations of Assist.                                            *)

Message == [who: {"user", "assistant"}, q: 1..MaxEdits]

\* A reply comes right after its question.
Follows(msgs) ==
  \A i \in DOMAIN msgs : msgs[i].who = "assistant" =>
    i > 1 /\ msgs[i - 1] = [who |-> "user", q |-> msgs[i].q]

\* Conversations in order, with numbers up to m.
GoodChat(c, m) == c \in Chat /\ \A k \in Range(c.convs) : k.id <= m /\ Follows(k.msgs)

\* The question q is asked in c.
Has(c, q) == \E k \in Range(c.convs) : [who |-> "user", q |-> q] \in Range(k.msgs)

\* A conversation after the message m was added to conversation id.
After(k, id, m) == IF k.id = id THEN [k EXCEPT !.msgs = Append(@, m)] ELSE k

LEMMA ChatParts ==
  ASSUME NEW c \in Chat
  PROVE  /\ c.convs \in Seq(Conv) /\ c.active \in 0..MaxConvs
         /\ \A k \in Range(c.convs) : k \in Conv /\ k.id \in 1..MaxConvs /\ k.msgs \in Seq(Message)
<1>1. c.convs \in Seq(Conv) /\ c.active \in 0..MaxConvs
  BY DEF Chat
<1>2. Range(c.convs) \subseteq Conv
  BY <1>1 DEF Range
<1> QED
  BY <1>1, <1>2 DEF Conv, Message

LEMMA MaxConvsNat == MaxConvs \in Nat /\ MaxMounts \in Nat /\ MaxEdits \in Nat
BY SavedStateAssumption DEF MaxConvs

\* Nothing at all is in order.
LEMMA NoChatIsGood ==
  ASSUME NEW m \in Nat
  PROVE  GoodChat(NoChat, m) /\ \A q : ~Has(NoChat, q)
<1>1. NoChat \in Chat
  BY MaxConvsNat DEF NoChat, Chat
<1>2. Range(NoChat.convs) = {}
  BY DEF NoChat, Range
<1> QED
  BY <1>1, <1>2 DEF GoodChat, Has

\* A new conversation is empty.
LEMMA DefaultIsGood ==
  ASSUME NEW id \in 1..MaxConvs
  PROVE  LET d == DefaultConversation(id)
         IN  d \in Conv /\ d.id = id /\ d.msgs = <<>> /\ Follows(d.msgs) /\ Range(d.msgs) = {}
BY DEF DefaultConversation, Conv, Follows, Range

\* The initial state of a provider.
LEMMA FirstChat ==
  ASSUME NEW m \in 1..MaxConvs, NEW d, d = [convs |-> <<DefaultConversation(m)>>, active |-> m]
  PROVE  GoodChat(d, m) /\ d.active \in Ids(d)
<1>1. PICK k \in Conv : k = DefaultConversation(m) /\ k.id = m /\ Follows(k.msgs)
  BY DefaultIsGood
<1>2. d.convs = <<k>> /\ d.active = m /\ d.convs \in Seq(Conv)
  BY <1>1
<1>3. Range(d.convs) = {k}
  BY <1>2 DEF Range
<1>4. d \in Chat
  BY <1>1, <1>2, MaxConvsNat DEF Chat
<1> QED
  BY <1>1, <1>2, <1>3, <1>4, MaxConvsNat DEF GoodChat, Ids

LEMMA RangeOfCons ==
  ASSUME NEW S, NEW k \in S, NEW s \in Seq(S), NEW r \in Seq(S), r = <<k>> \o s
  PROVE  Range(r) = {k} \cup Range(s)
<1>1. Len(r) = Len(s) + 1 /\ Len(s) \in Nat /\ DOMAIN r = 1..Len(r) /\ DOMAIN s = 1..Len(s)
  BY DEF Range
<1>2. r[1] = k /\ \A i \in 1..Len(s) : r[i + 1] = s[i]
  OBVIOUS
<1>3. ASSUME NEW i \in 1..Len(r) PROVE r[i] \in {k} \cup Range(s)
  <2>1. CASE i = 1
    BY <1>2, <2>1
  <2>2. CASE i # 1
    <3>1. i - 1 \in 1..Len(s) /\ r[(i - 1) + 1] = s[i - 1] /\ (i - 1) + 1 = i
      BY <1>1, <1>2, <2>2
    <3> QED
      BY <1>1, <3>1 DEF Range
  <2> QED
    BY <2>1, <2>2
<1>4. 1 \in 1..Len(r) /\ \A i \in 1..Len(s) : i + 1 \in 1..Len(r)
  BY <1>1
<1>5. \A x \in Range(r) : x \in {k} \cup Range(s)
  BY <1>1, <1>3 DEF Range
<1>6. k \in Range(r) /\ \A x \in Range(s) : x \in Range(r)
  BY <1>1, <1>2, <1>4 DEF Range
<1> QED
  BY <1>5, <1>6

\* A new conversation, of number n, is put before the others.
WithFirst(c, n) == [convs |-> <<DefaultConversation(n)>> \o c.convs, active |-> n]

LEMMA PutFirst ==
  ASSUME NEW m \in Nat, NEW n \in 1..MaxConvs, n = m + 1, NEW c, GoodChat(c, m),
         NEW d, d = WithFirst(c, n)
  PROVE  /\ GoodChat(d, n) /\ d.active \in Ids(d)
         /\ \A q : Has(c, q) => Has(d, q)
         /\ \A k \in Range(d.convs) : k \in Range(c.convs) \/ k.id = n
<1>1. PICK k \in Conv : k = DefaultConversation(n) /\ k.id = n /\ Follows(k.msgs)
  BY DefaultIsGood
<1>2. PICK s \in Seq(Conv) : s = c.convs
  BY ChatParts DEF GoodChat
<1>3. d = [convs |-> <<k>> \o s, active |-> n] /\ d.convs = <<k>> \o s /\ d.active = n
  <2>1. PICK list, a : list = <<k>> \o s /\ a = n
    OBVIOUS
  <2>2. d = [convs |-> list, active |-> a]
    BY <1>1, <1>2, <2>1 DEF WithFirst
  <2>3. d.convs = list /\ d.active = a
    BY <2>2
  <2> QED
    BY <2>1, <2>2, <2>3
<1>4. PICK r \in Seq(Conv) : r = <<k>> \o s
  <2>1. <<k>> \in Seq(Conv)
    OBVIOUS
  <2>2. <<k>> \o s \in Seq(Conv)
    BY <2>1
  <2> QED
    BY <2>2
<1>5. Range(r) = {k} \cup Range(s)
  BY <1>4, RangeOfCons
<1>6. d \in Chat
  <2>1. PICK a \in 0..MaxConvs : a = n
    BY MaxConvsNat
  <2>2. d = [convs |-> r, active |-> a]
    BY <1>3, <1>4, <2>1
  <2>3. [convs |-> r, active |-> a] \in Chat
    BY DEF Chat
  <2> QED
    BY <2>2, <2>3
<1>7. \A j \in Range(c.convs) : j.id <= m /\ Follows(j.msgs) /\ j.id \in Nat
  BY ChatParts DEF GoodChat
<1> QED
  <2>1. Range(d.convs) = {k} \cup Range(c.convs)
    BY <1>2, <1>3, <1>4, <1>5
  <2>2. GoodChat(d, n)
    <3>1. \A j \in Range(c.convs) : j.id <= n
      BY <1>7
    <3>2. \A j \in Range(d.convs) : j.id <= n /\ Follows(j.msgs)
      <4>1. k.id <= n
        BY <1>1
      <4>2. Follows(k.msgs)
        BY <1>1
      <4> QED
        BY <1>7, <2>1, <3>1, <4>1, <4>2
    <3> QED
      BY <1>6, <3>2 DEF GoodChat
  <2>3. d.active \in Ids(d)
    BY <1>1, <1>3, <2>1 DEF Ids
  <2>4. \A q : Has(c, q) => Has(d, q)
    BY <2>1 DEF Has
  <2> QED
    BY <1>1, <2>1, <2>2, <2>3, <2>4

\* What a message changes in a conversation.
LEMMA AfterParts ==
  ASSUME NEW k \in Conv, NEW id, NEW m \in Message
  PROVE  /\ After(k, id, m) \in Conv /\ After(k, id, m).id = k.id /\ k.msgs \in Seq(Message)
         /\ k.id # id => After(k, id, m) = k
         /\ k.id = id => After(k, id, m).msgs = Append(k.msgs, m)
<1>1. k.id \in 1..MaxConvs /\ k.msgs \in Seq(Message) /\ k = [id |-> k.id, msgs |-> k.msgs]
  BY DEF Conv, Message
<1>2. Append(k.msgs, m) \in Seq(Message)
  BY <1>1
<1>3. CASE k.id = id
  <2>1. After(k, id, m) = [id |-> k.id, msgs |-> Append(k.msgs, m)]
    BY <1>1, <1>3 DEF After
  <2> QED
    BY <1>1, <1>2, <1>3, <2>1 DEF Conv, Message
<1>4. CASE k.id # id
  BY <1>1, <1>4 DEF After
<1> QED
  BY <1>3, <1>4

\* A message is added to a conversation.
LEMMA Added ==
  ASSUME NEW c \in Chat, NEW id, NEW m \in Message, NEW d, d = Add(c, id, m)
  PROVE  /\ d \in Chat /\ d.active = c.active
         /\ Range(d.convs) = {After(k, id, m) : k \in Range(c.convs)}
<1>1. PICK s \in Seq(Conv), a \in 0..MaxConvs : s = c.convs /\ a = c.active
  BY ChatParts
<1>2. c = [convs |-> s, active |-> a]
  BY <1>1 DEF Chat
<1>3. d = [convs |-> [i \in DOMAIN s |-> After(s[i], id, m)], active |-> a]
  BY <1>2 DEF Add, After
<1>4. \A k \in Conv : After(k, id, m) \in Conv
  BY AfterParts
<1>5. [i \in DOMAIN s |-> After(s[i], id, m)] \in Seq(Conv)
  <2>1. DOMAIN s = 1..Len(s) /\ Len(s) \in Nat /\ \A i \in 1..Len(s) : s[i] \in Conv
    BY <1>1
  <2> QED
    BY <1>4, <2>1
<1>6. d \in Chat /\ d.active = c.active
  BY <1>1, <1>3, <1>5 DEF Chat
<1>7. Range(d.convs) = {After(k, id, m) : k \in Range(c.convs)}
  BY <1>1, <1>3 DEF Range
<1> QED
  BY <1>6, <1>7

\* The messages after one more.
LEMMA OneMoreMessage ==
  ASSUME NEW s \in Seq(Message), NEW m \in Message, NEW r, r = Append(s, m)
  PROVE  /\ Len(r) = Len(s) + 1 /\ Len(s) \in Nat /\ r[Len(r)] = m
         /\ DOMAIN r = 1..(Len(s) + 1) /\ DOMAIN s = 1..Len(s)
         /\ \A i \in 1..Len(s) : r[i] = s[i]
OBVIOUS

\* A message that is a question, or the reply to the last question, keeps the order.
LEMMA AddInOrder ==
  ASSUME NEW n, NEW c, GoodChat(c, n), NEW id, NEW m \in Message,
         \A k \in Range(c.convs) : k.id = id /\ m.who = "assistant" =>
           Len(k.msgs) > 0 /\ k.msgs[Len(k.msgs)] = [who |-> "user", q |-> m.q]
  PROVE  GoodChat(Add(c, id, m), n)
<1>1. c \in Chat /\ \A k \in Range(c.convs) : k \in Conv /\ k.id <= n /\ Follows(k.msgs)
  BY ChatParts DEF GoodChat
<1>2. /\ Add(c, id, m) \in Chat
      /\ Range(Add(c, id, m).convs) = {After(k, id, m) : k \in Range(c.convs)}
  BY <1>1, Added
<1>3. ASSUME NEW k \in Range(c.convs)
      PROVE  After(k, id, m).id <= n /\ Follows(After(k, id, m).msgs)
  <2>1. CASE k.id # id
    BY <1>1, <2>1, AfterParts
  <2>2. CASE k.id = id
    <3>1. After(k, id, m).id = k.id /\ k.msgs \in Seq(Message)
      BY <1>1, AfterParts
    <3>2. PICK r, s \in Seq(Message) : s = k.msgs /\ r = Append(s, m) /\ r = After(k, id, m).msgs
      <4>1. After(k, id, m).msgs = Append(k.msgs, m)
        BY <1>1, <2>2, AfterParts
      <4>2. Append(k.msgs, m) \in Seq(Message)
        BY <3>1
      <4> QED
        BY <3>1, <4>1, <4>2
    <3>3. /\ Len(r) = Len(s) + 1 /\ Len(s) \in Nat /\ r[Len(r)] = m
          /\ DOMAIN r = 1..(Len(s) + 1) /\ DOMAIN s = 1..Len(s)
          /\ \A i \in 1..Len(s) : r[i] = s[i]
      <4>1. r = Append(s, m)
        BY <3>2
      <4> QED
        BY <4>1, OneMoreMessage
    <3>4. ASSUME NEW i \in 1..(Len(s) + 1), r[i].who = "assistant"
          PROVE  i > 1 /\ r[i - 1] = [who |-> "user", q |-> r[i].q]
      <4>1. CASE i \in 1..Len(s)
        <5>1. i \in DOMAIN s /\ r[i] = s[i] /\ s[i].who = "assistant" /\ Follows(s)
          BY <1>1, <3>2, <3>3, <3>4, <4>1
        <5>2. i > 1 /\ s[i - 1] = [who |-> "user", q |-> s[i].q]
          BY <5>1 DEF Follows
        <5>3. i - 1 \in 1..Len(s)
          BY <3>3, <4>1, <5>2
        <5> QED
          BY <3>3, <5>1, <5>2, <5>3
      <4>2. CASE i = Len(s) + 1
        <5>1. r[i] = m /\ m.who = "assistant"
          BY <3>3, <3>4, <4>2
        <5>2. Len(s) > 0 /\ s[Len(s)] = [who |-> "user", q |-> m.q]
          BY <2>2, <3>2, <5>1
        <5>3. i - 1 = Len(s) /\ i > 1 /\ Len(s) \in 1..Len(s)
          BY <3>3, <4>2, <5>2
        <5> QED
          BY <3>3, <5>1, <5>2, <5>3
      <4> QED
        BY <3>3, <4>1, <4>2
    <3> QED
      BY <1>1, <3>1, <3>2, <3>3, <3>4 DEF Follows
  <2> QED
    BY <2>1, <2>2
<1> QED
  BY <1>2, <1>3 DEF GoodChat

\* No question is lost when a message is added, and a question is asked.
LEMMA AddKeeps ==
  ASSUME NEW c \in Chat, NEW id, NEW m \in Message
  PROVE  /\ \A q : Has(c, q) => Has(Add(c, id, m), q)
         /\ id \in Ids(c) /\ m.who = "user" => Has(Add(c, id, m), m.q)
         /\ Ids(Add(c, id, m)) = Ids(c) /\ Add(c, id, m).active = c.active
         /\ \A k \in Range(Add(c, id, m).convs) : k.id = id =>
              Len(k.msgs) > 0 /\ k.msgs[Len(k.msgs)] = m
<1>1. /\ Add(c, id, m).active = c.active
      /\ Range(Add(c, id, m).convs) = {After(k, id, m) : k \in Range(c.convs)}
  BY Added
<1>2. \A k \in Range(c.convs) : k \in Conv
  BY ChatParts
<1>3. ASSUME NEW k \in Conv
      PROVE  /\ After(k, id, m).id = k.id
             /\ \A x : x \in Range(k.msgs) => x \in Range(After(k, id, m).msgs)
             /\ k.id = id => m \in Range(After(k, id, m).msgs)
             /\ k.id = id => /\ Len(After(k, id, m).msgs) > 0
                             /\ After(k, id, m).msgs[Len(After(k, id, m).msgs)] = m
  <2>1. CASE k.id # id
    BY <2>1, AfterParts
  <2>2. CASE k.id = id
    <3>1. After(k, id, m).id = k.id /\ k.msgs \in Seq(Message)
      BY AfterParts
    <3>2. PICK r, s \in Seq(Message) : s = k.msgs /\ r = Append(s, m) /\ r = After(k, id, m).msgs
      <4>1. After(k, id, m).msgs = Append(k.msgs, m)
        BY <2>2, AfterParts
      <4>2. Append(k.msgs, m) \in Seq(Message)
        BY <3>1
      <4> QED
        BY <3>1, <4>1, <4>2
    <3>3. /\ Len(r) = Len(s) + 1 /\ Len(s) \in Nat /\ r[Len(r)] = m
          /\ DOMAIN r = 1..(Len(s) + 1) /\ DOMAIN s = 1..Len(s)
          /\ \A i \in 1..Len(s) : r[i] = s[i]
      <4>1. r = Append(s, m)
        BY <3>2
      <4> QED
        BY <4>1, OneMoreMessage
    <3>4. Len(r) \in 1..(Len(s) + 1) /\ Len(r) > 0 /\ \A i \in 1..Len(s) : i \in 1..(Len(s) + 1)
      BY <3>3
    <3>5. m \in Range(r) /\ \A x : x \in Range(s) => x \in Range(r)
      BY <3>3, <3>4 DEF Range
    <3> QED
      BY <3>1, <3>2, <3>3, <3>4, <3>5
  <2> QED
    BY <2>1, <2>2
<1>4. \A q : Has(c, q) => Has(Add(c, id, m), q)
  BY <1>1, <1>2, <1>3 DEF Has
<1>5. ASSUME id \in Ids(c), m.who = "user" PROVE Has(Add(c, id, m), m.q)
  <2>1. PICK k \in Range(c.convs) : k.id = id
    BY <1>5 DEF Ids
  <2>2. m = [who |-> "user", q |-> m.q]
    BY <1>5 DEF Message
  <2> QED
    BY <1>1, <1>2, <1>3, <2>1, <2>2 DEF Has
<1>6. Ids(Add(c, id, m)) = Ids(c)
  BY <1>1, <1>2, <1>3 DEF Ids
<1>7. ASSUME NEW k \in Range(Add(c, id, m).convs), k.id = id
      PROVE  Len(k.msgs) > 0 /\ k.msgs[Len(k.msgs)] = m
  BY <1>1, <1>2, <1>3, <1>7
<1> QED
  BY <1>1, <1>4, <1>5, <1>6, <1>7

LEMMA GoodLater ==
  ASSUME NEW c, NEW m \in Nat, NEW n \in Nat, m <= n, GoodChat(c, m)
  PROVE  GoodChat(c, n)
<1>1. \A k \in Range(c.convs) : k.id \in Nat /\ k.id <= m /\ Follows(k.msgs)
  BY ChatParts DEF GoodChat
<1>2. \A k \in Range(c.convs) : k.id <= n
  BY <1>1
<1> QED
  BY <1>1, <1>2 DEF GoodChat

\* Counters within their bounds, and every conversation in order.
ChatsInv ==
  /\ TabsTypeOK /\ AssistTypeOK
  /\ made <= mounts + edits /\ asked <= edits
  /\ GoodChat(storedChats, made)
  /\ \A t \in Tabs : GoodChat(chat[t], made) /\ GoodChat(read[t], made)

\* A reply on its way is the only one, and the conversation it goes to ends with its question.
Awaited(t, r) ==
  /\ view[t] = "assist" /\ phase[t] = "ready" /\ thinking[t] /\ r.conv <= made
  /\ \A s \in pending[t] : s = r
  /\ \A k \in Range(chat[t].convs) : k.id = r.conv =>
       Len(k.msgs) > 0 /\ k.msgs[Len(k.msgs)] = [who |-> "user", q |-> r.q]

TalkAt(t) ==
  /\ view[t] = "assist" => chat[t].active \in Ids(chat[t])
  /\ view[t] = "assist" /\ phase[t] = "loading" => read[t].convs # <<>>
  /\ \A r \in pending[t] : Awaited(t, r)

\* All questions asked so far are in c.
Full(c) == \A q \in 1..asked : Has(c, q)

\* Where all the questions are while tab t shows Assist, and while it does not.
Safe(t) ==
  IF view[t] = "assist"
  THEN /\ phase[t] \in {"fresh", "ready", "unsaved"} => Full(storedChats)
       /\ phase[t] = "loading" => Full(read[t])
       /\ phase[t] \in {"loaded", "ready", "unsaved"} => Full(chat[t])
  ELSE Full(storedChats)

Alone(t) == \A u \in Tabs \ {t} : view[u] # "assist"

\* One tab at most shows Assist, and it or the store has all the questions.
SurviveInv ==
  "assist" \notin disturbed =>
    /\ \A t \in Tabs : view[t] = "assist" => Alone(t) /\ Safe(t)
    /\ (\A t \in Tabs : view[t] # "assist") => Full(storedChats)

AssistInv == ChatsInv /\ (\A t \in Tabs : TalkAt(t)) /\ SurviveInv

\* A step of tab t leaves the conversations of the others alone.
OwnChat(t) ==
  /\ chat' = [chat EXCEPT ![t] = chat'[t]] /\ read' = [read EXCEPT ![t] = read'[t]]
  /\ thinking' = [thinking EXCEPT ![t] = thinking'[t]]
  /\ pending' = [pending EXCEPT ![t] = pending'[t]]

LEMMA ChatTypes ==
  ASSUME ChatsInv
  PROVE  /\ chat \in [Tabs -> Chat] /\ read \in [Tabs -> Chat]
         /\ thinking \in [Tabs -> BOOLEAN] /\ pending \in [Tabs -> SUBSET Reply]
         /\ made \in Nat /\ asked \in Nat /\ mounts \in Nat /\ edits \in Nat
         /\ made \in 0..MaxConvs /\ asked \in 0..MaxEdits
         /\ mounts \in 0..MaxMounts /\ edits \in 0..MaxEdits
BY DEF ChatsInv, AssistTypeOK, TabsTypeOK

\* Where the questions are, after a step of tab t.
LEMMA SurviveStep ==
  ASSUME TabsTypeOK, SurviveInv, NEW t \in Tabs, OnlyStore(t, "assist"),
         "assist" \notin disturbed' => Alone(t),
         "assist" \notin disturbed' /\ Safe(t) => Safe(t)'
  PROVE  SurviveInv'
<1> SUFFICES ASSUME "assist" \notin disturbed'
             PROVE  /\ \A u \in Tabs : view'[u] = "assist" => Alone(u)' /\ Safe(u)'
                    /\ (\A u \in Tabs : view'[u] # "assist") => Full(storedChats)'
  BY DEF SurviveInv
<1>1. Alone(t) /\ "assist" \notin disturbed /\ \A u \in Tabs \ {t} : view'[u] = view[u]
  BY DEF OnlyStore
<1>2. \A u \in Tabs \ {t} : view[u] # "assist" /\ view'[u] # "assist"
  BY <1>1 DEF Alone
<1>3. Safe(t)
  <2>1. CASE view[t] = "assist"
    BY <1>1, <2>1 DEF SurviveInv
  <2>2. CASE view[t] # "assist"
    <3>1. \A u \in Tabs : view[u] # "assist"
      BY <1>2, <2>2
    <3> QED
      BY <1>1, <2>2, <3>1 DEF SurviveInv, Safe
  <2> QED
    BY <2>1, <2>2
<1>4. Safe(t)'
  BY <1>3
<1>5. Alone(t)'
  BY <1>2 DEF Alone
<1>6. (\A u \in Tabs : view'[u] # "assist") => Full(storedChats)'
  BY <1>4 DEF Safe
<1> QED
  BY <1>2, <1>4, <1>5, <1>6

\* A tab with Assist is the only one while nothing was disturbed.
LEMMA OnlyTab ==
  ASSUME SurviveInv, NEW t \in Tabs, view[t] = "assist", disturbed \subseteq disturbed'
  PROVE  "assist" \notin disturbed' => Alone(t)
BY DEF SurviveInv

\* A step of tab t that keeps what concerns t keeps it all.
LEMMA ChatStep ==
  ASSUME AssistInv, NEW t \in Tabs, OnlyStore(t, "assist"), OwnChat(t),
         thinking'[t] \in BOOLEAN, pending'[t] \in SUBSET Reply,
         made' \in 0..MaxConvs, made <= made', made' <= mounts' + edits',
         asked' \in 0..MaxEdits, asked' <= edits',
         GoodChat(storedChats', made'), GoodChat(chat'[t], made'), GoodChat(read'[t], made'),
         TalkAt(t)',
         "assist" \notin disturbed' => Alone(t),
         "assist" \notin disturbed' /\ Safe(t) => Safe(t)'
  PROVE  AssistInv'
<1>1. ChatsInv /\ SurviveInv /\ TabsTypeOK
  BY DEF AssistInv, ChatsInv
<1>2. /\ \A u \in Tabs \ {t} : /\ chat'[u] = chat[u] /\ read'[u] = read[u]
                               /\ thinking'[u] = thinking[u] /\ pending'[u] = pending[u]
      /\ made \in Nat /\ made' \in Nat
  BY <1>1, ChatTypes, MaxConvsNat DEF OwnChat
<1>3. \A u \in Tabs : GoodChat(chat'[u], made') /\ GoodChat(read'[u], made')
  <2>1. ASSUME NEW u \in Tabs \ {t} PROVE GoodChat(chat'[u], made') /\ GoodChat(read'[u], made')
    <3>1. GoodChat(chat[u], made) /\ GoodChat(read[u], made)
      BY <1>1 DEF ChatsInv
    <3>2. GoodChat(chat[u], made') /\ GoodChat(read[u], made')
      BY <1>2, <3>1, GoodLater
    <3> QED
      BY <1>2, <3>2
  <2> QED
    BY <2>1
<1>4. AssistTypeOK'
  <2>1. chat'[t] \in Chat /\ read'[t] \in Chat /\ storedChats' \in Chat
    BY DEF GoodChat
  <2>2. chat' \in [Tabs -> Chat] /\ read' \in [Tabs -> Chat]
    BY <1>1, <2>1, ChatTypes DEF OwnChat
  <2>3. thinking' \in [Tabs -> BOOLEAN] /\ pending' \in [Tabs -> SUBSET Reply]
    BY <1>1, ChatTypes DEF OwnChat
  <2> QED
    BY <2>1, <2>2, <2>3 DEF AssistTypeOK
<1>5. TabsTypeOK'
  BY DEF OnlyStore
<1>6. ChatsInv'
  BY <1>3, <1>4, <1>5 DEF ChatsInv
<1>7. ASSUME NEW u \in Tabs PROVE TalkAt(u)'
  <2>1. CASE u = t
    BY <2>1
  <2>2. CASE u # t
    <3>1. /\ chat'[u] = chat[u] /\ read'[u] = read[u] /\ thinking'[u] = thinking[u]
          /\ pending'[u] = pending[u] /\ view'[u] = view[u] /\ phase'[u] = phase[u]
      BY <1>2, <2>2 DEF OnlyStore
    <3>2. TalkAt(u) /\ pending[u] \subseteq Reply
      BY <1>1, ChatTypes DEF AssistInv
    <3>3. ASSUME NEW r \in pending[u] PROVE Awaited(u, r)'
      <4>1. Awaited(u, r) /\ r.conv \in Nat
        BY <3>2, <3>3, MaxConvsNat DEF TalkAt, Reply
      <4>2. r.conv <= made'
        BY <1>2, <4>1 DEF Awaited
      <4> QED
        BY <3>1, <4>1, <4>2 DEF Awaited
    <3> QED
      BY <3>1, <3>2, <3>3 DEF TalkAt, Ids
  <2> QED
    BY <2>1, <2>2
<1>8. SurviveInv'
  BY <1>1, SurviveStep
<1> QED
  BY <1>6, <1>7, <1>8 DEF AssistInv

-----------------------------------------------------------------------------
(* Each step of Assist keeps the invariant.                                *)

LEMMA KeepsOpen ==
  ASSUME AssistInv, NEW t \in Tabs, OpenAssist(t)
  PROVE  AssistInv'
<1>1. ChatsInv /\ TabsTypeOK /\ TalkAt(t)
  BY DEF AssistInv, ChatsInv
<1>2. /\ made' = made + 1 /\ UNCHANGED <<storedChats, read, thinking, pending, asked>>
      /\ chat' = [chat EXCEPT ![t] = [convs |-> <<DefaultConversation(made')>>, active |-> made']]
      /\ MountView(t, "assist")
  BY DEF OpenAssist
<1>3. /\ OnlyStore(t, "assist") /\ view[t] = "away" /\ view'[t] = "assist" /\ phase'[t] = "fresh"
      /\ mounts' = mounts + 1 /\ mounts' \in 0..MaxMounts
      /\ \A u \in Tabs \ {t} : StoreOf(view[u]) = "assist" => "assist" \in disturbed'
  BY <1>1, <1>2, Mounting, StoreOfViews DEF Views
<1>4. made' <= mounts' + edits' /\ asked' <= edits' /\ edits' = edits
  BY <1>1, <1>2, <1>3, ChatTypes DEF ChatsInv, MountView
<1>5. made' \in 1..MaxConvs /\ made <= made' /\ made' \in Nat
  BY <1>1, <1>2, <1>3, <1>4, ChatTypes, MaxConvsNat DEF MaxConvs
<1>6. OwnChat(t) /\ chat'[t] = [convs |-> <<DefaultConversation(made')>>, active |-> made']
  BY <1>1, <1>2, ChatTypes DEF OwnChat
<1>7. GoodChat(chat'[t], made') /\ chat'[t].active \in Ids(chat'[t])
  BY <1>5, <1>6, FirstChat
<1>8. GoodChat(storedChats', made') /\ GoodChat(read'[t], made')
  BY <1>1, <1>2, <1>5, ChatTypes, GoodLater DEF ChatsInv
<1>9. TalkAt(t)'
  <2>1. pending'[t] = {}
    BY <1>1, <1>2, <1>3 DEF TalkAt, Awaited
  <2> QED
    BY <1>3, <1>7, <2>1 DEF TalkAt, Ids
<1>10. "assist" \notin disturbed' => Alone(t)
  BY <1>3, StoreOfViews DEF Alone
<1>11. Safe(t) => Safe(t)'
  BY <1>2, <1>3 DEF Safe, Full
<1>12. asked' \in 0..MaxEdits /\ thinking'[t] \in BOOLEAN /\ pending'[t] \in SUBSET Reply
  BY <1>1, <1>2, ChatTypes
<1> QED
  BY <1>3, <1>4, <1>5, <1>6, <1>7, <1>8, <1>9, <1>10, <1>11, <1>12, ChatStep

LEMMA KeepsEffects ==
  ASSUME AssistInv, NEW t \in Tabs, AssistEffects(t)
  PROVE  AssistInv'
<1>1. ChatsInv /\ TabsTypeOK /\ TalkAt(t) /\ SurviveInv
  BY DEF AssistInv, ChatsInv
<1> DEFINE p == IF storedChats.convs # <<>> THEN "loading" ELSE "ready"
<1>2. /\ view[t] = "assist" /\ phase[t] = "fresh" /\ GoesTo(t, p)
      /\ read' = [read EXCEPT ![t] = storedChats] /\ storedChats' = chat[t]
      /\ UNCHANGED <<chat, thinking, pending, made, asked>>
  BY DEF AssistEffects, LoadState
<1>3. /\ OnlyStore(t, "assist") /\ phase'[t] = p
      /\ UNCHANGED <<view, mounts, edits, disturbed>>
  BY <1>1, <1>2, Going, StoreOfViews DEF Phases
<1>4. OwnChat(t) /\ read'[t] = storedChats /\ chat'[t] = chat[t]
  BY <1>1, <1>2, ChatTypes DEF OwnChat
<1>5. /\ GoodChat(storedChats', made') /\ GoodChat(chat'[t], made') /\ GoodChat(read'[t], made')
      /\ made' \in 0..MaxConvs /\ made <= made' /\ made' <= mounts' + edits'
      /\ asked' \in 0..MaxEdits /\ asked' <= edits'
      /\ thinking'[t] \in BOOLEAN /\ pending'[t] \in SUBSET Reply
  BY <1>1, <1>2, <1>3, <1>4, ChatTypes DEF ChatsInv
<1>6. TalkAt(t)'
  <2>1. pending'[t] = {}
    BY <1>1, <1>2 DEF TalkAt, Awaited
  <2>2. phase'[t] = "loading" => read'[t].convs # <<>>
    BY <1>3, <1>4
  <2>3. chat'[t].active \in Ids(chat'[t])
    BY <1>1, <1>2, <1>4 DEF TalkAt
  <2> QED
    BY <2>1, <2>2, <2>3 DEF TalkAt, Ids
<1>7. "assist" \notin disturbed' => Alone(t)
  BY <1>1, <1>2, <1>3, OnlyTab
<1>8. Safe(t) => Safe(t)'
  <2> SUFFICES ASSUME Safe(t) PROVE Safe(t)'
    OBVIOUS
  <2>1. Full(storedChats)
    BY <1>2 DEF Safe
  <2>2. CASE storedChats.convs # <<>>
    <3>1. Full(read[t])' /\ phase'[t] = "loading"
      BY <1>2, <1>3, <1>4, <2>1, <2>2 DEF Full
    <3> QED
      BY <1>2, <1>3, <3>1 DEF Safe
  <2>3. CASE storedChats.convs = <<>>
    <3>1. \A q : ~Has(storedChats, q)
      BY <2>3 DEF Has, Range
    <3>2. \A q \in 1..asked : FALSE
      BY <2>1, <3>1 DEF Full
    <3>3. Full(storedChats)' /\ Full(chat[t])' /\ phase'[t] = "ready"
      BY <1>2, <1>3, <2>3, <3>2 DEF Full
    <3> QED
      BY <1>2, <1>3, <3>3 DEF Safe
  <2> QED
    BY <2>2, <2>3
<1> QED
  BY <1>3, <1>4, <1>5, <1>6, <1>7, <1>8, ChatStep

LEMMA KeepsShowRead ==
  ASSUME AssistInv, NEW t \in Tabs, ShowRead(t)
  PROVE  AssistInv'
<1>1. ChatsInv /\ TabsTypeOK /\ TalkAt(t) /\ SurviveInv
  BY DEF AssistInv, ChatsInv
<1> DEFINE a == IF read[t].active \in Ids(read[t]) THEN read[t].active ELSE Head(read[t].convs).id
<1>2. /\ view[t] = "assist" /\ phase[t] = "loading" /\ GoesTo(t, "loaded")
      /\ chat' = [chat EXCEPT ![t] = [convs |-> read[t].convs, active |-> a]]
      /\ read' = [read EXCEPT ![t] = NoChat]
      /\ UNCHANGED <<storedChats, thinking, pending, made, asked>>
  BY DEF ShowRead
<1>3. /\ OnlyStore(t, "assist") /\ phase'[t] = "loaded"
      /\ UNCHANGED <<view, mounts, edits, disturbed>>
  BY <1>1, <1>2, Going, StoreOfViews DEF Phases
<1>4. /\ OwnChat(t) /\ read'[t] = NoChat
      /\ chat'[t] = [convs |-> read[t].convs, active |-> a]
  BY <1>1, <1>2, ChatTypes DEF OwnChat
<1>5. GoodChat(read[t], made) /\ read[t].convs \in Seq(Conv) /\ read[t].convs # <<>>
  BY <1>1, <1>2, ChatParts DEF ChatsInv, TalkAt, GoodChat
<1>6. a \in Ids(read[t]) /\ a \in 0..MaxConvs
  <2>1. CASE read[t].active \in Ids(read[t])
    BY <1>5, <2>1, ChatParts DEF GoodChat
  <2>2. CASE read[t].active \notin Ids(read[t])
    <3>1. PICK s \in Seq(Conv) : s = read[t].convs
      BY <1>5
    <3>2. s # <<>> /\ Head(s) = s[1] /\ 1 \in DOMAIN s /\ s[1] \in Conv
      BY <1>5, <3>1
    <3>3. Head(s) \in Range(s) /\ Head(s).id \in 1..MaxConvs
      BY <3>2 DEF Range, Conv
    <3>4. a = Head(s).id
      BY <2>2, <3>1
    <3> QED
      BY <3>1, <3>3, <3>4, MaxConvsNat DEF Ids
  <2> QED
    BY <2>1, <2>2
<1>7. /\ GoodChat(chat'[t], made) /\ chat'[t].active \in Ids(chat'[t])
      /\ \A q : Has(read[t], q) => Has(chat'[t], q)
  <2>1. chat'[t].convs = read[t].convs /\ chat'[t].active = a
    BY <1>4
  <2>2. chat'[t] \in Chat
    <3>1. PICK s \in Seq(Conv), b \in 0..MaxConvs : s = read[t].convs /\ b = a
      BY <1>5, <1>6
    <3>2. chat'[t] = [convs |-> s, active |-> b]
      BY <1>4, <3>1
    <3> QED
      BY <3>2 DEF Chat
  <2> QED
    BY <1>5, <1>6, <2>1, <2>2 DEF GoodChat, Ids, Has
<1>8. /\ GoodChat(storedChats', made') /\ GoodChat(chat'[t], made') /\ GoodChat(read'[t], made')
      /\ made' \in 0..MaxConvs /\ made <= made' /\ made' <= mounts' + edits'
      /\ asked' \in 0..MaxEdits /\ asked' <= edits'
      /\ thinking'[t] \in BOOLEAN /\ pending'[t] \in SUBSET Reply
  BY <1>1, <1>2, <1>3, <1>4, <1>7, ChatTypes, NoChatIsGood DEF ChatsInv
<1>9. TalkAt(t)'
  <2>1. pending'[t] = {}
    BY <1>1, <1>2 DEF TalkAt, Awaited
  <2> QED
    BY <1>3, <1>7, <2>1 DEF TalkAt, Ids
<1>10. "assist" \notin disturbed' => Alone(t)
  BY <1>1, <1>2, <1>3, OnlyTab
<1>11. Safe(t) => Safe(t)'
  <2>1. Safe(t) => Full(read[t])
    BY <1>2 DEF Safe
  <2>2. Full(read[t]) => Full(chat[t])'
    BY <1>2, <1>7 DEF Full
  <2> QED
    BY <1>2, <1>3, <2>1, <2>2 DEF Safe
<1> QED
  BY <1>3, <1>4, <1>8, <1>9, <1>10, <1>11, ChatStep

LEMMA KeepsSaveChat ==
  ASSUME AssistInv, NEW t \in Tabs, SaveChat(t)
  PROVE  AssistInv'
<1>1. ChatsInv /\ TabsTypeOK /\ TalkAt(t) /\ SurviveInv
  BY DEF AssistInv, ChatsInv
<1>2. /\ view[t] = "assist" /\ phase[t] \in {"loaded", "unsaved"} /\ GoesTo(t, "ready")
      /\ storedChats' = chat[t] /\ UNCHANGED <<chat, read, thinking, pending, made, asked>>
  BY DEF SaveChat
<1>3. /\ OnlyStore(t, "assist") /\ phase'[t] = "ready"
      /\ UNCHANGED <<view, mounts, edits, disturbed>>
  BY <1>1, <1>2, Going, StoreOfViews DEF Phases
<1>4. OwnChat(t)
  BY <1>1, <1>2, ChatTypes DEF OwnChat
<1>5. /\ GoodChat(storedChats', made') /\ GoodChat(chat'[t], made') /\ GoodChat(read'[t], made')
      /\ made' \in 0..MaxConvs /\ made <= made' /\ made' <= mounts' + edits'
      /\ asked' \in 0..MaxEdits /\ asked' <= edits'
      /\ thinking'[t] \in BOOLEAN /\ pending'[t] \in SUBSET Reply
  BY <1>1, <1>2, <1>3, ChatTypes DEF ChatsInv
<1>6. TalkAt(t)'
  <2>1. pending'[t] = {}
    BY <1>1, <1>2 DEF TalkAt, Awaited
  <2>2. chat'[t].active \in Ids(chat'[t])
    BY <1>1, <1>2 DEF TalkAt
  <2> QED
    BY <1>3, <2>1, <2>2 DEF TalkAt, Ids
<1>7. "assist" \notin disturbed' => Alone(t)
  BY <1>1, <1>2, <1>3, OnlyTab
<1>8. Safe(t) => Safe(t)'
  <2>1. Safe(t) => Full(chat[t])
    BY <1>2 DEF Safe
  <2>2. Full(chat[t]) => Full(chat[t])' /\ Full(storedChats)'
    BY <1>2 DEF Full
  <2> QED
    BY <1>2, <1>3, <2>1, <2>2 DEF Safe
<1> QED
  BY <1>3, <1>4, <1>5, <1>6, <1>7, <1>8, ChatStep

LEMMA KeepsLeave ==
  ASSUME AssistInv, NEW t \in Tabs, LeaveAssist(t)
  PROVE  AssistInv'
<1>1. ChatsInv /\ TabsTypeOK /\ TalkAt(t) /\ SurviveInv
  BY DEF AssistInv, ChatsInv
<1>2. /\ view[t] = "assist" /\ UnmountView(t) /\ edits' = edits
      /\ chat' = [chat EXCEPT ![t] = NoChat] /\ read' = [read EXCEPT ![t] = NoChat]
      /\ thinking' = [thinking EXCEPT ![t] = FALSE] /\ pending' = [pending EXCEPT ![t] = {}]
      /\ UNCHANGED <<storedChats, made, asked>>
  BY DEF LeaveAssist
<1>3. /\ OnlyStore(t, "assist") /\ view'[t] = "away" /\ phase'[t] = "away" /\ mounts' = mounts
      /\ phase[t] \in {"loading", "loaded"} => "assist" \in disturbed'
  <2>1. edits' \in 0..MaxEdits /\ edits <= edits'
    BY <1>1, <1>2, ChatTypes
  <2> QED
    BY <1>1, <1>2, <2>1, Unmounting, StoreOfViews
<1>4. OwnChat(t) /\ chat'[t] = NoChat /\ read'[t] = NoChat /\ ~thinking'[t] /\ pending'[t] = {}
  BY <1>1, <1>2, ChatTypes DEF OwnChat
<1>5. /\ GoodChat(storedChats', made') /\ GoodChat(chat'[t], made') /\ GoodChat(read'[t], made')
      /\ made' \in 0..MaxConvs /\ made <= made' /\ made' <= mounts' + edits'
      /\ asked' \in 0..MaxEdits /\ asked' <= edits'
      /\ thinking'[t] \in BOOLEAN /\ pending'[t] \in SUBSET Reply
  <2>1. thinking'[t] \in BOOLEAN /\ pending'[t] \in SUBSET Reply
    BY <1>1, <1>2, <1>4, ChatTypes
  <2>2. GoodChat(chat'[t], made') /\ GoodChat(read'[t], made')
    BY <1>1, <1>2, <1>4, ChatTypes, NoChatIsGood
  <2>3. GoodChat(storedChats', made') /\ made <= made' /\ made' <= mounts' + edits' /\ asked' <= edits'
    BY <1>1, <1>2, <1>3, ChatTypes DEF ChatsInv
  <2>4. made' \in 0..MaxConvs /\ asked' \in 0..MaxEdits
    BY <1>1, <1>2, ChatTypes
  <2> QED
    BY <2>1, <2>2, <2>3, <2>4
<1>6. TalkAt(t)'
  BY <1>3, <1>4 DEF TalkAt
<1>7. "assist" \notin disturbed' => Alone(t)
  BY <1>1, <1>2, <1>3, OnlyTab DEF OnlyStore
<1>8. "assist" \notin disturbed' /\ Safe(t) => Safe(t)'
  <2> SUFFICES ASSUME "assist" \notin disturbed', Safe(t) PROVE Safe(t)'
    OBVIOUS
  <2>1. phase[t] \in Phases /\ phase[t] # "away"
    BY <1>1, <1>2 DEF TabsTypeOK, Phases
  <2>2. phase[t] \in {"fresh", "ready", "unsaved"}
    BY <1>3, <2>1 DEF Phases
  <2>3. Full(storedChats)
    BY <1>2, <2>2 DEF Safe
  <2> QED
    BY <1>2, <1>3, <2>3 DEF Safe, Full
<1> QED
  BY <1>3, <1>4, <1>5, <1>6, <1>7, <1>8, ChatStep

\* The steps of the user leave tabs where they are and store what they show.
LEMMA Kept ==
  ASSUME AssistInv, NEW t \in Tabs, Ready(t, "assist"), NEW c, Keep(t, c), UNCHANGED <<showing, read>>,
         edits' \in 0..MaxEdits, edits <= edits', GoodChat(c, made'), made' \in Nat, made <= made'
  PROVE  /\ view[t] = "assist" /\ phase[t] = "ready" /\ OnlyStore(t, "assist")
         /\ UNCHANGED <<view, phase, mounts, disturbed>>
         /\ chat' = [chat EXCEPT ![t] = chat'[t]] /\ read' = [read EXCEPT ![t] = read'[t]]
         /\ chat'[t] = c /\ storedChats' = c
         /\ GoodChat(storedChats', made') /\ GoodChat(chat'[t], made') /\ GoodChat(read'[t], made')
         /\ "assist" \notin disturbed' => Alone(t)
<1>1. ChatsInv /\ TabsTypeOK /\ SurviveInv
  BY DEF AssistInv, ChatsInv
<1>2. view[t] = "assist" /\ phase[t] = "ready"
  BY <1>1, StoreOfViews DEF Ready, TabsTypeOK, Views
<1>3. OnlyStore(t, "assist") /\ UNCHANGED <<view, phase, mounts, disturbed>>
  BY <1>1, <1>2, Staying, StoreOfViews DEF showing
<1>4. /\ chat' = [chat EXCEPT ![t] = chat'[t]] /\ read' = [read EXCEPT ![t] = read'[t]]
      /\ chat'[t] = c /\ storedChats' = c
  BY <1>1, ChatTypes DEF Keep
<1>5. GoodChat(read'[t], made')
  BY <1>1, ChatTypes, GoodLater DEF ChatsInv
<1>6. "assist" \notin disturbed' => Alone(t)
  BY <1>1, <1>2, <1>3, OnlyTab
<1> QED
  BY <1>2, <1>3, <1>4, <1>5, <1>6

LEMMA KeepsNew ==
  ASSUME AssistInv, NEW t \in Tabs, NewConversation(t)
  PROVE  AssistInv'
<1>1. ChatsInv /\ TalkAt(t)
  BY DEF AssistInv
<1> DEFINE c == [convs |-> <<DefaultConversation(made')>> \o chat[t].convs, active |-> made']
<1>2. /\ Ready(t, "assist") /\ edits < MaxEdits /\ edits' = edits + 1 /\ made' = made + 1
      /\ Keep(t, c) /\ UNCHANGED <<showing, read, thinking, pending, asked>>
  BY DEF NewConversation, Edit
<1>3. /\ edits' \in 0..MaxEdits /\ edits <= edits' /\ made' \in 1..MaxConvs /\ made <= made'
      /\ made' <= mounts' + edits' /\ asked' <= edits' /\ mounts' = mounts /\ made' \in Nat
  <2>1. /\ made \in Nat /\ edits \in 0..MaxEdits /\ mounts \in 0..MaxMounts /\ asked \in Nat
        /\ made <= mounts + edits /\ asked <= edits
    BY <1>1, ChatTypes DEF ChatsInv
  <2>2. mounts' = mounts /\ asked' = asked
    BY <1>2 DEF showing
  <2>3. MaxMounts \in Nat /\ MaxEdits \in Nat /\ MaxConvs = MaxMounts + MaxEdits
    BY MaxConvsNat DEF MaxConvs
  <2>4. edits < MaxEdits /\ edits' = edits + 1 /\ made' = made + 1
    BY <1>2
  <2> QED
    BY <2>1, <2>2, <2>3, <2>4
<1>4. /\ GoodChat(c, made') /\ c.active \in Ids(c) /\ \A q : Has(chat[t], q) => Has(c, q)
      /\ \A k \in Range(c.convs) : k \in Range(chat[t].convs) \/ k.id = made'
  <2>1. GoodChat(chat[t], made)
    BY <1>1 DEF ChatsInv
  <2>2. PICK m \in Nat, n \in 1..MaxConvs, x \in {chat[t]}, d \in {c} : m = made /\ n = made'
    BY <1>1, <1>3, ChatTypes
  <2>3. n = m + 1 /\ GoodChat(x, m)
    BY <1>2, <2>1, <2>2
  <2>4. d = WithFirst(x, n)
    BY <2>2 DEF WithFirst
  <2>5. /\ GoodChat(d, n) /\ d.active \in Ids(d) /\ \A q : Has(x, q) => Has(d, q)
        /\ \A k \in Range(d.convs) : k \in Range(x.convs) \/ k.id = n
    <3>1. m \in Nat /\ n \in 1..MaxConvs
      BY <2>2
    <3> QED
      BY <2>3, <2>4, <3>1, PutFirst
  <2> HIDE DEF c
  <2> QED
    BY <2>2, <2>5
<1> HIDE DEF c
<1>5. /\ view[t] = "assist" /\ phase[t] = "ready" /\ OnlyStore(t, "assist")
      /\ UNCHANGED <<view, phase, mounts, disturbed>>
      /\ chat' = [chat EXCEPT ![t] = chat'[t]] /\ read' = [read EXCEPT ![t] = read'[t]]
      /\ chat'[t] = c /\ storedChats' = c
      /\ GoodChat(storedChats', made') /\ GoodChat(chat'[t], made') /\ GoodChat(read'[t], made')
      /\ "assist" \notin disturbed' => Alone(t)
  BY <1>2, <1>3, <1>4, Kept
<1>6. OwnChat(t) /\ thinking'[t] \in BOOLEAN /\ pending'[t] \in SUBSET Reply
  BY <1>1, <1>2, <1>5, ChatTypes DEF OwnChat
<1>7. TalkAt(t)'
  <2>1. ASSUME NEW r \in pending[t] PROVE Awaited(t, r)'
    <3>1. Awaited(t, r) /\ r.conv \in Nat
      BY <1>1, <2>1, ChatTypes, MaxConvsNat DEF TalkAt, Reply
    <3>2. r.conv <= made' /\ r.conv # made'
      BY <1>1, <1>2, <3>1, ChatTypes DEF Awaited
    <3>3. \A k \in Range(c.convs) : k.id = r.conv => k \in Range(chat[t].convs)
      BY <1>4, <3>2
    <3> QED
      BY <1>2, <1>5, <3>1, <3>2, <3>3 DEF Awaited
  <2> QED
    BY <1>2, <1>4, <1>5, <2>1 DEF TalkAt, Ids
<1>8. Safe(t) => Safe(t)'
  <2>1. Safe(t) => Full(chat[t])
    BY <1>5 DEF Safe
  <2>2. Full(chat[t]) => Full(chat[t])' /\ Full(storedChats)'
    BY <1>2, <1>4, <1>5 DEF Full
  <2> QED
    BY <1>5, <2>1, <2>2 DEF Safe
<1>9. made' \in 0..MaxConvs /\ asked' \in 0..MaxEdits
  BY <1>1, <1>2, <1>3, ChatTypes, MaxConvsNat
<1> QED
  BY <1>3, <1>5, <1>6, <1>7, <1>8, <1>9, ChatStep

LEMMA KeepsSelect ==
  ASSUME AssistInv, NEW t \in Tabs, NEW id, SelectConversation(t, id)
  PROVE  AssistInv'
<1>1. ChatsInv /\ TalkAt(t)
  BY DEF AssistInv
<1> DEFINE c == [chat[t] EXCEPT !.active = id]
<1>2. /\ Ready(t, "assist") /\ id \in Ids(chat[t]) /\ Keep(t, c)
      /\ UNCHANGED <<tabVars, read, thinking, pending, made, asked>>
  BY DEF SelectConversation
<1>3. UNCHANGED <<view, phase, mounts, edits, disturbed>> /\ UNCHANGED showing
  BY <1>2 DEF tabVars, showing
<1>4. GoodChat(c, made) /\ c.active = id /\ c.convs = chat[t].convs
  <2>1. PICK d \in Chat : d = chat[t] /\ GoodChat(d, made)
    BY <1>1 DEF ChatsInv, GoodChat
  <2>2. id \in 0..MaxConvs
    BY <1>2, <2>1, ChatParts, MaxConvsNat DEF Ids
  <2>3. c \in Chat /\ c.active = id /\ c.convs = d.convs
    BY <2>1, <2>2 DEF Chat
  <2> QED
    BY <2>1, <2>3 DEF GoodChat
<1> HIDE DEF c
<1>5. /\ edits' \in 0..MaxEdits /\ edits <= edits' /\ made' \in 0..MaxConvs /\ made <= made'
      /\ made' \in Nat /\ made' <= mounts' + edits' /\ asked' <= edits' /\ asked' \in 0..MaxEdits
  BY <1>1, <1>2, <1>3, ChatTypes DEF ChatsInv
<1>6. /\ view[t] = "assist" /\ phase[t] = "ready" /\ OnlyStore(t, "assist")
      /\ chat' = [chat EXCEPT ![t] = chat'[t]] /\ read' = [read EXCEPT ![t] = read'[t]]
      /\ chat'[t] = c /\ storedChats' = c
      /\ GoodChat(storedChats', made') /\ GoodChat(chat'[t], made') /\ GoodChat(read'[t], made')
      /\ "assist" \notin disturbed' => Alone(t)
  BY <1>2, <1>3, <1>4, <1>5, Kept
<1>7. OwnChat(t) /\ thinking'[t] \in BOOLEAN /\ pending'[t] \in SUBSET Reply
  BY <1>1, <1>2, <1>6, ChatTypes DEF OwnChat
<1>8. TalkAt(t)'
  <2>1. ASSUME NEW r \in pending[t] PROVE Awaited(t, r)'
    <3>1. Awaited(t, r)
      BY <1>1, <2>1 DEF TalkAt
    <3> QED
      BY <1>2, <1>3, <1>4, <1>6, <3>1 DEF Awaited
  <2>2. chat'[t].active \in Ids(chat'[t])
    BY <1>2, <1>4, <1>6 DEF Ids
  <2> QED
    BY <1>2, <1>3, <1>6, <2>1, <2>2 DEF TalkAt, Ids
<1>9. Safe(t) => Safe(t)'
  <2>1. Safe(t) => Full(chat[t])
    BY <1>6 DEF Safe
  <2>2. Full(chat[t]) => Full(chat[t])' /\ Full(storedChats)'
    BY <1>2, <1>4, <1>6 DEF Full, Has
  <2> QED
    BY <1>3, <1>6, <2>1, <2>2 DEF Safe
<1> QED
  BY <1>5, <1>6, <1>7, <1>8, <1>9, ChatStep

LEMMA KeepsSend ==
  ASSUME AssistInv, NEW t \in Tabs, SendMessage(t)
  PROVE  AssistInv'
<1>1. ChatsInv /\ TalkAt(t)
  BY DEF AssistInv
<1>2. /\ Ready(t, "assist") /\ ~thinking[t] /\ edits < MaxEdits /\ edits' = edits + 1
      /\ asked' = asked + 1
      /\ Keep(t, Add(chat[t], chat[t].active, [who |-> "user", q |-> asked']))
      /\ thinking' = [thinking EXCEPT ![t] = TRUE]
      /\ pending' = [pending EXCEPT ![t] = pending[t] \cup {[conv |-> chat[t].active, q |-> asked']}]
      /\ UNCHANGED <<showing, read, made>>
  BY DEF SendMessage, MaySubmit, Edit
<1>3. /\ edits' \in 0..MaxEdits /\ edits <= edits' /\ made' \in 0..MaxConvs /\ made <= made'
      /\ made' \in Nat /\ mounts' = mounts /\ made' = made
      /\ asked' <= edits' /\ asked' \in 1..MaxEdits
  BY <1>1, <1>2, ChatTypes, MaxConvsNat DEF ChatsInv, showing
<1>4. made' <= mounts' + edits'
  BY <1>1, <1>2, <1>3, ChatTypes DEF ChatsInv
<1>5. chat[t] \in Chat /\ GoodChat(chat[t], made)
  BY <1>1 DEF ChatsInv, GoodChat
<1>6. view[t] = "assist" /\ phase[t] = "ready"
  BY <1>1, <1>2, StoreOfViews DEF Ready, ChatsInv, TabsTypeOK, Views
<1>7. chat[t].active \in Ids(chat[t]) /\ pending[t] = {}
  BY <1>1, <1>2, <1>6 DEF TalkAt, Awaited
<1>8. PICK id \in 1..MaxConvs, n \in 1..MaxEdits : id = chat[t].active /\ n = asked' /\ id <= made
  BY <1>3, <1>5, <1>7, ChatParts DEF Ids, GoodChat
<1>9. PICK m \in Message : m = [who |-> "user", q |-> n]
  BY DEF Message
<1>10. PICK r \in Reply : r = [conv |-> id, q |-> n]
  BY DEF Reply
<1>11. PICK c : c = Add(chat[t], id, m)
  OBVIOUS
<1>12. Keep(t, c) /\ pending' = [pending EXCEPT ![t] = pending[t] \cup {r}]
  BY <1>2, <1>8, <1>9, <1>10, <1>11
<1>13. GoodChat(c, made')
  BY <1>3, <1>5, <1>9, <1>11, AddInOrder
<1>14. /\ \A q : Has(chat[t], q) => Has(c, q)
       /\ Has(c, n) /\ Ids(c) = Ids(chat[t]) /\ c.active = id
       /\ \A k \in Range(c.convs) : k.id = id => Len(k.msgs) > 0 /\ k.msgs[Len(k.msgs)] = m
  BY <1>5, <1>7, <1>8, <1>9, <1>11, AddKeeps
<1>15. /\ OnlyStore(t, "assist") /\ UNCHANGED <<view, phase, mounts, disturbed>>
       /\ chat' = [chat EXCEPT ![t] = chat'[t]] /\ read' = [read EXCEPT ![t] = read'[t]]
       /\ chat'[t] = c /\ storedChats' = c
       /\ GoodChat(storedChats', made') /\ GoodChat(chat'[t], made') /\ GoodChat(read'[t], made')
       /\ "assist" \notin disturbed' => Alone(t)
  BY <1>2, <1>3, <1>12, <1>13, Kept
<1>16. thinking'[t] = TRUE /\ pending'[t] = {r} /\ OwnChat(t)
  BY <1>1, <1>2, <1>7, <1>12, <1>15, ChatTypes DEF OwnChat
<1>17. TalkAt(t)'
  <2>1. r.conv = id /\ r.q = n /\ id <= made'
    BY <1>3, <1>8, <1>10
  <2>2. Awaited(t, r)'
    BY <1>6, <1>9, <1>14, <1>15, <1>16, <2>1 DEF Awaited
  <2>3. chat'[t].active \in Ids(chat'[t])
    BY <1>7, <1>8, <1>14, <1>15
  <2>4. phase'[t] # "loading"
    BY <1>6, <1>15
  <2> QED
    BY <1>16, <2>2, <2>3, <2>4 DEF TalkAt, Ids
<1>18. Safe(t) => Safe(t)'
  <2>1. Safe(t) => Full(chat[t])
    BY <1>6 DEF Safe
  <2>2. ASSUME Full(chat[t]) PROVE Full(chat[t])' /\ Full(storedChats)'
    <3>1. \A q \in 1..asked' : q \in 1..asked \/ q = n
      BY <1>1, <1>2, <1>8, ChatTypes
    <3>2. \A q \in 1..asked' : Has(c, q)
      BY <1>14, <2>2, <3>1 DEF Full
    <3> QED
      BY <1>15, <3>2 DEF Full
  <2> QED
    BY <1>6, <1>15, <2>1, <2>2 DEF Safe
<1>19. thinking'[t] \in BOOLEAN /\ pending'[t] \in SUBSET Reply /\ asked' \in 0..MaxEdits
  <2>1. pending'[t] \in SUBSET Reply
    BY <1>10, <1>16
  <2>2. asked' \in 0..MaxEdits
    BY <1>3, MaxConvsNat
  <2> QED
    BY <1>16, <2>1, <2>2
<1> QED
  BY <1>3, <1>4, <1>15, <1>16, <1>17, <1>18, <1>19, ChatStep

LEMMA KeepsReplies ==
  ASSUME AssistInv, NEW t \in Tabs, Replies(t)
  PROVE  AssistInv'
<1>1. ChatsInv /\ TabsTypeOK /\ TalkAt(t) /\ SurviveInv
  BY DEF AssistInv, ChatsInv
<1>2. PICK r \in pending[t] :
        /\ pending' = [pending EXCEPT ![t] = pending[t] \ {r}]
        /\ chat' = [chat EXCEPT ![t] = Add(chat[t], r.conv, [who |-> "assistant", q |-> r.q])]
        /\ thinking' = [thinking EXCEPT ![t] = FALSE]
        /\ GoesTo(t, "unsaved")
        /\ UNCHANGED <<storedChats, read, made, asked>>
  BY DEF Replies
<1>3. Awaited(t, r) /\ r \in Reply
  BY <1>1, ChatTypes DEF TalkAt
<1> DEFINE m == [who |-> "assistant", q |-> r.q]
           c == Add(chat[t], r.conv, m)
<1>4. m \in Message /\ m.who = "assistant" /\ m.q = r.q
  BY <1>3 DEF Message, Reply
<1>5. chat[t] \in Chat /\ GoodChat(chat[t], made)
  BY <1>1 DEF ChatsInv, GoodChat
<1>6. /\ OnlyStore(t, "assist") /\ phase'[t] = "unsaved" /\ view[t] = "assist" /\ phase[t] = "ready"
      /\ UNCHANGED <<view, mounts, edits, disturbed>>
  BY <1>1, <1>2, <1>3, Going, StoreOfViews DEF Phases, Awaited
<1>7. chat'[t] = c /\ pending'[t] = {} /\ thinking'[t] = FALSE /\ read'[t] = read[t] /\ OwnChat(t)
  <2>1. \A s \in pending[t] : s = r
    BY <1>3 DEF Awaited
  <2>2. chat'[t] = c /\ pending'[t] = pending[t] \ {r} /\ thinking'[t] = FALSE /\ read'[t] = read[t]
    BY <1>1, <1>2, ChatTypes
  <2>3. OwnChat(t)
    BY <1>1, <1>2, ChatTypes DEF OwnChat
  <2> QED
    BY <2>1, <2>2, <2>3
<1> HIDE DEF m
<1>8. GoodChat(c, made) /\ Ids(c) = Ids(chat[t]) /\ c.active = chat[t].active
      /\ \A q : Has(chat[t], q) => Has(c, q)
  <2>1. \A k \in Range(chat[t].convs) : k.id = r.conv =>
          Len(k.msgs) > 0 /\ k.msgs[Len(k.msgs)] = [who |-> "user", q |-> m.q]
    BY <1>3, <1>4 DEF Awaited
  <2>2. GoodChat(c, made)
    BY <1>4, <1>5, <2>1, AddInOrder
  <2> QED
    BY <1>4, <1>5, <2>2, AddKeeps
<1> HIDE DEF c
<1>9. /\ GoodChat(storedChats', made') /\ GoodChat(chat'[t], made') /\ GoodChat(read'[t], made')
      /\ made' \in 0..MaxConvs /\ made <= made' /\ made' <= mounts' + edits'
      /\ asked' \in 0..MaxEdits /\ asked' <= edits'
      /\ thinking'[t] \in BOOLEAN /\ pending'[t] \in SUBSET Reply
  <2>1. GoodChat(storedChats', made') /\ GoodChat(chat'[t], made') /\ GoodChat(read'[t], made')
    BY <1>1, <1>2, <1>7, <1>8 DEF ChatsInv
  <2>2. /\ made' \in 0..MaxConvs /\ made <= made' /\ made' <= mounts' + edits'
        /\ asked' \in 0..MaxEdits /\ asked' <= edits'
    BY <1>1, <1>2, <1>6, ChatTypes DEF ChatsInv
  <2> QED
    BY <1>7, <2>1, <2>2
<1>10. TalkAt(t)'
  <2>1. chat'[t].active \in Ids(chat'[t])
    BY <1>1, <1>6, <1>7, <1>8 DEF TalkAt
  <2> QED
    BY <1>6, <1>7, <2>1 DEF TalkAt, Ids
<1>11. "assist" \notin disturbed' => Alone(t)
  BY <1>1, <1>6, OnlyTab
<1>12. Safe(t) => Safe(t)'
  <2>1. Safe(t) => Full(chat[t]) /\ Full(storedChats)
    BY <1>6 DEF Safe
  <2>2. Full(chat[t]) /\ Full(storedChats) => Full(chat[t])' /\ Full(storedChats)'
    BY <1>2, <1>7, <1>8 DEF Full
  <2> QED
    BY <1>6, <2>1, <2>2 DEF Safe
<1> QED
  BY <1>6, <1>7, <1>9, <1>10, <1>11, <1>12, ChatStep

\* What happens to the dashboards does not concern Assist.
LEMMA KeepsAside ==
  ASSUME AssistInv, NEW t \in Tabs, OnlyStore(t, "boards"), UNCHANGED assistVars
  PROVE  AssistInv'
<1>1. ChatsInv /\ TabsTypeOK /\ SurviveInv /\ \A u \in Tabs : TalkAt(u)
  BY DEF AssistInv, ChatsInv
<1>2. UNCHANGED <<storedChats, chat, read, thinking, pending, made, asked>>
  BY DEF assistVars
<1>3. TabsTypeOK' /\ mounts <= mounts' /\ edits <= edits'
  BY DEF OnlyStore
<1>4. /\ view[t] # "assist" /\ view'[t] # "assist"
      /\ \A u \in Tabs \ {t} : view'[u] = view[u] /\ phase'[u] = phase[u]
  BY <1>1, <1>3, StoreOfViews DEF OnlyStore, TabsTypeOK, Views
<1>5. \A u \in Tabs : /\ (view'[u] = "assist") = (view[u] = "assist")
                      /\ view'[u] = "assist" => phase'[u] = phase[u]
  BY <1>4
<1>6. ("assist" \in disturbed') = ("assist" \in disturbed)
  BY DEF OnlyStore
<1>7. ChatsInv'
  <2>1. made' <= mounts' + edits' /\ asked' <= edits'
    BY <1>1, <1>2, <1>3, ChatTypes DEF ChatsInv, TabsTypeOK
  <2>2. AssistTypeOK'
    BY <1>1, <1>2 DEF ChatsInv, AssistTypeOK
  <2> QED
    BY <1>1, <1>2, <1>3, <2>1, <2>2 DEF ChatsInv
<1>8. ASSUME NEW u \in Tabs PROVE TalkAt(u)'
  <2>1. TalkAt(u)
    BY <1>1
  <2>2. \A r \in pending[u] : Awaited(u, r)'
    BY <1>2, <1>5, <2>1 DEF TalkAt, Awaited
  <2> QED
    BY <1>2, <1>5, <2>1, <2>2 DEF TalkAt, Ids
<1>9. SurviveInv'
  <2>1. \A u \in Tabs : Safe(u) => Safe(u)'
    BY <1>2, <1>5 DEF Safe, Full
  <2>2. \A u \in Tabs : Alone(u) => Alone(u)'
    BY <1>5 DEF Alone
  <2>3. Full(storedChats) => Full(storedChats)'
    BY <1>2 DEF Full
  <2> QED
    BY <1>1, <1>5, <1>6, <2>1, <2>2, <2>3 DEF SurviveInv
<1> QED
  BY <1>7, <1>8, <1>9 DEF AssistInv

-----------------------------------------------------------------------------
(* What a step of a tab does to the routes that are shown.                 *)

LEMMA BoardsOnly ==
  ASSUME TabsTypeOK, NEW t \in Tabs, BoardsStep(t)
  PROVE  OnlyStore(t, "boards")
<1>1. view \in [Tabs -> Views] /\ phase \in [Tabs -> Phases] /\ edits \in 0..MaxEdits /\ edits <= edits
  BY DEF TabsTypeOK, Views, Phases
<1>2. \A v \in Boards : v \in Views \ {"away"} /\ StoreOf(v) = "boards"
  BY StoreOfViews DEF Views
<1>3. ASSUME edits' = edits + 1, edits < MaxEdits PROVE edits' \in 0..MaxEdits /\ edits <= edits'
  BY <1>1, <1>3, MaxConvsNat
<1>4. ASSUME Ready(t, "boards") PROVE view[t] \in Boards /\ phase[t] = "ready"
  BY <1>1, <1>4, StoreOfViews DEF Ready
<1>5. ASSUME NEW b \in Boards, OpenBoards(t, b) PROVE OnlyStore(t, "boards")
  <2>1. MountView(t, b)
    BY <1>5 DEF OpenBoards
  <2> QED
    BY <1>2, <2>1, Mounting
<1>6. CASE LeaveBoards(t)
  <2>1. view[t] \in Boards /\ UnmountView(t) /\ edits' = edits
    BY <1>6 DEF LeaveBoards
  <2>2. edits' \in 0..MaxEdits /\ edits <= edits'
    BY <1>1, <2>1
  <2> QED
    BY <1>2, <2>1, <2>2, Unmounting
<1>7. CASE CreateDashboard(t)
  <2>1. Ready(t, "boards") /\ UnmountView(t) /\ edits < MaxEdits /\ edits' = edits + 1
    BY <1>7 DEF CreateDashboard, Edit
  <2> QED
    BY <1>2, <1>3, <1>4, <2>1, Unmounting
<1>8. ASSUME UNCHANGED showing, Ready(t, "boards"), edits' \in 0..MaxEdits, edits <= edits'
      PROVE  OnlyStore(t, "boards")
  BY <1>2, <1>4, <1>8, Staying
<1>9. CASE ToggleEdit(t)
  <2>1. Ready(t, "boards") /\ UNCHANGED showing /\ edits' = edits
    BY <1>9 DEF ToggleEdit, tabVars, showing
  <2> QED
    BY <1>1, <1>8, <2>1
<1>10. ASSUME NEW b \in Boards, OpenBoard(t, b) PROVE OnlyStore(t, "boards")
  <2>1. /\ Ready(t, "boards") /\ view' = [view EXCEPT ![t] = b]
        /\ UNCHANGED <<phase, mounts, edits, disturbed>>
    BY <1>10 DEF OpenBoard
  <2>2. view[t] \in Boards /\ view'[t] = b /\ \A u \in Tabs \ {t} : view'[u] = view[u]
    BY <1>1, <1>4, <2>1
  <2>3. TabsTypeOK'
    <3>1. view' \in [Tabs -> Views]
      BY <1>1, <1>2, <2>1
    <3>2. \A u \in Tabs : (view'[u] = "away") = (phase'[u] = "away")
      BY <1>2, <2>1, <2>2 DEF TabsTypeOK
    <3> QED
      BY <2>1, <3>1, <3>2 DEF TabsTypeOK, Views
  <2>4. mounts <= mounts
    BY DEF TabsTypeOK
  <2> QED
    BY <1>1, <1>2, <2>1, <2>2, <2>3, <2>4 DEF OnlyStore
<1>11. ASSUME NEW s \in Catalog, AddWidget(t, s) PROVE OnlyStore(t, "boards")
  <2>1. Ready(t, "boards") /\ UNCHANGED showing /\ edits < MaxEdits /\ edits' = edits + 1
    BY <1>11 DEF AddWidget, Edit
  <2> QED
    BY <1>3, <1>8, <2>1
<1>12. ASSUME NEW w, SelectWidget(t, w) \/ DuplicateWidget(t, w) \/ RemoveWidget(t, w)
       PROVE  OnlyStore(t, "boards")
  <2>1. CASE SelectWidget(t, w)
    <3>1. Ready(t, "boards") /\ UNCHANGED showing /\ edits' = edits
      BY <2>1 DEF SelectWidget, tabVars, showing
    <3> QED
      BY <1>1, <1>8, <3>1
  <2>2. CASE DuplicateWidget(t, w)
    <3>1. Ready(t, "boards") /\ UNCHANGED showing /\ edits < MaxEdits /\ edits' = edits + 1
      BY <2>2 DEF DuplicateWidget, Edit
    <3> QED
      BY <1>3, <1>8, <3>1
  <2>3. CASE RemoveWidget(t, w)
    <3>1. Ready(t, "boards") /\ UNCHANGED showing /\ edits < MaxEdits /\ edits' = edits + 1
      BY <2>3 DEF RemoveWidget, Edit
    <3> QED
      BY <1>3, <1>8, <3>1
  <2> QED
    BY <1>12, <2>1, <2>2, <2>3
<1>13. ASSUME NEW p \in Phases \ {"away"}, view[t] \in Boards, GoesTo(t, p) PROVE OnlyStore(t, "boards")
  BY <1>2, <1>13, Going
<1>14. CASE BoardsEffects(t)
  <2>1. view[t] \in Boards /\ GoesTo(t, IF LoadPersisted(t).there THEN "loading" ELSE "ready")
    BY <1>14 DEF BoardsEffects
  <2> QED
    BY <1>13, <2>1 DEF Phases
<1>15. CASE ShowLoaded(t)
  <2>1. view[t] \in Boards /\ GoesTo(t, "loaded")
    BY <1>15 DEF ShowLoaded
  <2> QED
    BY <1>13, <2>1 DEF Phases
<1>16. CASE KeepBoards(t)
  <2>1. view[t] \in Boards /\ GoesTo(t, "ready")
    BY <1>16 DEF KeepBoards
  <2> QED
    BY <1>13, <2>1 DEF Phases
<1> QED
  BY <1>5, <1>6, <1>7, <1>9, <1>10, <1>11, <1>12, <1>14, <1>15, <1>16
  DEF BoardsStep, DashboardsUser, DashboardsReact

LEMMA KeepsAssist ==
  ASSUME AssistInv, NEW t \in Tabs, AssistStep(t)
  PROVE  AssistInv'
BY KeepsOpen, KeepsEffects, KeepsShowRead, KeepsSaveChat, KeepsLeave, KeepsNew, KeepsSelect,
   KeepsSend, KeepsReplies DEF AssistStep, AssistUser, AssistReact

LEMMA StartsAssist == ViewsInit => AssistInv
<1> SUFFICES ASSUME ViewsInit PROVE AssistInv
  OBVIOUS
<1>1. /\ view = [t \in Tabs |-> "away"] /\ phase = [t \in Tabs |-> "away"]
      /\ mounts = 0 /\ edits = 0 /\ disturbed = {}
  BY DEF ViewsInit, TabsInit
<1>2. /\ storedChats = NoChat
      /\ chat = [t \in Tabs |-> NoChat] /\ read = [t \in Tabs |-> NoChat]
      /\ thinking = [t \in Tabs |-> FALSE] /\ pending = [t \in Tabs |-> {}]
      /\ made = 0 /\ asked = 0
  BY DEF ViewsInit, AssistInit
<1>3. TabsTypeOK
  BY <1>1, MaxConvsNat DEF TabsTypeOK
<1>4. GoodChat(NoChat, 0)
  BY NoChatIsGood
<1>5. AssistTypeOK
  BY <1>2, <1>4, MaxConvsNat DEF AssistTypeOK, GoodChat
<1>6. ChatsInv
  BY <1>1, <1>2, <1>3, <1>4, <1>5 DEF ChatsInv
<1>7. (\A t \in Tabs : TalkAt(t)) /\ SurviveInv
  BY <1>1, <1>2 DEF TalkAt, SurviveInv, Full
<1> QED
  BY <1>6, <1>7 DEF AssistInv

THEOREM AssistInvHolds == ViewsSpec => []AssistInv
<1>1. ViewsInit => AssistInv
  BY StartsAssist
<1>2. AssistInv /\ [ViewsNext]_viewsVars => AssistInv'
  <2> SUFFICES ASSUME AssistInv, [ViewsNext]_viewsVars PROVE AssistInv'
    OBVIOUS
  <2>1. ASSUME NEW t \in Tabs, AssistStep(t) PROVE AssistInv'
    BY <2>1, KeepsAssist
  <2>2. ASSUME NEW t \in Tabs, BoardsStep(t), UNCHANGED assistVars PROVE AssistInv'
    <3>1. TabsTypeOK
      BY DEF AssistInv, ChatsInv
    <3> QED
      BY <2>2, <3>1, BoardsOnly, KeepsAside
  <2>3. CASE UNCHANGED viewsVars
    <3>1. UNCHANGED <<view, phase, mounts, edits, disturbed, storedChats, chat, read, thinking, pending,
                      made, asked>>
      BY <2>3 DEF viewsVars, tabVars, assistVars
    <3>2. ChatsInv'
      BY <3>1 DEF AssistInv, ChatsInv, TabsTypeOK, AssistTypeOK
    <3>3. \A t \in Tabs : TalkAt(t)'
      BY <3>1 DEF AssistInv, TalkAt, Awaited, Ids
    <3>4. SurviveInv'
      BY <3>1 DEF AssistInv, SurviveInv, Safe, Alone, Full
    <3> QED
      BY <3>2, <3>3, <3>4 DEF AssistInv
  <2> QED
    BY <2>1, <2>2, <2>3 DEF ViewsNext
<1> QED
  BY <1>1, <1>2, PTL DEF ViewsSpec

\* In every conversation a reply comes right after the question it answers, for every
\* number of tabs, dashboards, mounts and edits (sendMessage of assist-store.tsx).
THEOREM RepliesFollow == ViewsSpec => []RepliesFollowQuestions
<1>1. AssistInv => RepliesFollowQuestions
  <2> SUFFICES ASSUME AssistInv PROVE RepliesFollowQuestions
    OBVIOUS
  <2>1. \A c \in Chats : GoodChat(c, made)
    BY ChatTypes DEF AssistInv, ChatsInv, Chats, Range
  <2> QED
    BY <2>1 DEF RepliesFollowQuestions, GoodChat, Follows
<1> QED
  BY <1>1, AssistInvHolds, PTL

\* No question is lost unless two tabs had Assist open or one was closed while it read.
THEOREM QuestionsAreKept == ViewsSpec => []QuestionsSurvive
<1>1. AssistInv => QuestionsSurvive
  <2> SUFFICES ASSUME AssistInv, "assist" \notin disturbed, NEW q \in 1..asked
               PROVE  \/ q \in QuestionsOf(storedChats)
                      \/ \E t \in Tabs : q \in QuestionsOf(read[t]) \cup QuestionsOf(chat[t])
    BY DEF QuestionsSurvive
  <2>1. \A c : Full(c) => q \in QuestionsOf(c)
    BY DEF Full, Has, QuestionsOf
  <2>2. CASE \A t \in Tabs : view[t] # "assist"
    BY <2>1, <2>2 DEF AssistInv, SurviveInv
  <2>3. ASSUME NEW t \in Tabs, view[t] = "assist"
        PROVE  Full(storedChats) \/ Full(read[t]) \/ Full(chat[t])
    <3>1. Safe(t) /\ phase[t] \in Phases \ {"away"}
      BY <2>3 DEF AssistInv, SurviveInv, ChatsInv, TabsTypeOK, Phases
    <3> QED
      BY <2>3, <3>1 DEF Safe, Phases
  <2> QED
    BY <2>1, <2>2, <2>3
<1> QED
  BY <1>1, AssistInvHolds, PTL

-----------------------------------------------------------------------------
(* The dashboards.                                                         *)

\* Max finds the largest of some numbers.
LEMMA MaxFound ==
  ASSUME NEW S, IsFiniteSet(S), S \subseteq Nat, S # {}
  PROVE  Max(S) \in S /\ \A j \in S : j <= Max(S)
<1> DEFINE Above(k) == {j \in S : j > k}
           above == {Above(k) : k \in S}
           before == StrictSubsetOrdering(S)
<1>1. IsWellFoundedOn(before, FiniteSubsetsOf(S))
  BY FS_StrictSubsetOrderingWellFounded
<1>2. above \subseteq FiniteSubsetsOf(S) /\ above # {}
  <2>1. ASSUME NEW k \in S PROVE Above(k) \in SUBSET S /\ IsFiniteSet(Above(k))
    <3>1. Above(k) \in SUBSET S
      OBVIOUS
    <3> HIDE DEF Above
    <3> QED
      BY <3>1, FS_Subset
  <2> QED
    BY <2>1 DEF FiniteSubsetsOf
<1>3. PICK s \in above : \A r \in above : ~(<<r, s>> \in before)
  <2> HIDE DEF above, before
  <2> QED
    BY <1>1, <1>2, WFMin
<1>4. PICK k \in S : s = Above(k)
  BY <1>3
<1>5. ASSUME NEW j \in S PROVE k >= j
  <2>1. j \in Nat /\ k \in Nat
    BY <1>4
  <2>2. SUFFICES ASSUME j > k PROVE FALSE
    BY <2>1
  <2>3. Above(j) \subseteq Above(k)
    <3>1. ASSUME NEW i \in S, i > j PROVE i > k
      <4>1. i \in Nat
        OBVIOUS
      <4> QED
        BY <2>1, <2>2, <3>1, <4>1
    <3> QED
      BY <3>1
  <2>4. j \in Above(k) /\ j \notin Above(j)
    BY <2>1, <2>2
  <2>5. Above(j) \in above /\ Above(j) \in SUBSET S /\ Above(k) \in SUBSET S
    OBVIOUS
  <2> HIDE DEF Above, above
  <2>6. <<Above(j), Above(k)>> \in before
    BY <2>3, <2>4, <2>5 DEF StrictSubsetOrdering
  <2> QED
    BY <1>3, <1>4, <2>5, <2>6
<1>6. Max(S) \in S /\ \A j \in S : Max(S) >= j
  <2>1. k \in S /\ \A j \in S : k >= j
    BY <1>4, <1>5
  <2> QED
    BY <2>1 DEF Max
<1>7. ASSUME NEW j \in S PROVE j <= Max(S)
  BY <1>6, <1>7
<1> QED
  BY <1>6, <1>7

\* The row a new widget is put in.
LEMMA NextRow ==
  ASSUME NEW l, l \subseteq Widget, IsFiniteSet(l)
  PROVE  NextWidgetY(l) \in Nat
<1>1. CASE l = {}
  BY <1>1 DEF NextWidgetY
<1>2. CASE l # {}
  <2> DEFINE f == [w \in l |-> w.y + w.h]
             S == {w.y + w.h : w \in l}
  <2>1. \A w \in l : w.y + w.h \in Nat
    BY DEF Widget
  <2>2. S \subseteq Nat /\ S # {}
    BY <1>2, <2>1
  <2>3. f \in Surjection(l, S)
    BY DEF Surjection
  <2>4. IsFiniteSet(S)
    <3> HIDE DEF f, S
    <3> QED
      BY <2>3, FS_Surjection
  <2>5. Max(S) \in Nat
    <3> HIDE DEF S
    <3> QED
      BY <2>2, <2>4, MaxFound
  <2> QED
    BY <1>2, <2>5 DEF NextWidgetY
<1> QED
  BY <1>1, <1>2

MockIds == Cardinality(Held(MockBoards))

LEMMA MockIdsCount ==
  /\ MockIds \in Nat /\ Held(MockBoards) = WidgetIds(Mock)
  /\ \A b \in Boards : \A w \in Mock[b] : w.id \in 1..MockIds
<1>1. Held(MockBoards) = WidgetIds(Mock)
  BY DEF Held, MockBoards
<1> DEFINE ids(b) == {w.id : w \in Mock[b]}
<1>2. ASSUME NEW b \in Boards PROVE IsFiniteSet(ids(b))
  <2>1. IsFiniteSet(Mock[b])
    BY DashboardsAssumption
  <2>2. [w \in Mock[b] |-> w.id] \in Surjection(Mock[b], ids(b))
    BY DEF Surjection
  <2> QED
    BY <2>1, <2>2, FS_Surjection
<1>3. IsFiniteSet({ids(b) : b \in Boards})
  <2>1. [b \in Boards |-> ids(b)] \in Surjection(Boards, {ids(b) : b \in Boards})
    BY DEF Surjection
  <2> QED
    BY <2>1, FS_Surjection, DashboardsAssumption
<1>4. IsFiniteSet(WidgetIds(Mock))
  <2>1. \A T \in {ids(b) : b \in Boards} : IsFiniteSet(T)
    BY <1>2
  <2>2. WidgetIds(Mock) = UNION {ids(b) : b \in Boards}
    BY DEF WidgetIds
  <2> HIDE DEF ids
  <2> QED
    BY <1>3, <2>1, <2>2, FS_UNION
<1>5. MockIds \in Nat
  BY <1>1, <1>4, FS_CardinalityType DEF MockIds
<1>6. ASSUME NEW b \in Boards, NEW w \in Mock[b] PROVE w.id \in 1..MockIds
  <2>1. w.id \in WidgetIds(Mock)
    BY DEF WidgetIds
  <2> QED
    BY <1>1, <2>1, DashboardsAssumption DEF MockIds
<1> QED
  BY <1>1, <1>5, <1>6

\* Dashboards with ids up to n, each widget's its own, within the grid, and m made at most.
GoodBoards(s, n, m) ==
  /\ s \in BoardsState /\ s.made <= m
  /\ \A b \in Boards : IsFiniteSet(s.layout[b]) /\ \A w \in s.layout[b] : FitsGrid(w) /\ w.id <= n
  /\ \A b, c \in Boards : b # c => \A v \in s.layout[b], w \in s.layout[c] : v.id # w.id

LEMMA BoardsParts ==
  ASSUME NEW s \in BoardsState
  PROVE  /\ s.layout \in [Boards -> SUBSET Widget] /\ s.made \in 0..MaxEdits /\ s.there \in BOOLEAN
         /\ s = [layout |-> s.layout, made |-> s.made, there |-> s.there]
         /\ \A b \in Boards : \A w \in s.layout[b] : w \in Widget /\ w.id \in Nat
BY DEF BoardsState, Widget

LEMMA InitialBoardsGood ==
  ASSUME NEW n \in Nat, MockIds <= n, NEW m \in Nat
  PROVE  /\ GoodBoards(MockBoards, n, m) /\ GoodBoards(NoBoards, n, m)
         /\ MockBoards.there = TRUE /\ NoBoards.there = FALSE /\ MockBoards.made = 0
<1>1. MockBoards.layout = Mock /\ MockBoards.made = 0 /\ MockBoards.there = TRUE
  BY DEF MockBoards
<1>2. /\ NoBoards.layout = [b \in Boards |-> {}] /\ NoBoards.made = 0 /\ NoBoards.there = FALSE
  BY DEF NoBoards
<1>3. MockBoards \in BoardsState /\ NoBoards \in BoardsState
  BY DashboardsAssumption, MaxConvsNat DEF MockBoards, NoBoards, BoardsState
<1>4. \A b \in Boards : \A w \in Mock[b] : w.id <= n
  BY MockIdsCount
<1>5. GoodBoards(MockBoards, n, m)
  BY <1>1, <1>3, <1>4, DashboardsAssumption DEF GoodBoards
<1>6. IsFiniteSet({})
  BY FS_EmptySet
<1>7. GoodBoards(NoBoards, n, m)
  BY <1>2, <1>3, <1>6 DEF GoodBoards
<1> QED
  BY <1>1, <1>2, <1>5, <1>7

LEMMA GoodBoardsLater ==
  ASSUME NEW s, NEW n \in Nat, NEW m \in Nat, NEW p \in Nat, NEW q \in Nat, n <= p, m <= q,
         GoodBoards(s, n, m)
  PROVE  GoodBoards(s, p, q)
<1>1. s \in BoardsState /\ s.made \in Nat
  BY BoardsParts, MaxConvsNat DEF GoodBoards
<1>2. s.made <= q
  BY <1>1 DEF GoodBoards
<1>3. \A b \in Boards : \A w \in s.layout[b] : w.id \in Nat
  BY <1>1, BoardsParts
<1>4. \A b \in Boards : \A w \in s.layout[b] : w.id <= p
  BY <1>3 DEF GoodBoards
<1> QED
  BY <1>1, <1>2, <1>4 DEF GoodBoards

\* The ids in some dashboards.
LEMMA HeldIds ==
  ASSUME NEW s, NEW h
  PROVE  h \in Held(s) <=> \E b \in Boards : \E w \in s.layout[b] : w.id = h
<1>1. Held(s) = UNION {{w.id : w \in s.layout[b]} : b \in Boards}
  BY DEF Held, WidgetIds
<1> QED
  BY <1>1

\* Widgets of one dashboard are taken away or, with a number of their own, added.
LEMMA LayoutSet ==
  ASSUME NEW n \in Nat, NEW p \in Nat, n <= p, NEW m, NEW s, GoodBoards(s, n, m),
         NEW b \in Boards, NEW l, l \subseteq Widget, IsFiniteSet(l),
         \A w \in l : FitsGrid(w) /\ w.id <= p,
         \A w \in l : w.id <= n => \E v \in s.layout[b] : v.id = w.id,
         NEW d, d = [s EXCEPT !.layout[b] = l]
  PROVE  /\ GoodBoards(d, p, m) /\ d.made = s.made /\ d.there = s.there
         /\ d.layout[b] = l /\ \A c \in Boards \ {b} : d.layout[c] = s.layout[c]
<1>1. s \in BoardsState
  BY DEF GoodBoards
<1>2. PICK f \in [Boards -> SUBSET Widget] : f = [s.layout EXCEPT ![b] = l]
  BY <1>1, BoardsParts
<1>3. d = [layout |-> f, made |-> s.made, there |-> s.there]
  BY <1>1, <1>2, BoardsParts
<1>4. d.layout = f /\ d.made = s.made /\ d.there = s.there
  BY <1>3
<1>5. f[b] = l /\ \A c \in Boards \ {b} : f[c] = s.layout[c]
  BY <1>1, <1>2, BoardsParts
<1>6. d \in BoardsState
  BY <1>1, <1>2, <1>3, BoardsParts DEF BoardsState
<1>7. ASSUME NEW c \in Boards PROVE IsFiniteSet(f[c]) /\ \A w \in f[c] : FitsGrid(w) /\ w.id <= p
  <2>1. CASE c = b
    BY <1>5, <2>1
  <2>2. CASE c # b
    <3>1. \A w \in s.layout[c] : w.id \in Nat
      BY <1>1, BoardsParts
    <3> QED
      BY <1>5, <2>2, <3>1 DEF GoodBoards
  <2> QED
    BY <2>1, <2>2
<1>8. ASSUME NEW c \in Boards \ {b}, NEW v \in f[b], NEW w \in f[c] PROVE v.id # w.id
  <2>1. v \in l /\ w \in s.layout[c] /\ w.id <= n
    BY <1>5 DEF GoodBoards
  <2>2. SUFFICES ASSUME v.id = w.id PROVE FALSE
    OBVIOUS
  <2>3. PICK u \in s.layout[b] : u.id = w.id
    BY <2>1, <2>2
  <2> QED
    BY <2>1, <2>3 DEF GoodBoards
<1>9. \A c, e \in Boards : c # e => \A v \in f[c], w \in f[e] : v.id # w.id
  BY <1>5, <1>8 DEF GoodBoards
<1> QED
  BY <1>4, <1>5, <1>6, <1>7, <1>9 DEF GoodBoards

\* Ids given so far.
Numbered == MockIds + widgets

BoardsOK ==
  /\ TabsTypeOK /\ DashboardsTypeOK
  /\ widgets <= edits /\ created <= edits
  /\ GoodBoards(kept, Numbered, created)
  /\ \A t \in Tabs : GoodBoards(boards[t], Numbered, created) /\ GoodBoards(loaded[t], Numbered, created)

\* A tab that shows a dashboard holds dashboards, and has read some when it is to show them.
ShownAt(t) ==
  view[t] \in Boards =>
    /\ boards[t].there = TRUE /\ phase[t] # "unsaved"
    /\ phase[t] = "loading" => loaded[t].there = TRUE

\* What the user made and has not removed is in s, and nothing else.
Holds(s) == Held(s) = wanted /\ s.made = created

StoreHolds ==
  \/ kept = NoBoards /\ Holds(MockBoards)
  \/ kept.there = TRUE /\ Holds(kept)

\* Where that is while tab t shows a dashboard, and while it does not.
BoardsSafe(t) ==
  IF view[t] \in Boards
  THEN /\ phase[t] = "fresh" => boards[t] = MockBoards /\ StoreHolds
       /\ phase[t] = "loading" => Holds(loaded[t])
       /\ phase[t] = "loaded" => Holds(boards[t])
       /\ phase[t] = "ready" => kept = boards[t] /\ Holds(kept)
  ELSE StoreHolds

SoleBoards(t) == \A u \in Tabs \ {t} : view[u] \notin Boards

\* One tab at most shows dashboards, and it or the store has what the user made.
WidgetsInv ==
  "boards" \notin disturbed =>
    /\ \A t \in Tabs : view[t] \in Boards => SoleBoards(t) /\ BoardsSafe(t)
    /\ (\A t \in Tabs : view[t] \notin Boards) => StoreHolds

BoardsInv == BoardsOK /\ (\A t \in Tabs : ShownAt(t)) /\ WidgetsInv

\* A step of tab t leaves the dashboards of the others alone.
OwnBoards(t) ==
  /\ boards' = [boards EXCEPT ![t] = boards'[t]] /\ loaded' = [loaded EXCEPT ![t] = loaded'[t]]
  /\ editMode' = [editMode EXCEPT ![t] = editMode'[t]]
  /\ selected' = [selected EXCEPT ![t] = selected'[t]]

LEMMA BoardsTypes ==
  ASSUME BoardsOK
  PROVE  /\ boards \in [Tabs -> BoardsState] /\ loaded \in [Tabs -> BoardsState]
         /\ kept \in BoardsState
         /\ editMode \in [Tabs -> BOOLEAN] /\ selected \in [Tabs -> Nat] /\ wanted \subseteq Nat
         /\ widgets \in Nat /\ created \in Nat /\ widgets \in 0..MaxEdits /\ created \in 0..MaxEdits
         /\ edits \in 0..MaxEdits /\ edits \in Nat /\ Numbered \in Nat /\ MockIds <= Numbered
         /\ NewId = Numbered + 1 /\ NewId \in Nat
         /\ view \in [Tabs -> Views] /\ phase \in [Tabs -> Phases]
<1>1. /\ boards \in [Tabs -> BoardsState] /\ loaded \in [Tabs -> BoardsState] /\ kept \in BoardsState
      /\ editMode \in [Tabs -> BOOLEAN] /\ selected \in [Tabs -> Nat] /\ wanted \subseteq Nat
      /\ widgets \in 0..MaxEdits /\ created \in 0..MaxEdits /\ edits \in 0..MaxEdits
  BY DEF BoardsOK, DashboardsTypeOK, TabsTypeOK
<1>2. widgets \in Nat /\ created \in Nat /\ edits \in Nat /\ MockIds \in Nat
  BY <1>1, MaxConvsNat, MockIdsCount
<1>3. Numbered \in Nat /\ MockIds <= Numbered /\ NewId = Numbered + 1 /\ NewId \in Nat
  BY <1>2 DEF Numbered, NewId, MockIds
<1>4. view \in [Tabs -> Views] /\ phase \in [Tabs -> Phases]
  BY DEF BoardsOK, TabsTypeOK, Views, Phases
<1> QED
  BY <1>1, <1>2, <1>3, <1>4

LEMMA WidgetsStep ==
  ASSUME TabsTypeOK, WidgetsInv, NEW t \in Tabs, OnlyStore(t, "boards"),
         "boards" \notin disturbed' => SoleBoards(t),
         "boards" \notin disturbed' /\ BoardsSafe(t) => BoardsSafe(t)'
  PROVE  WidgetsInv'
<1> SUFFICES ASSUME "boards" \notin disturbed'
             PROVE  /\ \A u \in Tabs : view'[u] \in Boards => SoleBoards(u)' /\ BoardsSafe(u)'
                    /\ (\A u \in Tabs : view'[u] \notin Boards) => StoreHolds'
  BY DEF WidgetsInv
<1>1. SoleBoards(t) /\ "boards" \notin disturbed /\ \A u \in Tabs \ {t} : view'[u] = view[u]
  BY DEF OnlyStore
<1>2. \A u \in Tabs \ {t} : view[u] \notin Boards /\ view'[u] \notin Boards
  BY <1>1 DEF SoleBoards
<1>3. BoardsSafe(t)
  <2>1. CASE view[t] \in Boards
    BY <1>1, <2>1 DEF WidgetsInv
  <2>2. CASE view[t] \notin Boards
    <3>1. \A u \in Tabs : view[u] \notin Boards
      BY <1>2, <2>2
    <3> QED
      BY <1>1, <2>2, <3>1 DEF WidgetsInv, BoardsSafe
  <2> QED
    BY <2>1, <2>2
<1>4. BoardsSafe(t)'
  BY <1>3
<1>5. SoleBoards(t)'
  BY <1>2 DEF SoleBoards
<1>6. (\A u \in Tabs : view'[u] \notin Boards) => StoreHolds'
  BY <1>4 DEF BoardsSafe
<1> QED
  BY <1>2, <1>4, <1>5, <1>6

\* A tab with a dashboard is the only one while nothing was disturbed.
LEMMA OnlyBoardsTab ==
  ASSUME WidgetsInv, NEW t \in Tabs, view[t] \in Boards, disturbed \subseteq disturbed'
  PROVE  "boards" \notin disturbed' => SoleBoards(t)
BY DEF WidgetsInv

\* A step of tab t that keeps what concerns t keeps it all.
LEMMA BoardsStepKeeps ==
  ASSUME BoardsInv, NEW t \in Tabs, OnlyStore(t, "boards"), OwnBoards(t),
         editMode'[t] \in BOOLEAN, selected'[t] \in Nat, wanted' \subseteq Nat,
         widgets' \in 0..MaxEdits, widgets <= widgets', widgets' <= edits',
         created' \in 0..MaxEdits, created <= created', created' <= edits',
         GoodBoards(kept', Numbered', created'), GoodBoards(boards'[t], Numbered', created'),
         GoodBoards(loaded'[t], Numbered', created'),
         ShownAt(t)',
         "boards" \notin disturbed' => SoleBoards(t),
         "boards" \notin disturbed' /\ BoardsSafe(t) => BoardsSafe(t)'
  PROVE  BoardsInv'
<1>1. BoardsOK /\ WidgetsInv /\ TabsTypeOK /\ TabsTypeOK'
  BY DEF BoardsInv, BoardsOK, OnlyStore
<1>2. /\ \A u \in Tabs \ {t} : boards'[u] = boards[u] /\ loaded'[u] = loaded[u]
      /\ Numbered \in Nat /\ Numbered' \in Nat /\ Numbered <= Numbered'
      /\ created \in Nat /\ created' \in Nat
  <2>1. widgets' \in Nat /\ created' \in Nat /\ MockIds \in Nat
    BY MaxConvsNat, MockIdsCount
  <2>2. Numbered \in Nat /\ Numbered' \in Nat /\ Numbered <= Numbered' /\ created \in Nat
    BY <1>1, <2>1, BoardsTypes DEF Numbered
  <2>3. \A u \in Tabs \ {t} : boards'[u] = boards[u] /\ loaded'[u] = loaded[u]
    BY <1>1, BoardsTypes DEF OwnBoards
  <2> QED
    BY <2>1, <2>2, <2>3
<1>3. \A u \in Tabs : /\ GoodBoards(boards'[u], Numbered', created')
                      /\ GoodBoards(loaded'[u], Numbered', created')
  <2>1. ASSUME NEW u \in Tabs \ {t}
        PROVE  /\ GoodBoards(boards[u], Numbered', created')
               /\ GoodBoards(loaded[u], Numbered', created')
    <3>1. GoodBoards(boards[u], Numbered, created) /\ GoodBoards(loaded[u], Numbered, created)
      BY <1>1 DEF BoardsOK
    <3> QED
      BY <1>2, <3>1, GoodBoardsLater
  <2> QED
    BY <1>2, <2>1
<1>4. DashboardsTypeOK'
  <2>1. kept' \in BoardsState /\ boards'[t] \in BoardsState /\ loaded'[t] \in BoardsState
    BY DEF GoodBoards
  <2>2. boards' \in [Tabs -> BoardsState] /\ loaded' \in [Tabs -> BoardsState]
    BY <1>1, <2>1, BoardsTypes DEF OwnBoards
  <2>3. editMode' \in [Tabs -> BOOLEAN]
    BY <1>1, BoardsTypes DEF OwnBoards
  <2>4. selected' \in [Tabs -> Nat]
    BY <1>1, BoardsTypes DEF OwnBoards
  <2> QED
    BY <2>1, <2>2, <2>3, <2>4 DEF DashboardsTypeOK
<1>5. BoardsOK'
  BY <1>1, <1>3, <1>4 DEF BoardsOK
<1>6. ASSUME NEW u \in Tabs PROVE ShownAt(u)'
  <2>1. CASE u = t
    BY <2>1
  <2>2. CASE u # t
    <3>1. /\ boards'[u] = boards[u] /\ loaded'[u] = loaded[u]
          /\ view'[u] = view[u] /\ phase'[u] = phase[u]
      BY <1>2, <2>2 DEF OnlyStore
    <3> QED
      BY <3>1 DEF BoardsInv, ShownAt
  <2> QED
    BY <2>1, <2>2
<1>7. WidgetsInv'
  BY <1>1, WidgetsStep
<1> QED
  BY <1>5, <1>6, <1>7 DEF BoardsInv

-----------------------------------------------------------------------------
(* Each step of the dashboards keeps the invariant.                        *)

\* What no step of a tab changes when it leaves widgets and dashboards alone.
LEMMA SameCounts ==
  ASSUME BoardsInv, edits <= edits', edits' \in Nat, UNCHANGED <<widgets, wanted, created>>
  PROVE  /\ widgets' \in 0..MaxEdits /\ widgets <= widgets' /\ widgets' <= edits'
         /\ created' \in 0..MaxEdits /\ created <= created' /\ created' <= edits'
         /\ wanted' \subseteq Nat /\ Numbered' = Numbered
<1>1. BoardsOK
  BY DEF BoardsInv
<1>2. widgets <= edits /\ created <= edits /\ edits \in Nat /\ widgets \in Nat /\ created \in Nat
  BY <1>1, BoardsTypes DEF BoardsOK
<1>3. widgets <= edits' /\ created <= edits' /\ widgets <= widgets /\ created <= created
  BY <1>2
<1>4. widgets \in 0..MaxEdits /\ created \in 0..MaxEdits /\ wanted \subseteq Nat
  BY <1>1, BoardsTypes
<1>5. Numbered' = Numbered
  BY DEF Numbered
<1> QED
  BY <1>3, <1>4, <1>5

LEMMA KeepsOpenBoards ==
  ASSUME BoardsInv, NEW t \in Tabs, NEW b \in Boards, OpenBoards(t, b), OnlyStore(t, "boards")
  PROVE  BoardsInv'
<1>1. BoardsOK /\ TabsTypeOK
  BY DEF BoardsInv, BoardsOK
<1>2. /\ MountView(t, b) /\ boards' = [boards EXCEPT ![t] = MockBoards]
      /\ UNCHANGED <<kept, loaded, editMode, selected, widgets, wanted, created>>
  BY DEF OpenBoards
<1>3. /\ view[t] = "away" /\ view'[t] = b /\ phase'[t] = "fresh"
      /\ \A u \in Tabs \ {t} : view[u] \in Boards => "boards" \in disturbed'
  BY <1>1, <1>2, Mounting, StoreOfViews DEF Views
<1>4. edits' = edits
  BY <1>2 DEF MountView
<1>5. /\ OwnBoards(t) /\ boards'[t] = MockBoards /\ loaded'[t] = loaded[t]
      /\ editMode'[t] \in BOOLEAN /\ selected'[t] \in Nat
  BY <1>1, <1>2, BoardsTypes DEF OwnBoards
<1>6. /\ widgets' \in 0..MaxEdits /\ widgets <= widgets' /\ widgets' <= edits'
      /\ created' \in 0..MaxEdits /\ created <= created' /\ created' <= edits'
      /\ wanted' \subseteq Nat /\ Numbered' = Numbered
  BY <1>1, <1>2, <1>4, SameCounts, BoardsTypes
<1>7. /\ GoodBoards(kept', Numbered', created') /\ GoodBoards(boards'[t], Numbered', created')
      /\ GoodBoards(loaded'[t], Numbered', created')
  <2>1. GoodBoards(kept, Numbered, created) /\ GoodBoards(loaded[t], Numbered, created)
    BY <1>1 DEF BoardsOK
  <2>2. GoodBoards(MockBoards, Numbered, created)
    BY <1>1, BoardsTypes, InitialBoardsGood
  <2> QED
    BY <1>2, <1>5, <1>6, <2>1, <2>2
<1>8. ShownAt(t)'
  BY <1>3, <1>5 DEF ShownAt, MockBoards
<1>9. "boards" \notin disturbed' => SoleBoards(t)
  BY <1>3 DEF SoleBoards
<1>10. BoardsSafe(t) => BoardsSafe(t)'
  <2>1. view[t] \notin Boards
    BY <1>3, StoreOfViews
  <2>2. StoreHolds => StoreHolds'
    BY <1>2 DEF StoreHolds, Holds
  <2> QED
    BY <1>3, <1>5, <2>1, <2>2 DEF BoardsSafe
<1> QED
  BY <1>5, <1>6, <1>7, <1>8, <1>9, <1>10, BoardsStepKeeps

LEMMA KeepsBoardsEffects ==
  ASSUME BoardsInv, NEW t \in Tabs, BoardsEffects(t), OnlyStore(t, "boards")
  PROVE  BoardsInv'
<1>1. BoardsOK /\ TabsTypeOK /\ WidgetsInv /\ ShownAt(t)
  BY DEF BoardsInv, BoardsOK
<1> DEFINE p == IF kept.there THEN "loading" ELSE "ready"
<1>2. /\ view[t] \in Boards /\ phase[t] = "fresh" /\ GoesTo(t, p)
      /\ loaded' = [loaded EXCEPT ![t] = kept] /\ kept' = boards[t]
      /\ UNCHANGED <<boards, editMode, selected, widgets, wanted, created>>
  BY DEF BoardsEffects, LoadPersisted
<1>3. phase'[t] = p /\ UNCHANGED <<view, edits, disturbed>>
  BY <1>1, <1>2, BoardsTypes DEF GoesTo
<1>4. /\ OwnBoards(t) /\ boards'[t] = boards[t] /\ loaded'[t] = kept
      /\ editMode'[t] \in BOOLEAN /\ selected'[t] \in Nat
  BY <1>1, <1>2, BoardsTypes DEF OwnBoards
<1>5. /\ widgets' \in 0..MaxEdits /\ widgets <= widgets' /\ widgets' <= edits'
      /\ created' \in 0..MaxEdits /\ created <= created' /\ created' <= edits'
      /\ wanted' \subseteq Nat /\ Numbered' = Numbered
  BY <1>1, <1>2, <1>3, SameCounts, BoardsTypes
<1>6. /\ GoodBoards(kept', Numbered', created') /\ GoodBoards(boards'[t], Numbered', created')
      /\ GoodBoards(loaded'[t], Numbered', created')
  BY <1>1, <1>2, <1>4, <1>5 DEF BoardsOK
<1>7. kept.there \in BOOLEAN
  BY <1>1, BoardsTypes, BoardsParts
<1>8. ShownAt(t)'
  BY <1>1, <1>2, <1>3, <1>4, <1>7 DEF ShownAt
<1>9. "boards" \notin disturbed' => SoleBoards(t)
  BY <1>1, <1>2, <1>3, OnlyBoardsTab
<1>10. BoardsSafe(t) => BoardsSafe(t)'
  <2> SUFFICES ASSUME BoardsSafe(t) PROVE BoardsSafe(t)'
    OBVIOUS
  <2>1. boards[t] = MockBoards /\ StoreHolds
    BY <1>2 DEF BoardsSafe
  <2>2. CASE kept.there = TRUE
    <3>1. Holds(kept)
      BY <2>1, <2>2 DEF StoreHolds, NoBoards
    <3>2. Holds(loaded[t])' /\ phase'[t] = "loading"
      BY <1>2, <1>3, <1>4, <2>2, <3>1 DEF Holds
    <3> QED
      BY <1>2, <1>3, <3>2 DEF BoardsSafe
  <2>3. CASE kept.there = FALSE
    <3>1. Holds(MockBoards)
      BY <2>1, <2>3 DEF StoreHolds
    <3>2. Holds(kept)' /\ kept' = boards'[t] /\ phase'[t] = "ready"
      BY <1>2, <1>3, <1>4, <2>1, <2>3, <3>1 DEF Holds
    <3> QED
      BY <1>2, <1>3, <3>2 DEF BoardsSafe
  <2> QED
    BY <1>7, <2>2, <2>3
<1> QED
  BY <1>4, <1>5, <1>6, <1>8, <1>9, <1>10, BoardsStepKeeps

LEMMA KeepsShowLoaded ==
  ASSUME BoardsInv, NEW t \in Tabs, ShowLoaded(t), OnlyStore(t, "boards")
  PROVE  BoardsInv'
<1>1. BoardsOK /\ TabsTypeOK /\ WidgetsInv /\ ShownAt(t)
  BY DEF BoardsInv, BoardsOK
<1>2. /\ view[t] \in Boards /\ phase[t] = "loading" /\ GoesTo(t, "loaded")
      /\ boards' = [boards EXCEPT ![t] = loaded[t]] /\ loaded' = [loaded EXCEPT ![t] = NoBoards]
      /\ UNCHANGED <<kept, editMode, selected, widgets, wanted, created>>
  BY DEF ShowLoaded
<1>3. phase'[t] = "loaded" /\ UNCHANGED <<view, edits, disturbed>>
  BY <1>1, <1>2, BoardsTypes DEF GoesTo
<1>4. /\ OwnBoards(t) /\ boards'[t] = loaded[t] /\ loaded'[t] = NoBoards
      /\ editMode'[t] \in BOOLEAN /\ selected'[t] \in Nat
  BY <1>1, <1>2, BoardsTypes DEF OwnBoards
<1>5. /\ widgets' \in 0..MaxEdits /\ widgets <= widgets' /\ widgets' <= edits'
      /\ created' \in 0..MaxEdits /\ created <= created' /\ created' <= edits'
      /\ wanted' \subseteq Nat /\ Numbered' = Numbered
  BY <1>1, <1>2, <1>3, SameCounts, BoardsTypes
<1>6. /\ GoodBoards(kept', Numbered', created') /\ GoodBoards(boards'[t], Numbered', created')
      /\ GoodBoards(loaded'[t], Numbered', created')
  <2>1. GoodBoards(NoBoards, Numbered, created)
    BY <1>1, BoardsTypes, InitialBoardsGood
  <2> QED
    BY <1>1, <1>2, <1>4, <1>5, <2>1 DEF BoardsOK
<1>7. ShownAt(t)'
  BY <1>1, <1>2, <1>3, <1>4 DEF ShownAt
<1>8. "boards" \notin disturbed' => SoleBoards(t)
  BY <1>1, <1>2, <1>3, OnlyBoardsTab
<1>9. BoardsSafe(t) => BoardsSafe(t)'
  <2>1. BoardsSafe(t) => Holds(loaded[t])
    BY <1>2 DEF BoardsSafe
  <2>2. Holds(loaded[t]) => Holds(boards[t])'
    BY <1>2, <1>4 DEF Holds
  <2> QED
    BY <1>2, <1>3, <2>1, <2>2 DEF BoardsSafe
<1> QED
  BY <1>4, <1>5, <1>6, <1>7, <1>8, <1>9, BoardsStepKeeps

LEMMA KeepsKeepBoards ==
  ASSUME BoardsInv, NEW t \in Tabs, KeepBoards(t), OnlyStore(t, "boards")
  PROVE  BoardsInv'
<1>1. BoardsOK /\ TabsTypeOK /\ WidgetsInv /\ ShownAt(t)
  BY DEF BoardsInv, BoardsOK
<1>2. /\ view[t] \in Boards /\ phase[t] = "loaded" /\ GoesTo(t, "ready")
      /\ kept' = boards[t]
      /\ UNCHANGED <<boards, loaded, editMode, selected, widgets, wanted, created>>
  BY DEF KeepBoards
<1>3. phase'[t] = "ready" /\ UNCHANGED <<view, edits, disturbed>>
  BY <1>1, <1>2, BoardsTypes DEF GoesTo
<1>4. OwnBoards(t) /\ editMode'[t] \in BOOLEAN /\ selected'[t] \in Nat
  BY <1>1, <1>2, BoardsTypes DEF OwnBoards
<1>5. /\ widgets' \in 0..MaxEdits /\ widgets <= widgets' /\ widgets' <= edits'
      /\ created' \in 0..MaxEdits /\ created <= created' /\ created' <= edits'
      /\ wanted' \subseteq Nat /\ Numbered' = Numbered
  BY <1>1, <1>2, <1>3, SameCounts, BoardsTypes
<1>6. /\ GoodBoards(kept', Numbered', created') /\ GoodBoards(boards'[t], Numbered', created')
      /\ GoodBoards(loaded'[t], Numbered', created')
  BY <1>1, <1>2, <1>5 DEF BoardsOK
<1>7. ShownAt(t)'
  BY <1>1, <1>2, <1>3 DEF ShownAt
<1>8. "boards" \notin disturbed' => SoleBoards(t)
  BY <1>1, <1>2, <1>3, OnlyBoardsTab
<1>9. BoardsSafe(t) => BoardsSafe(t)'
  <2>1. BoardsSafe(t) => Holds(boards[t])
    BY <1>2 DEF BoardsSafe
  <2>2. Holds(boards[t]) => Holds(kept)' /\ kept' = boards'[t]
    BY <1>2 DEF Holds
  <2> QED
    BY <1>2, <1>3, <2>1, <2>2 DEF BoardsSafe
<1> QED
  BY <1>4, <1>5, <1>6, <1>7, <1>8, <1>9, BoardsStepKeeps

LEMMA KeepsLeaveBoards ==
  ASSUME BoardsInv, NEW t \in Tabs, LeaveBoards(t), OnlyStore(t, "boards")
  PROVE  BoardsInv'
<1>1. BoardsOK /\ TabsTypeOK /\ WidgetsInv /\ ShownAt(t)
  BY DEF BoardsInv, BoardsOK
<1>2. /\ view[t] \in Boards /\ UnmountView(t) /\ edits' = edits
      /\ boards' = [boards EXCEPT ![t] = NoBoards] /\ loaded' = [loaded EXCEPT ![t] = NoBoards]
      /\ editMode' = [editMode EXCEPT ![t] = FALSE] /\ selected' = [selected EXCEPT ![t] = 0]
      /\ UNCHANGED <<kept, widgets, wanted, created>>
  BY DEF LeaveBoards, ViewGone
<1>3. /\ view'[t] = "away" /\ disturbed \subseteq disturbed'
      /\ phase[t] \in {"loading", "loaded"} => "boards" \in disturbed'
  BY <1>1, <1>2, BoardsTypes, StoreOfViews DEF UnmountView
<1>4. /\ OwnBoards(t) /\ boards'[t] = NoBoards /\ loaded'[t] = NoBoards
      /\ editMode'[t] \in BOOLEAN /\ selected'[t] \in Nat
  BY <1>1, <1>2, BoardsTypes DEF OwnBoards
<1>5. /\ widgets' \in 0..MaxEdits /\ widgets <= widgets' /\ widgets' <= edits'
      /\ created' \in 0..MaxEdits /\ created <= created' /\ created' <= edits'
      /\ wanted' \subseteq Nat /\ Numbered' = Numbered
  BY <1>1, <1>2, SameCounts, BoardsTypes
<1>6. /\ GoodBoards(kept', Numbered', created') /\ GoodBoards(boards'[t], Numbered', created')
      /\ GoodBoards(loaded'[t], Numbered', created')
  <2>1. GoodBoards(NoBoards, Numbered, created)
    BY <1>1, BoardsTypes, InitialBoardsGood
  <2> QED
    BY <1>1, <1>2, <1>4, <1>5, <2>1 DEF BoardsOK
<1>7. view'[t] \notin Boards
  BY <1>3, StoreOfViews
<1>8. ShownAt(t)'
  BY <1>7 DEF ShownAt
<1>9. "boards" \notin disturbed' => SoleBoards(t)
  BY <1>1, <1>2, <1>3, OnlyBoardsTab
<1>10. "boards" \notin disturbed' /\ BoardsSafe(t) => BoardsSafe(t)'
  <2> SUFFICES ASSUME "boards" \notin disturbed', BoardsSafe(t) PROVE BoardsSafe(t)'
    OBVIOUS
  <2>1. phase[t] \in {"fresh", "ready"}
    <3>1. phase[t] \in Phases /\ view[t] # "away" /\ (view[t] = "away") = (phase[t] = "away")
      BY <1>1, <1>2, BoardsTypes, StoreOfViews DEF TabsTypeOK
    <3> QED
      BY <1>1, <1>2, <1>3, <3>1 DEF Phases, ShownAt
  <2>2. StoreHolds
    <3>1. CASE phase[t] = "fresh"
      BY <1>2, <3>1 DEF BoardsSafe
    <3>2. CASE phase[t] = "ready"
      BY <1>1, <1>2, <3>2 DEF BoardsSafe, ShownAt, StoreHolds
    <3> QED
      BY <2>1, <3>1, <3>2
  <2>3. StoreHolds'
    BY <1>2, <2>2 DEF StoreHolds, Holds
  <2> QED
    BY <1>7, <2>3 DEF BoardsSafe
<1> QED
  BY <1>4, <1>5, <1>6, <1>8, <1>9, <1>10, BoardsStepKeeps

LEMMA KeepsOpenBoard ==
  ASSUME BoardsInv, NEW t \in Tabs, NEW b \in Boards, OpenBoard(t, b), OnlyStore(t, "boards")
  PROVE  BoardsInv'
<1>1. BoardsOK /\ TabsTypeOK /\ WidgetsInv /\ ShownAt(t)
  BY DEF BoardsInv, BoardsOK
<1>2. /\ Ready(t, "boards") /\ view' = [view EXCEPT ![t] = b]
      /\ editMode' = [editMode EXCEPT ![t] = FALSE] /\ selected' = [selected EXCEPT ![t] = 0]
      /\ UNCHANGED <<phase, mounts, edits, disturbed, kept, boards, loaded, widgets, wanted, created>>
  BY DEF OpenBoard, ViewGone
<1>3. view[t] \in Boards /\ phase[t] = "ready" /\ view'[t] = b
  BY <1>1, <1>2, BoardsTypes, StoreOfViews DEF Ready
<1>4. OwnBoards(t) /\ editMode'[t] \in BOOLEAN /\ selected'[t] \in Nat
  BY <1>1, <1>2, BoardsTypes DEF OwnBoards
<1>5. /\ widgets' \in 0..MaxEdits /\ widgets <= widgets' /\ widgets' <= edits'
      /\ created' \in 0..MaxEdits /\ created <= created' /\ created' <= edits'
      /\ wanted' \subseteq Nat /\ Numbered' = Numbered
  BY <1>1, <1>2, SameCounts, BoardsTypes
<1>6. /\ GoodBoards(kept', Numbered', created') /\ GoodBoards(boards'[t], Numbered', created')
      /\ GoodBoards(loaded'[t], Numbered', created')
  BY <1>1, <1>2, <1>5 DEF BoardsOK
<1>7. ShownAt(t)'
  BY <1>1, <1>2, <1>3 DEF ShownAt
<1>8. "boards" \notin disturbed' => SoleBoards(t)
  BY <1>1, <1>2, <1>3, OnlyBoardsTab
<1>9. BoardsSafe(t) => BoardsSafe(t)'
  BY <1>2, <1>3 DEF BoardsSafe, Holds
<1> QED
  BY <1>4, <1>5, <1>6, <1>7, <1>8, <1>9, BoardsStepKeeps

LEMMA MadeSet ==
  ASSUME NEW s \in BoardsState, NEW n, NEW d, d = [s EXCEPT !.made = n]
  PROVE  d = [layout |-> s.layout, made |-> n, there |-> s.there]
BY BoardsParts

LEMMA KeepsCreateDashboard ==
  ASSUME BoardsInv, NEW t \in Tabs, CreateDashboard(t), OnlyStore(t, "boards")
  PROVE  BoardsInv'
<1>1. BoardsOK /\ TabsTypeOK /\ WidgetsInv /\ ShownAt(t)
  BY DEF BoardsInv, BoardsOK
<1>2. /\ Ready(t, "boards") /\ edits < MaxEdits /\ edits' = edits + 1 /\ created' = created + 1
      /\ kept' = WithNewBoard(boards[t]) /\ UnmountView(t)
      /\ boards' = [boards EXCEPT ![t] = NoBoards]
      /\ editMode' = [editMode EXCEPT ![t] = FALSE] /\ selected' = [selected EXCEPT ![t] = 0]
      /\ UNCHANGED <<loaded, widgets, wanted>>
  BY DEF CreateDashboard, Edit, ViewGone
<1>3. view[t] \in Boards /\ phase[t] = "ready"
  BY <1>1, <1>2, BoardsTypes, StoreOfViews DEF Ready
<1>4. view'[t] = "away" /\ disturbed \subseteq disturbed'
  BY <1>1, <1>2, BoardsTypes DEF UnmountView
<1>5. /\ OwnBoards(t) /\ boards'[t] = NoBoards /\ loaded'[t] = loaded[t]
      /\ editMode'[t] \in BOOLEAN /\ selected'[t] \in Nat
  BY <1>1, <1>2, BoardsTypes DEF OwnBoards
<1>6. /\ widgets' \in 0..MaxEdits /\ widgets <= widgets' /\ widgets' <= edits'
      /\ created' \in 0..MaxEdits /\ created <= created' /\ created' <= edits'
      /\ wanted' \subseteq Nat
  <2>1. /\ widgets \in Nat /\ created \in Nat /\ edits \in Nat /\ widgets <= edits /\ created <= edits
        /\ widgets \in 0..MaxEdits /\ wanted \subseteq Nat
    BY <1>1, BoardsTypes DEF BoardsOK
  <2>2. created' \in Nat /\ created' <= edits' /\ edits' <= MaxEdits /\ widgets <= edits'
    BY <1>2, <2>1, MaxConvsNat
  <2>3. created' \in 0..MaxEdits /\ created <= created' /\ widgets <= widgets
    BY <1>2, <2>1, <2>2, MaxConvsNat
  <2> QED
    BY <1>2, <2>1, <2>2, <2>3
<1>7. Numbered' = Numbered /\ Numbered \in Nat /\ created \in Nat /\ created' \in Nat
  BY <1>1, <1>2, BoardsTypes DEF Numbered
<1>8. /\ GoodBoards(kept', Numbered', created') /\ kept'.there = TRUE
      /\ kept'.layout = boards[t].layout /\ kept'.made = boards[t].made + 1
  <2>1. PICK s \in BoardsState : s = boards[t] /\ GoodBoards(s, Numbered, created) /\ s.there = TRUE
    BY <1>1, <1>3 DEF BoardsOK, GoodBoards, ShownAt
  <2>2. s.made \in Nat /\ s.made <= created
    BY <2>1, BoardsParts, MaxConvsNat DEF GoodBoards
  <2>3. s.made + 1 \in 0..MaxEdits /\ s.made + 1 <= created'
    BY <1>2, <1>6, <1>7, <2>2, MaxConvsNat
  <2>4. PICK n \in 0..MaxEdits : n = s.made + 1
    BY <2>3
  <2>5. kept' = [layout |-> s.layout, made |-> n, there |-> TRUE]
    <3>1. kept' = [s EXCEPT !.made = n]
      BY <1>2, <2>1, <2>4 DEF WithNewBoard
    <3> QED
      BY <2>1, <3>1, MadeSet
  <2>6. kept' \in BoardsState /\ kept'.layout = s.layout /\ kept'.made = n /\ kept'.there = TRUE
    BY <2>1, <2>5, BoardsParts DEF BoardsState
  <2> QED
    BY <1>7, <2>1, <2>3, <2>4, <2>6 DEF GoodBoards
<1>9. /\ GoodBoards(boards'[t], Numbered', created') /\ GoodBoards(loaded'[t], Numbered', created')
  <2>1. created <= created'
    BY <1>6
  <2>2. GoodBoards(NoBoards, Numbered, created')
    BY <1>1, <1>7, BoardsTypes, InitialBoardsGood
  <2>3. GoodBoards(loaded[t], Numbered, created)
    BY <1>1 DEF BoardsOK
  <2>4. GoodBoards(loaded[t], Numbered, created')
    BY <1>7, <2>1, <2>3, GoodBoardsLater
  <2> QED
    BY <1>5, <1>7, <2>2, <2>4
<1>10. view'[t] \notin Boards
  BY <1>4, StoreOfViews
<1>11. ShownAt(t)'
  BY <1>10 DEF ShownAt
<1>12. "boards" \notin disturbed' => SoleBoards(t)
  BY <1>1, <1>3, <1>4, OnlyBoardsTab
<1>13. BoardsSafe(t) => BoardsSafe(t)'
  <2> SUFFICES ASSUME BoardsSafe(t) PROVE BoardsSafe(t)'
    OBVIOUS
  <2>1. Held(boards[t]) = wanted /\ boards[t].made = created
    BY <1>3 DEF BoardsSafe, Holds
  <2>2. Held(kept') = wanted' /\ kept'.made = created'
    BY <1>2, <1>8, <2>1 DEF Held, WidgetIds
  <2>3. StoreHolds'
    BY <1>8, <2>2 DEF StoreHolds, Holds
  <2> QED
    BY <1>10, <2>3 DEF BoardsSafe
<1> QED
  BY <1>5, <1>6, <1>8, <1>9, <1>11, <1>12, <1>13, BoardsStepKeeps

\* A click that changes only what the view shows.
LEMMA KeepsClick ==
  ASSUME BoardsInv, NEW t \in Tabs, OnlyStore(t, "boards"), Ready(t, "boards"),
         UNCHANGED <<tabVars, kept, boards, loaded, widgets, wanted, created>>,
         editMode' = [editMode EXCEPT ![t] = editMode'[t]], editMode'[t] \in BOOLEAN,
         selected' = [selected EXCEPT ![t] = selected'[t]], selected'[t] \in Nat
  PROVE  BoardsInv'
<1>1. BoardsOK /\ TabsTypeOK /\ WidgetsInv /\ ShownAt(t)
  BY DEF BoardsInv, BoardsOK
<1>2. UNCHANGED <<view, phase, edits, disturbed>>
  BY DEF tabVars
<1>3. view[t] \in Boards /\ phase[t] = "ready"
  BY <1>1, BoardsTypes, StoreOfViews DEF Ready
<1>4. OwnBoards(t)
  BY <1>1, BoardsTypes DEF OwnBoards
<1>5. /\ widgets' \in 0..MaxEdits /\ widgets <= widgets' /\ widgets' <= edits'
      /\ created' \in 0..MaxEdits /\ created <= created' /\ created' <= edits'
      /\ wanted' \subseteq Nat /\ Numbered' = Numbered
  BY <1>1, <1>2, SameCounts, BoardsTypes
<1>6. /\ GoodBoards(kept', Numbered', created') /\ GoodBoards(boards'[t], Numbered', created')
      /\ GoodBoards(loaded'[t], Numbered', created')
  BY <1>1, <1>5 DEF BoardsOK
<1>7. ShownAt(t)'
  BY <1>1, <1>2 DEF ShownAt
<1>8. "boards" \notin disturbed' => SoleBoards(t)
  BY <1>1, <1>2, <1>3, OnlyBoardsTab
<1>9. BoardsSafe(t) => BoardsSafe(t)'
  BY <1>2 DEF BoardsSafe, Holds, StoreHolds
<1> QED
  BY <1>4, <1>5, <1>6, <1>7, <1>8, <1>9, BoardsStepKeeps

LEMMA KeepsToggleEdit ==
  ASSUME BoardsInv, NEW t \in Tabs, ToggleEdit(t), OnlyStore(t, "boards")
  PROVE  BoardsInv'
<1>1. BoardsOK
  BY DEF BoardsInv
<1>2. /\ editMode' = [editMode EXCEPT ![t] = editMode'[t]] /\ editMode'[t] \in BOOLEAN
      /\ selected' = [selected EXCEPT ![t] = selected'[t]] /\ selected'[t] \in Nat
  BY <1>1, BoardsTypes DEF ToggleEdit
<1> QED
  BY <1>2, KeepsClick DEF ToggleEdit

LEMMA KeepsSelectWidget ==
  ASSUME BoardsInv, NEW t \in Tabs, NEW w, SelectWidget(t, w), OnlyStore(t, "boards")
  PROVE  BoardsInv'
<1>1. BoardsOK
  BY DEF BoardsInv
<1>2. view[t] \in Boards
  BY <1>1, BoardsTypes, StoreOfViews DEF SelectWidget, Ready
<1>3. w.id \in Nat
  BY <1>1, <1>2, BoardsTypes, BoardsParts DEF SelectWidget, Layout
<1>4. /\ editMode' = [editMode EXCEPT ![t] = editMode'[t]] /\ editMode'[t] \in BOOLEAN
      /\ selected' = [selected EXCEPT ![t] = selected'[t]] /\ selected'[t] \in Nat
  BY <1>1, <1>3, BoardsTypes DEF SelectWidget
<1> QED
  BY <1>4, KeepsClick DEF SelectWidget

\* The layout of the dashboard that is shown is set and stored.
LEMMA KeepsLayout ==
  ASSUME BoardsInv, NEW t \in Tabs, OnlyStore(t, "boards"), Ready(t, "boards"),
         UNCHANGED <<showing, loaded, editMode, created>>, edits < MaxEdits, edits' = edits + 1,
         widgets' \in {widgets, widgets + 1}, wanted' \subseteq Nat,
         selected' = [selected EXCEPT ![t] = selected'[t]], selected'[t] \in Nat,
         NEW l, SetLayout(t, l), l \subseteq Widget, IsFiniteSet(l),
         \A w \in l : FitsGrid(w) /\ w.id <= Numbered',
         \A w \in l : w.id <= Numbered => \E v \in Layout(t) : v.id = w.id,
         Held(boards[t]) = wanted => Held(boards'[t]) = wanted'
  PROVE  BoardsInv'
<1>1. BoardsOK /\ TabsTypeOK /\ WidgetsInv /\ ShownAt(t)
  BY DEF BoardsInv, BoardsOK
<1>2. view[t] \in Boards /\ phase[t] = "ready"
  BY <1>1, BoardsTypes, StoreOfViews DEF Ready
<1>3. UNCHANGED <<view, phase, disturbed>>
  BY DEF showing
<1>4. /\ boards' = [boards EXCEPT ![t] = kept']
      /\ kept' = [boards[t] EXCEPT !.layout[view[t]] = l]
  BY DEF SetLayout
<1>5. boards'[t] = kept' /\ loaded'[t] = loaded[t]
  BY <1>1, <1>4, BoardsTypes
<1>6. OwnBoards(t) /\ editMode'[t] \in BOOLEAN
  BY <1>1, <1>4, <1>5, BoardsTypes DEF OwnBoards
<1>7. /\ widgets' \in 0..MaxEdits /\ widgets <= widgets' /\ widgets' <= edits'
      /\ created' \in 0..MaxEdits /\ created <= created' /\ created' <= edits'
  <2>1. /\ widgets \in Nat /\ created \in Nat /\ edits \in Nat /\ widgets <= edits /\ created <= edits
        /\ created \in 0..MaxEdits
    BY <1>1, BoardsTypes DEF BoardsOK
  <2>2. widgets' \in Nat /\ widgets <= widgets' /\ widgets' <= edits' /\ edits' <= MaxEdits
    BY <2>1, MaxConvsNat
  <2>3. widgets' \in 0..MaxEdits
    BY <2>2, MaxConvsNat
  <2>4. created <= created /\ created <= edits'
    BY <2>1
  <2> QED
    BY <2>1, <2>2, <2>3, <2>4
<1>8. Numbered \in Nat /\ Numbered' \in Nat /\ Numbered <= Numbered' /\ created \in Nat
  <2>1. PICK i \in Nat, j \in Nat : i = MockIds /\ j = widgets
    BY <1>1, BoardsTypes, MockIdsCount
  <2>2. Numbered = i + j /\ (Numbered' = i + j \/ Numbered' = i + (j + 1))
    BY <2>1 DEF Numbered
  <2>3. Numbered \in Nat /\ Numbered' \in Nat
    BY <2>1, <2>2
  <2>4. Numbered <= Numbered'
    BY <2>1, <2>2
  <2>5. created \in Nat
    BY <1>1, BoardsTypes
  <2> QED
    BY <2>3, <2>4, <2>5
<1>9. GoodBoards(kept', Numbered', created) /\ kept'.made = boards[t].made /\ kept'.there = boards[t].there
  <2>1. GoodBoards(boards[t], Numbered, created)
    BY <1>1 DEF BoardsOK
  <2>2. \A w \in l : w.id <= Numbered => \E v \in boards[t].layout[view[t]] : v.id = w.id
    BY DEF Layout
  <2>3. PICK n \in Nat, p \in Nat : n = Numbered /\ p = Numbered' /\ n <= p
    BY <1>8
  <2>4. PICK d \in {kept'}, s \in {boards[t]}, b \in Boards : b = view[t]
    BY <1>2
  <2>5. d = [s EXCEPT !.layout[b] = l] /\ GoodBoards(s, n, created)
    BY <1>4, <2>1, <2>3, <2>4
  <2>6. /\ \A w \in l : FitsGrid(w) /\ w.id <= p
        /\ \A w \in l : w.id <= n => \E v \in s.layout[b] : v.id = w.id
    BY <2>2, <2>3, <2>4
  <2>7. GoodBoards(d, p, created) /\ d.made = s.made /\ d.there = s.there
    BY <1>2, <2>3, <2>5, <2>6, LayoutSet
  <2> QED
    BY <2>3, <2>4, <2>7
<1>10. GoodBoards(loaded'[t], Numbered', created')
  <2>1. GoodBoards(loaded[t], Numbered, created) /\ created <= created
    BY <1>1, <1>8 DEF BoardsOK
  <2>2. GoodBoards(loaded[t], Numbered', created)
    BY <1>8, <2>1, GoodBoardsLater
  <2> QED
    BY <1>5, <2>2
<1>11. ShownAt(t)'
  BY <1>1, <1>2, <1>3, <1>5, <1>9 DEF ShownAt
<1>12. "boards" \notin disturbed' => SoleBoards(t)
  BY <1>1, <1>2, <1>3, OnlyBoardsTab
<1>13. BoardsSafe(t) => BoardsSafe(t)'
  <2>1. BoardsSafe(t) => Held(boards[t]) = wanted /\ boards[t].made = created
    BY <1>2 DEF BoardsSafe, Holds
  <2>2. BoardsSafe(t) => Holds(kept)'
    BY <1>5, <1>9, <2>1 DEF Holds
  <2> QED
    BY <1>2, <1>3, <1>5, <2>2 DEF BoardsSafe
<1> QED
  BY <1>5, <1>6, <1>7, <1>9, <1>10, <1>11, <1>12, <1>13, BoardsStepKeeps

\* An id is in layout l or in a dashboard other than the one tab t shows.
InOrElsewhere(h, l, t) ==
  \/ \E w \in l : w.id = h
  \/ \E c \in Boards \ {view[t]} : \E w \in boards[t].layout[c] : w.id = h

LEMMA SameSet == ASSUME NEW S, NEW T, \A h : h \in S <=> h \in T PROVE S = T
OBVIOUS

\* The ids that are held after the layout that is shown is set.
LEMMA HeldAfter ==
  ASSUME BoardsOK, NEW t \in Tabs, view[t] \in Boards, NEW l, SetLayout(t, l)
  PROVE  \A h : h \in Held(boards'[t]) <=> InOrElsewhere(h, l, t)
<1>1. PICK s \in BoardsState, b \in Boards : s = boards[t] /\ b = view[t]
  BY BoardsTypes
<1>2. boards'[t] = [s EXCEPT !.layout[b] = l]
  BY <1>1, BoardsTypes DEF SetLayout
<1>3. PICK f : f = [s.layout EXCEPT ![b] = l]
  OBVIOUS
<1>4. boards'[t] = [s EXCEPT !.layout = f]
  BY <1>2, <1>3
<1>5. boards'[t].layout = f
  BY <1>1, <1>4, BoardsParts
<1>6. f[b] = l /\ \A c \in Boards \ {b} : f[c] = s.layout[c]
  BY <1>1, <1>3, BoardsParts
<1>7. \A h : h \in Held(boards'[t]) <=> \E c \in Boards : \E w \in f[c] : w.id = h
  BY <1>5, HeldIds
<1> QED
  BY <1>1, <1>6, <1>7 DEF InOrElsewhere

\* A widget with a new number is added to the dashboard that is shown.
LEMMA AddsWidget ==
  ASSUME BoardsInv, NEW t \in Tabs, view[t] \in Boards, NEW v \in Widget, v.id = NewId, FitsGrid(v),
         widgets' = widgets + 1, wanted' = wanted \cup {NewId},
         NEW l, l = Layout(t) \cup {v}, SetLayout(t, l)
  PROVE  /\ l \subseteq Widget /\ IsFiniteSet(l) /\ wanted' \subseteq Nat
         /\ \A w \in l : FitsGrid(w) /\ w.id <= Numbered'
         /\ \A w \in l : w.id <= Numbered => \E u \in Layout(t) : u.id = w.id
         /\ Held(boards[t]) = wanted => Held(boards'[t]) = wanted'
<1>1. BoardsOK
  BY DEF BoardsInv
<1>2. Numbered' = NewId /\ Numbered \in Nat /\ NewId = Numbered + 1 /\ NewId \in Nat
  <2>1. Numbered' = MockIds + (widgets + 1) /\ MockIds \in Nat /\ widgets \in Nat
    BY <1>1, BoardsTypes, MockIdsCount DEF Numbered
  <2> QED
    BY <1>1, <2>1, BoardsTypes DEF Numbered
<1>3. /\ Layout(t) \subseteq Widget /\ IsFiniteSet(Layout(t))
      /\ \A w \in Layout(t) : FitsGrid(w) /\ w.id <= Numbered /\ w.id \in Nat
  <2>1. GoodBoards(boards[t], Numbered, created) /\ boards[t] \in BoardsState
    BY <1>1 DEF BoardsOK, GoodBoards
  <2> QED
    BY <2>1, BoardsParts DEF GoodBoards, Layout
<1>4. IsFiniteSet(l)
  BY <1>3, FS_AddElement
<1>5. \A w \in l : FitsGrid(w) /\ w.id <= Numbered'
  <2>1. \A w \in Layout(t) : w.id <= NewId
    BY <1>2, <1>3
  <2>2. NewId <= NewId
    BY <1>2
  <2> QED
    BY <1>2, <1>3, <2>1, <2>2
<1>6. \A w \in l : w.id <= Numbered => \E u \in Layout(t) : u.id = w.id
  <2>1. ~(NewId <= Numbered)
    BY <1>2
  <2> QED
    BY <2>1
<1>7. Held(boards[t]) = wanted => Held(boards'[t]) = wanted'
  <2>1. ASSUME Held(boards[t]) = wanted, NEW h PROVE h \in Held(boards'[t]) <=> h \in wanted'
    <3>1. h \in wanted <=> \E b \in Boards : \E w \in boards[t].layout[b] : w.id = h
      BY <2>1, HeldIds
    <3>2. h \in Held(boards'[t]) <=> InOrElsewhere(h, l, t)
      BY <1>1, HeldAfter
    <3>3. (\E w \in l : w.id = h) <=> h = NewId \/ \E w \in boards[t].layout[view[t]] : w.id = h
      BY DEF Layout
    <3> QED
      BY <3>1, <3>2, <3>3 DEF InOrElsewhere
  <2>2. SUFFICES ASSUME Held(boards[t]) = wanted PROVE Held(boards'[t]) = wanted'
    OBVIOUS
  <2>3. \A h : h \in Held(boards'[t]) <=> h \in wanted'
    BY <2>1, <2>2
  <2> QED
    BY <2>3, SameSet
<1>8. l \subseteq Widget /\ wanted' \subseteq Nat
  BY <1>1, <1>2, <1>3, BoardsTypes
<1> QED
  BY <1>4, <1>5, <1>6, <1>7, <1>8

LEMMA KeepsAddWidget ==
  ASSUME BoardsInv, NEW t \in Tabs, NEW s \in Catalog, AddWidget(t, s), OnlyStore(t, "boards")
  PROVE  BoardsInv'
<1>1. BoardsOK
  BY DEF BoardsInv
<1>2. /\ Ready(t, "boards") /\ edits < MaxEdits /\ edits' = edits + 1
      /\ SetLayout(t, WithWidget(Layout(t), s))
      /\ widgets' = widgets + 1 /\ wanted' = wanted \cup {NewId}
      /\ UNCHANGED <<showing, loaded, editMode, selected, created>>
  BY DEF AddWidget, Edit
<1>3. view[t] \in Boards
  BY <1>1, <1>2, BoardsTypes, StoreOfViews DEF Ready
<1>4. NextWidgetY(Layout(t)) \in Nat
  <2>1. GoodBoards(boards[t], Numbered, created) /\ boards[t] \in BoardsState
    BY <1>1 DEF BoardsOK, GoodBoards
  <2>2. Layout(t) \subseteq Widget /\ IsFiniteSet(Layout(t))
    BY <1>3, <2>1, BoardsParts DEF GoodBoards, Layout
  <2> QED
    BY <2>2, NextRow
<1>5. s \in [w: 1..Columns, h: Nat \ {0}]
  BY DashboardsAssumption
<1>6. PICK v : v = [id |-> NewId, x |-> 1, y |-> NextWidgetY(Layout(t)), w |-> s.w, h |-> s.h]
  OBVIOUS
<1>7. v \in Widget /\ v.id = NewId /\ FitsGrid(v)
  <2>1. PICK i \in Nat, j \in Nat, n \in 1..Columns, h \in Nat \ {0} :
          i = NewId /\ j = NextWidgetY(Layout(t)) /\ n = s.w /\ h = s.h
    BY <1>1, <1>4, <1>5, BoardsTypes
  <2>2. v = [id |-> i, x |-> 1, y |-> j, w |-> n, h |-> h]
    BY <1>6, <2>1
  <2>3. v.x = 1 /\ v.w = n /\ v.id = i
    BY <2>2
  <2>4. v \in Widget
    BY <2>2 DEF Widget, Columns
  <2>5. 1 >= 1 /\ 1 + n - 1 <= Columns
    BY DEF Columns
  <2> QED
    BY <2>1, <2>3, <2>4, <2>5 DEF FitsGrid
<1>8. PICK l : l = Layout(t) \cup {v} /\ SetLayout(t, l)
  BY <1>2, <1>6 DEF WithWidget
<1>9. /\ l \subseteq Widget /\ IsFiniteSet(l) /\ wanted' \subseteq Nat
      /\ \A w \in l : FitsGrid(w) /\ w.id <= Numbered'
      /\ \A w \in l : w.id <= Numbered => \E u \in Layout(t) : u.id = w.id
      /\ Held(boards[t]) = wanted => Held(boards'[t]) = wanted'
  BY <1>2, <1>3, <1>7, <1>8, AddsWidget
<1>10. selected' = [selected EXCEPT ![t] = selected'[t]] /\ selected'[t] \in Nat
  BY <1>1, <1>2, BoardsTypes
<1> QED
  BY <1>2, <1>8, <1>9, <1>10, KeepsLayout

\* The column of a copy leaves it on the canvas.
LEMMA CopyFits ==
  ASSUME NEW w \in Widget, FitsGrid(w)
  PROVE  CopyColumn(w) \in Nat /\ CopyColumn(w) >= 1 /\ CopyColumn(w) + w.w - 1 <= Columns
<1>1. PICK x \in Nat, n \in Nat : x = w.x /\ n = w.w /\ x >= 1 /\ x + n - 1 <= Columns
  BY DEF Widget, FitsGrid
<1> DEFINE S == {x + 1, Columns - n + 1}
<1>2. \E m \in S : \A j \in S : m <= j
  BY DEF Columns
<1>3. Min(S) \in S /\ \A j \in S : Min(S) <= j
  <2> HIDE DEF S
  <2> QED
    BY <1>2 DEF Min
<1>4. CopyColumn(w) = Min(S)
  BY <1>1 DEF CopyColumn
<1>5. Columns - n + 1 \in Nat /\ Columns - n + 1 >= 1 /\ x + 1 >= 1
  BY <1>1 DEF Columns
<1>6. ASSUME NEW m \in S, m <= Columns - n + 1 PROVE m \in Nat /\ m >= 1 /\ m + n - 1 <= Columns
  BY <1>1, <1>5, <1>6 DEF Columns
<1> QED
  BY <1>1, <1>3, <1>4, <1>6

LEMMA KeepsDuplicateWidget ==
  ASSUME BoardsInv, NEW t \in Tabs, NEW w, DuplicateWidget(t, w), OnlyStore(t, "boards")
  PROVE  BoardsInv'
<1>1. BoardsOK
  BY DEF BoardsInv
<1>2. PICK v : v = [w EXCEPT !.id = NewId, !.x = CopyColumn(w), !.y = w.y + w.h]
  OBVIOUS
<1>3. /\ Ready(t, "boards") /\ edits < MaxEdits /\ edits' = edits + 1 /\ w \in Layout(t)
      /\ SetLayout(t, Layout(t) \cup {v})
      /\ selected' = [selected EXCEPT ![t] = NewId]
      /\ widgets' = widgets + 1 /\ wanted' = wanted \cup {NewId}
      /\ UNCHANGED <<showing, loaded, editMode, created>>
  BY <1>2 DEF DuplicateWidget, Edit, ButtonsShown
<1>4. view[t] \in Boards
  BY <1>1, <1>3, BoardsTypes, StoreOfViews DEF Ready
<1>5. w \in Widget /\ FitsGrid(w)
  <2>1. GoodBoards(boards[t], Numbered, created) /\ boards[t] \in BoardsState
    BY <1>1 DEF BoardsOK, GoodBoards
  <2> QED
    BY <1>3, <1>4, <2>1, BoardsParts DEF GoodBoards, Layout
<1>6. v \in Widget /\ v.id = NewId /\ FitsGrid(v)
  <2>0. /\ w.y + w.h \in Nat /\ w.w \in Nat /\ w.h \in Nat \ {0}
        /\ CopyColumn(w) \in Nat /\ NewId \in Nat
    <3>1. w.y \in Nat /\ w.h \in Nat \ {0} /\ w.w \in Nat
      BY <1>5 DEF Widget
    <3>2. CopyColumn(w) \in Nat
      BY <1>5, CopyFits
    <3> QED
      BY <1>1, <3>1, <3>2, BoardsTypes
  <2>1. PICK i \in Nat, x \in Nat, y \in Nat, n \in Nat, h \in Nat \ {0} :
          i = NewId /\ x = CopyColumn(w) /\ y = w.y + w.h /\ n = w.w /\ h = w.h
    BY <2>0
  <2>2. v = [id |-> i, x |-> x, y |-> y, w |-> n, h |-> h]
    BY <1>2, <1>5, <2>1 DEF Widget
  <2>3. v.x = x /\ v.w = n /\ v.id = i /\ v \in Widget
    BY <2>2 DEF Widget
  <2>4. x >= 1 /\ x + n - 1 <= Columns
    BY <1>5, <2>1, CopyFits
  <2> QED
    BY <2>1, <2>3, <2>4 DEF FitsGrid
<1>7. PICK l : l = Layout(t) \cup {v} /\ SetLayout(t, l)
  BY <1>3
<1>8. /\ l \subseteq Widget /\ IsFiniteSet(l) /\ wanted' \subseteq Nat
      /\ \A u \in l : FitsGrid(u) /\ u.id <= Numbered'
      /\ \A u \in l : u.id <= Numbered => \E r \in Layout(t) : r.id = u.id
      /\ Held(boards[t]) = wanted => Held(boards'[t]) = wanted'
  BY <1>3, <1>4, <1>6, <1>7, AddsWidget
<1>9. selected' = [selected EXCEPT ![t] = selected'[t]] /\ selected'[t] \in Nat
  BY <1>1, <1>3, BoardsTypes
<1> QED
  BY <1>3, <1>7, <1>8, <1>9, KeepsLayout

LEMMA KeepsRemoveWidget ==
  ASSUME BoardsInv, NEW t \in Tabs, NEW w, RemoveWidget(t, w), OnlyStore(t, "boards")
  PROVE  BoardsInv'
<1>1. BoardsOK
  BY DEF BoardsInv
<1>2. PICK l : l = {v \in Layout(t) : v.id # w.id}
  OBVIOUS
<1>3. /\ Ready(t, "boards") /\ edits < MaxEdits /\ edits' = edits + 1 /\ w \in Layout(t)
      /\ SetLayout(t, l)
      /\ selected' = [selected EXCEPT ![t] = 0] /\ wanted' = wanted \ {w.id}
      /\ UNCHANGED <<showing, loaded, editMode, widgets, created>>
  BY <1>2 DEF RemoveWidget, Edit, ButtonsShown, WithoutWidget
<1>4. view[t] \in Boards
  BY <1>1, <1>3, BoardsTypes, StoreOfViews DEF Ready
<1>5. GoodBoards(boards[t], Numbered, created) /\ boards[t] \in BoardsState
  BY <1>1 DEF BoardsOK, GoodBoards
<1>6. /\ Layout(t) \subseteq Widget /\ IsFiniteSet(Layout(t))
      /\ \A v \in Layout(t) : FitsGrid(v) /\ v.id <= Numbered
  BY <1>4, <1>5, BoardsParts DEF GoodBoards, Layout
<1>7. l \subseteq Layout(t) /\ IsFiniteSet(l)
  BY <1>2, <1>6, FS_Subset
<1>8. Numbered' = Numbered
  BY <1>3 DEF Numbered
<1>9. /\ \A v \in l : FitsGrid(v) /\ v.id <= Numbered'
      /\ \A v \in l : v.id <= Numbered => \E u \in Layout(t) : u.id = v.id
  BY <1>6, <1>7, <1>8
<1>10. Held(boards[t]) = wanted => Held(boards'[t]) = wanted'
  <2>1. ASSUME Held(boards[t]) = wanted, NEW h PROVE h \in Held(boards'[t]) <=> h \in wanted'
    <3>1. h \in wanted <=> \E b \in Boards : \E v \in boards[t].layout[b] : v.id = h
      BY <2>1, HeldIds
    <3>2. h \in Held(boards'[t]) <=> InOrElsewhere(h, l, t)
      <4>1. SetLayout(t, l)
        BY <1>3
      <4> QED
        BY <1>1, <1>4, <4>1, HeldAfter
    <3>3. (\E v \in l : v.id = h) <=> h # w.id /\ \E v \in boards[t].layout[view[t]] : v.id = h
      BY <1>2 DEF Layout
    <3>4. \A c \in Boards \ {view[t]} : \A v \in boards[t].layout[c] : v.id # w.id
      BY <1>3, <1>4, <1>5 DEF GoodBoards, Layout
    <3>5. h \in wanted' <=> h \in wanted /\ h # w.id
      BY <1>3
    <3> QED
      BY <1>4, <3>1, <3>2, <3>3, <3>4, <3>5 DEF InOrElsewhere
  <2>2. SUFFICES ASSUME Held(boards[t]) = wanted PROVE Held(boards'[t]) = wanted'
    OBVIOUS
  <2>3. \A h : h \in Held(boards'[t]) <=> h \in wanted'
    BY <2>1, <2>2
  <2> QED
    BY <2>3, SameSet
<1>11. selected' = [selected EXCEPT ![t] = selected'[t]] /\ selected'[t] \in Nat
  BY <1>1, <1>3, BoardsTypes
<1>12. l \subseteq Widget /\ wanted' \subseteq Nat
  BY <1>1, <1>3, <1>6, <1>7, BoardsTypes
<1> QED
  BY <1>3, <1>7, <1>9, <1>10, <1>11, <1>12, KeepsLayout

LEMMA KeepsBoards ==
  ASSUME BoardsInv, NEW t \in Tabs, BoardsStep(t)
  PROVE  BoardsInv'
<1>1. OnlyStore(t, "boards")
  <2>1. TabsTypeOK
    BY DEF BoardsInv, BoardsOK
  <2> QED
    BY <2>1, BoardsOnly
<1>2. CASE \E b \in Boards : OpenBoards(t, b)
  BY <1>1, <1>2, KeepsOpenBoards
<1>3. CASE LeaveBoards(t)
  BY <1>1, <1>3, KeepsLeaveBoards
<1>4. CASE DashboardsUser(t)
  <2>1. CASE CreateDashboard(t)
    BY <1>1, <2>1, KeepsCreateDashboard
  <2>2. CASE ToggleEdit(t)
    BY <1>1, <2>2, KeepsToggleEdit
  <2>3. CASE \E b \in Boards : OpenBoard(t, b)
    BY <1>1, <2>3, KeepsOpenBoard
  <2>4. CASE \E s \in Catalog : AddWidget(t, s)
    BY <1>1, <2>4, KeepsAddWidget
  <2>5. ASSUME NEW w, SelectWidget(t, w) PROVE BoardsInv'
    BY <1>1, <2>5, KeepsSelectWidget
  <2>6. ASSUME NEW w, DuplicateWidget(t, w) PROVE BoardsInv'
    BY <1>1, <2>6, KeepsDuplicateWidget
  <2>7. ASSUME NEW w, RemoveWidget(t, w) PROVE BoardsInv'
    BY <1>1, <2>7, KeepsRemoveWidget
  <2> QED
    BY <1>4, <2>1, <2>2, <2>3, <2>4, <2>5, <2>6, <2>7 DEF DashboardsUser
<1>5. CASE DashboardsReact(t)
  <2>1. CASE BoardsEffects(t)
    BY <1>1, <2>1, KeepsBoardsEffects
  <2>2. CASE ShowLoaded(t)
    BY <1>1, <2>2, KeepsShowLoaded
  <2>3. CASE KeepBoards(t)
    BY <1>1, <2>3, KeepsKeepBoards
  <2> QED
    BY <1>5, <2>1, <2>2, <2>3 DEF DashboardsReact
<1> QED
  BY <1>2, <1>3, <1>4, <1>5 DEF BoardsStep

\* What a step of Assist does to the routes that are shown.
LEMMA AssistOnly ==
  ASSUME AssistInv, NEW t \in Tabs, AssistStep(t)
  PROVE  OnlyStore(t, "assist")
<1>0. TabsTypeOK /\ TalkAt(t)
  BY DEF AssistInv, ChatsInv
<1>1. view \in [Tabs -> Views] /\ phase \in [Tabs -> Phases] /\ edits \in 0..MaxEdits /\ edits <= edits
  BY <1>0 DEF TabsTypeOK, Views, Phases
<1>2. "assist" \in Views \ {"away"} /\ StoreOf("assist") = "assist"
  BY StoreOfViews DEF Views
<1>3. ASSUME edits' = edits + 1, edits < MaxEdits PROVE edits' \in 0..MaxEdits /\ edits <= edits'
  BY <1>1, <1>3, MaxConvsNat
<1>4. ASSUME Ready(t, "assist") PROVE view[t] = "assist"
  BY <1>1, <1>4, StoreOfViews DEF Ready
<1>5. CASE OpenAssist(t)
  <2>1. MountView(t, "assist")
    BY <1>5 DEF OpenAssist
  <2> QED
    BY <1>0, <1>2, <2>1, Mounting
<1>6. CASE LeaveAssist(t)
  <2>1. view[t] = "assist" /\ UnmountView(t) /\ edits' = edits
    BY <1>6 DEF LeaveAssist
  <2>2. edits' \in 0..MaxEdits /\ edits <= edits'
    BY <1>1, <2>1
  <2> QED
    BY <1>0, <1>2, <2>1, <2>2, Unmounting
<1>7. ASSUME NEW p \in Phases \ {"away"}, view[t] = "assist", GoesTo(t, p) PROVE OnlyStore(t, "assist")
  BY <1>0, <1>2, <1>7, Going
<1>8. ASSUME UNCHANGED showing, view[t] = "assist", edits' \in 0..MaxEdits, edits <= edits'
      PROVE  OnlyStore(t, "assist")
  BY <1>0, <1>2, <1>8, Staying
<1>9. {"loading", "ready", "loaded", "unsaved"} \subseteq Phases \ {"away"}
  BY DEF Phases
<1>10. CASE AssistReact(t)
  <2>1. view[t] = "assist" /\ \E p \in {"loading", "ready", "loaded"} : GoesTo(t, p)
    BY <1>10 DEF AssistReact, AssistEffects, ShowRead, SaveChat
  <2> QED
    BY <1>7, <1>9, <2>1
<1>11. CASE Replies(t)
  <2>1. view[t] = "assist"
    BY <1>0, <1>11 DEF Replies, TalkAt, Awaited
  <2>2. GoesTo(t, "unsaved")
    BY <1>11 DEF Replies
  <2> QED
    BY <1>7, <1>9, <2>1, <2>2
<1>12. CASE NewConversation(t) \/ SendMessage(t)
  <2>1. Ready(t, "assist") /\ UNCHANGED showing /\ edits < MaxEdits /\ edits' = edits + 1
    BY <1>12 DEF NewConversation, SendMessage, Edit
  <2> QED
    BY <1>3, <1>4, <1>8, <2>1
<1>13. ASSUME NEW id, SelectConversation(t, id) PROVE OnlyStore(t, "assist")
  <2>1. Ready(t, "assist") /\ UNCHANGED showing /\ edits' = edits
    BY <1>13 DEF SelectConversation, tabVars, showing
  <2> QED
    BY <1>1, <1>4, <1>8, <2>1
<1> QED
  BY <1>5, <1>6, <1>10, <1>11, <1>12, <1>13 DEF AssistStep, AssistUser

LEMMA KeepsBoardsAside ==
  ASSUME BoardsInv, NEW t \in Tabs, OnlyStore(t, "assist"), UNCHANGED boardVars
  PROVE  BoardsInv'
<1>1. BoardsOK /\ TabsTypeOK /\ TabsTypeOK' /\ WidgetsInv /\ \A u \in Tabs : ShownAt(u)
  BY DEF BoardsInv, BoardsOK, OnlyStore
<1>2. UNCHANGED <<kept, boards, loaded, editMode, selected, widgets, wanted, created>>
  BY DEF boardVars
<1>3. /\ \A u \in Tabs \ {t} : view'[u] = view[u] /\ phase'[u] = phase[u]
      /\ view[t] \notin Boards /\ view'[t] \notin Boards
  <2>1. view[t] \in Views /\ view'[t] \in Views
    BY <1>1 DEF TabsTypeOK, Views
  <2>2. StoreOf(view[t]) # "boards" /\ StoreOf(view'[t]) # "boards"
    BY DEF OnlyStore
  <2> QED
    BY <2>2, StoreOfViews DEF OnlyStore
<1>4. \A u \in Tabs : (view'[u] \in Boards) <=> (view[u] \in Boards)
  BY <1>3
<1>5. \A u \in Tabs : view[u] \in Boards => view'[u] = view[u] /\ phase'[u] = phase[u]
  BY <1>3
<1>6. BoardsOK'
  <2>1. widgets <= edits' /\ created <= edits'
    <3>1. PICK i \in Nat, j \in Nat, n \in Nat : i = widgets /\ j = created /\ n = edits /\ i <= n /\ j <= n
      BY <1>1, BoardsTypes DEF BoardsOK
    <3>2. PICK k \in Nat : k = edits' /\ edits <= k
      BY <1>1, MaxConvsNat DEF OnlyStore, TabsTypeOK
    <3>3. i <= k /\ j <= k
      BY <3>1, <3>2
    <3> QED
      BY <3>1, <3>2, <3>3
  <2>2. Numbered' = Numbered
    BY <1>2 DEF Numbered
  <2>3. DashboardsTypeOK'
    BY <1>1, <1>2 DEF BoardsOK, DashboardsTypeOK
  <2> QED
    BY <1>1, <1>2, <2>1, <2>2, <2>3 DEF BoardsOK
<1>7. \A u \in Tabs : ShownAt(u)'
  BY <1>1, <1>2, <1>4, <1>5 DEF ShownAt
<1>8. "boards" \notin disturbed' => "boards" \notin disturbed
  BY DEF OnlyStore
<1>9. \A u \in Tabs : SoleBoards(u) => SoleBoards(u)'
  BY <1>4 DEF SoleBoards
<1>10. StoreHolds' <=> StoreHolds
  BY <1>2 DEF StoreHolds, Holds
<1>11. \A u \in Tabs : view[u] \in Boards /\ BoardsSafe(u) => BoardsSafe(u)'
  BY <1>2, <1>4, <1>5, <1>10 DEF BoardsSafe, Holds
<1>12. WidgetsInv'
  BY <1>1, <1>4, <1>8, <1>9, <1>10, <1>11 DEF WidgetsInv
<1> QED
  BY <1>6, <1>7, <1>12 DEF BoardsInv

LEMMA StartsBoards == ViewsInit => BoardsInv
<1> SUFFICES ASSUME ViewsInit PROVE BoardsInv
  OBVIOUS
<1>1. /\ view = [t \in Tabs |-> "away"] /\ phase = [t \in Tabs |-> "away"]
      /\ mounts = 0 /\ edits = 0 /\ disturbed = {}
  BY DEF ViewsInit, TabsInit
<1>2. /\ kept = NoBoards
      /\ boards = [t \in Tabs |-> NoBoards] /\ loaded = [t \in Tabs |-> NoBoards]
      /\ editMode = [t \in Tabs |-> FALSE] /\ selected = [t \in Tabs |-> 0]
      /\ widgets = 0 /\ wanted = Held(MockBoards) /\ created = 0
  BY DEF ViewsInit, DashboardsInit
<1>3. TabsTypeOK
  BY <1>1, MaxConvsNat DEF TabsTypeOK
<1>4. Numbered = MockIds /\ MockIds \in Nat /\ MockIds <= MockIds
  BY <1>2, MockIdsCount DEF Numbered
<1>5. GoodBoards(NoBoards, MockIds, 0) /\ NoBoards \in BoardsState /\ MockBoards.made = 0
  BY <1>4, InitialBoardsGood DEF GoodBoards
<1>6. wanted \subseteq Nat
  <2>1. WidgetIds(Mock) \subseteq 1..MockIds
    BY MockIdsCount, DashboardsAssumption DEF MockIds
  <2> QED
    BY <1>2, <1>4, <2>1, MockIdsCount
<1>7. DashboardsTypeOK
  BY <1>2, <1>5, <1>6, MaxConvsNat DEF DashboardsTypeOK
<1>8. BoardsOK
  BY <1>1, <1>2, <1>3, <1>4, <1>5, <1>7 DEF BoardsOK
<1>9. \A t \in Tabs : view[t] \notin Boards
  BY <1>1, StoreOfViews
<1>10. StoreHolds
  BY <1>2, <1>5 DEF StoreHolds, Holds
<1> QED
  BY <1>8, <1>9, <1>10 DEF BoardsInv, ShownAt, WidgetsInv

THEOREM BoardsInvHolds == ViewsSpec => []BoardsInv
<1>1. ViewsInit => BoardsInv
  BY StartsBoards
<1>2. AssistInv /\ BoardsInv /\ [ViewsNext]_viewsVars => BoardsInv'
  <2> SUFFICES ASSUME AssistInv, BoardsInv, [ViewsNext]_viewsVars PROVE BoardsInv'
    OBVIOUS
  <2>1. ASSUME NEW t \in Tabs, AssistStep(t), UNCHANGED boardVars PROVE BoardsInv'
    BY <2>1, AssistOnly, KeepsBoardsAside
  <2>2. ASSUME NEW t \in Tabs, BoardsStep(t) PROVE BoardsInv'
    BY <2>2, KeepsBoards
  <2>3. CASE UNCHANGED viewsVars
    <3>1. UNCHANGED <<view, phase, mounts, edits, disturbed, kept, boards, loaded, editMode, selected,
                      widgets, wanted, created>>
      BY <2>3 DEF viewsVars, tabVars, boardVars
    <3>2. BoardsOK'
      BY <3>1 DEF BoardsInv, BoardsOK, TabsTypeOK, DashboardsTypeOK, Numbered
    <3>3. \A t \in Tabs : ShownAt(t)'
      BY <3>1 DEF BoardsInv, ShownAt
    <3>4. WidgetsInv'
      BY <3>1 DEF BoardsInv, WidgetsInv, BoardsSafe, SoleBoards, StoreHolds, Holds
    <3> QED
      BY <3>2, <3>3, <3>4 DEF BoardsInv
  <2> QED
    BY <2>1, <2>2, <2>3 DEF ViewsNext
<1> QED
  BY <1>1, <1>2, AssistInvHolds, PTL DEF ViewsSpec

\* Both stores and what every tab shows of them are of their types, whatever tabs do.
THEOREM ViewsTypes == ViewsSpec => []ViewsTypeOK
<1>1. AssistInv /\ BoardsInv => ViewsTypeOK
  BY DEF AssistInv, ChatsInv, BoardsInv, BoardsOK, ViewsTypeOK
<1> QED
  BY <1>1, AssistInvHolds, BoardsInvHolds, PTL

\* Every widget lies within the columns of the canvas, for every number of tabs, mock
\* dashboards and edits (addWidget, handleDuplicate).
THEOREM WidgetsFit == ViewsSpec => []WidgetsFitGrid
<1>1. BoardsInv => WidgetsFitGrid
  <2> SUFFICES ASSUME BoardsInv, NEW s \in {kept} \cup Range(boards), NEW b \in Boards, NEW w \in s.layout[b]
               PROVE  FitsGrid(w)
    BY DEF WidgetsFitGrid
  <2>1. GoodBoards(s, Numbered, created)
    BY BoardsTypes DEF BoardsInv, BoardsOK, Range
  <2> QED
    BY <2>1 DEF GoodBoards
<1> QED
  BY <1>1, BoardsInvHolds, PTL

\* The widgets the user has and the dashboards made are kept, no more and no fewer, unless
\* two tabs had dashboards open or one was closed while it read.
THEOREM WidgetsAreKept == ViewsSpec => []WidgetsSurvive
<1>1. BoardsInv => WidgetsSurvive
  <2> DEFINE Somewhere(s) ==
        /\ Held(s) = wanted /\ s.made = created
        /\ \/ s = kept
           \/ kept = NoBoards
           \/ \E t \in Tabs : view[t] \in Boards /\ phase[t] \in {"loading", "loaded"}
  <2> SUFFICES ASSUME BoardsInv, "boards" \notin disturbed
               PROVE  \E s \in {kept, MockBoards} \cup Range(boards) \cup Range(loaded) : Somewhere(s)
    BY DEF WidgetsSurvive
  <2>1. CASE StoreHolds
    BY <2>1 DEF StoreHolds, Holds
  <2>2. ASSUME NEW t \in Tabs, view[t] \in Boards, ~StoreHolds
        PROVE  \E s \in {kept, MockBoards} \cup Range(boards) \cup Range(loaded) : Somewhere(s)
    <3>1. BoardsSafe(t) /\ ShownAt(t) /\ phase[t] \in Phases \ {"away"}
      BY <2>2, StoreOfViews DEF BoardsInv, WidgetsInv, BoardsOK, TabsTypeOK, Phases
    <3>2. phase[t] \in {"loading", "loaded", "ready"}
      BY <2>2, <3>1 DEF BoardsSafe, ShownAt, Phases
    <3>3. boards[t] \in Range(boards) /\ loaded[t] \in Range(loaded)
      BY BoardsTypes DEF BoardsInv, Range
    <3>4. CASE phase[t] = "loading"
      <4>1. Somewhere(loaded[t])
        BY <2>2, <3>1, <3>4 DEF BoardsSafe, Holds
      <4> QED
        BY <3>3, <4>1
    <3>5. CASE phase[t] = "loaded"
      <4>1. Somewhere(boards[t])
        BY <2>2, <3>1, <3>5 DEF BoardsSafe, Holds
      <4> QED
        BY <3>3, <4>1
    <3>6. CASE phase[t] = "ready"
      <4>1. Somewhere(kept)
        BY <2>2, <3>1, <3>6 DEF BoardsSafe, Holds
      <4> QED
        BY <4>1
    <3> QED
      BY <3>2, <3>4, <3>5, <3>6
  <2> QED
    BY <2>1, <2>2 DEF BoardsInv, WidgetsInv
<1> QED
  BY <1>1, BoardsInvHolds, PTL

-----------------------------------------------------------------------------
(* The tables of the admin application.  The page number stays within the  *)
(* pages there are as long as no row left the filtered list, so that what  *)
(* it shows is the rows of some ranks, and there is a row of every rank.   *)

\* How many rows of list F there are down to row r, and the rows of page p of d rows each.
RankIn(r, F) == Cardinality({q \in F : q.at <= r.at})
Slice(F, p, d) == {r \in F : (p - 1) * d < RankIn(r, F) /\ RankIn(r, F) <= (p - 1) * d + d}

\* In a list there is a row of every rank.
LEMMA RowOfRank ==
  ASSUME NEW F, Listed(F), \A r \in F : r.at \in Int, NEW k \in 1..Cardinality(F)
  PROVE  \E r \in F : RankIn(r, F) = k
<1> DEFINE Down(r) == {q \in F : q.at <= r.at}
           f == [r \in F |-> Cardinality(Down(r))]
<1>1. PICK n \in Nat : n = Cardinality(F)
  BY FS_CardinalityType DEF Listed
<1>2. IsFiniteSet(1..n) /\ Cardinality(1..n) = n
  BY <1>1, FS_Interval
<1>3. ASSUME NEW r \in F
      PROVE  /\ IsFiniteSet(Down(r)) /\ Cardinality(Down(r)) \in 1..n
             /\ \A q \in F : q.at < r.at => Cardinality(Down(q)) < Cardinality(Down(r))
  <2>1. Down(r) \in SUBSET F /\ r \in Down(r) /\ IsFiniteSet(F)
    BY DEF Listed
  <2>2. IsFiniteSet(Down(r)) /\ Cardinality(Down(r)) <= n
    <3> HIDE DEF Down
    <3> QED
      BY <1>1, <2>1, FS_Subset
  <2>3. Cardinality(Down(r)) \in Nat /\ Cardinality(Down(r)) # 0
    <3> HIDE DEF Down
    <3> QED
      BY <2>1, <2>2, FS_CardinalityType, FS_EmptySet
  <2>4. ASSUME NEW q \in F, q.at < r.at PROVE Cardinality(Down(q)) < Cardinality(Down(r))
    <3>1. Down(q) \in SUBSET Down(r) /\ r \notin Down(q)
      BY <2>4
    <3>2. /\ IsFiniteSet(Down(q)) /\ Cardinality(Down(q)) <= Cardinality(Down(r))
          /\ Cardinality(Down(q)) # Cardinality(Down(r))
      <4> HIDE DEF Down
      <4> QED
        BY <2>1, <2>2, <3>1, FS_Subset
    <3>3. Cardinality(Down(q)) \in Nat
      <4> HIDE DEF Down
      <4> QED
        BY <3>2, FS_CardinalityType
    <3> HIDE DEF Down
    <3> QED
      BY <2>3, <3>2, <3>3
  <2>5. Cardinality(Down(r)) \in 1..n
    <3> HIDE DEF Down
    <3> QED
      BY <1>1, <2>2, <2>3
  <2> QED
    BY <2>2, <2>4, <2>5
<1> HIDE DEF Down
<1>4. f \in Injection(F, 1..n)
  <2>1. f \in [F -> 1..n]
    BY <1>3
  <2>2. ASSUME NEW r \in F, NEW q \in F, r # q PROVE f[r] # f[q]
    <3>1. r.at < q.at \/ q.at < r.at
      BY <2>2 DEF Listed
    <3>2. Cardinality(Down(r)) \in Nat /\ Cardinality(Down(q)) \in Nat
      BY <1>1, <1>3
    <3>3. Cardinality(Down(r)) < Cardinality(Down(q)) \/ Cardinality(Down(q)) < Cardinality(Down(r))
      BY <1>3, <3>1
    <3>4. Cardinality(Down(r)) # Cardinality(Down(q))
      BY <3>2, <3>3
    <3> QED
      BY <3>4
  <2> QED
    BY <2>1, <2>2 DEF Injection, IsInjective
<1>5. f \in Surjection(F, 1..n)
  <2> HIDE DEF f
  <2> QED
    BY <1>1, <1>2, <1>4, FS_Injection
<1>6. PICK r \in F : f[r] = k
  BY <1>1, <1>5 DEF Surjection
<1>7. Cardinality(Down(r)) = k
  BY <1>6
<1> QED
  BY <1>7 DEF RankIn, Down

\* Pages of d rows that n rows fill.
PagesFor(n, d) == IF n = 0 THEN 1 ELSE Ceil(n, d)

LEMMA PageBounds ==
  ASSUME NEW n \in Nat, NEW d \in Nat \ {0}
  PROVE  /\ PagesFor(n, d) \in Nat \ {0}
         /\ \A p \in Nat : n # 0 /\ p <= PagesFor(n, d) => (p - 1) * d < n
<1>1. CASE n = 0
  BY <1>1 DEF PagesFor
<1>2. CASE n # 0
  <2>1. PICK c : c = (n + d - 1) \div d /\ c = PagesFor(n, d)
    BY <1>2 DEF PagesFor, Ceil
  <2>2. n \in Nat \ {0}
    BY <1>2
  <2>3. c \in Nat \ {0}
    BY <2>1, <2>2
  <2>4. (c - 1) * d < n
    BY <2>1, <2>2, <2>3
  <2>5. ASSUME NEW p \in Nat, p <= c PROVE (p - 1) * d < n
    <3>1. PICK i \in Int, j \in Int : i = p - 1 /\ j = c - 1 /\ i <= j
      BY <2>3, <2>5
    <3>2. i * d <= j * d
      BY <3>1
    <3>3. j * d < n /\ i * d \in Int /\ j * d \in Int
      BY <2>4, <3>1
    <3>4. i * d < n
      BY <3>2, <3>3
    <3> QED
      BY <3>1, <3>4
  <2> QED
    BY <2>1, <2>3, <2>5
<1> QED
  BY <1>1, <1>2

LEMMA MorePages ==
  ASSUME NEW n \in Nat, NEW m \in Nat, n <= m, NEW d \in Nat \ {0}
  PROVE  PagesFor(n, d) <= PagesFor(m, d)
<1>1. CASE n = 0
  <2>1. PagesFor(m, d) \in Nat \ {0} /\ PagesFor(n, d) = 1
    BY <1>1, PageBounds DEF PagesFor
  <2> QED
    BY <2>1
<1>2. CASE n # 0
  <2>1. n \in Nat \ {0} /\ m # 0
    BY <1>2
  <2>2. (n + d - 1) \div d <= (m + d - 1) \div d
    BY <2>1
  <2> QED
    BY <1>2, <2>1, <2>2 DEF PagesFor, Ceil
<1> QED
  BY <1>1, <1>2

\* A page within the pages of a list that is not empty shows some of it.
LEMMA PageHasRows ==
  ASSUME NEW F, Listed(F), \A r \in F : r.at \in Int, F # {}, NEW d \in Nat \ {0},
         NEW p \in Nat \ {0}, p <= PagesFor(Cardinality(F), d)
  PROVE  Slice(F, p, d) # {}
<1>1. PICK n \in Nat : n = Cardinality(F) /\ n # 0
  BY FS_CardinalityType, FS_EmptySet DEF Listed
<1>2. (p - 1) * d < n
  BY <1>1, PageBounds
<1>3. PICK from \in Nat : from = (p - 1) * d
  <2>1. PICK i \in Nat : i = p - 1
    OBVIOUS
  <2>2. i * d \in Nat
    OBVIOUS
  <2> QED
    BY <2>1, <2>2
<1>4. PICK k \in 1..n : k = from + 1
  BY <1>2, <1>3
<1>5. PICK r \in F : RankIn(r, F) = k
  BY <1>1, RowOfRank
<1>6. from < k /\ k <= from + d
  BY <1>4
<1> QED
  BY <1>3, <1>5, <1>6 DEF Slice

LEMMA SubList ==
  ASSUME NEW L, Listed(L), NEW F, F \subseteq L
  PROVE  Listed(F)
<1>1. IsFiniteSet(F)
  BY FS_Subset DEF Listed
<1> QED
  BY <1>1 DEF Listed

\* A row that takes the place of another leaves a list a list.
LEMMA UpdatedList ==
  ASSUME NEW T, NEW L, L \subseteq T, Listed(L), NEW row \in T
  PROVE  /\ Updated(L, row) \subseteq T /\ Listed(Updated(L, row))
         /\ \A r \in Updated(L, row) : \E q \in L : q.at = r.at
<1> DEFINE new(r) == IF r.at = row.at THEN row ELSE r
<1>1. Updated(L, row) = {new(r) : r \in L}
  BY DEF Updated
<1>2. \A r \in L : new(r) \in T /\ new(r).at = r.at
  OBVIOUS
<1>3. IsFiniteSet({new(r) : r \in L})
  <2>1. [r \in L |-> new(r)] \in Surjection(L, {new(r) : r \in L})
    BY DEF Surjection
  <2> HIDE DEF new
  <2> QED
    BY <2>1, FS_Surjection DEF Listed
<1> HIDE DEF new
<1>4. ASSUME NEW r \in L, NEW q \in L, new(r).at = new(q).at PROVE new(r) = new(q)
  BY <1>2, <1>4 DEF Listed
<1>5. Listed({new(r) : r \in L})
  BY <1>3, <1>4 DEF Listed
<1> QED
  BY <1>1, <1>2, <1>5

LEMMA WithoutList ==
  ASSUME NEW L, Listed(L), NEW row
  PROVE  Without(L, row) \subseteq L /\ Listed(Without(L, row))
<1>1. Without(L, row) \subseteq L
  BY DEF Without
<1> QED
  BY <1>1, SubList

ListsOK ==
  /\ users \subseteq User /\ organizations \subseteq Organization /\ projects \subseteq Project
  /\ Listed(users) /\ Listed(organizations) /\ Listed(projects)
  /\ route \in Tables \cup {"other"}

\* What is shown of the lists.
ShownOK ==
  /\ Listed(Filtered) /\ (\A r \in Filtered : r.at \in Int) /\ Cardinality(Filtered) \in Nat
  /\ TotalPages \in Nat \ {0}
  /\ Filtered # {} => PageSize[route] \in Nat \ {0}
  /\ route \in Tables => TotalPages = PagesFor(Cardinality(Filtered), PageSize[route])
  /\ Filtered # {} => TotalPages = PagesFor(Cardinality(Filtered), PageSize[route])

LEMMA Shown == ListsOK => ShownOK
<1> SUFFICES ASSUME ListsOK PROVE ShownOK
  OBVIOUS
<1>1. \/ Filtered \subseteq users \/ Filtered \subseteq organizations \/ Filtered \subseteq projects
      \/ Filtered = {}
  BY DEF ListsOK, Tables, Filtered, FilteredUsers, FilteredOrgs, FilteredProjects
<1>2. Listed(Filtered) /\ Cardinality(Filtered) \in Nat
  <2>1. Listed({})
    BY FS_EmptySet DEF Listed
  <2>2. Listed(Filtered)
    BY <1>1, <2>1, SubList DEF ListsOK
  <2> QED
    BY <2>2, FS_CardinalityType DEF Listed
<1>3. \A r \in Filtered : r.at \in Int
  <2>1. \A r \in users \cup organizations \cup projects : r.at \in Int
    BY DEF ListsOK, User, Organization, Project
  <2> QED
    BY <1>1, <2>1
<1>4. Filtered = {} \/ route \in Tables
  BY DEF ListsOK, Tables, Filtered
<1>5. TotalPages = PagesFor(Cardinality(Filtered), PageSize[route])
  BY DEF TotalPages, PagesOf, PagesFor
<1>6. route \in Tables => PageSize[route] \in Nat \ {0}
  BY AdminAssumption
<1>7. TotalPages \in Nat \ {0}
  <2>1. CASE route \in Tables
    BY <1>2, <1>5, <1>6, <2>1, PageBounds
  <2>2. CASE Filtered = {}
    <3>1. Cardinality(Filtered) = 0
      BY <2>2, FS_EmptySet
    <3> QED
      BY <3>1 DEF TotalPages, PagesOf
  <2> QED
    BY <1>4, <2>1, <2>2
<1> QED
  BY <1>2, <1>3, <1>4, <1>5, <1>6, <1>7 DEF ShownOK

LEMMA ShownNext == ListsOK' => ShownOK'
BY Shown, PTL

\* What is shown is the rows of some ranks.
LEMMA RowsShown == PageRows = Slice(Filtered, page, PageSize[route])
BY DEF PageRows, Slice, Rank, RankIn

LEMMA RowsShownNext == PageRows' = Slice(Filtered', page', PageSize[route]')
BY DEF PageRows, Slice, Rank, RankIn

\* New users have places before all others.
AdminInv ==
  /\ AdminTypeOK /\ ListsOK
  /\ \A u \in users : u.at + changes > 0
  /\ ~shrunk => page <= TotalPages

LEMMA StartsAdmin == AdminInit => AdminInv
<1> SUFFICES ASSUME AdminInit PROVE AdminInv
  OBVIOUS
<1>1. ListsOK
  BY AdminAssumption DEF AdminInit, ListsOK
<1>2. AdminTypeOK
  <2>1. 1 \in 1..MaxPage /\ 0 \in 0..MaxChanges
    BY AdminAssumption
  <2>2. filters \in [users: UserFilters, organizations: OrgFilters, projects: ProjectFilters]
    BY DEF AdminInit, UserFilters, OrgFilters, ProjectFilters
  <2> QED
    BY <1>1, <2>1, <2>2 DEF AdminInit, AdminTypeOK, ListsOK
<1>3. TotalPages \in Nat \ {0}
  BY <1>1, Shown DEF ShownOK
<1>4. page <= TotalPages
  BY <1>3 DEF AdminInit
<1>5. \A u \in users : u.at + changes > 0
  BY AdminAssumption DEF AdminInit, User
<1> QED
  BY <1>1, <1>2, <1>4, <1>5 DEF AdminInv

\* The page number goes back to one.
LEMMA KeepsFirstPage ==
  ASSUME AdminInv, page' = 1, UNCHANGED <<rows, changes>>, shrunk' = FALSE,
         route' \in Tables \cup {"other"},
         filters' \in [users: UserFilters, organizations: OrgFilters, projects: ProjectFilters]
  PROVE  AdminInv'
<1>1. UNCHANGED <<users, organizations, projects, changes>>
  BY DEF rows
<1>2. ListsOK'
  BY <1>1 DEF AdminInv, ListsOK
<1>3. AdminTypeOK'
  <2>1. page' \in 1..MaxPage
    BY AdminAssumption
  <2> QED
    BY <1>1, <2>1 DEF AdminInv, AdminTypeOK
<1>4. TotalPages' \in Nat \ {0}
  BY <1>2, ShownNext DEF ShownOK
<1>5. page' <= TotalPages'
  BY <1>4
<1> QED
  BY <1>1, <1>2, <1>3, <1>5 DEF AdminInv

\* Rows change and the page number does not.
LEMMA KeepsRows ==
  ASSUME AdminInv, RowsChange, route \in Tables,
         users' \subseteq User, organizations' \subseteq Organization, projects' \subseteq Project,
         Listed(users'), Listed(organizations'), Listed(projects'),
         \A u \in users' : u.at + changes' > 0
  PROVE  AdminInv'
<1>1. /\ changes < MaxChanges /\ changes' = changes + 1 /\ UNCHANGED <<filters, route, page>>
      /\ shrunk' = (shrunk \/ Cardinality(Filtered') < Cardinality(Filtered))
  BY DEF RowsChange
<1>2. ListsOK'
  BY <1>1 DEF AdminInv, ListsOK
<1>3. AdminTypeOK'
  <2>1. changes' \in 0..MaxChanges
    BY <1>1, AdminAssumption DEF AdminInv, AdminTypeOK
  <2>2. shrunk' \in BOOLEAN
    BY <1>1
  <2> QED
    BY <1>1, <1>2, <2>1, <2>2 DEF AdminInv, AdminTypeOK, ListsOK
<1>4. ASSUME ~shrunk' PROVE page' <= TotalPages'
  <2>1. ~shrunk /\ ~(Cardinality(Filtered') < Cardinality(Filtered))
    BY <1>1, <1>4
  <2>2. ShownOK /\ ShownOK'
    BY <1>2, Shown, ShownNext DEF AdminInv
  <2>3. PICK n \in Nat, m \in Nat : n = Cardinality(Filtered) /\ m = Cardinality(Filtered') /\ n <= m
    BY <2>1, <2>2 DEF ShownOK
  <2>4. PICK d \in Nat \ {0} : d = PageSize[route]
    BY AdminAssumption
  <2>5. TotalPages = PagesFor(n, d) /\ TotalPages' = PagesFor(m, d)
    BY <1>1, <2>2, <2>3, <2>4 DEF ShownOK
  <2>6. PagesFor(n, d) <= PagesFor(m, d)
    BY <2>3, MorePages
  <2>7. PICK i \in Nat, j \in Nat : i = TotalPages /\ j = TotalPages' /\ i <= j
    BY <2>2, <2>5, <2>6 DEF ShownOK
  <2>8. PICK p \in Nat : p = page /\ p <= TotalPages
    BY <2>1, AdminAssumption DEF AdminInv, AdminTypeOK
  <2> QED
    BY <1>1, <2>7, <2>8
<1> QED
  BY <1>2, <1>3, <1>4 DEF AdminInv

LEMMA SmallerOf ==
  ASSUME NEW n \in Nat \ {0}, NEW m \in Nat \ {0}
  PROVE  Min({n, m}) \in {n, m} /\ Min({n, m}) \in Nat \ {0} /\ Min({n, m}) <= n /\ Min({n, m}) <= m
<1> DEFINE S == {n, m}
<1>1. \E i \in S : \A j \in S : i <= j
  OBVIOUS
<1>2. Min(S) \in S /\ \A j \in S : Min(S) <= j
  <2> HIDE DEF S
  <2> QED
    BY <1>1 DEF Min
<1> QED
  BY <1>2

\* A page is turned to.
LEMMA KeepsTurn ==
  ASSUME AdminInv, NEW p \in Nat \ {0}, TurnTo(p), ~shrunk => p <= TotalPages
  PROVE  AdminInv'
<1>1. /\ page' = p /\ p <= MaxPage /\ shrunk' = (shrunk /\ p > TotalPages)
      /\ UNCHANGED <<users, organizations, projects, filters, route, changes>>
  BY DEF TurnTo, rows
<1>2. ListsOK'
  BY <1>1 DEF AdminInv, ListsOK
<1>3. AdminTypeOK'
  <2>1. page' \in 1..MaxPage /\ shrunk' \in BOOLEAN
    BY <1>1, AdminAssumption
  <2> QED
    BY <1>1, <2>1 DEF AdminInv, AdminTypeOK
<1>4. TotalPages' = TotalPages /\ TotalPages \in Nat
  <2>1. TotalPages \in Nat
    BY Shown DEF AdminInv, ShownOK
  <2> QED
    BY <1>1, <2>1
    DEF TotalPages, PagesOf, Filtered, FilteredUsers, FilteredOrgs, FilteredProjects
<1>5. ~shrunk' => page' <= TotalPages'
  <2>1. ASSUME ~shrunk' PROVE p <= TotalPages
    <3>1. ~shrunk \/ ~(p > TotalPages)
      BY <1>1, <2>1
    <3> QED
      BY <1>4, <3>1
  <2> QED
    BY <1>1, <1>4, <2>1
<1> QED
  BY <1>1, <1>2, <1>3, <1>5 DEF AdminInv

LEMMA KeepsUsersPage ==
  ASSUME AdminInv, UsersPage
  PROVE  AdminInv'
<1>1. /\ ListsOK /\ AdminTypeOK /\ users \subseteq User /\ organizations \subseteq Organization
      /\ projects \subseteq Project /\ Listed(users) /\ Listed(organizations) /\ Listed(projects)
      /\ changes \in Nat
  BY AdminAssumption DEF AdminInv, ListsOK, AdminTypeOK
<1>2. ASSUME NEW f \in UserFilters, FilterUsers(f) PROVE AdminInv'
  <2>1. /\ page' = 1 /\ shrunk' = FALSE /\ UNCHANGED <<rows, route, changes>>
        /\ filters' = [filters EXCEPT !["users"] = f]
    BY <1>2 DEF FilterUsers, SetFilter, FirstPage
  <2>2. /\ filters' \in [users: UserFilters, organizations: OrgFilters, projects: ProjectFilters]
        /\ route' \in Tables \cup {"other"}
    BY <1>1, <2>1 DEF AdminTypeOK
  <2> QED
    BY <2>1, <2>2, KeepsFirstPage
<1>3. ASSUME RowsChange, route = "users", UNCHANGED <<organizations, projects>>,
             users' \subseteq User, Listed(users'),
             \A u \in users' : u = NewUser(u.org) \/ \E v \in users : v.at = u.at
      PROVE  AdminInv'
  <2>1. changes' = changes + 1
    BY <1>3 DEF RowsChange
  <2>2. \A v \in users : v.at \in Int /\ v.at + changes > 0
    BY <1>1 DEF AdminInv, User
  <2>3. ASSUME NEW u \in users' PROVE u.at + changes' > 0
    <3>1. CASE u = NewUser(u.org)
      <4>1. u.at = 0 - changes
        BY <3>1 DEF NewUser
      <4> QED
        BY <1>1, <2>1, <4>1
    <3>2. CASE \E v \in users : v.at = u.at
      <4>1. u.at \in Int /\ u.at + changes > 0
        BY <2>2, <3>2
      <4> QED
        BY <1>1, <2>1, <4>1
    <3> QED
      BY <1>3, <3>1, <3>2
  <2>4. route \in Tables
    BY <1>3 DEF Tables
  <2> QED
    BY <1>1, <1>3, <2>3, <2>4, KeepsRows
<1>4. ASSUME NEW org \in OrgIds, Invite(org) PROVE AdminInv'
  <2>1. PICK u : u = NewUser(org)
    OBVIOUS
  <2>2. u \in User /\ u.at = 0 - changes /\ u.org = org
    <3>1. PICK i \in Int : i = 0 - changes
      BY <1>1
    <3>2. u = [at |-> i, status |-> "invited", org |-> org]
      BY <2>1, <3>1 DEF NewUser
    <3> QED
      BY <3>1, <3>2 DEF User, Statuses
  <2>3. users' = users \cup {u}
    BY <1>4, <2>1 DEF Invite
  <2>4. \A v \in users : v.at # u.at
    <3>1. ASSUME NEW v \in users PROVE v.at # u.at
      <4>1. v.at \in Int /\ v.at + changes > 0
        BY <1>1 DEF AdminInv, User
      <4> QED
        BY <1>1, <2>2, <4>1
    <3> QED
      BY <3>1
  <2>5. Listed(users')
    <3>1. IsFiniteSet(users')
      BY <1>1, <2>3, FS_AddElement DEF Listed
    <3> QED
      BY <1>1, <2>3, <2>4, <3>1 DEF Listed
  <2>6. \A v \in users' : v = NewUser(v.org) \/ \E w \in users : w.at = v.at
    BY <2>1, <2>2, <2>3
  <2>7. RowsChange /\ route = "users" /\ UNCHANGED <<organizations, projects>>
    BY <1>4 DEF Invite
  <2> QED
    BY <1>1, <1>3, <2>2, <2>3, <2>5, <2>6, <2>7
<1>5. ASSUME NEW u \in users, NEW s \in Statuses, RowsChange, route = "users",
             UNCHANGED <<organizations, projects>>,
             users' = Updated(users, [u EXCEPT !.status = s])
      PROVE  AdminInv'
  <2>1. PICK v : v = [u EXCEPT !.status = s]
    OBVIOUS
  <2>2. v \in User
    BY <1>1, <2>1 DEF User
  <2>3. users' = Updated(users, v)
    BY <1>5, <2>1
  <2>4. /\ users' \subseteq User /\ Listed(users')
        /\ \A w \in users' : \E q \in users : q.at = w.at
    BY <1>1, <2>2, <2>3, UpdatedList
  <2> QED
    BY <1>3, <1>5, <2>4
<1>6. ASSUME NEW u, RemoveUser(u) PROVE AdminInv'
  <2>1. /\ RowsChange /\ route = "users" /\ UNCHANGED <<organizations, projects>>
        /\ users' = Without(users, u)
    BY <1>6 DEF RemoveUser
  <2>2. users' \subseteq users /\ Listed(users')
    BY <1>1, <2>1, WithoutList
  <2> QED
    BY <1>1, <1>3, <2>1, <2>2
<1>7. ASSUME NEW u \in users, Suspend(u) \/ Reactivate(u) PROVE AdminInv'
  <2>1. "suspended" \in Statuses /\ "active" \in Statuses
    BY DEF Statuses
  <2> QED
    BY <1>5, <1>7, <2>1 DEF Suspend, Reactivate
<1>8. TotalPages \in Nat \ {0} /\ page \in Nat \ {0}
  BY <1>1, AdminAssumption, Shown DEF ShownOK, AdminTypeOK
<1>9. CASE UsersPrevious
  <2>1. PICK i \in Nat \ {0}, n \in Nat \ {0} : i = page /\ n = TotalPages
    BY <1>8
  <2>2. i # 1 /\ TurnTo(Max({1, i - 1}))
    BY <1>9, <2>1 DEF UsersPrevious
  <2>3. i - 1 >= 1 /\ i - 1 \in Nat \ {0} /\ i - 1 <= i
    BY <2>1, <2>2
  <2>4. Max({1, i - 1}) = i - 1
    BY <2>3 DEF Max
  <2>5. ~shrunk => i - 1 <= n
    BY <2>1, <2>3 DEF AdminInv
  <2> QED
    BY <2>1, <2>2, <2>3, <2>4, <2>5, KeepsTurn
<1>10. CASE UsersNext
  <2>1. PICK i \in Nat \ {0}, n \in Nat \ {0} : i = page /\ n = TotalPages
    BY <1>8
  <2>2. TurnTo(Min({n, i + 1}))
    BY <1>10, <2>1 DEF UsersNext, NextUsersPage
  <2>3. Min({n, i + 1}) \in Nat \ {0} /\ Min({n, i + 1}) <= n
    <3>1. PICK m \in Nat \ {0} : m = i + 1
      BY <2>1
    <3> QED
      BY <3>1, SmallerOf
  <2> QED
    BY <2>1, <2>2, <2>3, KeepsTurn
<1> QED
  BY <1>2, <1>4, <1>6, <1>7, <1>9, <1>10 DEF UsersPage

\* Previous and Next of the other two tables.
LEMMA KeepsOnePage ==
  ASSUME AdminInv, (page # 1 /\ TurnTo(page - 1)) \/ (page # TotalPages /\ TurnTo(page + 1))
  PROVE  AdminInv'
<1>1. TotalPages \in Nat \ {0} /\ page \in Nat \ {0}
  BY AdminAssumption, Shown DEF AdminInv, ShownOK, AdminTypeOK
<1>2. PICK i \in Nat \ {0}, n \in Nat \ {0} : i = page /\ n = TotalPages
  BY <1>1
<1>3. CASE page # 1 /\ TurnTo(page - 1)
  <2>1. PICK p \in Nat \ {0} : p = i - 1 /\ p <= i
    BY <1>2, <1>3
  <2>2. ~shrunk => p <= n
    BY <1>2, <2>1 DEF AdminInv
  <2>3. TurnTo(p)
    BY <1>2, <1>3, <2>1
  <2> QED
    BY <1>2, <2>2, <2>3, KeepsTurn
<1>4. CASE page # TotalPages /\ TurnTo(page + 1)
  <2>1. PICK p \in Nat \ {0} : p = i + 1
    BY <1>2
  <2>2. ~shrunk => p <= n
    BY <1>2, <1>4, <2>1 DEF AdminInv
  <2>3. TurnTo(p)
    BY <1>2, <1>4, <2>1
  <2> QED
    BY <1>2, <2>2, <2>3, KeepsTurn
<1> QED
  BY <1>3, <1>4

LEMMA KeepsOrganizationsPage ==
  ASSUME AdminInv, OrganizationsPage
  PROVE  AdminInv'
<1>1. /\ ListsOK /\ AdminTypeOK /\ users \subseteq User /\ organizations \subseteq Organization
      /\ projects \subseteq Project /\ Listed(users) /\ Listed(organizations) /\ Listed(projects)
      /\ changes \in Nat /\ \A u \in users : u.at \in Int /\ u.at + changes > 0
  BY AdminAssumption DEF AdminInv, ListsOK, AdminTypeOK, User
<1>2. ASSUME NEW f \in OrgFilters, FilterOrganizations(f) PROVE AdminInv'
  <2>1. /\ page' = 1 /\ shrunk' = FALSE /\ UNCHANGED <<rows, route, changes>>
        /\ filters' = [filters EXCEPT !["organizations"] = f]
    BY <1>2 DEF FilterOrganizations, SetFilter, FirstPage
  <2>2. /\ filters' \in [users: UserFilters, organizations: OrgFilters, projects: ProjectFilters]
        /\ route' \in Tables \cup {"other"}
    BY <1>1, <2>1 DEF AdminTypeOK
  <2> QED
    BY <2>1, <2>2, KeepsFirstPage
<1>3. ASSUME NEW v \in Organization, RowsChange, route = "organizations", UNCHANGED <<users, projects>>,
             organizations' = Updated(organizations, v)
      PROVE  AdminInv'
  <2>1. organizations' \subseteq Organization /\ Listed(organizations')
    BY <1>1, <1>3, UpdatedList
  <2>2. \A u \in users' : u.at + changes' > 0
    BY <1>1, <1>3 DEF RowsChange
  <2>3. route \in Tables
    BY <1>3 DEF Tables
  <2> QED
    BY <1>1, <1>3, <2>1, <2>2, <2>3, KeepsRows
<1>4. ASSUME NEW o \in organizations, ToggleStatus(o) PROVE AdminInv'
  <2>1. PICK s \in OrgStatuses : s = IF o.status = "active" THEN "cancelled" ELSE "active"
    BY DEF OrgStatuses
  <2>2. PICK v : v = [o EXCEPT !.status = s]
    OBVIOUS
  <2>3. v \in Organization
    BY <1>1, <2>2 DEF Organization
  <2>4. organizations' = Updated(organizations, v)
    BY <1>4, <2>1, <2>2 DEF ToggleStatus
  <2> QED
    BY <1>3, <1>4, <2>3, <2>4 DEF ToggleStatus
<1>5. ASSUME NEW o \in organizations, NEW plan \in Plans, ChangePlan(o, plan) PROVE AdminInv'
  <2>1. PICK v : v = [o EXCEPT !.plan = plan]
    OBVIOUS
  <2>2. v \in Organization
    BY <1>1, <2>1 DEF Organization
  <2>3. organizations' = Updated(organizations, v)
    BY <1>5, <2>1 DEF ChangePlan
  <2> QED
    BY <1>3, <1>5, <2>2, <2>3 DEF ChangePlan
<1>6. CASE OrganizationsPrevious \/ OrganizationsNext
  BY <1>6, KeepsOnePage DEF OrganizationsPrevious, OrganizationsNext
<1> QED
  BY <1>2, <1>4, <1>5, <1>6 DEF OrganizationsPage

LEMMA KeepsProjectsPage ==
  ASSUME AdminInv, ProjectsPage
  PROVE  AdminInv'
<1>1. /\ ListsOK /\ AdminTypeOK /\ users \subseteq User /\ organizations \subseteq Organization
      /\ projects \subseteq Project /\ Listed(users) /\ Listed(organizations) /\ Listed(projects)
      /\ changes \in Nat /\ \A u \in users : u.at \in Int /\ u.at + changes > 0
  BY AdminAssumption DEF AdminInv, ListsOK, AdminTypeOK, User
<1>2. ASSUME NEW f \in ProjectFilters, FilterProjects(f) PROVE AdminInv'
  <2>1. /\ page' = 1 /\ shrunk' = FALSE /\ UNCHANGED <<rows, route, changes>>
        /\ filters' = [filters EXCEPT !["projects"] = f]
    BY <1>2 DEF FilterProjects, SetFilter, FirstPage
  <2>2. /\ filters' \in [users: UserFilters, organizations: OrgFilters, projects: ProjectFilters]
        /\ route' \in Tables \cup {"other"}
    BY <1>1, <2>1 DEF AdminTypeOK
  <2> QED
    BY <2>1, <2>2, KeepsFirstPage
<1>3. ASSUME NEW p, RemoveProject(p) PROVE AdminInv'
  <2>1. /\ RowsChange /\ route = "projects" /\ UNCHANGED <<users, organizations>>
        /\ projects' = Without(projects, p)
    BY <1>3 DEF RemoveProject
  <2>2. projects' \subseteq projects /\ Listed(projects')
    BY <1>1, <2>1, WithoutList
  <2>3. \A u \in users' : u.at + changes' > 0
    BY <1>1, <2>1 DEF RowsChange
  <2>4. route \in Tables
    BY <2>1 DEF Tables
  <2> QED
    BY <1>1, <2>1, <2>2, <2>3, <2>4, KeepsRows
<1>4. CASE ProjectsPrevious \/ ProjectsNext
  BY <1>4, KeepsOnePage DEF ProjectsPrevious, ProjectsNext
<1> QED
  BY <1>2, <1>3, <1>4 DEF ProjectsPage

THEOREM AdminInvHolds == AdminSpec => []AdminInv
<1>1. AdminInit => AdminInv
  BY StartsAdmin
<1>2. AdminInv /\ [AdminNext]_adminVars => AdminInv'
  <2> SUFFICES ASSUME AdminInv, [AdminNext]_adminVars PROVE AdminInv'
    OBVIOUS
  <2>1. ASSUME NEW r \in Tables \cup {"other"}, Show(r) PROVE AdminInv'
    <3>1. /\ page' = 1 /\ shrunk' = FALSE /\ UNCHANGED <<rows, filters, changes>>
          /\ route' \in Tables \cup {"other"}
      BY <2>1 DEF Show
    <3>2. filters' \in [users: UserFilters, organizations: OrgFilters, projects: ProjectFilters]
      BY <3>1 DEF AdminInv, AdminTypeOK
    <3> QED
      BY <3>1, <3>2, KeepsFirstPage
  <2>2. CASE UNCHANGED adminVars
    <3>1. UNCHANGED <<users, organizations, projects, filters, route, page, changes, shrunk>>
      BY <2>2 DEF adminVars, rows
    <3>2. TotalPages' = TotalPages
      BY <3>1 DEF TotalPages, PagesOf, Filtered, FilteredUsers, FilteredOrgs, FilteredProjects
    <3> QED
      BY <3>1, <3>2 DEF AdminInv, AdminTypeOK, ListsOK
  <2> QED
    BY <2>1, <2>2, KeepsUsersPage, KeepsOrganizationsPage, KeepsProjectsPage DEF AdminNext
<1> QED
  BY <1>1, <1>2, PTL DEF AdminSpec

\* The lists, the filters and the page number are of their types, whatever is done.
THEOREM AdminTypes == AdminSpec => []AdminTypeOK
<1>1. AdminInv => AdminTypeOK
  BY DEF AdminInv
<1> QED
  BY <1>1, AdminInvHolds, PTL

\* A table that has matching rows shows some, unless rows left the filtered list while a
\* later page was shown, for any rows, page sizes and bounds (the pages of users-page.tsx,
\* organizations-page.tsx and projects-page.tsx).
THEOREM MatchesShown == AdminSpec => []MatchesAreShown
<1>1. AdminInv => MatchesAreShown
  <2> SUFFICES ASSUME AdminInv, ~shrunk, Filtered # {} PROVE PageRows # {}
    BY DEF MatchesAreShown
  <2>1. ShownOK /\ page \in Nat \ {0} /\ page <= TotalPages
    BY AdminAssumption, Shown DEF AdminInv, AdminTypeOK
  <2>2. Slice(Filtered, page, PageSize[route]) # {}
    BY <2>1, PageHasRows DEF ShownOK
  <2> QED
    BY <2>2, RowsShown
<1> QED
  BY <1>1, AdminInvHolds, PTL

\* Next on the users page leads to a page there is and, when users match, to some of them,
\* from however far beyond the last page (the onClick of Next in users-page.tsx).
THEOREM NextLeadsBack == AdminSpec => UsersNextLeadsBack
<1>1. AdminInv /\ [AdminNext]_adminVars
        => [UsersNext => page' <= TotalPages /\ (Filtered # {} => PageRows' # {})]_adminVars
  <2> SUFFICES ASSUME AdminInv, UsersNext
               PROVE  page' <= TotalPages /\ (Filtered # {} => PageRows' # {})
    OBVIOUS
  <2>1. ShownOK /\ page \in Nat \ {0}
    BY AdminAssumption, Shown DEF AdminInv, AdminTypeOK
  <2>2. PICK i \in Nat \ {0}, n \in Nat \ {0}, m \in Nat \ {0} : i = page /\ n = TotalPages /\ m = i + 1
    BY <2>1 DEF ShownOK
  <2>3. /\ page' = Min({n, m})
        /\ UNCHANGED <<users, organizations, projects, filters, route>>
    BY <2>2 DEF UsersNext, NextUsersPage, TurnTo, rows
  <2>4. page' \in Nat \ {0} /\ page' <= n
    BY <2>2, <2>3, SmallerOf
  <2>5. Filtered' = Filtered
    BY <2>3 DEF Filtered, FilteredUsers, FilteredOrgs, FilteredProjects
  <2>6. ASSUME Filtered # {} PROVE PageRows' # {}
    <3>1. PICK p \in Nat \ {0} : p = page' /\ p <= TotalPages
      BY <2>2, <2>4
    <3>2. Slice(Filtered, p, PageSize[route]) # {}
      BY <2>1, <2>6, <3>1, PageHasRows DEF ShownOK
    <3> QED
      BY <2>3, <2>5, <3>1, <3>2, RowsShownNext
  <2> QED
    BY <2>2, <2>4, <2>6
<1> QED
  BY <1>1, AdminInvHolds, PTL DEF AdminSpec, UsersNextLeadsBack
=============================================================================
