------------------------------- MODULE Assist -------------------------------
(***************************************************************************)
(* Logify Assist in the web application (apps/web): the conversations of   *)
(* lib/assist/assist-store.tsx, the header that switches between them and  *)
(* the composer that asks.  A reply is made up after a delay and belongs   *)
(* to the conversation that was active when its question was asked.        *)
(*                                                                         *)
(* A question stands for its text, a reply for the question it answers.    *)
(* Titles, the context and the welcome card are left out.                  *)
(*                                                                         *)
(* Where two definitions of one thing stand together, such as              *)
(* WheneverTyped and MaySubmit, the first is a plausible slip that no      *)
(* specification uses: it is put in the place of the second to see that a  *)
(* property notices.                                                       *)
(***************************************************************************)
EXTENDS SavedState

VARIABLES
  storedChats, \* localStorage: the conversations, or NoChat
  chat,       \* React state of a tab: conversations and the active one
  read,       \* what the tab read and will be rendered with, or NoChat
  thinking,   \* React state of a tab: isThinking
  pending,    \* the reply a tab's timer will give: conversation and question, a set
  made,       \* number of conversations made
  asked       \* number of questions asked

assistVars == <<storedChats, chat, read, thinking, pending, made, asked>>

MaxConvs == MaxMounts + MaxEdits
NoChat == [convs |-> <<>>, active |-> 0]

Conv == [id: 1..MaxConvs, msgs: Seq([who: {"user", "assistant"}, q: 1..MaxEdits])]
Chat == [convs: Seq(Conv), active: 0..MaxConvs]
Reply == [conv: 1..MaxConvs, q: 1..MaxEdits]

AssistTypeOK ==
  /\ storedChats \in Chat
  /\ chat \in [Tabs -> Chat] /\ read \in [Tabs -> Chat]
  /\ thinking \in [Tabs -> BOOLEAN] /\ pending \in [Tabs -> SUBSET Reply]
  /\ made \in 0..MaxConvs /\ asked \in 0..MaxEdits

AssistInit ==
  /\ storedChats = NoChat
  /\ chat = [t \in Tabs |-> NoChat] /\ read = [t \in Tabs |-> NoChat]
  /\ thinking = [t \in Tabs |-> FALSE] /\ pending = [t \in Tabs |-> {}]
  /\ made = 0 /\ asked = 0

Ids(c) == {k.id : k \in Range(c.convs)}

\* defaultConversation
DefaultConversation(id) == [id |-> id, msgs |-> <<>>]

-----------------------------------------------------------------------------
(* The provider.                                                           *)

OpenAssist(t) ==
  /\ MountView(t, "assist")
  /\ made' = made + 1
  /\ chat' = [chat EXCEPT ![t] = [convs |-> <<DefaultConversation(made')>>, active |-> made']]
  /\ UNCHANGED <<storedChats, read, thinking, pending, asked>>

LoadAfterSave(t) == chat[t]
\* loadState
LoadState(t) == storedChats

\* The two effects: what is stored is read, then the initial state is stored.
AssistEffects(t) ==
  /\ view[t] = "assist" /\ phase[t] = "fresh"
  /\ read' = [read EXCEPT ![t] = LoadState(t)]
  /\ storedChats' = chat[t]
  /\ GoesTo(t, IF LoadState(t).convs # <<>> THEN "loading" ELSE "ready")
  /\ UNCHANGED <<chat, thinking, pending, made, asked>>

\* setConversations and setActiveId with what was read
ShowRead(t) ==
  /\ view[t] = "assist" /\ phase[t] = "loading"
  /\ chat' = [chat EXCEPT ![t] =
       [convs |-> read[t].convs,
        active |-> IF read[t].active \in Ids(read[t]) THEN read[t].active
                   ELSE Head(read[t].convs).id]]
  /\ read' = [read EXCEPT ![t] = NoChat]
  /\ GoesTo(t, "loaded")
  /\ UNCHANGED <<storedChats, thinking, pending, made, asked>>

SaveChat(t) ==
  /\ view[t] = "assist" /\ phase[t] \in {"loaded", "unsaved"}
  /\ storedChats' = chat[t]
  /\ GoesTo(t, "ready")
  /\ UNCHANGED <<chat, read, thinking, pending, made, asked>>

\* The timer of a provider that is gone changes nothing.
LeaveAssist(t) ==
  /\ view[t] = "assist" /\ UnmountView(t) /\ UNCHANGED edits
  /\ chat' = [chat EXCEPT ![t] = NoChat] /\ read' = [read EXCEPT ![t] = NoChat]
  /\ thinking' = [thinking EXCEPT ![t] = FALSE] /\ pending' = [pending EXCEPT ![t] = {}]
  /\ UNCHANGED <<storedChats, made, asked>>

-----------------------------------------------------------------------------
(* The user.  The effect of what a click changed is done with it.          *)

Keep(t, c) == chat' = [chat EXCEPT ![t] = c] /\ storedChats' = c

NewConversation(t) ==
  /\ Ready(t, "assist") /\ Edit
  /\ made' = made + 1
  /\ Keep(t, [convs |-> <<DefaultConversation(made')>> \o chat[t].convs, active |-> made'])
  /\ UNCHANGED <<showing, read, thinking, pending, asked>>

SelectConversation(t, id) ==
  /\ Ready(t, "assist") /\ id \in Ids(chat[t])
  /\ Keep(t, [chat[t] EXCEPT !.active = id])
  /\ UNCHANGED <<tabVars, read, thinking, pending, made, asked>>

\* A message is added to one conversation, wherever it is in the list.
Add(c, id, m) ==
  [c EXCEPT !.convs = [i \in DOMAIN c.convs |->
     IF c.convs[i].id = id THEN [c.convs[i] EXCEPT !.msgs = Append(@, m)] ELSE c.convs[i]]]

WheneverTyped(t) == TRUE
\* submit
MaySubmit(t) == ~thinking[t]

\* sendMessage up to its delay
SendMessage(t) ==
  /\ Ready(t, "assist") /\ MaySubmit(t) /\ Edit
  /\ asked' = asked + 1
  /\ Keep(t, Add(chat[t], chat[t].active, [who |-> "user", q |-> asked']))
  /\ thinking' = [thinking EXCEPT ![t] = TRUE]
  /\ pending' = [pending EXCEPT ![t] = @ \cup {[conv |-> chat[t].active, q |-> asked']}]
  /\ UNCHANGED <<showing, read, made>>

\* The rest of sendMessage: the reply goes to the conversation it was asked in.
Replies(t) ==
  \E r \in pending[t] :
    /\ pending' = [pending EXCEPT ![t] = @ \ {r}]
    /\ chat' = [chat EXCEPT ![t] = Add(@, r.conv, [who |-> "assistant", q |-> r.q])]
    /\ thinking' = [thinking EXCEPT ![t] = FALSE]
    /\ GoesTo(t, "unsaved")
    /\ UNCHANGED <<storedChats, read, made, asked>>

-----------------------------------------------------------------------------
AssistUser(t) ==
  \/ NewConversation(t) \/ SendMessage(t)
  \/ \E id \in 1..MaxConvs : SelectConversation(t, id)

AssistReact(t) == AssistEffects(t) \/ ShowRead(t) \/ SaveChat(t)

-----------------------------------------------------------------------------
(* Properties.                                                             *)

Chats == {storedChats} \cup Range(chat) \cup Range(read)
QuestionsOf(c) ==
  {q \in 1..asked : \E k \in Range(c.convs) : [who |-> "user", q |-> q] \in Range(k.msgs)}

\* In every conversation, shown or stored, a reply comes right after the question it
\* answers, whatever was selected, made or asked while it was on its way (sendMessage).
RepliesFollowQuestions ==
  \A c \in Chats : \A k \in Range(c.convs) : \A i \in DOMAIN k.msgs :
    k.msgs[i].who = "assistant" =>
      i > 1 /\ k.msgs[i - 1] = [who |-> "user", q |-> k.msgs[i].q]

\* No question is lost, unless two tabs had Assist open or a tab was closed between the
\* two effects and the rendering with what was read: until then what is stored is the
\* initial state (the effects of AssistStoreProvider).
QuestionsSurvive ==
  "assist" \notin disturbed =>
    \A q \in 1..asked :
      \/ q \in QuestionsOf(storedChats)
      \/ \E t \in Tabs : q \in QuestionsOf(read[t]) \cup QuestionsOf(chat[t])
=============================================================================
