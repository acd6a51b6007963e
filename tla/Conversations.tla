---------------------------- MODULE Conversations ----------------------------
(***************************************************************************)
(* One conversation of a user with the chatbot                             *)
(* (src/conversations/conversations.service.ts): messages, references to   *)
(* tasks and a title that the first message gives.  A call takes one       *)
(* statement at a time; update loads the conversation with its messages    *)
(* and references and saves what it loaded.                                *)
(***************************************************************************)
EXTENDS Naturals

CONSTANTS
  Task,     \* tasks that may be referred to
  Call,     \* calls at once
  MaxCalls  \* bound: calls ever made

VARIABLES
  there,    \* whether the conversation is there
  title,
  messages, \* conversation_messages: the number of the call that added each
  refs,     \* conversation_task_contexts: the number of the call, and the task
  call,     \* a call: where it is, its body, its number and what it loaded
  calls,    \* calls so far
  kept,     \* for the properties: messages whose call was answered,
  given,    \* ... the title of the last call that was answered and gave one,
  asked,    \* ... the references that were sent last,
  gone,     \* ... whether a removal was answered,
  crossed   \* ... and whether two calls were under way at once, or one was cut off

vars == <<there, title, messages, refs, call, calls, kept, given, asked, gone, crossed>>

NewTitle   == "New conversation"
FirstTitle == "first message" \* formatTitleFromMessageContent
Nothing  == [pc |-> "idle"]
UnderWay == { c \in Call : call[c].pc # "idle" }

\* Messages of the user and of others; updates; and a removal.
Body ==
  { [op |-> "addMessage", user |-> u] : u \in BOOLEAN } \cup
  { [op |-> "update", title |-> t, refs |-> r] :
      t \in {<< >>, <<"given">>}, r \in {<< >>} \cup { <<ts>> : ts \in SUBSET Task } } \cup
  { [op |-> "remove"] }

Init ==
  /\ there = TRUE /\ title = NewTitle
  /\ messages = {} /\ refs = {}
  /\ call = [c \in Call |-> Nothing] /\ calls = 0
  /\ kept = {} /\ given = NewTitle /\ asked = {}
  /\ gone = FALSE /\ crossed = FALSE

Take(c, r)  == call' = [call EXCEPT ![c] = r]
Goto(c, to) == call' = [call EXCEPT ![c].pc = to]
Done(c)     == Take(c, Nothing)

-----------------------------------------------------------------------------
Start(c) ==
  /\ call[c].pc = "idle" /\ calls < MaxCalls
  /\ calls' = calls + 1
  /\ \E b \in Body : Take(c, [pc |-> "find", body |-> b, number |-> calls'])
  /\ crossed' = (crossed \/ UnderWay # {})
  /\ UNCHANGED <<there, title, messages, refs, kept, given, asked, gone>>

findOwnedConversation(c) ==
  LET k  == call[c]
      at == CASE k.body.op = "addMessage" -> "insert"
              [] k.body.op = "update" -> IF k.body.refs = << >> THEN "save" ELSE "delete refs"
              [] k.body.op = "remove" -> "remove"
  IN
    /\ k.pc = "find"
    /\ IF there
       THEN Take(c, [pc |-> at, body |-> k.body, number |-> k.number, title |-> title,
                     messages |-> messages, refs |-> refs])
       ELSE Done(c)
    /\ UNCHANGED <<there, title, messages, refs, calls, kept, given, asked, gone, crossed>>

-----------------------------------------------------------------------------
(* addMessage                                                              *)

\* The row refers to the conversation.
InsertMessage(c) ==
  LET k == call[c] IN
    /\ k.pc = "insert"
    /\ messages' = IF there THEN messages \cup {k.number} ELSE messages
    /\ kept' = IF there /\ ~k.body.user THEN kept \cup {k.number} ELSE kept
    /\ IF there /\ k.body.user THEN Goto(c, "title") ELSE Done(c)
    /\ UNCHANGED <<there, title, refs, calls, given, asked, gone, crossed>>

\* Mutant: whatever the title is.
AnyTitle(t) == TRUE

IsNewTitle(t) == t = NewTitle

\* maybeUpdateTitleFromFirstMessage, up to the save
FindTitle(c) ==
  LET k == call[c] IN
    /\ k.pc = "title"
    /\ IF there /\ IsNewTitle(title)
       THEN Goto(c, "save title") /\ UNCHANGED kept
       ELSE Done(c) /\ kept' = kept \cup {k.number}
    /\ UNCHANGED <<there, title, messages, refs, calls, given, asked, gone, crossed>>

\* ... and the save, which inserts a conversation that is gone.
SaveTitle(c) ==
  LET k == call[c] IN
    /\ k.pc = "save title"
    /\ there' = TRUE
    /\ title' = FirstTitle
    /\ kept' = kept \cup {k.number}
    /\ Done(c)
    /\ UNCHANGED <<messages, refs, calls, given, asked, gone, crossed>>

-----------------------------------------------------------------------------
(* update, and syncTaskRefs                                                *)

DeleteRefs(c) ==
  LET k == call[c] IN
    /\ k.pc = "delete refs"
    /\ refs' = {}
    /\ asked' = k.body.refs[1]
    /\ Goto(c, IF k.body.refs[1] = {} THEN "save" ELSE "insert refs")
    /\ UNCHANGED <<there, title, messages, calls, kept, given, gone, crossed>>

InsertRefs(c) ==
  LET k == call[c] IN
    /\ k.pc = "insert refs"
    /\ refs' = IF there THEN refs \cup ({k.number} \X k.body.refs[1]) ELSE refs
    /\ IF there THEN Goto(c, "save") ELSE Done(c)
    /\ UNCHANGED <<there, title, messages, calls, kept, given, asked, gone, crossed>>

\* Mutant: rows that were not loaded are deleted.
DeleteOrphans(c) ==
  LET k == call[c] IN
    /\ k.pc = "save"
    /\ there' = TRUE
    /\ messages' = messages \cap k.messages
    /\ refs' = IF k.body.refs = << >> THEN refs \cap k.refs ELSE refs
    /\ title' = IF k.body.title = << >> THEN k.title ELSE k.body.title[1]
    /\ given' = IF k.body.title = << >> THEN given ELSE k.body.title[1]
    /\ Done(c)
    /\ UNCHANGED <<calls, kept, asked, gone, crossed>>

\* save(conversation) takes the messages and references of the row that were
\* not loaded for removed from it, and sets their conversation_id to NULL: the
\* column refuses, and nothing of the save is done.  A conversation that is
\* gone is inserted.
SaveConversation(c) ==
  LET k == call[c] IN
    /\ k.pc = "save"
    /\ IF messages \subseteq k.messages /\ refs \subseteq k.refs
       THEN /\ there' = TRUE
            /\ title' = IF k.body.title = << >> THEN k.title ELSE k.body.title[1]
            /\ given' = IF k.body.title = << >> THEN given ELSE k.body.title[1]
       ELSE UNCHANGED <<there, title, given>>
    /\ Done(c)
    /\ UNCHANGED <<messages, refs, calls, kept, asked, gone, crossed>>

-----------------------------------------------------------------------------
\* Messages and references go with the conversation.
RemoveConversation(c) ==
  /\ call[c].pc = "remove"
  /\ there' = FALSE /\ title' = NewTitle
  /\ messages' = {} /\ refs' = {}
  /\ kept' = {} /\ asked' = {} /\ gone' = TRUE
  /\ Done(c)
  /\ UNCHANGED <<calls, given, crossed>>

\* The process stops in the middle of calls.
Restart ==
  /\ UnderWay # {}
  /\ call' = [c \in Call |-> Nothing]
  /\ crossed' = TRUE
  /\ UNCHANGED <<there, title, messages, refs, calls, kept, given, asked, gone>>

Next ==
  \/ \E c \in Call :
       \/ Start(c) \/ findOwnedConversation(c)
       \/ InsertMessage(c) \/ FindTitle(c) \/ SaveTitle(c)
       \/ DeleteRefs(c) \/ InsertRefs(c) \/ SaveConversation(c)
       \/ RemoveConversation(c)
  \/ Restart

Spec == Init /\ [][Next]_vars
-----------------------------------------------------------------------------
(* Properties                                                              *)

\* A message whose call was answered stays, whatever updates were under way
\* with an older list of messages.
MessagesKept == there /\ ~gone => kept \subseteq messages

\* With one call at a time, a title that the user gave is not replaced by that
\* of a message, the references are those that were sent last, and a
\* conversation that was removed stays so.
OneCallAtATime ==
  ~crossed =>
    /\ there /\ given # NewTitle => title = given
    /\ there /\ (\A c \in UnderWay : call[c].body.op # "update") => { r[2] : r \in refs } = asked
    /\ gone => ~there
=============================================================================
