----------------------------- MODULE TaskDrafts -----------------------------
(***************************************************************************)
(* Reply drafts (app/services/task_service.py, llm_draft_service.py, the   *)
(* draft part of app/repositories/tasks.py), edited from several browser   *)
(* tabs and from IM chats (/ans, /res and /commit in                       *)
(* app/services/connection_service.py), while the task may be answered,    *)
(* claimed or ended by others.                                             *)
(*                                                                         *)
(* A request has two steps: it reads the task, and the draft it names, and *)
(* checks them; then it writes in one transaction.  The read leaves no     *)
(* transaction open, and begin_immediate_if_sqlite does nothing in a       *)
(* session that has read already, so anything may happen in between.       *)
(* Generating a draft has an upstream call there, and takes the write lock *)
(* after it.                                                               *)
(***************************************************************************)
EXTENDS TaskRepository

CONSTANTS
  Chats,          \* the submitters that are IM chats; the others are tabs
  NoDraft,        \* an id that no row has
  NoView,         \* a tab that shows no task
  MaxDrafts,      \* bound: draft ids
  MaxEdits        \* bound: texts written

ASSUME ChatsType == Chats \subseteq Submitters
ASSUME DraftBoundsType == MaxDrafts \in Nat /\ MaxEdits \in Nat

VARIABLES
  drafts,         \* [DraftIds -> task_drafts row or NoDraft]
  lastId,         \* history: the greatest id ever given
  reused,         \* history: an id was given a second time
  edits,          \* texts written so far: each has a number of its own
  view,           \* [Submitters -> the task and draft it read last, or NoView]
  request,        \* [Submitters -> the request in progress]
  checked         \* [Submitters -> what that request read]

idVars    == <<lastId, reused>>
draftVars == <<drafts, idVars, edits>>
tabVars   == <<view, request, checked>>
vars      == <<userVars, rowVars, draftVars, tabVars>>

DraftIds == 1 .. MaxDrafts
NoId     == 0

\* A text is told apart by the task it was written for and its number.
Texts == [about : Tasks, edit : 1 .. MaxEdits]

Drafts == [task : Tasks, source : {"manual", "llm"}, state : {"editing", "submitted"},
           version : Nat \ {0}, text : Texts]

TabRequests  == {"save", "update", "delete", "submit"}
ChatRequests == {"stage", "commit"}
Requests     == TabRequests \cup ChatRequests \cup {"generate", "none"}

Live      == {d \in DraftIds : drafts[d] # NoDraft}
Editing   == {d \in Live : drafts[d].state = "editing"}

-----------------------------------------------------------------------------
(* task_drafts.                                                            *)

NewestId == CHOOSE n \in Live : \A d \in Live : d <= n

\* INTEGER PRIMARY KEY without AUTOINCREMENT: SQLite gives the greatest id in the
\* table plus one, so the id of the newest row, once it is deleted, is given again.
NewId == 1 + IF Live = {} THEN 0 ELSE NewestId

NewText(t) == [about |-> t, edit |-> edits + 1]

CanWrite == edits < MaxEdits

\* Mutant: without the partial index uq_task_drafts_active_per_task.
MutInsertMatches(t) == TRUE

InsertMatches(t) == \A d \in Editing : drafts[d].task # t

InsertSets(t, source, number) ==
  /\ NewId \in DraftIds
  /\ drafts' = [drafts EXCEPT ![NewId] =
                  [task |-> t, source |-> source, state |-> "editing", version |-> number,
                   text |-> NewText(t)]]
  /\ lastId' = IF NewId > lastId THEN NewId ELSE lastId
  /\ reused' = (reused \/ NewId <= lastId)
  /\ edits' = edits + 1

\* A new text, written for task t, in row d, with the version that is written.
Rewrites(d, t, number) ==
  /\ drafts' = [drafts EXCEPT ![d].text = NewText(t), ![d].version = number]
  /\ edits' = edits + 1
  /\ UNCHANGED idVars

TextSets(d, t) == Rewrites(d, t, drafts[d].version + 1)

\* The rows of update_active_draft_fields: no version is compared.
SaveMatches(t) == {d \in Editing : drafts[d].task = t}

\* get_active_draft.
ActiveDraft(t) ==
  IF SaveMatches(t) = {} THEN NoId ELSE CHOOSE d \in SaveMatches(t) : TRUE

UpdateMatches(d, expected) == d \in Editing /\ drafts[d].version = expected

\* Mutant: any LLM draft of the owner.
MutLlmDrafts(t) == {d \in Editing : drafts[d].source = "llm"}

LlmDrafts(t) == {d \in Editing : drafts[d].task = t /\ drafts[d].source = "llm"}

-----------------------------------------------------------------------------
(* A tab.                                                                  *)

Shows(t, d) ==
  [task |-> t, draft |-> d,
   version |-> IF d = NoId THEN 0 ELSE drafts[d].version,
   text    |-> IF d = NoId THEN [about |-> t, edit |-> 0] ELSE drafts[d].text]

\* The answer to a write: the row as it is now.
ShowsWritten(p, d) ==
  view' = [view EXCEPT ![p].draft = d, ![p].version = drafts'[d].version,
                       ![p].text = drafts'[d].text]

NotChecked == [version |-> 0, target |-> NoId]

Busy(p, kind) == view[p] # NoView /\ request[p] = kind

\* The request is over, and a chat keeps nothing of what it read.
Answered(p) ==
  /\ request' = [request EXCEPT ![p] = "none"]
  /\ checked' = [checked EXCEPT ![p] = NotChecked]

Forgets(p) == view' = IF p \in Chats THEN [view EXCEPT ![p] = NoView] ELSE view

\* GET of the task's details, with its active draft.
OpenTask(p, t) ==
  /\ p \notin Chats
  /\ request[p] = "none"
  /\ view' = [view EXCEPT ![p] = Shows(t, ActiveDraft(t))]
  /\ UNCHANGED <<userVars, rowVars, draftVars, request, checked>>

\* _assert_writable and the checks on the draft named in the path.
Check(p, kind) ==
  /\ p \notin Chats
  /\ Busy(p, "none")
  /\ LET t == view[p].task
         d == view[p].draft
     IN  /\ state[t] = "waiting_human"
         /\ kind \in {"update", "delete"} => d \in Editing /\ drafts[d].task = t
         /\ checked' = [checked EXCEPT ![p] = [version |-> version[t], target |-> NoId]]
  /\ request' = [request EXCEPT ![p] = kind]
  /\ UNCHANGED <<userVars, rowVars, draftVars, view>>

\* generate() up to the upstream call, which no transaction spans: the LLM draft
\* to merge into is remembered by its id.
StartGenerate(p) ==
  /\ p \notin Chats
  /\ Busy(p, "none")
  /\ LET t == view[p].task
     IN  /\ state[t] = "waiting_human"
         /\ checked' = [checked EXCEPT ![p] =
              [version |-> version[t],
               target  |-> IF LlmDrafts(t) # {}
                             THEN CHOOSE x \in LlmDrafts(t) : TRUE ELSE NoId]]
  /\ request' = [request EXCEPT ![p] = "generate"]
  /\ UNCHANGED <<userVars, rowVars, draftVars, view>>

\* The upsert.
SaveDraft(p) ==
  /\ Busy(p, "save")
  /\ CanWrite
  /\ LET t == view[p].task
     IN  IF SaveMatches(t) # {}
           THEN \E d \in SaveMatches(t) : TextSets(d, t) /\ ShowsWritten(p, d)
           ELSE InsertSets(t, "manual", 1) /\ ShowsWritten(p, NewId)
  /\ Answered(p)
  /\ UNCHANGED <<userVars, rowVars>>

UpdateDraft(p) ==
  /\ Busy(p, "update")
  /\ CanWrite
  /\ LET d == view[p].draft
     IN  IF UpdateMatches(d, view[p].version)
           THEN TextSets(d, view[p].task) /\ ShowsWritten(p, d)
           ELSE UNCHANGED <<draftVars, view>>
  /\ Answered(p)
  /\ UNCHANGED <<userVars, rowVars>>

\* session.delete: DELETE by id, whatever the row has become.
DeleteDraft(p) ==
  /\ Busy(p, "delete")
  /\ drafts' = [drafts EXCEPT ![view[p].draft] = NoDraft]
  /\ view' = [view EXCEPT ![p] = Shows(view[p].task, NoId)]
  /\ Answered(p)
  /\ UNCHANGED <<userVars, rowVars, idVars, edits>>

\* Mutant: the version is taken away.
MutMarkSubmitted(d) ==
  drafts' = IF d \in Editing
              THEN [drafts EXCEPT ![d].state = "submitted", ![d].version = @ - 1]
              ELSE drafts

\* mark_draft_state.
MarkSubmitted(d) ==
  drafts' = IF d \in Editing
              THEN [drafts EXCEPT ![d].state = "submitted", ![d].version = @ + 1]
              ELSE drafts

\* source_draft_id: none, or any id.  It is compared with nothing, and the console
\* may send the draft it generated for the task it showed before.
NamedDrafts == DraftIds \cup {NoId}

\* Mutant: the draft is marked although the reply came too late.
MutSubmitReply(p) ==
  /\ Busy(p, "submit")
  /\ LET t == view[p].task
     IN  /\ IF FirstReplyMatches(t, checked[p].version)
              THEN FirstReplySets(t, p) ELSE UNCHANGED rowVars
         /\ \E d \in NamedDrafts : MarkSubmitted(d)
  /\ Answered(p)
  /\ UNCHANGED <<userVars, idVars, edits, view>>

\* The draft that the submission names is marked with the reply, whatever task it
\* is of.
SubmitReply(p) ==
  /\ Busy(p, "submit")
  /\ LET t == view[p].task
     IN  IF FirstReplyMatches(t, checked[p].version)
           THEN /\ FirstReplySets(t, p)
                /\ \E d \in NamedDrafts : MarkSubmitted(d)
           ELSE UNCHANGED <<rowVars, drafts>>
  /\ Answered(p)
  /\ UNCHANGED <<userVars, idVars, edits, view>>

\* After the upstream call: the task must still wait; the row found before the
\* call is merged into if it is still being edited, else a row is inserted, which
\* the unique index refuses when a manual draft exists.
GenerateDraft(p) ==
  /\ Busy(p, "generate")
  /\ CanWrite
  /\ LET t == view[p].task
         d == checked[p].target
     IN  /\ state[t] = "waiting_human"
         /\ IF d \in Editing
              THEN TextSets(d, t) /\ ShowsWritten(p, d)
              ELSE /\ InsertMatches(t)
                   /\ InsertSets(t, "llm", 1)
                   /\ ShowsWritten(p, NewId)
  /\ Answered(p)
  /\ UNCHANGED <<userVars, rowVars>>

\* A chat message: the task it names may be in any state, /commit needs a draft.
\* Storing the receipt releases an outermost SAVEPOINT, which is a commit, so the
\* message is not handled under the write lock.
ReadDraft(p, t, kind) ==
  /\ p \in Chats
  /\ request[p] = "none"
  /\ kind = "commit" => ActiveDraft(t) # NoId
  /\ view' = [view EXCEPT ![p] = Shows(t, ActiveDraft(t))]
  /\ checked' = [checked EXCEPT ![p] = [version |-> version[t], target |-> NoId]]
  /\ request' = [request EXCEPT ![p] = kind]
  /\ UNCHANGED <<userVars, rowVars, draftVars>>

\* /ans and /res: the row that was read is written back by its id, with its
\* version as read plus one; a new row is inserted and then changed.
StageDraft(p) ==
  /\ Busy(p, "stage")
  /\ CanWrite
  /\ LET t == view[p].task
         d == view[p].draft
     IN  \/ d = NoId /\ InsertMatches(t) /\ InsertSets(t, "manual", 2)
         \/ d \in Live /\ Rewrites(d, t, view[p].version + 1)
  /\ Answered(p)
  /\ Forgets(p)
  /\ UNCHANGED <<userVars, rowVars>>

CommitDraft(p) ==
  /\ Busy(p, "commit")
  /\ LET t == view[p].task
     IN  IF FirstReplyMatches(t, checked[p].version)
           THEN FirstReplySets(t, p) /\ MarkSubmitted(view[p].draft)
           ELSE UNCHANGED <<rowVars, drafts>>
  /\ Answered(p)
  /\ Forgets(p)
  /\ UNCHANGED <<userVars, idVars, edits>>

\* Any request may end in an error before it writes.
RequestFails(p) ==
  /\ request[p] # "none"
  /\ Answered(p)
  /\ Forgets(p)
  /\ UNCHANGED <<userVars, rowVars, draftVars>>

\* The rest of the system takes the task away: see TaskLifecycle.
TaskEnds(t) ==
  /\ FinalizeMatches(t, TaskState)
  /\ TerminalValues({t}, "cancelled")
  /\ ReleaseSlots({t})
  /\ UNCHANGED <<isActive, draftVars, tabVars>>

-----------------------------------------------------------------------------
\* Tasks that were admitted and are waiting, without drafts.
Init ==
  /\ isActive        = [u \in Users |-> TRUE]
  /\ activeTaskCount = [u \in Users |-> Cardinality({t \in Tasks : Owner[t] = u})]
  /\ state    = [t \in Tasks |-> "waiting_human"]
  /\ version  = [t \in Tasks |-> 1]
  /\ slotHeld = [t \in Tasks |-> TRUE]
  /\ reply    = [t \in Tasks |-> NoReply]
  /\ age      = [t \in Tasks |-> Fresh]
  /\ drafts   = [d \in DraftIds |-> NoDraft]
  /\ lastId   = 0
  /\ reused   = FALSE
  /\ edits    = 0
  /\ view     = [p \in Submitters |-> NoView]
  /\ request  = [p \in Submitters |-> "none"]
  /\ checked  = [p \in Submitters |-> NotChecked]

Next ==
  \/ \E p \in Submitters, t \in Tasks : OpenTask(p, t)
  \/ \E p \in Submitters, kind \in TabRequests : Check(p, kind)
  \/ \E p \in Submitters : StartGenerate(p)
  \/ \E p \in Chats, t \in Tasks, kind \in ChatRequests : ReadDraft(p, t, kind)
  \/ \E p \in Submitters :
       \/ SaveDraft(p) \/ UpdateDraft(p) \/ DeleteDraft(p) \/ SubmitReply(p)
       \/ GenerateDraft(p) \/ StageDraft(p) \/ CommitDraft(p) \/ RequestFails(p)
  \/ \E t \in Tasks : TaskEnds(t)

Spec == Init /\ [][Next]_vars

-----------------------------------------------------------------------------
(* Properties.                                                             *)

Views ==
  [task : Tasks, draft : DraftIds \cup {NoId}, version : Nat,
   text : [about : Tasks, edit : 0 .. MaxEdits]]

\* Rows, views and requests keep their types.
DraftsTypeOK ==
  /\ RepositoryTypeOK
  /\ drafts  \in [DraftIds -> Drafts \cup {NoDraft}]
  /\ lastId  \in 0 .. MaxDrafts
  /\ reused  \in BOOLEAN
  /\ edits   \in 0 .. MaxEdits
  /\ view    \in [Submitters -> Views \cup {NoView}]
  /\ request \in [Submitters -> Requests]
  /\ checked \in [Submitters -> [version : Nat, target : DraftIds \cup {NoId}]]

\* However saves and generations overlap, a task has one draft being edited: the
\* editor restores one, and generate reads at most one (scalar_one_or_none).
OneEditingDraft ==
  \A d, e \in Editing : drafts[d].task = drafts[e].task => d = e

\* However submissions race with each other, with chats and with the end of the
\* task, an answer takes one draft at most out of the editors, and a submission that
\* came too late takes none (submit_reply marks a draft in the transaction in which
\* the reply wins; its id may name any draft).
OneDraftPerReply ==
  Cardinality(Live \ Editing) <= Cardinality({t \in Tasks : reply[t] # NoReply})

\* A generated or saved text is in a draft of the task it was written for, although
\* generate holds only the row's id during its upstream call.
TextStaysWithItsTask ==
  \A d \in Live : drafts[d].text.about = drafts[d].task

\* So it is as long as no id was given twice.
TextStaysUntilReuse == ~reused => TextStaysWithItsTask
=============================================================================
