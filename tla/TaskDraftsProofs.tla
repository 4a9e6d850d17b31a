-------------------------- MODULE TaskDraftsProofs --------------------------
(***************************************************************************)
(* Theorems about TaskDrafts, for every set of users, tasks, tabs and      *)
(* chats and every value of the bounds.                                    *)
(***************************************************************************)
EXTENDS TaskDrafts, FiniteSetTheorems, TLAPS

-----------------------------------------------------------------------------
(* Types.                                                                  *)

ViewTypeOK ==
  /\ view    \in [Submitters -> Views \cup {NoView}]
  /\ request \in [Submitters -> Requests]
  /\ checked \in [Submitters -> [version : Nat, target : DraftIds \cup {NoId}]]

RowsTypeOK ==
  /\ drafts \in [DraftIds -> Drafts \cup {NoDraft}]
  /\ lastId \in 0 .. MaxDrafts
  /\ reused \in BOOLEAN
  /\ edits  \in 0 .. MaxEdits

LEMMA SplitType == DraftsTypeOK <=> RepositoryTypeOK /\ RowsTypeOK /\ ViewTypeOK
BY DEF DraftsTypeOK, RowsTypeOK, ViewTypeOK

LEMMA LiveType ==
  ASSUME RowsTypeOK, NEW d \in Live
  PROVE  d \in DraftIds /\ drafts[d] \in Drafts
BY DEF RowsTypeOK, Live

LEMMA NewTextType ==
  ASSUME RowsTypeOK, CanWrite, NEW t \in Tasks
  PROVE  NewText(t) \in Texts /\ edits + 1 \in 0 .. MaxEdits
BY DraftBoundsType DEF RowsTypeOK, CanWrite, NewText, Texts

LEMMA InsertType ==
  ASSUME RowsTypeOK, CanWrite, NEW t \in Tasks, NEW source \in {"manual", "llm"},
         NEW number \in Nat \ {0}, InsertSets(t, source, number)
  PROVE  RowsTypeOK' /\ drafts'[NewId] \in Drafts /\ NewId \in DraftIds
<1> DEFINE row == [task |-> t, source |-> source, state |-> "editing",
                   version |-> number, text |-> NewText(t)]
<1>1. row \in Drafts BY NewTextType DEF Drafts
<1>2. drafts' = [drafts EXCEPT ![NewId] = row] BY DEF InsertSets
<1>3. NewId \in DraftIds BY DEF InsertSets
<1> HIDE DEF row
<1>4. lastId' \in 0 .. MaxDrafts
  BY <1>3, DraftBoundsType DEF InsertSets, RowsTypeOK, DraftIds
<1>5. edits' \in 0 .. MaxEdits BY NewTextType DEF InsertSets
<1>6. reused' \in BOOLEAN
  <2>1. reused' = (reused \/ NewId <= lastId) BY DEF InsertSets
  <2> QED BY <2>1 DEF RowsTypeOK
<1> QED BY <1>1, <1>2, <1>3, <1>4, <1>5, <1>6 DEF RowsTypeOK

LEMMA RewriteType ==
  ASSUME RowsTypeOK, CanWrite, NEW d \in Live, NEW t \in Tasks, NEW number \in Nat \ {0},
         Rewrites(d, t, number)
  PROVE  RowsTypeOK' /\ drafts'[d] \in Drafts
<1>1. d \in DraftIds /\ drafts[d] \in Drafts BY LiveType
<1>2. drafts'[d] = [drafts[d] EXCEPT !.text = NewText(t), !.version = number]
  BY <1>1 DEF Rewrites, RowsTypeOK
<1>3. drafts'[d] \in Drafts BY <1>1, <1>2, NewTextType DEF Drafts
<1>4. drafts' \in [DraftIds -> Drafts \cup {NoDraft}]
  BY <1>1, <1>3 DEF Rewrites, RowsTypeOK
<1> QED BY <1>3, <1>4, NewTextType DEF Rewrites, RowsTypeOK, idVars

LEMMA TextSetsRewrites ==
  ASSUME RowsTypeOK, NEW d \in Live, NEW t, TextSets(d, t)
  PROVE  Rewrites(d, t, drafts[d].version + 1) /\ drafts[d].version + 1 \in Nat \ {0}
<1>1. drafts[d].version \in Nat \ {0} BY LiveType DEF Drafts
<1> QED BY <1>1 DEF TextSets

LEMMA MarkType ==
  ASSUME RowsTypeOK, NEW d \in DraftIds \cup {NoId}, MarkSubmitted(d),
         UNCHANGED <<idVars, edits>>
  PROVE  RowsTypeOK'
<1>1. CASE d \in Editing
  <2>1. d \in DraftIds /\ drafts[d] \in Drafts BY <1>1, LiveType DEF Editing
  <2>2. drafts'[d] = [drafts[d] EXCEPT !.state = "submitted", !.version = @ + 1]
    BY <1>1, <2>1 DEF MarkSubmitted, RowsTypeOK
  <2>3. drafts[d].version + 1 \in Nat \ {0} BY <2>1 DEF Drafts
  <2>4. drafts'[d] \in Drafts
    <3> DEFINE number == drafts[d].version + 1
    <3>1. number \in Nat \ {0} BY <2>3
    <3>2. drafts'[d] = [drafts[d] EXCEPT !.state = "submitted", !.version = number]
      BY <2>2
    <3> HIDE DEF number
    <3> QED BY <2>1, <3>1, <3>2 DEF Drafts
  <2> QED BY <1>1, <2>1, <2>4 DEF MarkSubmitted, RowsTypeOK, idVars
<1>2. CASE d \notin Editing
  BY <1>2 DEF MarkSubmitted, RowsTypeOK, idVars
<1> QED BY <1>1, <1>2

LEMMA ShowsType ==
  ASSUME RowsTypeOK, NEW t \in Tasks, NEW d \in Live \cup {NoId}
  PROVE  Shows(t, d) \in Views
<1>1. CASE d = NoId
  BY <1>1, DraftBoundsType DEF Shows, Views
<1>2. CASE d # NoId
  <2>1. d \in DraftIds /\ drafts[d] \in Drafts BY <1>2, LiveType
  <2>2. drafts[d].version \in Nat /\ drafts[d].text \in [about : Tasks, edit : 0 .. MaxEdits]
    BY <2>1, DraftBoundsType DEF Drafts, Texts
  <2> QED BY <1>2, <2>1, <2>2 DEF Shows, Views
<1> QED BY <1>1, <1>2

LEMMA ActiveDraftType ==
  ASSUME NEW t
  PROVE  ActiveDraft(t) \in Live \cup {NoId}
BY DEF ActiveDraft, SaveMatches, Editing

LEMMA ViewOfType ==
  ASSUME ViewTypeOK, NEW p \in Submitters, view[p] # NoView
  PROVE  view[p] \in Views /\ view[p].task \in Tasks /\ view[p].draft \in DraftIds \cup {NoId}
         /\ view[p].version \in Nat
<1>1. view[p] \in Views BY DEF ViewTypeOK
<1> QED BY <1>1 DEF Views

LEMMA ShowsWrittenType ==
  ASSUME ViewTypeOK, NEW p \in Submitters, view[p] # NoView, NEW d \in DraftIds,
         drafts'[d] \in Drafts, ShowsWritten(p, d)
  PROVE  view' \in [Submitters -> Views \cup {NoView}]
<1> DEFINE written == [view[p] EXCEPT !.draft = d, !.version = drafts'[d].version,
                                      !.text = drafts'[d].text]
<1>1. drafts'[d].version \in Nat /\ drafts'[d].text \in [about : Tasks, edit : 0 .. MaxEdits]
  BY DraftBoundsType DEF Drafts, Texts
<1>2. written \in Views BY <1>1, ViewOfType DEF Views
<1>3. view' = [view EXCEPT ![p] = written] BY DEF ShowsWritten, ViewTypeOK
<1> HIDE DEF written
<1> QED BY <1>2, <1>3 DEF ViewTypeOK

LEMMA AnsweredType ==
  ASSUME ViewTypeOK, NEW p \in Submitters, Answered(p),
         view' \in [Submitters -> Views \cup {NoView}]
  PROVE  ViewTypeOK'
<1>1. NotChecked \in [version : Nat, target : DraftIds \cup {NoId}] BY DEF NotChecked
<1> QED BY <1>1 DEF Answered, ViewTypeOK, Requests

LEMMA ForgetsType ==
  ASSUME ViewTypeOK, NEW p \in Submitters, Forgets(p)
  PROVE  view' \in [Submitters -> Views \cup {NoView}]
BY DEF Forgets, ViewTypeOK

\* request_tasks and users: a reply, the end of a task, or nothing.
LEMMA RepositoryTypeStep ==
  ASSUME DraftsTypeOK, [Next]_vars
  PROVE  RepositoryTypeOK'
<1>0. RepositoryTypeOK BY SplitType
<1>1. ASSUME UNCHANGED <<userVars, rowVars>>
      PROVE  RepositoryTypeOK'
  BY <1>0, <1>1 DEF RepositoryTypeOK, userVars, rowVars
<1>2. ASSUME NEW p \in Submitters, NEW t \in Tasks, FirstReplySets(t, p), UNCHANGED userVars
      PROVE  RepositoryTypeOK'
  BY <1>0, <1>2 DEF RepositoryTypeOK, FirstReplySets, Advance, userVars, RowState, TaskState,
     Authors, Fresh, PastGrace
<1>3. ASSUME NEW p \in Submitters, SubmitReply(p) \/ CommitDraft(p)
      PROVE  RepositoryTypeOK'
  <2>1. view[p].task \in Tasks
    BY <1>3, SplitType, ViewOfType DEF SubmitReply, CommitDraft, Busy
  <2>2. \/ FirstReplySets(view[p].task, p) /\ UNCHANGED userVars
        \/ UNCHANGED <<userVars, rowVars>>
    BY <1>3 DEF SubmitReply, CommitDraft
  <2> QED BY <1>1, <1>2, <2>1, <2>2
<1>4. ASSUME NEW t \in Tasks, TaskEnds(t)
      PROVE  RepositoryTypeOK'
  <2>1. activeTaskCount' \in [Users -> Nat]
    <3> DEFINE ended(u) == Cardinality({x \in {t} : Owner[x] = u})
    <3>1. ASSUME NEW u \in Users PROVE ended(u) \in Nat
      BY FS_Singleton, FS_Subset, FS_CardinalityType, {x \in {t} : Owner[x] = u} \subseteq {t}
    <3>2. activeTaskCount' = [u \in Users |-> IF ended(u) <= activeTaskCount[u]
                                THEN activeTaskCount[u] - ended(u) ELSE 0]
      BY <1>4 DEF TaskEnds, ReleaseSlots
    <3> HIDE DEF ended
    <3> QED BY <1>0, <3>1, <3>2 DEF RepositoryTypeOK
  <2>2. /\ state'    \in [Tasks -> RowState]
        /\ version'  \in [Tasks -> Nat]
        /\ slotHeld' \in [Tasks -> BOOLEAN]
        /\ reply'    \in [Tasks -> Authors \cup {NoReply}]
        /\ age'      \in [Tasks -> Fresh .. PastGrace]
    BY <1>0, <1>4 DEF TaskEnds, TerminalValues, RepositoryTypeOK, RowState, TaskState, Fresh,
       PastGrace
  <2> QED BY <1>0, <1>4, <2>1, <2>2 DEF TaskEnds, RepositoryTypeOK
<1>5. CASE UNCHANGED vars BY <1>1, <1>5 DEF vars
<1>6. CASE Next
  BY <1>1, <1>3, <1>4, <1>6 DEF Next, OpenTask, Check, StartGenerate, ReadDraft, SaveDraft, UpdateDraft,
     DeleteDraft, GenerateDraft, StageDraft, RequestFails
<1> QED BY <1>5, <1>6

LEMMA DraftsTypeStep ==
  ASSUME DraftsTypeOK, [Next]_vars
  PROVE  RowsTypeOK' /\ ViewTypeOK'
<1>0. RowsTypeOK /\ ViewTypeOK BY SplitType
<1> USE <1>0
<1>a. ASSUME UNCHANGED draftVars PROVE RowsTypeOK'
  BY <1>a DEF RowsTypeOK, draftVars, idVars
<1>b. ASSUME UNCHANGED tabVars PROVE ViewTypeOK'
  BY <1>b DEF ViewTypeOK, tabVars
<1>1. ASSUME NEW p \in Submitters, NEW t \in Tasks, OpenTask(p, t)
      PROVE  RowsTypeOK' /\ ViewTypeOK'
  BY <1>1, <1>a, ShowsType, ActiveDraftType DEF OpenTask, ViewTypeOK
<1>2. ASSUME NEW p \in Submitters, NEW kind \in TabRequests, Check(p, kind)
      PROVE  RowsTypeOK' /\ ViewTypeOK'
  <2> DEFINE t == view[p].task
             entry == [version |-> version[t], target |-> NoId]
  <2>1. t \in Tasks BY <1>2, ViewOfType DEF Check, Busy
  <2>2. version[t] \in Nat BY <2>1, SplitType DEF RepositoryTypeOK
  <2>3. entry \in [version : Nat, target : DraftIds \cup {NoId}] BY <2>2
  <2>4. checked' = [checked EXCEPT ![p] = entry]
    BY <1>2 DEF Check
  <2>5. request' = [request EXCEPT ![p] = kind] /\ UNCHANGED view /\ UNCHANGED draftVars
    BY <1>2 DEF Check
  <2> HIDE DEF entry
  <2> QED BY <1>a, <2>3, <2>4, <2>5 DEF ViewTypeOK, Requests
<1>12. ASSUME NEW p \in Submitters, StartGenerate(p)
       PROVE  RowsTypeOK' /\ ViewTypeOK'
  <2> DEFINE t == view[p].task
             entry == [version |-> version[t],
                       target  |-> IF LlmDrafts(t) # {}
                                     THEN CHOOSE x \in LlmDrafts(t) : TRUE ELSE NoId]
  <2>1. t \in Tasks BY <1>12, ViewOfType DEF StartGenerate, Busy
  <2>2. version[t] \in Nat BY <2>1, SplitType DEF RepositoryTypeOK
  <2>3. LlmDrafts(t) \subseteq DraftIds BY DEF LlmDrafts, Editing, Live
  <2>4. entry \in [version : Nat, target : DraftIds \cup {NoId}]
    BY <2>2, <2>3
  <2>5. checked' = [checked EXCEPT ![p] = entry]
    BY <1>12 DEF StartGenerate
  <2>6. request' = [request EXCEPT ![p] = "generate"] /\ UNCHANGED view /\ UNCHANGED draftVars
    BY <1>12 DEF StartGenerate
  <2> HIDE DEF entry
  <2> QED BY <1>a, <2>4, <2>5, <2>6 DEF ViewTypeOK, Requests
<1>3. ASSUME NEW p \in Chats, NEW t \in Tasks, NEW kind \in ChatRequests, ReadDraft(p, t, kind)
      PROVE  RowsTypeOK' /\ ViewTypeOK'
  <2>1. version[t] \in Nat BY SplitType DEF RepositoryTypeOK
  <2>2. checked' \in [Submitters -> [version : Nat, target : DraftIds \cup {NoId}]]
    BY <1>3, <2>1 DEF ReadDraft, ViewTypeOK
  <2>3. view' \in [Submitters -> Views \cup {NoView}]
    BY <1>3, ShowsType, ActiveDraftType DEF ReadDraft, ViewTypeOK
  <2>4. request' \in [Submitters -> Requests]
    BY <1>3 DEF ReadDraft, ViewTypeOK, Requests
  <2> QED BY <1>3, <1>a, <2>2, <2>3, <2>4 DEF ReadDraft, ViewTypeOK
<1>4. ASSUME NEW p \in Submitters, SaveDraft(p) \/ GenerateDraft(p)
      PROVE  RowsTypeOK' /\ ViewTypeOK'
  <2> DEFINE t == view[p].task
  <2>1. /\ view[p] # NoView /\ t \in Tasks /\ CanWrite /\ Answered(p)
    BY <1>4, ViewOfType DEF SaveDraft, GenerateDraft, Busy
  <2>2. ASSUME NEW d \in Live, TextSets(d, t), ShowsWritten(p, d)
        PROVE  RowsTypeOK' /\ ViewTypeOK'
    <3>1. RowsTypeOK' /\ drafts'[d] \in Drafts BY <2>1, <2>2, TextSetsRewrites, RewriteType
    <3> QED BY <2>1, <2>2, <3>1, LiveType, ShowsWrittenType, AnsweredType
  <2>3. ASSUME NEW source \in {"manual", "llm"}, InsertSets(t, source, 1), ShowsWritten(p, NewId)
        PROVE  RowsTypeOK' /\ ViewTypeOK'
    <3>1. RowsTypeOK' /\ drafts'[NewId] \in Drafts /\ NewId \in DraftIds
      BY <2>1, <2>3, InsertType
    <3> QED BY <2>1, <2>3, <3>1, ShowsWrittenType, AnsweredType
  <2>4. CASE SaveDraft(p)
    BY <2>2, <2>3, <2>4 DEF SaveDraft, SaveMatches, Editing
  <2>5. CASE GenerateDraft(p)
    BY <2>2, <2>3, <2>5 DEF GenerateDraft, Editing
  <2> QED BY <1>4, <2>4, <2>5
<1>5. ASSUME NEW p \in Submitters, UpdateDraft(p)
      PROVE  RowsTypeOK' /\ ViewTypeOK'
  <2> DEFINE d == view[p].draft
  <2>1. /\ view[p] # NoView /\ view[p].task \in Tasks /\ CanWrite /\ Answered(p)
    BY <1>5, ViewOfType DEF UpdateDraft, Busy
  <2>2. CASE UpdateMatches(d, view[p].version)
    <3>1. d \in Live /\ TextSets(d, view[p].task) /\ ShowsWritten(p, d)
      BY <1>5, <2>2 DEF UpdateDraft, UpdateMatches, Editing
    <3>2. RowsTypeOK' /\ drafts'[d] \in Drafts BY <2>1, <3>1, TextSetsRewrites, RewriteType
    <3> QED BY <2>1, <3>1, <3>2, LiveType, ShowsWrittenType, AnsweredType
  <2>3. CASE ~UpdateMatches(d, view[p].version)
    <3>1. UNCHANGED <<draftVars, view>> BY <1>5, <2>3 DEF UpdateDraft
    <3> QED BY <1>a, <2>1, <3>1, AnsweredType DEF ViewTypeOK
  <2> QED BY <2>2, <2>3
<1>6. ASSUME NEW p \in Submitters, DeleteDraft(p)
      PROVE  RowsTypeOK' /\ ViewTypeOK'
  <2>1. view[p] # NoView /\ view[p].task \in Tasks
    BY <1>6, ViewOfType DEF DeleteDraft, Busy
  <2>2. RowsTypeOK' BY <1>6 DEF DeleteDraft, RowsTypeOK, idVars
  <2>3. view' \in [Submitters -> Views \cup {NoView}]
    BY <1>6, <2>1, ShowsType DEF DeleteDraft, ViewTypeOK
  <2> QED BY <1>6, <2>2, <2>3, AnsweredType DEF DeleteDraft
<1>7. ASSUME NEW p \in Submitters, SubmitReply(p) \/ CommitDraft(p)
      PROVE  RowsTypeOK' /\ ViewTypeOK'
  <2>1. UNCHANGED <<idVars, edits>> BY <1>7 DEF SubmitReply, CommitDraft
  <2>2. UNCHANGED drafts \/ \E d \in DraftIds \cup {NoId} : MarkSubmitted(d)
    BY <1>7, ViewOfType DEF SubmitReply, CommitDraft, Busy, NamedDrafts
  <2>3. RowsTypeOK' BY <2>1, <2>2, <1>a, MarkType DEF draftVars
  <2>4. UNCHANGED view \/ Forgets(p) BY <1>7 DEF SubmitReply, CommitDraft
  <2>5. view' \in [Submitters -> Views \cup {NoView}] BY <2>4, ForgetsType DEF ViewTypeOK
  <2> QED BY <1>7, <2>3, <2>5, AnsweredType DEF SubmitReply, CommitDraft
<1>8. ASSUME NEW p \in Submitters, StageDraft(p)
      PROVE  RowsTypeOK' /\ ViewTypeOK'
  <2> DEFINE d == view[p].draft
  <2>1. /\ view[p] # NoView /\ view[p].task \in Tasks /\ view[p].version \in Nat /\ CanWrite
    BY <1>8, ViewOfType DEF StageDraft, Busy
  <2>2. \/ InsertSets(view[p].task, "manual", 2)
        \/ d \in Live /\ Rewrites(d, view[p].task, view[p].version + 1)
    BY <1>8 DEF StageDraft
  <2>3. view[p].version + 1 \in Nat \ {0} /\ 2 \in Nat \ {0}
    BY <2>1
  <2>4. RowsTypeOK' BY <2>1, <2>2, <2>3, InsertType, RewriteType
  <2>5. view' \in [Submitters -> Views \cup {NoView}] BY <1>8, ForgetsType DEF StageDraft
  <2> QED BY <1>8, <2>4, <2>5, AnsweredType DEF StageDraft
<1>9. ASSUME NEW p \in Submitters, RequestFails(p)
      PROVE  RowsTypeOK' /\ ViewTypeOK'
  BY <1>9, <1>a, ForgetsType, AnsweredType DEF RequestFails
<1>10. ASSUME NEW t \in Tasks, TaskEnds(t)
       PROVE  RowsTypeOK' /\ ViewTypeOK'
  BY <1>10, <1>a, <1>b DEF TaskEnds
<1>11. CASE UNCHANGED vars BY <1>11, <1>a, <1>b DEF vars
<1> QED
  BY <1>1, <1>2, <1>3, <1>4, <1>5, <1>6, <1>7, <1>8, <1>9, <1>10, <1>11, <1>12
     DEF Next

LEMMA DraftsTypeInit == Init => DraftsTypeOK
<1> SUFFICES ASSUME Init PROVE DraftsTypeOK
  OBVIOUS
<1>1. activeTaskCount \in [Users -> Nat]
  <2> DEFINE owned(u) == Cardinality({t \in Tasks : Owner[t] = u})
  <2>1. ASSUME NEW u \in Users PROVE owned(u) \in Nat
    BY TasksFinite, FS_Subset, FS_CardinalityType, {t \in Tasks : Owner[t] = u} \subseteq Tasks
  <2>2. activeTaskCount = [u \in Users |-> owned(u)] BY DEF Init
  <2> HIDE DEF owned
  <2> QED BY <2>1, <2>2
<1>2. RepositoryTypeOK
  BY <1>1 DEF Init, RepositoryTypeOK, RowState, TaskState, Authors, Fresh, PastGrace
<1>3. RowsTypeOK
  <2>1. reused \in BOOLEAN BY DEF Init
  <2> QED BY <2>1, DraftBoundsType DEF Init, RowsTypeOK
<1>4. ViewTypeOK BY DEF Init, ViewTypeOK, Requests, NotChecked
<1> QED BY <1>2, <1>3, <1>4, SplitType

\* Every variable keeps its type, whichever tabs and chats act.
THEOREM DraftsTypeCorrect == Spec => []DraftsTypeOK
<1>1. DraftsTypeOK /\ [Next]_vars => DraftsTypeOK'
  <2>1. DraftsTypeOK' <=> RepositoryTypeOK' /\ RowsTypeOK' /\ ViewTypeOK'
    BY DEF DraftsTypeOK, RowsTypeOK, ViewTypeOK
  <2> QED BY <2>1, RepositoryTypeStep, DraftsTypeStep
<1> QED BY <1>1, DraftsTypeInit, PTL DEF Spec

-----------------------------------------------------------------------------
(* What a step may do to the rows.                                         *)

Inserted(t) ==
  /\ InsertMatches(t)
  /\ NewId \in DraftIds
  /\ drafts'[NewId] \in Drafts
  /\ drafts'[NewId].task = t
  /\ drafts'[NewId].state = "editing"
  /\ drafts'[NewId].text.about = t
  /\ \A e \in DraftIds \ {NewId} : drafts'[e] = drafts[e]
  /\ lastId' = IF NewId > lastId THEN NewId ELSE lastId
  /\ reused' = (reused \/ NewId <= lastId)

Rewritten(d, t) ==
  /\ d \in Live
  /\ drafts'[d] \in Drafts
  /\ drafts'[d].task = drafts[d].task
  /\ drafts'[d].state = drafts[d].state
  /\ drafts'[d].text.about = t
  /\ \A e \in DraftIds \ {d} : drafts'[e] = drafts[e]
  /\ UNCHANGED idVars

Marked(d) ==
  /\ d \in Editing
  /\ drafts'[d].task = drafts[d].task
  /\ drafts'[d].state = "submitted"
  /\ drafts'[d].text = drafts[d].text
  /\ \A e \in DraftIds \ {d} : drafts'[e] = drafts[e]
  /\ UNCHANGED idVars

Removed(d) ==
  /\ drafts' = [drafts EXCEPT ![d] = NoDraft]
  /\ UNCHANGED idVars

\* A text is written for the task on screen, into the draft on screen, the one the
\* generation found, or the one the task has.
Target(p, d) ==
  /\ view[p] # NoView
  /\ \/ d = view[p].draft
     \/ d = checked[p].target
     \/ drafts[d].task = view[p].task

\* A draft is marked by a reply that wins, whatever task the draft is of.
MarkedBy(p, d) ==
  /\ Marked(d)
  /\ view[p] # NoView
  /\ FirstReplyMatches(view[p].task, checked[p].version)
  /\ FirstReplySets(view[p].task, p)

RowsStep ==
  \/ UNCHANGED <<drafts, idVars>>
  \/ \E t \in Tasks : Inserted(t)
  \/ \E p \in Submitters, d \in DraftIds : Rewritten(d, view[p].task) /\ Target(p, d)
  \/ \E p \in Submitters, d \in DraftIds : MarkedBy(p, d)
  \/ \E d \in DraftIds : Removed(d)

LEMMA InsertInserts ==
  ASSUME RowsTypeOK, CanWrite, NEW t \in Tasks, NEW source \in {"manual", "llm"},
         NEW number \in Nat \ {0}, InsertMatches(t), InsertSets(t, source, number)
  PROVE  Inserted(t)
<1>1. drafts'[NewId] \in Drafts /\ NewId \in DraftIds BY InsertType
<1>2. drafts'[NewId] = [task |-> t, source |-> source, state |-> "editing",
                        version |-> number, text |-> NewText(t)]
  BY <1>1 DEF InsertSets, RowsTypeOK
<1>3. \A e \in DraftIds \ {NewId} : drafts'[e] = drafts[e]
  BY DEF InsertSets, RowsTypeOK
<1> QED BY <1>1, <1>2, <1>3 DEF Inserted, InsertSets, NewText

LEMMA RewriteRewrites ==
  ASSUME RowsTypeOK, CanWrite, NEW d \in Live, NEW t \in Tasks, NEW number \in Nat \ {0},
         Rewrites(d, t, number)
  PROVE  Rewritten(d, t)
<1>1. d \in DraftIds /\ drafts[d] \in Drafts BY LiveType
<1>2. drafts'[d] = [drafts[d] EXCEPT !.text = NewText(t), !.version = number]
  BY <1>1 DEF Rewrites, RowsTypeOK
<1>3. drafts'[d] \in Drafts BY RewriteType
<1>4. \A e \in DraftIds \ {d} : drafts'[e] = drafts[e] BY DEF Rewrites, RowsTypeOK
<1>5. drafts[d] = [task |-> drafts[d].task, source |-> drafts[d].source,
                   state |-> drafts[d].state, version |-> drafts[d].version,
                   text |-> drafts[d].text]
  BY <1>1 DEF Drafts
<1>6. drafts'[d] = [task |-> drafts[d].task, source |-> drafts[d].source,
                    state |-> drafts[d].state, version |-> number, text |-> NewText(t)]
  BY <1>2, <1>5
<1>7. /\ drafts'[d].task = drafts[d].task
      /\ drafts'[d].state = drafts[d].state
      /\ drafts'[d].text.about = t
  BY <1>6 DEF NewText
<1> QED BY <1>1, <1>3, <1>4, <1>7 DEF Rewritten, Rewrites

LEMMA MarkMarks ==
  ASSUME RowsTypeOK, NEW d \in Editing, MarkSubmitted(d), UNCHANGED idVars
  PROVE  Marked(d)
<1>1. d \in DraftIds /\ drafts[d] \in Drafts BY LiveType DEF Editing
<1>2. drafts'[d] = [drafts[d] EXCEPT !.state = "submitted", !.version = @ + 1]
  BY <1>1 DEF MarkSubmitted, RowsTypeOK
<1>3. \A e \in DraftIds \ {d} : drafts'[e] = drafts[e] BY DEF MarkSubmitted, RowsTypeOK
<1> QED BY <1>1, <1>2, <1>3 DEF Marked, Drafts

LEMMA RowsSteps ==
  ASSUME DraftsTypeOK, [Next]_vars
  PROVE  RowsStep
<1>0. RowsTypeOK /\ ViewTypeOK BY SplitType
<1> USE <1>0
<1>1. ASSUME UNCHANGED draftVars PROVE RowsStep
  BY <1>1 DEF draftVars, RowsStep
<1>2. ASSUME NEW p \in Submitters, SaveDraft(p) PROVE RowsStep
  <2>1. view[p] # NoView /\ view[p].task \in Tasks /\ CanWrite
    BY <1>2, ViewOfType DEF SaveDraft, Busy
  <2>2. CASE SaveMatches(view[p].task) # {}
    <3>1. PICK d \in SaveMatches(view[p].task) : TextSets(d, view[p].task)
      BY <1>2, <2>2 DEF SaveDraft
    <3>2. d \in Live /\ d \in DraftIds /\ drafts[d].task = view[p].task
      BY DEF SaveMatches, Editing, Live
    <3>3. Rewritten(d, view[p].task)
      BY <2>1, <3>1, <3>2, TextSetsRewrites, RewriteRewrites
    <3>4. Target(p, d) BY <2>1, <3>2 DEF Target
    <3> QED BY <3>2, <3>3, <3>4 DEF RowsStep
  <2>3. CASE SaveMatches(view[p].task) = {}
    <3>1. InsertSets(view[p].task, "manual", 1) BY <1>2, <2>3 DEF SaveDraft
    <3>2. InsertMatches(view[p].task) BY <2>3 DEF SaveMatches, InsertMatches
    <3>3. Inserted(view[p].task) BY <2>1, <3>1, <3>2, InsertInserts
    <3> QED BY <2>1, <3>3 DEF RowsStep
  <2> QED BY <2>2, <2>3
<1>3. ASSUME NEW p \in Submitters, UpdateDraft(p) PROVE RowsStep
  <2>1. view[p] # NoView /\ view[p].task \in Tasks /\ CanWrite
    BY <1>3, ViewOfType DEF UpdateDraft, Busy
  <2>2. CASE UpdateMatches(view[p].draft, view[p].version)
    <3>1. view[p].draft \in Live /\ TextSets(view[p].draft, view[p].task)
      BY <1>3, <2>2 DEF UpdateDraft, UpdateMatches, Editing
    <3>2. Rewritten(view[p].draft, view[p].task)
      BY <2>1, <3>1, TextSetsRewrites, RewriteRewrites
    <3> QED BY <2>1, <3>1, <3>2, LiveType DEF RowsStep, Target
  <2>3. CASE ~UpdateMatches(view[p].draft, view[p].version)
    BY <1>3, <2>3, <1>1 DEF UpdateDraft
  <2> QED BY <2>2, <2>3
<1>4. ASSUME NEW p \in Submitters, DeleteDraft(p) PROVE RowsStep
  <2>1. view[p].draft \in DraftIds \cup {NoId}
    BY <1>4, ViewOfType DEF DeleteDraft, Busy
  <2>2. Removed(view[p].draft) BY <1>4 DEF DeleteDraft, Removed
  <2>3. CASE view[p].draft = NoId
    <3>1. NoId \notin DraftIds BY DraftBoundsType DEF NoId, DraftIds
    <3> QED BY <2>2, <2>3, <3>1 DEF Removed, RowsTypeOK, RowsStep
  <2> QED BY <2>1, <2>2, <2>3 DEF RowsStep
<1>5. ASSUME NEW p \in Submitters, SubmitReply(p) \/ CommitDraft(p) PROVE RowsStep
  <2>1. view[p] # NoView /\ UNCHANGED idVars BY <1>5 DEF SubmitReply, CommitDraft, Busy
  <2>2. CASE UNCHANGED drafts BY <2>1, <2>2 DEF RowsStep
  <2>3. CASE drafts' # drafts
    <3>1. /\ FirstReplyMatches(view[p].task, checked[p].version)
          /\ FirstReplySets(view[p].task, p)
      BY <1>5, <2>3 DEF SubmitReply, CommitDraft
    <3>2. PICK d : MarkSubmitted(d) BY <1>5, <2>3 DEF SubmitReply, CommitDraft
    <3>3. d \in Editing BY <2>3, <3>2 DEF MarkSubmitted
    <3> QED BY <2>1, <3>1, <3>2, <3>3, MarkMarks, LiveType DEF MarkedBy, RowsStep, Editing
  <2> QED BY <2>2, <2>3
<1>6. ASSUME NEW p \in Submitters, GenerateDraft(p) PROVE RowsStep
  <2>1. view[p] # NoView /\ view[p].task \in Tasks /\ CanWrite
    BY <1>6, ViewOfType DEF GenerateDraft, Busy
  <2>2. CASE checked[p].target \in Editing
    <3>1. checked[p].target \in Live /\ TextSets(checked[p].target, view[p].task)
      BY <1>6, <2>2 DEF GenerateDraft, Editing
    <3>2. Rewritten(checked[p].target, view[p].task)
      BY <2>1, <3>1, TextSetsRewrites, RewriteRewrites
    <3> QED BY <2>1, <3>1, <3>2, LiveType DEF RowsStep, Target
  <2>3. CASE checked[p].target \notin Editing
    <3>1. InsertMatches(view[p].task) /\ InsertSets(view[p].task, "llm", 1)
      BY <1>6, <2>3 DEF GenerateDraft
    <3>2. Inserted(view[p].task) BY <2>1, <3>1, InsertInserts
    <3> QED BY <2>1, <3>2 DEF RowsStep
  <2> QED BY <2>2, <2>3
<1>7. ASSUME NEW p \in Submitters, StageDraft(p) PROVE RowsStep
  <2>1. /\ view[p] # NoView /\ view[p].task \in Tasks /\ CanWrite
        /\ view[p].version + 1 \in Nat \ {0} /\ 2 \in Nat \ {0}
    BY <1>7, ViewOfType DEF StageDraft, Busy
  <2>2. \/ InsertMatches(view[p].task) /\ InsertSets(view[p].task, "manual", 2)
        \/ view[p].draft \in Live /\ Rewrites(view[p].draft, view[p].task, view[p].version + 1)
    BY <1>7 DEF StageDraft
  <2>3. ASSUME view[p].draft \in Live, Rewritten(view[p].draft, view[p].task) PROVE RowsStep
    BY <2>1, <2>3, LiveType DEF RowsStep, Target
  <2>4. ASSUME Inserted(view[p].task) PROVE RowsStep
    BY <2>1, <2>4 DEF RowsStep
  <2> QED BY <2>1, <2>2, <2>3, <2>4, RewriteRewrites, InsertInserts
<1>8. CASE UNCHANGED vars BY <1>1, <1>8 DEF vars
<1>9. CASE Next
  BY <1>1, <1>2, <1>3, <1>4, <1>5, <1>6, <1>7, <1>9
     DEF Next, OpenTask, Check, StartGenerate, ReadDraft, RequestFails, TaskEnds
<1> QED BY <1>8, <1>9

-----------------------------------------------------------------------------
(* One editing draft.                                                      *)

LEMMA OneEditingDraftStep ==
  ASSUME DraftsTypeOK, OneEditingDraft, [Next]_vars
  PROVE  OneEditingDraft'
<1>0. RowsTypeOK /\ RowsStep BY SplitType, RowsSteps
<1>1. SUFFICES ASSUME NEW d \in Editing', NEW e \in Editing', drafts'[d].task = drafts'[e].task
               PROVE  d = e
  BY DEF OneEditingDraft
<1>2. /\ d \in DraftIds /\ drafts'[d] # NoDraft /\ drafts'[d].state = "editing"
      /\ e \in DraftIds /\ drafts'[e] # NoDraft /\ drafts'[e].state = "editing"
  BY DEF Editing, Live
<1>3. ASSUME \A x \in {d, e} : x \in Editing /\ drafts'[x].task = drafts[x].task
      PROVE  d = e
  BY <1>1, <1>3 DEF OneEditingDraft
<1>4. CASE UNCHANGED <<drafts, idVars>>
  BY <1>2, <1>3, <1>4 DEF Editing, Live
<1>5. ASSUME NEW t \in Tasks, Inserted(t) PROVE d = e
  <2>1. \A x \in {d, e} : x # NewId => x \in Editing /\ drafts'[x].task = drafts[x].task
    BY <1>2, <1>5 DEF Inserted, Editing, Live
  <2>2. \A x \in {d, e} : x # NewId => drafts'[x].task # t
    BY <1>5, <2>1 DEF Inserted, InsertMatches
  <2> QED BY <1>1, <1>3, <1>5, <2>1, <2>2 DEF Inserted
<1>6. ASSUME NEW p \in Submitters, NEW x \in DraftIds, Rewritten(x, view[p].task) PROVE d = e
  BY <1>2, <1>3, <1>6 DEF Rewritten, Editing, Live
<1>7. ASSUME NEW p \in Submitters, NEW x \in DraftIds, MarkedBy(p, x) PROVE d = e
  BY <1>2, <1>3, <1>7 DEF MarkedBy, Marked, Editing, Live
<1>8. ASSUME NEW x \in DraftIds, Removed(x) PROVE d = e
  BY <1>0, <1>2, <1>3, <1>8 DEF Removed, RowsTypeOK, Editing, Live
<1> QED BY <1>0, <1>4, <1>5, <1>6, <1>7, <1>8 DEF RowsStep

\* A task has one draft that is being edited, whatever ids are given again.
THEOREM OneEditingDraftHolds == Spec => []OneEditingDraft
<1>1. Init => OneEditingDraft
  BY DEF Init, OneEditingDraft, Editing, Live
<1> QED BY <1>1, OneEditingDraftStep, DraftsTypeCorrect, PTL DEF Spec
-----------------------------------------------------------------------------
(* Texts stay with their tasks.  The invariant follows the ids that tabs   *)
(* hold: a draft on screen, or one that a generation found, is of the task *)
(* on screen while it exists, and its id was given before, so that a new   *)
(* row does not get it.                                                    *)

PointsTo(d, t) == d <= lastId /\ (d \in Live => drafts[d].task = t)

LinksOf(p) ==
  /\ view[p] # NoView =>
       PointsTo(view[p].draft, view[p].task) /\ PointsTo(checked[p].target, view[p].task)
  /\ request[p] = "none" => checked[p].target = NoId

LinkInv ==
  /\ \A d \in Live : d <= lastId
  /\ ~reused => \A p \in Submitters : LinksOf(p)
  /\ TextStaysUntilReuse

LEMMA LinkInit == Init => LinkInv
BY DEF Init, LinkInv, LinksOf, Live, TextStaysUntilReuse, TextStaysWithItsTask, NotChecked

\* Rows that exist keep their task, and a new one has an id that was not given.
KeepTasks ==
  /\ lastId \in Nat /\ lastId' \in Nat /\ lastId <= lastId'
  /\ \A d \in Live' : d \in Nat /\ d <= lastId'
  /\ ~reused' =>
       ~reused /\ \A d \in Live' : d <= lastId => d \in Live /\ drafts'[d].task = drafts[d].task

LEMMA RowsKeepTasks ==
  ASSUME RowsTypeOK, RowsStep, LinkInv
  PROVE  KeepTasks
<1>1. /\ \A d \in Live : d <= lastId
      /\ lastId \in Nat /\ Live' \subseteq DraftIds /\ DraftIds \subseteq Nat
  BY DraftBoundsType DEF LinkInv, RowsTypeOK, DraftIds, Live
<1>2. ASSUME UNCHANGED idVars,
             \A d \in Live' : d \in Live /\ drafts'[d].task = drafts[d].task
      PROVE  KeepTasks
  BY <1>1, <1>2 DEF KeepTasks, idVars
<1>3. CASE UNCHANGED <<drafts, idVars>>
  BY <1>2, <1>3 DEF Live
<1>4. ASSUME NEW t \in Tasks, Inserted(t) PROVE KeepTasks
  <2>1. NewId \in DraftIds BY <1>4 DEF Inserted
  <2>2. \A d \in Live' : d # NewId => d \in Live /\ drafts'[d] = drafts[d]
    BY <1>4 DEF Inserted, Live
  <2>3. lastId' = IF NewId > lastId THEN NewId ELSE lastId BY <1>4 DEF Inserted
  <2>4. reused' = (reused \/ NewId <= lastId) BY <1>4 DEF Inserted
  <2>5. ~reused' => ~reused /\ ~(NewId <= lastId) BY <2>4
  <2> HIDE DEF NewId
  <2>6. /\ lastId' \in Nat /\ lastId <= lastId'
        /\ \A d \in Live' : d \in Nat /\ d <= lastId'
    BY <1>1, <2>1, <2>2, <2>3
  <2>7. ~reused' => \A d \in Live' : d <= lastId => d \in Live /\ drafts'[d].task = drafts[d].task
    <3> SUFFICES ASSUME ~reused', NEW d \in Live', d <= lastId
                 PROVE  d \in Live /\ drafts'[d].task = drafts[d].task
      OBVIOUS
    <3>1. d # NewId BY <2>5
    <3> QED BY <2>2, <3>1
  <2> QED BY <1>1, <2>5, <2>6, <2>7 DEF KeepTasks
<1>5. ASSUME NEW p \in Submitters, NEW x \in DraftIds, Rewritten(x, view[p].task)
      PROVE  KeepTasks
  BY <1>2, <1>5 DEF Rewritten, Live
<1>6. ASSUME NEW p \in Submitters, NEW x \in DraftIds, MarkedBy(p, x) PROVE KeepTasks
  BY <1>2, <1>6 DEF MarkedBy, Marked, Live, Editing
<1>7. ASSUME NEW x \in DraftIds, Removed(x) PROVE KeepTasks
  BY <1>2, <1>7 DEF Removed, Live, RowsTypeOK
<1> QED BY <1>3, <1>4, <1>5, <1>6, <1>7 DEF RowsStep

\* A pointer that is not touched keeps pointing to its task.
LEMMA PointersKept ==
  ASSUME KeepTasks, ~reused', NEW d \in DraftIds \cup {NoId}, NEW t, PointsTo(d, t)
  PROVE  d <= lastId' /\ (d \in Live' => drafts'[d].task = t)
<1>1. d \in Nat BY DraftBoundsType DEF DraftIds, NoId
<1> QED BY <1>1 DEF KeepTasks, PointsTo

\* An id that was not given, or none, points to no row of another task.
LEMMA NoPointer ==
  ASSUME KeepTasks, NEW d, d = NoId
  PROVE  d <= lastId' /\ d \notin Live'
<1>1. NoId \notin DraftIds BY DraftBoundsType DEF NoId, DraftIds
<1> QED BY <1>1 DEF KeepTasks, NoId, Live

LEMMA TextStep ==
  ASSUME RowsTypeOK, ViewTypeOK, RowsStep, LinkInv, ~reused'
  PROVE  TextStaysWithItsTask'
<1>1. KeepTasks BY RowsKeepTasks
<1>2. ~reused BY <1>1 DEF KeepTasks
<1>3. TextStaysWithItsTask /\ \A p \in Submitters : LinksOf(p)
  BY <1>2 DEF LinkInv, TextStaysUntilReuse
<1>4. SUFFICES ASSUME NEW d \in Live' PROVE drafts'[d].text.about = drafts'[d].task
  BY DEF TextStaysWithItsTask
<1>5. d \in DraftIds /\ drafts'[d] # NoDraft BY DEF Live
<1>6. ASSUME drafts'[d] = drafts[d] PROVE drafts'[d].text.about = drafts'[d].task
  BY <1>3, <1>5, <1>6 DEF TextStaysWithItsTask, Live
<1>7. CASE UNCHANGED <<drafts, idVars>> BY <1>6, <1>7
<1>8. ASSUME NEW t \in Tasks, Inserted(t) PROVE drafts'[d].text.about = drafts'[d].task
  BY <1>5, <1>6, <1>8 DEF Inserted
<1>9. ASSUME NEW p \in Submitters, NEW x \in DraftIds, Rewritten(x, view[p].task), Target(p, x)
      PROVE  drafts'[d].text.about = drafts'[d].task
  <2>1. drafts[x].task = view[p].task
    BY <1>3, <1>9 DEF Target, Rewritten, LinksOf, PointsTo
  <2> QED BY <1>5, <1>6, <1>9, <2>1 DEF Rewritten
<1>10. ASSUME NEW p \in Submitters, NEW x \in DraftIds, MarkedBy(p, x)
       PROVE  drafts'[d].text.about = drafts'[d].task
  BY <1>3, <1>5, <1>6, <1>10 DEF MarkedBy, Marked, TextStaysWithItsTask, Editing, Live
<1>11. ASSUME NEW x \in DraftIds, Removed(x) PROVE drafts'[d].text.about = drafts'[d].task
  BY <1>5, <1>6, <1>11 DEF Removed, RowsTypeOK
<1> QED BY <1>7, <1>8, <1>9, <1>10, <1>11 DEF RowsStep

PointedTo(d, t) == d <= lastId' /\ (d \in Live' => drafts'[d].task = t)

\* Nothing that q holds is changed.
LEMMA LinksKept ==
  ASSUME ViewTypeOK, KeepTasks, ~reused', NEW q \in Submitters, LinksOf(q),
         view'[q] = view[q], checked'[q] = checked[q], request'[q] = request[q]
  PROVE  LinksOf(q)'
<1>1. checked[q].target \in DraftIds \cup {NoId} BY DEF ViewTypeOK
<1>2. CASE view[q] = NoView
  BY <1>2 DEF LinksOf
<1>3. CASE view[q] # NoView
  <2>1. view[q].draft \in DraftIds \cup {NoId} BY <1>3, ViewOfType
  <2>2. PointedTo(view[q].draft, view[q].task)
    BY <1>3, <2>1, PointersKept DEF LinksOf, PointedTo
  <2>3. PointedTo(checked[q].target, view[q].task)
    BY <1>1, <1>3, PointersKept DEF LinksOf, PointedTo
  <2> QED BY <2>2, <2>3 DEF LinksOf, PointsTo, PointedTo
<1> QED BY <1>2, <1>3

\* A request has ended, and what is on screen points to its task.
LEMMA LinksAnswered ==
  ASSUME ViewTypeOK, KeepTasks, NEW p \in Submitters, Answered(p),
         view'[p] = NoView \/ PointedTo(view'[p].draft, view'[p].task)
  PROVE  LinksOf(p)'
<1>1. checked'[p].target = NoId BY DEF Answered, ViewTypeOK, NotChecked
<1>2. PointedTo(NoId, view'[p].task) BY NoPointer DEF PointedTo
<1> QED BY <1>1, <1>2 DEF LinksOf, PointsTo, PointedTo

LEMMA WrittenIsPointedTo ==
  ASSUME ViewTypeOK, NEW p \in Submitters, view[p] # NoView, NEW d, d <= lastId',
         drafts'[d].task = view[p].task, ShowsWritten(p, d)
  PROVE  PointedTo(view'[p].draft, view'[p].task)
<1>1. view[p] \in Views BY ViewOfType
<1>2. view'[p] = [view[p] EXCEPT !.draft = d, !.version = drafts'[d].version,
                                 !.text = drafts'[d].text]
  BY DEF ShowsWritten, ViewTypeOK
<1>3. view'[p].draft = d /\ view'[p].task = view[p].task
  BY <1>1, <1>2 DEF Views
<1> QED BY <1>3 DEF PointedTo

\* A row of the task on screen is written again, or a row is inserted for it.
LEMMA RewriteLinks ==
  ASSUME RowsTypeOK, ViewTypeOK, KeepTasks, LinkInv, NEW p \in Submitters, view[p] # NoView,
         CanWrite, NEW d \in Live, drafts[d].task = view[p].task, TextSets(d, view[p].task),
         ShowsWritten(p, d)
  PROVE  PointedTo(view'[p].draft, view'[p].task)
<1>1. view[p].task \in Tasks BY ViewOfType
<1>2. drafts'[d].task = view[p].task
  BY <1>1, TextSetsRewrites, RewriteRewrites DEF Rewritten
<1>3. d \in Nat /\ d <= lastId BY LiveType, DraftBoundsType DEF LinkInv, DraftIds
<1>4. d <= lastId' BY <1>3 DEF KeepTasks
<1> QED BY <1>2, <1>4, WrittenIsPointedTo

LEMMA InsertLinks ==
  ASSUME RowsTypeOK, ViewTypeOK, NEW p \in Submitters, view[p] # NoView,
         CanWrite, NEW source \in {"manual", "llm"}, InsertMatches(view[p].task),
         InsertSets(view[p].task, source, 1), ShowsWritten(p, NewId)
  PROVE  PointedTo(view'[p].draft, view'[p].task)
<1>1. view[p].task \in Tasks BY ViewOfType
<1>2. Inserted(view[p].task) BY <1>1, InsertInserts
<1>3. NewId \in Nat /\ lastId \in Nat
  BY <1>2, DraftBoundsType DEF Inserted, RowsTypeOK, DraftIds
<1>4. lastId' = IF NewId > lastId THEN NewId ELSE lastId BY <1>2 DEF Inserted
<1>5. NewId <= lastId'
  <2> HIDE DEF NewId
  <2> QED BY <1>3, <1>4
<1> QED BY <1>2, <1>5, WrittenIsPointedTo DEF Inserted

LEMMA LinkStep ==
  ASSUME DraftsTypeOK, LinkInv, [Next]_vars
  PROVE  LinkInv'
<1>0. RowsTypeOK /\ ViewTypeOK /\ RowsStep BY SplitType, RowsSteps
<1>1. KeepTasks BY <1>0, RowsKeepTasks
<1>2. TextStaysUntilReuse' BY <1>0, TextStep DEF TextStaysUntilReuse, TextStaysWithItsTask
<1>3. SUFFICES ASSUME ~reused', NEW q \in Submitters PROVE LinksOf(q)'
  BY <1>1, <1>2 DEF LinkInv, KeepTasks
<1>4. LinksOf(q) /\ ~reused BY <1>1, <1>3 DEF LinkInv, KeepTasks
<1> USE <1>0, <1>1, <1>3, <1>4
<1>5. ASSUME view'[q] = view[q], checked'[q] = checked[q], request'[q] = request[q]
      PROVE  LinksOf(q)'
  BY <1>5, LinksKept
<1>7. ASSUME NEW t \in Tasks,
             UNCHANGED draftVars, view' = [view EXCEPT ![q] = Shows(t, ActiveDraft(t))]
      PROVE  PointedTo(view'[q].draft, view'[q].task)
  <2>1. view'[q].draft = ActiveDraft(t) /\ view'[q].task = t
    BY <1>7 DEF Shows, ViewTypeOK
  <2>2. ActiveDraft(t) = NoId \/ ActiveDraft(t) \in SaveMatches(t)
    BY DEF ActiveDraft
  <2>3. CASE ActiveDraft(t) = NoId BY <2>1, <2>3, NoPointer DEF PointedTo
  <2>4. CASE ActiveDraft(t) \in SaveMatches(t)
    BY <1>7, <2>1, <2>4 DEF SaveMatches, Editing, LinkInv, draftVars, idVars, PointedTo
  <2> QED BY <2>2, <2>3, <2>4
<1>8. ASSUME view[q] # NoView
      PROVE  PointedTo(view[q].draft, view[q].task)
  BY <1>8, ViewOfType, PointersKept DEF LinksOf, PointedTo
<1>9. ASSUME NEW p \in Submitters, NEW t \in Tasks, OpenTask(p, t) PROVE LinksOf(q)'
  <2>1. CASE p # q BY <1>5, <1>9, <2>1 DEF OpenTask, ViewTypeOK
  <2>2. CASE p = q
    <3>1. PointedTo(view'[q].draft, view'[q].task) BY <1>7, <1>9, <2>2 DEF OpenTask
    <3>2. checked'[q].target = NoId BY <1>9, <2>2 DEF OpenTask, LinksOf
    <3>3. PointedTo(NoId, view'[q].task) BY NoPointer DEF PointedTo
    <3> QED BY <3>1, <3>2, <3>3 DEF LinksOf, PointsTo, PointedTo
  <2> QED BY <2>1, <2>2
<1>10. ASSUME NEW p \in Submitters, NEW kind \in TabRequests, Check(p, kind) PROVE LinksOf(q)'
  <2>1. CASE p # q BY <1>5, <1>10, <2>1 DEF Check, ViewTypeOK
  <2>2. CASE p = q
    <3>1. view[q] # NoView /\ view'[q] = view[q] /\ request'[q] # "none"
      BY <1>10, <2>2 DEF Check, Busy, TabRequests, ViewTypeOK
    <3>2. checked'[q].target = NoId BY <1>10, <2>2 DEF Check, ViewTypeOK
    <3>3. PointedTo(checked'[q].target, view[q].task) BY <3>2, NoPointer DEF PointedTo
    <3> QED BY <1>8, <3>1, <3>3 DEF LinksOf, PointsTo, PointedTo
  <2> QED BY <2>1, <2>2
<1>23. ASSUME NEW p \in Submitters, StartGenerate(p) PROVE LinksOf(q)'
  <2>1. CASE p # q BY <1>5, <1>23, <2>1 DEF StartGenerate, ViewTypeOK
  <2>2. CASE p = q
    <3>1. view[q] # NoView /\ view'[q] = view[q] /\ request'[q] # "none"
      BY <1>23, <2>2 DEF StartGenerate, Busy, ViewTypeOK
    <3>2. checked'[q].target = NoId \/ checked'[q].target \in LlmDrafts(view[q].task)
      BY <1>23, <2>2 DEF StartGenerate, ViewTypeOK
    <3>3. ASSUME NEW d \in LlmDrafts(view[q].task) PROVE PointedTo(d, view[q].task)
      BY <1>23, <3>3 DEF StartGenerate, LlmDrafts, Editing, LinkInv, draftVars, idVars,
         PointedTo
    <3>4. PointedTo(checked'[q].target, view[q].task)
      BY <3>2, <3>3, NoPointer DEF PointedTo
    <3> QED BY <1>8, <3>1, <3>4 DEF LinksOf, PointsTo, PointedTo
  <2> QED BY <2>1, <2>2
<1>11. ASSUME NEW p \in Chats, NEW t \in Tasks, NEW kind \in ChatRequests, ReadDraft(p, t, kind)
       PROVE  LinksOf(q)'
  <2>1. CASE p # q BY <1>5, <1>11, <2>1 DEF ReadDraft, ViewTypeOK
  <2>2. CASE p = q
    <3>1. PointedTo(view'[q].draft, view'[q].task) BY <1>7, <1>11, <2>2 DEF ReadDraft
    <3>2. checked'[q].target = NoId /\ request'[q] # "none"
      BY <1>11, <2>2 DEF ReadDraft, ViewTypeOK, ChatRequests
    <3>3. PointedTo(NoId, view'[q].task) BY NoPointer DEF PointedTo
    <3> QED BY <3>1, <3>2, <3>3 DEF LinksOf, PointsTo, PointedTo
  <2> QED BY <2>1, <2>2
<1>12. ASSUME NEW p \in Submitters, Answered(p), ViewTypeOK,
              p # q => view'[q] = view[q],
              p = q => view'[q] = NoView \/ PointedTo(view'[q].draft, view'[q].task)
       PROVE  LinksOf(q)'
  <2>1. CASE p # q BY <1>5, <1>12, <2>1 DEF Answered, ViewTypeOK
  <2>2. CASE p = q BY <1>12, <2>2, LinksAnswered
  <2> QED BY <2>1, <2>2
<1>13. ASSUME NEW p \in Submitters, Answered(p), UNCHANGED view, view[p] # NoView
       PROVE  LinksOf(q)'
  BY <1>8, <1>12, <1>13
<1>14. ASSUME NEW p \in Submitters, Answered(p), Forgets(p) PROVE LinksOf(q)'
  <2>1. CASE p # q BY <1>12, <1>14, <2>1 DEF Forgets, ViewTypeOK
  <2>2. CASE p = q
    <3>1. view'[q] = NoView \/ view'[q] = view[q] BY <1>14, <2>2 DEF Forgets, ViewTypeOK
    <3> QED BY <1>8, <1>12, <1>14, <2>2, <3>1
  <2> QED BY <2>1, <2>2
<1>15. ASSUME NEW p \in Submitters, SaveDraft(p) \/ GenerateDraft(p) PROVE LinksOf(q)'
  <2>1. view[p] # NoView /\ CanWrite /\ Answered(p)
    BY <1>15 DEF SaveDraft, GenerateDraft, Busy
  <2>2. \/ \E d \in Live : /\ drafts[d].task = view[p].task
                           /\ TextSets(d, view[p].task) /\ ShowsWritten(p, d)
        \/ \E source \in {"manual", "llm"} :
             /\ InsertMatches(view[p].task)
             /\ InsertSets(view[p].task, source, 1) /\ ShowsWritten(p, NewId)
    <3>1. CASE SaveDraft(p)
      BY <3>1 DEF SaveDraft, SaveMatches, InsertMatches, Editing
    <3>2. CASE GenerateDraft(p)
      <4>1. checked[p].target \in Editing => drafts[checked[p].target].task = view[p].task
        BY <2>1 DEF LinkInv, LinksOf, PointsTo, Editing
      <4> QED BY <3>2, <4>1 DEF GenerateDraft, Editing
    <3> QED BY <1>15, <3>1, <3>2
  <2>3. PointedTo(view'[p].draft, view'[p].task)
    BY <2>1, <2>2, RewriteLinks, InsertLinks
  <2>4. p # q => view'[q] = view[q]
    BY <2>2 DEF ShowsWritten, ViewTypeOK
  <2> QED BY <1>12, <2>1, <2>3, <2>4
<1>16. ASSUME NEW p \in Submitters, UpdateDraft(p) PROVE LinksOf(q)'
  <2>1. view[p] # NoView /\ CanWrite /\ Answered(p) BY <1>16 DEF UpdateDraft, Busy
  <2>2. CASE UNCHANGED view BY <1>13, <2>1, <2>2
  <2>3. CASE UpdateMatches(view[p].draft, view[p].version)
    <3>1. /\ view[p].draft \in Live /\ TextSets(view[p].draft, view[p].task)
          /\ ShowsWritten(p, view[p].draft)
      BY <1>16, <2>3 DEF UpdateDraft, UpdateMatches, Editing
    <3>2. drafts[view[p].draft].task = view[p].task
      BY <2>1, <3>1 DEF LinkInv, LinksOf, PointsTo
    <3>3. PointedTo(view'[p].draft, view'[p].task) BY <2>1, <3>1, <3>2, RewriteLinks
    <3>4. p # q => view'[q] = view[q] BY <3>1 DEF ShowsWritten, ViewTypeOK
    <3> QED BY <1>12, <2>1, <3>3, <3>4
  <2> QED BY <1>16, <2>2, <2>3 DEF UpdateDraft
<1>17. ASSUME NEW p \in Submitters, DeleteDraft(p) PROVE LinksOf(q)'
  <2>1. Answered(p) /\ view' = [view EXCEPT ![p] = Shows(view[p].task, NoId)]
    BY <1>17 DEF DeleteDraft
  <2>2. view'[p].draft = NoId BY <2>1 DEF Shows, ViewTypeOK
  <2>3. PointedTo(view'[p].draft, view'[p].task) BY <2>2, NoPointer DEF PointedTo
  <2>4. p # q => view'[q] = view[q] BY <2>1 DEF ViewTypeOK
  <2> QED BY <1>12, <2>1, <2>3, <2>4
<1>18. ASSUME NEW p \in Submitters, SubmitReply(p) PROVE LinksOf(q)'
  BY <1>13, <1>18 DEF SubmitReply, Busy
<1>19. ASSUME NEW p \in Submitters, StageDraft(p) \/ CommitDraft(p) \/ RequestFails(p)
       PROVE  LinksOf(q)'
  BY <1>14, <1>19 DEF StageDraft, CommitDraft, RequestFails
<1>20. ASSUME UNCHANGED tabVars PROVE LinksOf(q)'
  BY <1>5, <1>20 DEF tabVars
<1>21. CASE UNCHANGED vars BY <1>20, <1>21 DEF vars
<1>22. CASE Next
  BY <1>9, <1>10, <1>11, <1>15, <1>16, <1>17, <1>18, <1>19, <1>20, <1>22, <1>23
     DEF Next, TaskEnds
<1> QED BY <1>21, <1>22

\* While no id is given twice, no request writes a text into the draft of another
\* task, however long it held the id.
THEOREM TextStaysUntilReuseHolds == Spec => []TextStaysUntilReuse
<1>1. LinkInv => TextStaysUntilReuse BY DEF LinkInv
<1> QED BY <1>1, LinkInit, LinkStep, DraftsTypeCorrect, PTL DEF Spec

-----------------------------------------------------------------------------
(* Submitted drafts.  A waiting task has no reply yet, so the reply that   *)
(* marks a draft is its task's first: one more row is marked, and one more *)
(* task is answered.                                                       *)

Waits(t) == state[t] = "waiting_human" => reply[t] = NoReply

SubmittedInv ==
  /\ \A t \in Tasks : Waits(t)
  /\ OneDraftPerReply

LEMMA RepliesStep ==
  ASSUME DraftsTypeOK, [Next]_vars, \A t \in Tasks : Waits(t)
  PROVE  \A t \in Tasks :
           /\ Waits(t)'
           /\ reply[t] # NoReply => reply'[t] = reply[t]
<1>0. RepositoryTypeOK /\ ViewTypeOK BY SplitType
<1>1. SUFFICES ASSUME NEW t \in Tasks
               PROVE  Waits(t)' /\ (reply[t] # NoReply => reply'[t] = reply[t])
  OBVIOUS
<1>2. ASSUME UNCHANGED rowVars
      PROVE  Waits(t)' /\ (reply[t] # NoReply => reply'[t] = reply[t])
  BY <1>2 DEF Waits, rowVars
<1>3. ASSUME NEW p \in Submitters, NEW x \in Tasks, NEW v, FirstReplyMatches(x, v),
             FirstReplySets(x, p)
      PROVE  Waits(t)' /\ (reply[t] # NoReply => reply'[t] = reply[t])
  BY <1>0, <1>3 DEF FirstReplyMatches, FirstReplySets, Advance, Waits, RepositoryTypeOK
<1>4. ASSUME NEW p \in Submitters, SubmitReply(p) \/ CommitDraft(p)
      PROVE  Waits(t)' /\ (reply[t] # NoReply => reply'[t] = reply[t])
  <2>1. view[p].task \in Tasks
    BY <1>0, <1>4, ViewOfType DEF SubmitReply, CommitDraft, Busy
  <2>2. \/ UNCHANGED rowVars
        \/ /\ FirstReplyMatches(view[p].task, checked[p].version)
           /\ FirstReplySets(view[p].task, p)
    BY <1>4 DEF SubmitReply, CommitDraft
  <2> QED BY <1>2, <1>3, <2>1, <2>2
<1>5. ASSUME NEW x \in Tasks, TaskEnds(x)
      PROVE  Waits(t)' /\ (reply[t] # NoReply => reply'[t] = reply[t])
  BY <1>5 DEF TaskEnds, TerminalValues, Waits
<1>6. CASE UNCHANGED vars BY <1>2, <1>6 DEF vars
<1>7. CASE Next
  BY <1>2, <1>4, <1>5, <1>7 DEF Next, OpenTask, Check, StartGenerate, ReadDraft, SaveDraft, UpdateDraft,
     DeleteDraft, GenerateDraft, StageDraft, RequestFails
<1> QED BY <1>6, <1>7

SubmittedRows == {d \in DraftIds : drafts[d] # NoDraft /\ drafts[d].state # "editing"}

RepliedTasks == {t \in Tasks : reply[t] # NoReply}

LEMMA SubmittedAre ==
  OneDraftPerReply <=> Cardinality(SubmittedRows) <= Cardinality(RepliedTasks)
<1>1. Live \ Editing = SubmittedRows BY DEF Live, Editing, SubmittedRows
<1> QED BY <1>1 DEF OneDraftPerReply, RepliedTasks

LEMMA FiniteAll ==
  /\ \A S \in SUBSET DraftIds : IsFiniteSet(S) /\ Cardinality(S) \in Nat
  /\ \A S \in SUBSET Tasks : IsFiniteSet(S) /\ Cardinality(S) \in Nat
<1>1. IsFiniteSet(DraftIds) BY DraftBoundsType, FS_Interval DEF DraftIds
<1> QED BY <1>1, TasksFinite, FS_Subset, FS_CardinalityType

\* Every row that is no longer edited was so before, but for one that a reply marks.
LEMMA SubmittedGrows ==
  ASSUME RowsTypeOK, RowsStep
  PROVE  \/ SubmittedRows' \subseteq SubmittedRows
         \/ \E p \in Submitters, d \in DraftIds :
              MarkedBy(p, d) /\ SubmittedRows' \subseteq SubmittedRows \cup {d}
<1>1. CASE UNCHANGED <<drafts, idVars>> BY <1>1 DEF SubmittedRows
<1>2. ASSUME NEW t \in Tasks, Inserted(t) PROVE SubmittedRows' \subseteq SubmittedRows
  BY <1>2 DEF Inserted, SubmittedRows
<1>3. ASSUME NEW p \in Submitters, NEW d \in DraftIds, Rewritten(d, view[p].task)
      PROVE  SubmittedRows' \subseteq SubmittedRows
  BY <1>3 DEF Rewritten, SubmittedRows, Live
<1>4. ASSUME NEW p \in Submitters, NEW d \in DraftIds, MarkedBy(p, d)
      PROVE  SubmittedRows' \subseteq SubmittedRows \cup {d}
  BY <1>4 DEF MarkedBy, Marked, SubmittedRows
<1>5. ASSUME NEW d \in DraftIds, Removed(d) PROVE SubmittedRows' \subseteq SubmittedRows
  BY <1>5 DEF Removed, SubmittedRows, RowsTypeOK
<1> QED BY <1>1, <1>2, <1>3, <1>4, <1>5 DEF RowsStep

LEMMA SubmittedStep ==
  ASSUME DraftsTypeOK, SubmittedInv, [Next]_vars
  PROVE  SubmittedInv'
<1>0. RepositoryTypeOK /\ RowsTypeOK /\ ViewTypeOK /\ RowsStep BY SplitType, RowsSteps
<1>1. \A t \in Tasks : Waits(t)' /\ (reply[t] # NoReply => reply'[t] = reply[t])
  BY RepliesStep DEF SubmittedInv
<1>2. RepliedTasks \subseteq RepliedTasks' BY <1>1 DEF RepliedTasks
<1>3. Cardinality(SubmittedRows) <= Cardinality(RepliedTasks)
  BY SubmittedAre DEF SubmittedInv
<1>4. /\ IsFiniteSet(SubmittedRows) /\ IsFiniteSet(SubmittedRows')
      /\ IsFiniteSet(RepliedTasks) /\ IsFiniteSet(RepliedTasks')
      /\ Cardinality(SubmittedRows) \in Nat /\ Cardinality(SubmittedRows') \in Nat
      /\ Cardinality(RepliedTasks) \in Nat /\ Cardinality(RepliedTasks') \in Nat
  <2>1. /\ SubmittedRows \subseteq DraftIds /\ SubmittedRows' \subseteq DraftIds
        /\ RepliedTasks \subseteq Tasks /\ RepliedTasks' \subseteq Tasks
    BY DEF SubmittedRows, RepliedTasks
  <2> QED BY <2>1, FiniteAll
<1>5. Cardinality(SubmittedRows') <= Cardinality(RepliedTasks')
  <2>1. CASE SubmittedRows' \subseteq SubmittedRows
    <3>1. Cardinality(SubmittedRows') <= Cardinality(SubmittedRows)
      BY <1>4, <2>1, FS_Subset
    <3>2. Cardinality(RepliedTasks) <= Cardinality(RepliedTasks')
      BY <1>2, <1>4, FS_Subset
    <3> QED BY <1>3, <1>4, <3>1, <3>2
  <2>2. ASSUME NEW p \in Submitters, NEW d \in DraftIds, MarkedBy(p, d),
               SubmittedRows' \subseteq SubmittedRows \cup {d}
        PROVE  Cardinality(SubmittedRows') <= Cardinality(RepliedTasks')
    <3> DEFINE t == view[p].task
    <3>1. t \in Tasks BY <1>0, <2>2, ViewOfType DEF MarkedBy
    <3>2. reply[t] = NoReply
      BY <2>2, <3>1 DEF MarkedBy, FirstReplyMatches, SubmittedInv, Waits
    <3>3. reply'[t] = p
      BY <1>0, <2>2, <3>1 DEF MarkedBy, FirstReplySets, RepositoryTypeOK
    <3>4. t \notin RepliedTasks /\ RepliedTasks \cup {t} \subseteq RepliedTasks'
      BY <1>2, <3>1, <3>2, <3>3, NoReplyIsNotAnAuthor DEF RepliedTasks, Authors
    <3> HIDE DEF t
    <3>5. /\ IsFiniteSet(RepliedTasks \cup {t})
          /\ Cardinality(RepliedTasks \cup {t}) = Cardinality(RepliedTasks) + 1
      BY <1>4, <3>4, FS_AddElement
    <3>6. Cardinality(RepliedTasks) + 1 <= Cardinality(RepliedTasks')
      BY <1>4, <3>4, <3>5, FS_Subset
    <3>7. /\ IsFiniteSet(SubmittedRows \cup {d})
          /\ Cardinality(SubmittedRows \cup {d}) <= Cardinality(SubmittedRows) + 1
          /\ Cardinality(SubmittedRows \cup {d}) \in Nat
      <4>1. /\ IsFiniteSet(SubmittedRows \cup {d})
            /\ Cardinality(SubmittedRows \cup {d}) =
                 IF d \in SubmittedRows THEN Cardinality(SubmittedRows)
                                        ELSE Cardinality(SubmittedRows) + 1
        BY <1>4, FS_AddElement
      <4> QED BY <1>4, <4>1
    <3>8. Cardinality(SubmittedRows') <= Cardinality(SubmittedRows \cup {d})
      BY <2>2, <3>7, FS_Subset
    <3> QED BY <1>3, <1>4, <3>6, <3>7, <3>8
  <2> QED BY <1>0, <2>1, <2>2, SubmittedGrows
<1>6. OneDraftPerReply'
  <2>1. (Live \ Editing)' = SubmittedRows' BY DEF Live, Editing, SubmittedRows
  <2> QED BY <1>5, <2>1 DEF OneDraftPerReply, RepliedTasks
<1> QED BY <1>1, <1>6 DEF SubmittedInv

\* At no time are more drafts marked submitted than tasks are answered, whatever
\* drafts the submissions name and whatever ids are given again.
THEOREM OneDraftPerReplyHolds == Spec => []OneDraftPerReply
<1>1. Init => SubmittedInv
  <2> SUFFICES ASSUME Init PROVE SubmittedInv OBVIOUS
  <2>1. \A t \in Tasks : Waits(t) BY DEF Init, Waits
  <2>2. SubmittedRows = {} BY DEF Init, SubmittedRows
  <2>3. Cardinality(RepliedTasks) \in Nat BY FiniteAll DEF RepliedTasks
  <2>4. OneDraftPerReply BY <2>2, <2>3, SubmittedAre, FS_EmptySet
  <2> QED BY <2>1, <2>4 DEF SubmittedInv
<1>2. SubmittedInv => OneDraftPerReply BY DEF SubmittedInv
<1> QED BY <1>1, <1>2, SubmittedStep, DraftsTypeCorrect, PTL DEF Spec
=============================================================================
