-------------------------- MODULE AssistantProofs --------------------------
(***************************************************************************)
(* Theorems about Assistant, for every number of sends, of earlier messages *)
(* and of conversations, and whatever KeepRecent and MaxHistory are.        *)
(***************************************************************************)
EXTENDS Assistant, RowLemmas

-----------------------------------------------------------------------------
(* The steps, as far as the invariants tell them apart.                    *)

Kept == {"saved", "summarising", "building", "upstream", "replaying", "done"}

\* What a request does to its own progress.
SendMove(s, q) ==
  /\ q \in SendStates
  /\ send' = [send EXCEPT ![s] = q]
  /\ q.at # "idle"
  /\ q.at = "opened" => send[s].at = "idle" /\ Exists(q.session)
  /\ q.at # "opened" => /\ q.session = send[s].session
                        /\ send[s].at \notin {"idle", "done", "failed"}
  /\ q.at = "saved" => send[s].at = "opened" /\ q.folding = {}
  /\ q.at = "summarising" => send[s].at = "saved"
  /\ q.at \in Kept \ {"saved"} => send[s].at \in Kept \ {"done"}

\* The conversations keep their ids.
Touched ==
  /\ sessions' \subseteq SessionRows
  /\ Ids(sessions') = Ids(sessions)
  /\ \A a, b \in sessions' : a.id = b.id => a = b
  /\ UNCHANGED <<enabled, created, reused, removed, cut>>

\* Rows are deleted: of a conversation that stays, only old ones.
Purge(gone) ==
  /\ gone \subseteq messages
  /\ messages' = messages \ gone
  /\ sessions' \subseteq sessions
  /\ removed' = removed \cup Tells(gone)
  /\ \A m \in messages \ gone : m.session \in Ids(sessions')
  /\ \A m \in gone : m.session \in Ids(sessions') => m.old
  /\ UNCHANGED <<enabled, created, reused, cut, send>>

\* A request moves on without a row.
Quiet(s, q) ==
  /\ SendMove(s, q)
  /\ q.at \notin {"saved", "done"}
  /\ q.at = "summarising" =>
       \E early \in SUBSET RowsOf(send[s].session) :
          q.folding = Ids(early) /\ q.summary \cup q.unread = Tells(early)
  /\ UNCHANGED <<sessions, messages, enabled, created, reused, removed, cut>>

\* A request stores its message or its reply.
Stores(s, q) ==
  /\ SendMove(s, q)
  /\ Touched
  /\ Exists(send[s].session)
  /\ \/ /\ q.at = "saved"
        /\ messages' = Insert(messages, send[s].session, "user", {<<"user", s>>})
     \/ /\ q.at = "done"
        /\ messages' = Insert(messages, send[s].session, "assistant", {<<"assistant", s>>})

\* A request replaces messages by their summary.
Folds(s, q) ==
  /\ SendMove(s, q)
  /\ q.at = "building"
  /\ send[s].at = "summarising"
  /\ AllStillThere(s)
  /\ messages' = Insert(messages, send[s].session, "summary", send[s].summary)
                 \ FoldTargets(s)
  /\ cut' = cut \cup send[s].unread
  /\ UNCHANGED <<sessions, enabled, created, reused, removed>>

LEMMA ProgressType ==
  ASSUME NEW step \in Steps, NEW i \in 0 .. MaxSessions
  PROVE  Progress(step, i) \in SendStates
BY AssistantAssumption DEF Progress, SendStates

LEMMA RowSets ==
  /\ IsFiniteSet(Sends) /\ Cardinality(Sends) \in Nat
  /\ MaxEarlier \in Nat /\ MaxSessions \in Nat /\ MaxSessions >= 1
  /\ MessageIds \subseteq Nat
  /\ \A rows, n : n \in Ids(rows) <=> \E r \in rows : r.id = n
<1>1. IsFiniteSet(Sends) /\ Cardinality(Sends) \in Nat
  BY AssistantAssumption, FS_CardinalityType
<1> QED
  BY <1>1, AssistantAssumption DEF MessageIds, Ids

\* Every step is one of these.
Forms ==
  \/ sessions' = sessions /\ enabled' \in BOOLEAN
     /\ UNCHANGED <<messages, created, reused, removed, cut, send>>
  \/ CreateSession
  \/ Touched /\ UNCHANGED <<messages, send>>
  \/ \E gone \in SUBSET messages : Purge(gone)
  \/ \E s \in Sends, q \in SendStates : Quiet(s, q) \/ Stores(s, q) \/ Folds(s, q)

\* A new reply or title leaves the conversations their ids.
LEMMA TouchKeepsIds ==
  ASSUME AssistantTypeOK, NEW i,
         sessions' = {IF r.id = i THEN [r EXCEPT !.idle = FALSE] ELSE r : r \in sessions},
         UNCHANGED <<enabled, created, reused, removed, cut>>
  PROVE  Touched
<1> DEFINE F(r) == IF r.id = i THEN [r EXCEPT !.idle = FALSE] ELSE r
<1>1. \A r \in sessions : F(r) \in SessionRows /\ F(r).id = r.id
  BY DEF AssistantTypeOK, SessionRows
<1>2. sessions' = {F(r) : r \in sessions}
  OBVIOUS
<1> HIDE DEF F
<1>3. Ids(sessions') = Ids(sessions)
  BY <1>1, <1>2 DEF Ids
<1>4. \A a, b \in sessions' : a.id = b.id => a = b
  BY <1>1, <1>2 DEF AssistantTypeOK
<1> QED
  BY <1>1, <1>2, <1>3, <1>4 DEF Touched

\* A request that only changes its place, and stores nothing.
LEMMA GotoIsQuiet ==
  ASSUME AssistantTypeOK, NEW s \in Sends,
         NEW step \in Steps \ {"idle", "opened", "saved", "summarising", "done"},
         send[s].at \notin {"idle", "done", "failed"},
         step # "failed" => send[s].at \in Kept,
         Goto(s, step),
         UNCHANGED <<sessions, messages, enabled, created, reused, removed, cut>>
  PROVE  \E q \in SendStates : Quiet(s, q)
<1>1. send[s] \in SendStates
  BY DEF AssistantTypeOK
<1>2. send[s].session \in 0 .. MaxSessions /\ send[s].at \in Steps
  BY <1>1 DEF SendStates
<1>3. PICK q : q = Progress(step, send[s].session)
  OBVIOUS
<1>4. q \in SendStates
  BY <1>2, <1>3, ProgressType
<1>5. q.at = step /\ q.session = send[s].session
  BY <1>3 DEF Progress
<1>6. SendMove(s, q)
  BY <1>2, <1>3, <1>4, <1>5 DEF SendMove, Goto, Kept, Steps
<1> QED
  BY <1>4, <1>5, <1>6 DEF Quiet

LEMMA TellsType ==
  ASSUME AssistantTypeOK, NEW rows \in SUBSET messages
  PROVE  Tells(rows) \subseteq Marks
<1>1. \A m \in messages : m.tells \subseteq Marks
  BY DEF AssistantTypeOK, MessageRows
<1> QED
  BY <1>1 DEF Tells

LEMMA DeletionForms ==
  ASSUME AssistantTypeOK,
         Cleanup \/ \E i \in Ids(sessions) : DeleteSession(i)
  PROVE  \E gone \in SUBSET messages : Purge(gone)
<1>1. CASE Cleanup
  <2>1. Expired \in SUBSET messages
    BY DEF Expired
  <2>2. \A m \in messages \ Expired : m.session \in Ids(sessions')
    BY <1>1 DEF Cleanup, Expired, AssistantTypeOK, Exists, Ids
  <2>3. \A m \in Expired : m.session \in Ids(sessions') => m.old
    BY <1>1 DEF Cleanup, Expired, AssistantTypeOK, Exists, Ids
  <2> QED
    BY <1>1, <2>1, <2>2, <2>3 DEF Purge, Cleanup
<1>2. ASSUME NEW i \in Ids(sessions), DeleteSession(i)
      PROVE  \E gone \in SUBSET messages : Purge(gone)
  <2>1. RowsOf(i) \in SUBSET messages
    BY DEF RowsOf
  <2>2. \A m \in messages \ RowsOf(i) : m.session \in Ids(sessions')
    BY <1>2 DEF DeleteSession, RowsOf, AssistantTypeOK, Exists, Ids
  <2>3. \A m \in RowsOf(i) : m.session \notin Ids(sessions')
    BY <1>2 DEF DeleteSession, RowsOf, Ids
  <2> QED
    BY <1>2, <2>1, <2>2, <2>3 DEF Purge, DeleteSession
<1> QED
  BY <1>1, <1>2

\* The steps of a request that reach neither the rows nor the end of a part.
LEMMA PlaceForms ==
  ASSUME AssistantTypeOK, NEW s \in Sends,
         \/ \E r \in sessions : Open(s, r)
         \/ CallTools(s) /\ send[s].round < MaxRounds - 1
         \/ Build(s) /\ enabled
  PROVE  \E q \in SendStates : Quiet(s, q)
<1>1. send \in [Sends -> SendStates] /\ send[s] \in SendStates
  BY DEF AssistantTypeOK
<1>2. PICK q : q = send'[s]
  OBVIOUS
<1>3. ASSUME NEW r \in sessions, Open(s, r)
      PROVE  q \in SendStates /\ Quiet(s, q)
  <2>1. r.id \in 0 .. MaxSessions
    BY RowSets DEF AssistantTypeOK, SessionRows
  <2>2. q = [send[s] EXCEPT !.at = "opened", !.session = r.id]
    BY <1>1, <1>2, <1>3 DEF Open
  <2>3. q \in SendStates /\ q.at = "opened" /\ q.session = r.id
    BY <1>1, <2>1, <2>2 DEF SendStates, Steps
  <2>4. send' = [send EXCEPT ![s] = q]
    BY <1>1, <1>2, <1>3 DEF Open
  <2> QED
    BY <1>3, <2>3, <2>4 DEF Open, Quiet, SendMove, Exists, Ids, Kept
<1>4. CASE CallTools(s) /\ send[s].round < MaxRounds - 1
  <2>1. q = [send[s] EXCEPT !.round = @ + 1] /\ send' = [send EXCEPT ![s] = q]
    BY <1>1, <1>2, <1>4 DEF CallTools, ExecuteTools
  <2>2. send[s].round + 1 \in 0 .. MaxRounds
    BY <1>1, <1>4, AssistantAssumption DEF SendStates
  <2>3. q \in SendStates /\ q.at = "upstream" /\ q.session = send[s].session
    BY <1>1, <1>4, <2>1, <2>2 DEF CallTools, SendStates
  <2> QED
    BY <1>4, <2>1, <2>3 DEF CallTools, Quiet, SendMove, Kept
<1>5. CASE Build(s) /\ enabled
  <2>1. Tells(History(s)) \subseteq Marks
    <3>1. History(s) \subseteq messages
      BY DEF History, Newest, RowsOf
    <3> QED
      BY <3>1, TellsType
  <2>2. q = [send[s] EXCEPT !.at = "upstream", !.carries = Tells(History(s))]
    BY <1>1, <1>2, <1>5 DEF Build
  <2>3. send' = [send EXCEPT ![s] = q]
    BY <1>1, <1>2, <1>5 DEF Build
  <2>4. q \in SendStates /\ q.at = "upstream" /\ q.session = send[s].session
    BY <1>1, <2>1, <2>2 DEF SendStates, Steps
  <2> QED
    BY <1>5, <2>3, <2>4 DEF Build, Quiet, SendMove, Kept
<1> QED
  BY <1>3, <1>4, <1>5

\* The summariser is asked: for which rows, and what they tell.
LEMMA AssessForm ==
  ASSUME AssistantTypeOK, NEW s \in Sends, Assess(s)
  PROVE  \E q \in SendStates : Quiet(s, q)
<1>1. send \in [Sends -> SendStates] /\ send[s] \in SendStates
  BY DEF AssistantTypeOK
<1> DEFINE rows  == RowsOf(send[s].session)
           early == rows \ Newest(rows, KeepRecent)
<1>2. early \in SUBSET rows /\ early \in SUBSET messages
  BY DEF RowsOf
<1>3. Ids(early) \in SUBSET MessageIds
  <2>1. \A m \in messages : m.id \in MessageIds
    BY DEF AssistantTypeOK, MessageRows
  <2> HIDE DEF early
  <2> QED
    BY <1>2, <2>1 DEF Ids
<1>4. ASSUME NEW shown \in Transcripts(early)
      PROVE  /\ Tells(shown) \in SUBSET Marks /\ Tells(early \ shown) \in SUBSET Marks
             /\ Tells(shown) \cup Tells(early \ shown) = Tells(early)
  <2> HIDE DEF early
  <2>1. shown \subseteq early
    BY <1>4 DEF Transcripts, Oldest
  <2>2. Tells(shown) \in SUBSET Marks /\ Tells(early \ shown) \in SUBSET Marks
    BY <1>2, <2>1, TellsType
  <2>3. Tells(shown) \cup Tells(early \ shown) = Tells(early)
    BY <2>1 DEF Tells
  <2> QED
    BY <2>2, <2>3
<1>5. CASE Goto(s, "building")
  BY <1>5, GotoIsQuiet DEF Assess, Steps, Kept
<1>6. ASSUME NEW shown \in Transcripts(early),
             send' = [send EXCEPT ![s].at = "summarising", ![s].folding = Ids(early),
                                  ![s].summary = Tells(shown),
                                  ![s].unread = Tells(early \ shown)]
      PROVE  \E q \in SendStates : Quiet(s, q)
  <2> HIDE DEF early
  <2>1. PICK q : q = send'[s]
    OBVIOUS
  <2>2. /\ q = [send[s] EXCEPT !.at = "summarising", !.folding = Ids(early),
                               !.summary = Tells(shown), !.unread = Tells(early \ shown)]
        /\ send' = [send EXCEPT ![s] = q]
    BY <1>1, <1>6, <2>1
  <2>3. /\ q \in SendStates /\ q.at = "summarising" /\ q.session = send[s].session
        /\ q.folding = Ids(early) /\ q.summary = Tells(shown)
        /\ q.unread = Tells(early \ shown)
    BY <1>1, <1>3, <1>4, <2>2 DEF SendStates, Steps
  <2>4. SendMove(s, q)
    BY <2>2, <2>3 DEF Assess, SendMove, Kept
  <2>5. UNCHANGED <<sessions, messages, enabled, created, reused, removed, cut>>
    BY DEF Assess
  <2>6. q.summary \cup q.unread = Tells(early)
    BY <1>4, <2>3
  <2> QED
    BY <1>2, <2>3, <2>4, <2>5, <2>6 DEF Quiet
<1> QED
  BY <1>5, <1>6 DEF Assess

LEMMA StoreForms ==
  ASSUME AssistantTypeOK, NEW s \in Sends, Exists(send[s].session),
         Save(s) \/ Append(s) \/ (Fold(s) /\ AllStillThere(s))
  PROVE  \E q \in SendStates : Stores(s, q) \/ Folds(s, q)
<1>1. send[s].session \in 0 .. MaxSessions
  BY DEF AssistantTypeOK, SendStates
<1>2. CASE Save(s)
  <2>1. PICK q : q = Progress("saved", send[s].session)
    OBVIOUS
  <2>2. q \in SendStates /\ q.at = "saved" /\ q.session = send[s].session /\ q.folding = {}
    BY <1>1, <2>1, ProgressType DEF Progress, Steps
  <2>3. SendMove(s, q)
    BY <1>2, <2>1, <2>2 DEF Save, Goto, SendMove
  <2>4. Touched
    BY <1>2 DEF Save, Touched, AssistantTypeOK
  <2> QED
    BY <1>2, <2>2, <2>3, <2>4 DEF Save, Stores
<1>3. CASE Append(s)
  <2>1. PICK q : q = Progress("done", send[s].session)
    OBVIOUS
  <2>2. q \in SendStates /\ q.at = "done" /\ q.session = send[s].session
    BY <1>1, <2>1, ProgressType DEF Progress, Steps
  <2>3. SendMove(s, q)
    BY <1>3, <2>1, <2>2 DEF Append, Goto, SendMove, Kept
  <2>4. Touched
    BY <1>3, TouchKeepsIds DEF Append
  <2> QED
    BY <1>3, <2>2, <2>3, <2>4 DEF Append, Stores
<1>4. CASE Fold(s) /\ AllStillThere(s)
  <2>1. PICK q : q = Progress("building", send[s].session)
    OBVIOUS
  <2>2. q \in SendStates /\ q.at = "building" /\ q.session = send[s].session
    BY <1>1, <2>1, ProgressType DEF Progress, Steps
  <2>3. SendMove(s, q)
    BY <1>4, <2>1, <2>2 DEF Fold, Goto, SendMove, Kept
  <2> QED
    BY <1>4, <2>2, <2>3 DEF Fold, Folds
<1> QED
  BY <1>2, <1>3, <1>4

LEMMA StepForms ==
  ASSUME AssistantTypeOK, [Next]_vars
  PROVE  Forms
<1>1. CASE UNCHANGED vars
  BY <1>1 DEF vars, Forms, AssistantTypeOK
<1>2. CASE CreateSession
  BY <1>2 DEF Forms
<1>3. CASE ToggleConfig
  BY <1>3 DEF ToggleConfig, Forms
<1>4. CASE \E i \in Ids(sessions) : RenameSession(i)
  BY <1>4, TouchKeepsIds DEF RenameSession, Forms
<1>5. CASE Cleanup \/ \E i \in Ids(sessions) : DeleteSession(i)
  BY <1>5, DeletionForms DEF Forms
<1>6. ASSUME NEW s \in Sends, SendStep(s)
      PROVE  Forms
  <2>1. CASE \/ \E r \in sessions : Open(s, r)
             \/ CallTools(s) /\ send[s].round < MaxRounds - 1
             \/ Build(s) /\ enabled
    BY <2>1, PlaceForms DEF Forms
  <2>2. CASE Assess(s)
    BY <2>2, AssessForm DEF Forms
  <2>3. CASE \/ Save(s) /\ Exists(send[s].session)
             \/ Append(s) /\ Exists(send[s].session)
             \/ Fold(s) /\ AllStillThere(s)
    BY <2>3, StoreForms DEF Forms, AllStillThere
  <2>4. CASE \/ Refuse(s)
             \/ Save(s) /\ ~Exists(send[s].session)
             \/ Append(s) /\ ~Exists(send[s].session)
             \/ Fold(s) /\ ~AllStillThere(s)
             \/ CallTools(s) /\ ~(send[s].round < MaxRounds - 1)
             \/ Build(s) /\ ~enabled
             \/ CallFails(s) \/ StreamFails(s) \/ Disconnect(s)
    <3>1. Goto(s, "failed") /\ send[s].at \notin {"idle", "done", "failed"}
      BY <2>4 DEF Refuse, Save, Append, Fold, CallTools, Build, CallFails, StreamFails,
                  Disconnect
    <3>2. UNCHANGED <<sessions, messages, enabled, created, reused, removed, cut>>
      BY <2>4 DEF Refuse, Save, Append, Fold, CallTools, Build, CallFails, StreamFails,
                  Disconnect
    <3> QED
      BY <3>1, <3>2, GotoIsQuiet DEF Steps, Forms
  <2>5. CASE KeepHistory(s) \/ Timeout(s) \/ Answer(s)
    <3>1. PICK step \in {"building", "replaying", "failed"} : Goto(s, step)
      BY <2>5 DEF KeepHistory, Timeout, Answer
    <3>2. send[s].at \in {"summarising", "upstream"}
      BY <2>5 DEF KeepHistory, Timeout, Answer, TimedSteps
    <3>3. UNCHANGED <<sessions, messages, enabled, created, reused, removed, cut>>
      BY <2>5 DEF KeepHistory, Timeout, Answer
    <3> QED
      BY <3>1, <3>2, <3>3, GotoIsQuiet DEF Steps, Kept, Forms
  <2> QED
    BY <1>6, <2>1, <2>2, <2>3, <2>4, <2>5 DEF SendStep, Proceed
<1> QED
  BY <1>1, <1>2, <1>3, <1>4, <1>5, <1>6 DEF Next

-----------------------------------------------------------------------------
(* Numbers.  A conversation that is named was created, and the number of a *)
(* message is bounded by what the requests have written so far.            *)

\* The requests that may have stored their message, a summary, their reply.
Begun    == {s \in Sends : send[s].at \notin {"idle", "opened"}}
Prepared == {s \in Sends : send[s].at \notin {"idle", "opened", "saved", "summarising"}}
Replied  == {s \in Sends : send[s].at = "done"}

Written == Cardinality(Begun) + Cardinality(Prepared) + Cardinality(Replied)

Numbers ==
  /\ created >= 1
  /\ \A r \in sessions : r.id <= created
  /\ \A s \in Sends : send[s].session <= created
  /\ \A m \in messages : m.id <= MaxEarlier + Written

TypeInv == AssistantTypeOK /\ Numbers

LEMMA WrittenIsBounded ==
  Written \in Nat /\ Written <= 3 * Cardinality(Sends)
<1>1. \A A \in SUBSET Sends : Cardinality(A) \in Nat /\ Cardinality(A) <= Cardinality(Sends)
  BY RowSets, CountGrows
<1>2. Begun \in SUBSET Sends /\ Prepared \in SUBSET Sends /\ Replied \in SUBSET Sends
  BY DEF Begun, Prepared, Replied
<1> QED
  BY <1>1, <1>2, RowSets DEF Written

\* The number of a new row is free, and larger than all.
LEMMA NextIdIsNew ==
  ASSUME NEW rows, NEW n \in Nat, \A r \in rows : r.id \in 1 .. n,
         \A a, b \in rows : a.id = b.id => a = b
  PROVE  /\ NextId(rows) \in 1 .. n + 1
         /\ \A r \in rows : r.id < NextId(rows)
<1>1. CASE rows = {}
  BY <1>1 DEF NextId
<1>2. CASE rows # {}
  <2>1. IsFiniteSet(Ids(rows)) /\ Ids(rows) \subseteq Nat
    BY FiniteRows DEF Ids
  <2>2. Ids(rows) # {}
    BY <1>2 DEF Ids
  <2>3. PICK k : k = CHOOSE x \in Ids(rows) : \A m \in Ids(rows) : m <= x
    OBVIOUS
  <2>4. k \in Ids(rows) /\ \A m \in Ids(rows) : m <= k
    BY <2>1, <2>2, <2>3, FiniteMax
  <2>5. k \in 1 .. n /\ \A r \in rows : r.id <= k
    BY <2>4 DEF Ids
  <2>6. NextId(rows) = 1 + k
    BY <1>2, <2>3 DEF NextId
  <2> QED
    BY <2>5, <2>6
<1> QED
  BY <1>1, <1>2

LEMMA NewMessage ==
  ASSUME TypeInv, NEW i, Exists(i), NEW role \in {"user", "assistant", "summary"},
         NEW tells \in SUBSET Marks, Written < 3 * Cardinality(Sends)
  PROVE  \E w \in MessageRows :
           /\ Insert(messages, i, role, tells) = messages \cup {w}
           /\ w.session = i /\ w.tells = tells /\ ~w.old
           /\ w.id \in 1 .. MaxEarlier + Written + 1
           /\ \A m \in messages : m.id < w.id
<1> DEFINE w == [id |-> NextId(messages), session |-> i, role |-> role,
                 tells |-> tells, old |-> FALSE]
<1>1. \A m \in messages : m.id \in 1 .. MaxEarlier + Written
  BY WrittenIsBounded, RowSets DEF TypeInv, AssistantTypeOK, MessageRows, MessageIds, Numbers
<1>2. \A a, b \in messages : a.id = b.id => a = b
  BY DEF TypeInv, AssistantTypeOK
<1>3. MaxEarlier + Written \in Nat
  BY WrittenIsBounded, RowSets
<1>4. /\ NextId(messages) \in 1 .. MaxEarlier + Written + 1
      /\ \A m \in messages : m.id < NextId(messages)
  BY <1>1, <1>2, <1>3, NextIdIsNew
<1>5. NextId(messages) \in MessageIds
  BY <1>4, WrittenIsBounded, RowSets DEF MessageIds
<1>6. i \in 1 .. MaxSessions
  BY DEF TypeInv, AssistantTypeOK, SessionRows, Exists, Ids
<1>7. w \in MessageRows
  BY <1>5, <1>6 DEF MessageRows
<1>8. Insert(messages, i, role, tells) = messages \cup {w}
  BY DEF Insert
<1>9. w.id = NextId(messages) /\ w.session = i /\ w.tells = tells /\ ~w.old
  OBVIOUS
<1> HIDE DEF w
<1> QED
  BY <1>4, <1>7, <1>8, <1>9

\* What a request has written only grows, by one with each message.
LEMMA WrittenGrows ==
  ASSUME TypeInv, NEW s \in Sends, NEW q \in SendStates, SendMove(s, q)
  PROVE  /\ Written' \in Nat /\ Written <= Written'
         /\ q.at \in {"saved", "done"} => Written + 1 <= Written'
         /\ q.at = "building" /\ send[s].at = "summarising" => Written + 1 <= Written'
         /\ Written' <= 3 * Cardinality(Sends)
<1>1. send \in [Sends -> SendStates]
  BY DEF TypeInv, AssistantTypeOK
<1>2. \A t \in Sends : send'[t] = IF t = s THEN q ELSE send[t]
  BY <1>1 DEF SendMove
<1>3. Begun \subseteq Begun' /\ Prepared \subseteq Prepared' /\ Replied \subseteq Replied'
  BY <1>2 DEF SendMove, Begun, Prepared, Replied, Kept
<1>4. Begun' \subseteq Sends /\ Prepared' \subseteq Sends /\ Replied' \subseteq Sends
  BY DEF Begun, Prepared, Replied
<1>5. IsFiniteSet(Begun') /\ IsFiniteSet(Prepared') /\ IsFiniteSet(Replied')
  BY <1>4, RowSets, FS_Subset
<1>6. PICK b, p, r, c, d, e :
        /\ b = Cardinality(Begun) /\ p = Cardinality(Prepared) /\ r = Cardinality(Replied)
        /\ c = Cardinality(Begun') /\ d = Cardinality(Prepared') /\ e = Cardinality(Replied')
  OBVIOUS
<1>7. /\ b \in Nat /\ c \in Nat /\ b <= c
      /\ p \in Nat /\ d \in Nat /\ p <= d
      /\ r \in Nat /\ e \in Nat /\ r <= e
  BY <1>3, <1>5, <1>6, CountGrows
<1>8. Written = b + p + r /\ Written' = c + d + e
  BY <1>6 DEF Written
<1>9. q.at = "saved" => b + 1 <= c
  <2>1. q.at = "saved" => s \in Begun' \ Begun
    BY <1>2 DEF SendMove, Begun
  <2> QED
    BY <2>1, <1>3, <1>5, <1>6, CountGrows
<1>10. q.at = "done" => r + 1 <= e
  <2>1. q.at = "done" => s \in Replied' \ Replied
    BY <1>2 DEF SendMove, Replied
  <2> QED
    BY <2>1, <1>3, <1>5, <1>6, CountGrows
<1>11. q.at = "building" /\ send[s].at = "summarising" => p + 1 <= d
  <2>1. q.at = "building" /\ send[s].at = "summarising" => s \in Prepared' \ Prepared
    BY <1>2 DEF Prepared
  <2> QED
    BY <2>1, <1>3, <1>5, <1>6, CountGrows
<1>12. Written' <= 3 * Cardinality(Sends)
  <2>1. \A A \in SUBSET Sends : Cardinality(A) <= Cardinality(Sends)
    BY RowSets, CountGrows
  <2> QED
    BY <2>1, <1>4, <1>6, <1>7, <1>8, RowSets
<1> QED
  BY <1>7, <1>8, <1>9, <1>10, <1>11, <1>12

-----------------------------------------------------------------------------
(* Types.                                                                  *)

LEMMA InitTypes == Init => TypeInv
<1> SUFFICES ASSUME Init
             PROVE  TypeInv
  OBVIOUS
<1>1. PICK idle \in BOOLEAN : sessions = {[id |-> 1, idle |-> idle]}
  BY DEF Init
<1>2. PICK n \in 0 .. MaxEarlier, old \in BOOLEAN :
        messages = {[id |-> k, session |-> 1, role |-> "user",
                     tells |-> {<<"earlier", k>>}, old |-> old] : k \in 1 .. n}
  BY DEF Init
<1>3. created = 1 /\ enabled = TRUE /\ reused = FALSE /\ removed = {} /\ cut = {}
  BY DEF Init
<1>4. send = [s \in Sends |-> NoSend] /\ NoSend \in SendStates /\ NoSend.session = 0
  <2>1. NoSend \in SendStates
    BY ProgressType, RowSets DEF NoSend, Steps
  <2> QED
    BY <2>1 DEF Init, NoSend, Progress
<1>5. sessions \subseteq SessionRows /\ \A i : Exists(i) <=> i = 1
  BY <1>1, RowSets DEF SessionRows, Exists, Ids
<1>6. \A k \in 1 .. n :
        /\ k \in MessageIds /\ k <= MaxEarlier
        /\ <<"earlier", k>> \in Marks
  BY RowSets DEF MessageIds, Marks
<1>7. /\ messages \subseteq MessageRows
      /\ \A m \in messages : m.session = 1 /\ m.id <= MaxEarlier /\ m.id \in Nat
      /\ \A a, b \in messages : a.id = b.id => a = b
  <2>1. ASSUME NEW k \in 1 .. n
        PROVE  [id |-> k, session |-> 1, role |-> "user",
                tells |-> {<<"earlier", k>>}, old |-> old] \in MessageRows
    BY <1>6, RowSets DEF MessageRows
  <2>2. \A m \in messages : \E k \in 1 .. n :
          /\ m = [id |-> k, session |-> 1, role |-> "user",
                  tells |-> {<<"earlier", k>>}, old |-> old]
          /\ m.id = k /\ m.session = 1
    BY <1>2
  <2>3. messages \subseteq MessageRows
    BY <2>1, <2>2
  <2>4. \A m \in messages : m.session = 1 /\ m.id <= MaxEarlier /\ m.id \in Nat
    <3>1. \A k \in 1 .. n : k \in Nat /\ k <= MaxEarlier
      BY <1>2, RowSets
    <3> QED
      BY <3>1, <2>2
  <2>5. \A a, b \in messages : a.id = b.id => a = b
    BY <2>2
  <2> QED
    BY <2>3, <2>4, <2>5
<1>8. AssistantTypeOK
  <2>1. \A a, b \in sessions : a.id = b.id => a = b
    BY <1>1
  <2>2. \A m \in messages : Exists(m.session)
    BY <1>5, <1>7
  <2>3. send \in [Sends -> SendStates]
    BY <1>4
  <2>4. created \in 0 .. MaxSessions
    BY <1>3, RowSets
  <2> QED
    BY <1>3, <1>5, <1>7, <2>1, <2>2, <2>3, <2>4 DEF AssistantTypeOK
<1>9. Numbers
  BY <1>1, <1>3, <1>4, <1>7, WrittenIsBounded, RowSets DEF Numbers
<1> QED
  BY <1>8, <1>9 DEF TypeInv

\* A new conversation.
LEMMA CreateTypes ==
  ASSUME TypeInv, CreateSession
  PROVE  TypeInv' /\ NextId(sessions) <= created + 1
<1>1. created \in Nat /\ \A r \in sessions : r.id \in 1 .. created
  BY RowSets DEF TypeInv, AssistantTypeOK, SessionRows, Numbers
<1>2. /\ NextId(sessions) \in 1 .. created + 1
      /\ \A r \in sessions : r.id < NextId(sessions)
  BY <1>1, NextIdIsNew DEF TypeInv, AssistantTypeOK
<1>3. PICK r : r = [id |-> NextId(sessions), idle |-> FALSE]
  OBVIOUS
<1>4. r \in SessionRows /\ r.id = NextId(sessions)
  BY <1>1, <1>2, <1>3, RowSets DEF CreateSession, SessionRows
<1>5. sessions' = sessions \cup {r}
  BY <1>3 DEF CreateSession
<1>6. /\ sessions' \subseteq SessionRows
      /\ \A a, b \in sessions' : a.id = b.id => a = b
      /\ \A x \in sessions' : x.id <= created'
  <2>1. \A x \in sessions : x.id \in Nat /\ x.id # r.id /\ x.id <= created + 1
    BY <1>1, <1>2, <1>4
  <2> QED
    BY <1>1, <1>2, <1>4, <1>5, <2>1 DEF TypeInv, AssistantTypeOK, CreateSession
<1>7. created' \in 0 .. MaxSessions /\ created' >= 1 /\ created <= created'
  BY <1>1, RowSets DEF CreateSession
<1>8. reused' \in BOOLEAN
  BY DEF CreateSession, TypeInv, AssistantTypeOK
<1>9. AssistantTypeOK'
  BY <1>5, <1>6, <1>7, <1>8 DEF TypeInv, AssistantTypeOK, CreateSession, Exists, Ids
<1>10. Written' = Written
  BY DEF CreateSession, Written, Begun, Prepared, Replied
<1>11. \A s \in Sends : send[s].session \in Nat
  BY RowSets DEF TypeInv, AssistantTypeOK, SendStates
<1>12. \A s \in Sends : send'[s].session <= created'
  BY <1>1, <1>11 DEF CreateSession, TypeInv, Numbers
<1>13. Numbers'
  BY <1>6, <1>7, <1>10, <1>12 DEF TypeInv, Numbers, CreateSession
<1> QED
  BY <1>2, <1>9, <1>13 DEF TypeInv

LEMMA PurgeTypes ==
  ASSUME TypeInv, NEW gone \in SUBSET messages, Purge(gone)
  PROVE  TypeInv'
<1>1. Tells(gone) \subseteq Marks
  BY TellsType DEF TypeInv
<1>2. AssistantTypeOK'
  BY <1>1 DEF TypeInv, AssistantTypeOK, Purge, Exists, Ids
<1>3. Written' = Written
  BY DEF Purge, Written, Begun, Prepared, Replied
<1>4. Numbers'
  BY <1>3 DEF TypeInv, Numbers, Purge
<1> QED
  BY <1>2, <1>4 DEF TypeInv

LEMMA TouchTypes ==
  ASSUME TypeInv, Touched, UNCHANGED <<messages, send>>
  PROVE  TypeInv'
<1>1. AssistantTypeOK'
  BY DEF TypeInv, AssistantTypeOK, Touched, Exists
<1>2. Written' = Written
  BY DEF Written, Begun, Prepared, Replied
<1>3. \A r \in sessions' : r.id <= created'
  BY DEF TypeInv, Numbers, Touched, Ids
<1>4. Numbers'
  BY <1>2, <1>3 DEF TypeInv, Numbers, Touched
<1> QED
  BY <1>1, <1>4 DEF TypeInv

\* A request's step, whatever it does to the rows of messages.
LEMMA SendTypes ==
  ASSUME TypeInv, NEW s \in Sends, NEW q \in SendStates,
         Quiet(s, q) \/ Stores(s, q) \/ Folds(s, q)
  PROVE  TypeInv'
<1>1. SendMove(s, q)
  BY DEF Quiet, Stores, Folds
<1>2. /\ Written' \in Nat /\ Written <= Written' /\ Written \in Nat
      /\ q.at \in {"saved", "done"} => Written + 1 <= Written'
      /\ q.at = "building" /\ send[s].at = "summarising" => Written + 1 <= Written'
      /\ Written' <= 3 * Cardinality(Sends)
  BY <1>1, WrittenGrows, WrittenIsBounded
<1>3. /\ \/ sessions' = sessions
         \/ Touched
      /\ UNCHANGED <<enabled, created, reused, removed>>
      /\ cut' \in SUBSET Marks
  <2>1. cut \in SUBSET Marks /\ send[s].unread \in SUBSET Marks
    BY DEF TypeInv, AssistantTypeOK, SendStates
  <2> QED
    BY <2>1 DEF Quiet, Stores, Folds, Touched
<1>4. /\ sessions' \subseteq SessionRows
      /\ \A a, b \in sessions' : a.id = b.id => a = b
      /\ Ids(sessions') = Ids(sessions)
      /\ \A r \in sessions' : r.id <= created
  <2>1. CASE sessions' = sessions
    BY <2>1 DEF TypeInv, AssistantTypeOK, Numbers
  <2>2. CASE Touched
    BY <2>2 DEF TypeInv, Numbers, Touched, Ids
  <2> QED
    BY <1>3, <2>1, <2>2
<1>5. \/ messages' \subseteq messages
      \/ /\ Written + 1 <= Written'
         /\ \E w \in MessageRows :
              /\ messages' \subseteq messages \cup {w}
              /\ Exists(w.session)
              /\ w.id \in 1 .. MaxEarlier + Written + 1
              /\ \A m \in messages : m.id < w.id
  <2>1. CASE Quiet(s, q)
    BY <2>1 DEF Quiet
  <2>2. CASE Stores(s, q)
    <3>1. {<<"user", s>>} \in SUBSET Marks /\ {<<"assistant", s>>} \in SUBSET Marks
      BY DEF Marks
    <3>2. Written < 3 * Cardinality(Sends)
      BY <1>2, <2>2, RowSets DEF Stores
    <3>3. PICK role \in {"user", "assistant", "summary"}, tells \in SUBSET Marks :
            messages' = Insert(messages, send[s].session, role, tells)
      BY <2>2, <3>1 DEF Stores
    <3> QED
      BY <1>2, <2>2, <3>2, <3>3, NewMessage DEF Stores
  <2>3. CASE Folds(s, q)
    <3>1. Written < 3 * Cardinality(Sends)
      BY <1>2, <2>3, RowSets DEF Folds
    <3>2. send[s].summary \in SUBSET Marks
      BY DEF TypeInv, AssistantTypeOK, SendStates
    <3> QED
      BY <1>2, <2>3, <3>1, <3>2, NewMessage DEF Folds, AllStillThere
  <2> QED
    BY <2>1, <2>2, <2>3
<1>6. /\ messages' \subseteq MessageRows
      /\ \A a, b \in messages' : a.id = b.id => a = b
      /\ \A m \in messages' : Exists(m.session) /\ m.id <= MaxEarlier + Written'
  <2>1. \A m \in messages : m.id \in Nat
    BY RowSets DEF TypeInv, AssistantTypeOK, MessageRows
  <2>2. \A m \in messages : m.id <= MaxEarlier + Written'
    BY <1>2, <2>1, RowSets DEF TypeInv, Numbers
  <2>3. CASE messages' \subseteq messages
    BY <2>2, <2>3 DEF TypeInv, AssistantTypeOK
  <2>4. ASSUME NEW w \in MessageRows, Written + 1 <= Written',
               messages' \subseteq messages \cup {w}, Exists(w.session),
               w.id \in 1 .. MaxEarlier + Written + 1,
               \A m \in messages : m.id < w.id
        PROVE  /\ messages' \subseteq MessageRows
               /\ \A a, b \in messages' : a.id = b.id => a = b
               /\ \A m \in messages' : Exists(m.session) /\ m.id <= MaxEarlier + Written'
    <3>1. w.id <= MaxEarlier + Written'
      BY <1>2, <2>4, RowSets
    <3>2. \A m \in messages : m.id # w.id
      BY <2>1, <2>4
    <3> QED
      BY <2>2, <2>4, <3>1, <3>2 DEF TypeInv, AssistantTypeOK
  <2> QED
    BY <1>5, <2>3, <2>4
<1>7. /\ send' \in [Sends -> SendStates]
      /\ \A t \in Sends : send'[t] = IF t = s THEN q ELSE send[t]
  BY <1>1 DEF SendMove, TypeInv, AssistantTypeOK
<1>8. AssistantTypeOK'
  BY <1>3, <1>4, <1>6, <1>7 DEF TypeInv, AssistantTypeOK, Exists
<1>9. q.session <= created
  BY <1>1 DEF SendMove, TypeInv, Numbers, Exists, Ids
<1>10. Numbers'
  BY <1>3, <1>4, <1>6, <1>7, <1>9 DEF TypeInv, Numbers
<1> QED
  BY <1>8, <1>10 DEF TypeInv

LEMMA NextTypes ==
  ASSUME TypeInv, [Next]_vars
  PROVE  TypeInv'
<1>1. Forms
  BY StepForms DEF TypeInv
<1>2. CASE sessions' = sessions /\ enabled' \in BOOLEAN
           /\ UNCHANGED <<messages, created, reused, removed, cut, send>>
  <2>1. Written' = Written
    BY <1>2 DEF Written, Begun, Prepared, Replied
  <2> QED
    BY <1>2, <2>1 DEF TypeInv, AssistantTypeOK, Numbers, Exists, Ids
<1> QED
  BY <1>1, <1>2, CreateTypes, TouchTypes, PurgeTypes, SendTypes DEF Forms

\* Every id names one row, every message has its session, and the
\* numbers stay within what was created and written.
THEOREM AssistantTypes == Spec => []AssistantTypeOK
<1>1. Spec => []TypeInv
  <2>1. Init => TypeInv
    BY InitTypes
  <2>2. TypeInv /\ [Next]_vars => TypeInv'
    BY NextTypes
  <2> QED
    BY <2>1, <2>2, PTL DEF Spec
<1>2. TypeInv => AssistantTypeOK
  BY DEF TypeInv
<1> QED
  BY <1>1, <1>2, PTL

-----------------------------------------------------------------------------
(* Folding.  While no session id is given twice, the rows that a request   *)
(* handed to the summariser are of its conversation, and a number of them  *)
(* that is missing is never given again: a later row of the conversation,  *)
(* not an old one, stands beyond it.                                       *)

OldFirst == \A a, b \in messages : a.old /\ ~b.old => a.id < b.id

\* w stands beyond what is missing of the rows that s is folding.
Beyond(s, w) ==
  /\ w \in messages /\ w.session = send[s].session /\ ~w.old
  /\ \A j \in send[s].folding \ Ids(messages) : j < w.id

MayFold(s) == send[s].at \in {"saved", "summarising"} /\ Exists(send[s].session)

FoldInv(s) ==
  MayFold(s) =>
    /\ send[s].at = "saved" => send[s].folding = {}
    /\ \A m \in FoldTargets(s) : m.session = send[s].session
    /\ \E w \in messages : Beyond(s, w)
    /\ send[s].at = "summarising" /\ send[s].folding \subseteq Ids(messages)
         => send[s].summary \cup send[s].unread = Tells(FoldTargets(s))

\* What a request has not stored yet, nobody tells; and its message is told
\* in its conversation.
FreshInv(s) ==
  /\ send[s].at \in {"idle", "opened"} => \A m \in messages : <<"user", s>> \notin m.tells
  /\ send[s].at # "done" => \A m \in messages : <<"assistant", s>> \notin m.tells
  /\ \A m \in messages : <<"user", s>> \in m.tells => m.session = send[s].session

FoldingInv == OldFirst /\ (reused \/ \A s \in Sends : FoldInv(s) /\ FreshInv(s))

\* A step of others: new rows are larger, and what it deletes of the
\* conversation of t stays below a row of it.
LEMMA OthersKeepFold ==
  ASSUME TypeInv, TypeInv', NEW t \in Sends, FoldInv(t), MayFold(t), send'[t] = send[t],
         \A m \in messages' \ messages : \A n \in messages : n.id < m.id,
         NEW w \in messages, Beyond(t, w),
         NEW v \in messages', v.session = send[t].session, ~v.old, w.id <= v.id,
         \A m \in messages \ messages' : m.session = send[t].session => m.id < v.id
  PROVE  FoldInv(t)'
<1> DEFINE J == send[t].folding
           i == send[t].session
<1>1. \A m \in messages \cup messages' : m.id \in Nat
  BY RowSets DEF TypeInv, AssistantTypeOK, MessageRows
<1>2. J \subseteq Nat
  BY RowSets DEF TypeInv, AssistantTypeOK, SendStates
<1>3. ASSUME NEW m \in messages', m.id \in J
      PROVE  m \in messages
  <2>1. SUFFICES ASSUME m \notin messages
                 PROVE  FALSE
    OBVIOUS
  <2>2. m.id \notin Ids(messages)
    BY <1>1, <1>3, <2>1 DEF Ids
  <2>3. m.id < w.id
    BY <1>3, <2>2 DEF Beyond
  <2>4. w.id < m.id
    BY <1>3, <2>1
  <2> QED
    BY <1>1, <1>3, <2>3, <2>4
<1>4. \A m \in messages' : m.id \in J => m.session = i
  BY <1>3 DEF FoldInv, FoldTargets
<1>5. ASSUME NEW j \in J \ Ids(messages')
      PROVE  j < v.id
  <2>1. CASE j \in Ids(messages)
    <3>1. PICK m \in messages : m.id = j
      BY <2>1 DEF Ids
    <3>2. m.session = i /\ m \notin messages'
      BY <1>5, <3>1 DEF FoldInv, FoldTargets, Ids
    <3> QED
      BY <3>1, <3>2
  <2>2. CASE j \notin Ids(messages)
    BY <1>1, <1>2, <1>5, <2>2 DEF Beyond
  <2> QED
    BY <2>1, <2>2
<1>6. ASSUME send[t].at = "summarising", J \subseteq Ids(messages')
      PROVE  send[t].summary \cup send[t].unread = Tells({m \in messages' : m.id \in J})
  <2>1. J \subseteq Ids(messages)
    BY <1>3, <1>6 DEF Ids
  <2>2. {m \in messages' : m.id \in J} = FoldTargets(t)
    <3>1. ASSUME NEW m \in messages, m.id \in J
          PROVE  m \in messages'
      <4>1. PICK n \in messages' : n.id = m.id
        BY <1>6, <3>1 DEF Ids
      <4>2. n \in messages
        BY <1>3, <3>1, <4>1
      <4> QED
        BY <3>1, <4>1, <4>2 DEF TypeInv, AssistantTypeOK
    <3> QED
      BY <1>3, <3>1 DEF FoldTargets
  <2> QED
    BY <1>6, <2>1, <2>2 DEF FoldInv
<1>7. Beyond(t, v)'
  BY <1>5 DEF Beyond
<1>8. send'[t].at = "saved" => send'[t].folding = {}
  BY DEF FoldInv
<1>9. FoldTargets(t)' = {m \in messages' : m.id \in J}
  BY DEF FoldTargets
<1>10. Tells(FoldTargets(t))' = Tells({m \in messages' : m.id \in J})
  BY <1>9 DEF Tells
<1>11. \A m \in FoldTargets(t)' : m.session = send'[t].session
  BY <1>4, <1>9
<1>12. send'[t].at = "summarising" /\ send'[t].folding \subseteq Ids(messages')
         => send'[t].summary \cup send'[t].unread = Tells(FoldTargets(t))'
  BY <1>6, <1>10
<1>13. (\E x \in messages : Beyond(t, x))'
  BY <1>7
<1> QED
  BY <1>8, <1>11, <1>12, <1>13 DEF FoldInv

\* The row that a request writes.
Writes(s, q, w) ==
  /\ w \in MessageRows /\ w.session = send[s].session /\ ~w.old
  /\ \A m \in messages : m.id < w.id
  /\ w \notin messages
  /\ \/ /\ Stores(s, q) /\ messages' = messages \cup {w}
        /\ \/ q.at = "saved" /\ w.tells = {<<"user", s>>}
           \/ q.at = "done" /\ w.tells = {<<"assistant", s>>}
     \/ /\ Folds(s, q) /\ messages' = (messages \ FoldTargets(s)) \cup {w}
        /\ w.tells = send[s].summary

LEMMA WriteForm ==
  ASSUME TypeInv, NEW s \in Sends, NEW q \in SendStates, Stores(s, q) \/ Folds(s, q)
  PROVE  \E w \in MessageRows : Writes(s, q, w)
<1>1. SendMove(s, q) /\ Exists(send[s].session)
  BY DEF Stores, Folds, AllStillThere
<1>2. Written < 3 * Cardinality(Sends)
  <2>1. Written + 1 <= Written' /\ Written' \in Nat /\ Written' <= 3 * Cardinality(Sends)
    BY <1>1, WrittenGrows DEF Stores, Folds
  <2> QED
    BY <2>1, WrittenIsBounded, RowSets
<1>3. \A m \in messages : m.id \in Nat
  BY RowSets DEF TypeInv, AssistantTypeOK, MessageRows
<1>4. CASE Stores(s, q)
  <2>1. {<<"user", s>>} \in SUBSET Marks /\ {<<"assistant", s>>} \in SUBSET Marks
    BY DEF Marks
  <2>2. CASE q.at = "saved" /\ messages' = Insert(messages, send[s].session, "user", {<<"user", s>>})
    <3>1. PICK w \in MessageRows :
            /\ messages' = messages \cup {w}
            /\ w.session = send[s].session /\ w.tells = {<<"user", s>>} /\ ~w.old
            /\ \A m \in messages : m.id < w.id
      BY <1>1, <1>2, <2>1, <2>2, NewMessage
    <3>2. w \notin messages
      BY <1>3, <3>1
    <3> QED
      BY <1>4, <2>2, <3>1, <3>2 DEF Writes
  <2>3. CASE q.at = "done" /\ messages' = Insert(messages, send[s].session, "assistant", {<<"assistant", s>>})
    <3>1. PICK w \in MessageRows :
            /\ messages' = messages \cup {w}
            /\ w.session = send[s].session /\ w.tells = {<<"assistant", s>>} /\ ~w.old
            /\ \A m \in messages : m.id < w.id
      BY <1>1, <1>2, <2>1, <2>3, NewMessage
    <3>2. w \notin messages
      BY <1>3, <3>1
    <3> QED
      BY <1>4, <2>3, <3>1, <3>2 DEF Writes
  <2> QED
    BY <1>4, <2>2, <2>3 DEF Stores
<1>5. CASE Folds(s, q)
  <2>1. send[s].summary \in SUBSET Marks
    BY DEF TypeInv, AssistantTypeOK, SendStates
  <2>2. PICK w \in MessageRows :
          /\ Insert(messages, send[s].session, "summary", send[s].summary) = messages \cup {w}
          /\ w.session = send[s].session /\ w.tells = send[s].summary /\ ~w.old
          /\ \A m \in messages : m.id < w.id
    <3>1. PICK tells \in SUBSET Marks : tells = send[s].summary
      BY <2>1
    <3>2. "summary" \in {"user", "assistant", "summary"}
      OBVIOUS
    <3> QED
      BY <1>1, <1>2, <3>1, <3>2, NewMessage
  <2>3. w \notin messages
    BY <1>3, <2>2
  <2>4. messages' = (messages \ FoldTargets(s)) \cup {w}
    BY <1>5, <2>2, <2>3 DEF Folds, FoldTargets
  <2> QED
    BY <1>5, <2>2, <2>3, <2>4 DEF Writes
<1> QED
  BY <1>4, <1>5

\* A request folds rows of its own conversation, and what they tell is in its summary
\* or was not shown to the summariser.
LEMMA FoldFacts ==
  ASSUME TypeInv, FoldingInv, ~reused, NEW s \in Sends, NEW q \in SendStates, Folds(s, q)
  PROVE  /\ FoldTargets(s) \subseteq messages
         /\ \A m \in FoldTargets(s) : m.session = send[s].session
         /\ send[s].summary \cup send[s].unread = Tells(FoldTargets(s))
<1>1. MayFold(s) /\ FoldInv(s)
  BY DEF Folds, AllStillThere, MayFold, FoldingInv
<1> QED
  BY <1>1 DEF Folds, AllStillThere, FoldInv, FoldTargets

LEMMA OldFirstKept ==
  ASSUME TypeInv, OldFirst, [Next]_vars
  PROVE  OldFirst'
<1>1. Forms
  BY StepForms DEF TypeInv
<1>2. CASE messages' \subseteq messages
  BY <1>2 DEF OldFirst
<1>3. ASSUME NEW s \in Sends, NEW q \in SendStates, Stores(s, q) \/ Folds(s, q)
      PROVE  OldFirst'
  <2>1. PICK w \in MessageRows : Writes(s, q, w)
    BY <1>3, WriteForm
  <2> QED
    BY <2>1 DEF Writes, OldFirst
<1> QED
  BY <1>1, <1>2, <1>3 DEF Forms, CreateSession, Purge, Quiet

\* Neither the conversations nor the rows of the requests change but by deletion.
LEMMA FoldUnderDeletion ==
  ASSUME TypeInv, TypeInv', FoldingInv, ~reused, NEW t \in Sends,
         NEW gone \in SUBSET messages, Purge(gone)
  PROVE  FoldInv(t)' /\ FreshInv(t)'
<1>1. FoldInv(t) /\ FreshInv(t) /\ send' = send /\ messages' = messages \ gone
  BY DEF FoldingInv, Purge
<1>2. FreshInv(t)'
  BY <1>1 DEF FreshInv
<1>3. ASSUME MayFold(t)'
      PROVE  FoldInv(t)'
  <2>1. MayFold(t) /\ send[t].session \in Ids(sessions')
    BY <1>1, <1>3 DEF MayFold, Purge, Exists, Ids
  <2>2. PICK w \in messages : Beyond(t, w)
    BY <1>1, <2>1 DEF FoldInv
  <2>3. w \in messages' /\ w.session = send[t].session /\ ~w.old
    BY <1>1, <2>1, <2>2 DEF Beyond, Purge
  <2>4. \A m \in messages \ messages' : m.session = send[t].session => m.id < w.id
    BY <1>1, <2>1, <2>3 DEF Purge, FoldingInv, OldFirst
  <2>5. w.id <= w.id
    <3>1. \A m \in messages : m.id \in Nat
      BY RowSets DEF TypeInv, AssistantTypeOK, MessageRows
    <3> QED
      BY <3>1
  <2>6. \A m \in messages' \ messages : \A n \in messages : n.id < m.id
    BY <1>1
  <2>7. send'[t] = send[t]
    BY <1>1
  <2> QED
    BY <1>1, <2>1, <2>2, <2>3, <2>4, <2>5, <2>6, <2>7, OthersKeepFold
<1>4. ~MayFold(t)' => FoldInv(t)'
  BY DEF FoldInv
<1> QED
  BY <1>2, <1>3, <1>4

\* A message, a reply or a summary is stored: the other requests keep what they fold.
LEMMA FoldUnderWrite ==
  ASSUME TypeInv, TypeInv', FoldingInv, ~reused, NEW s \in Sends, NEW q \in SendStates,
         NEW w \in MessageRows, Writes(s, q, w), NEW t \in Sends
  PROVE  FoldInv(t)'
<1>1. SUFFICES ASSUME MayFold(t)'
               PROVE  FoldInv(t)'
  BY DEF FoldInv
<1>2. SendMove(s, q) /\ Ids(sessions') = Ids(sessions) /\ w \in messages'
  BY DEF Writes, Stores, Folds, Touched
<1>3. send \in [Sends -> SendStates]
  BY DEF TypeInv, AssistantTypeOK
<1>4. send'[t] = IF t = s THEN q ELSE send[t]
  BY <1>2, <1>3 DEF SendMove
<1>5. CASE t = s
  <2>1. q.at = "saved" /\ q.folding = {} /\ q.session = send[s].session /\ send'[t] = q
    BY <1>1, <1>2, <1>4, <1>5 DEF MayFold, Writes, Stores, Folds, SendMove
  <2>2. Beyond(t, w)'
    BY <1>2, <2>1 DEF Beyond, Writes
  <2>3. (\E x \in messages : Beyond(t, x))'
    BY <1>2, <2>2
  <2>4. FoldTargets(t)' = {}
    BY <2>1 DEF FoldTargets
  <2> QED
    BY <2>1, <2>3, <2>4 DEF FoldInv
<1>6. CASE t # s
  <2>1. send'[t] = send[t] /\ MayFold(t) /\ FoldInv(t)
    BY <1>1, <1>2, <1>4, <1>6 DEF MayFold, Exists, FoldingInv
  <2>2. PICK x \in messages : Beyond(t, x)
    BY <2>1 DEF FoldInv
  <2>3. \A m \in messages' \ messages : \A n \in messages : n.id < m.id
    BY DEF Writes
  <2>4. x.id \in Nat /\ w.id \in Nat
    <3>1. \A m \in messages \cup {w} : m.id \in Nat
      BY RowSets DEF TypeInv, AssistantTypeOK, MessageRows
    <3> QED
      BY <3>1
  <2>5. CASE x \in messages'
    <3>1. \A m \in messages \ messages' : m.session = send[t].session => m.id < w.id
      BY DEF Writes
    <3>2. CASE Folds(s, q) /\ send[s].session = send[t].session
      <4>1. x.id <= w.id
        BY <2>4 DEF Writes
      <4> QED
        BY <1>2, <2>1, <2>2, <2>3, <3>1, <3>2, <4>1, OthersKeepFold DEF Writes
    <3>3. CASE ~(Folds(s, q) /\ send[s].session = send[t].session)
      <4>1. \A m \in messages \ messages' : m.session # send[t].session
        BY <3>3, FoldFacts DEF Writes
      <4>2. x.id <= x.id /\ x.session = send[t].session /\ ~x.old
        BY <2>2, <2>4 DEF Beyond
      <4> QED
        BY <2>1, <2>2, <2>3, <2>5, <4>1, <4>2, OthersKeepFold
    <3> QED
      BY <3>2, <3>3
  <2>6. CASE x \notin messages'
    <3>1. Folds(s, q) /\ x \in FoldTargets(s)
      BY <2>6 DEF Writes
    <3>2. w.session = send[t].session
      BY <2>2, <3>1, FoldFacts DEF Beyond, Writes
    <3>3. \A m \in messages \ messages' : m.session = send[t].session => m.id < w.id
      BY DEF Writes
    <3>4. x.id <= w.id
      BY <2>4 DEF Writes
    <3> QED
      BY <1>2, <2>1, <2>2, <2>3, <3>2, <3>3, <3>4, OthersKeepFold DEF Writes
  <2> QED
    BY <2>5, <2>6
<1> QED
  BY <1>5, <1>6

LEMMA FreshUnderWrite ==
  ASSUME TypeInv, FoldingInv, ~reused, NEW s \in Sends, NEW q \in SendStates,
         NEW w \in MessageRows, Writes(s, q, w), NEW t \in Sends
  PROVE  FreshInv(t)'
<1>1. SendMove(s, q) /\ FreshInv(t) /\ FreshInv(s)
  BY DEF Writes, Stores, Folds, FoldingInv
<1>2. send \in [Sends -> SendStates]
  BY DEF TypeInv, AssistantTypeOK
<1>3. send'[t] = IF t = s THEN q ELSE send[t]
  BY <1>1, <1>2 DEF SendMove
<1>4. q.session = send[s].session
  BY <1>1 DEF SendMove, Writes, Stores, Folds
<1>5. CASE Stores(s, q)
  <2>1. messages' = messages \cup {w}
    BY <1>5 DEF Writes, Stores, Folds
  <2>2. <<"user", t>> \in w.tells => t = s
    BY <1>5 DEF Writes, Stores, Folds
  <2>3. <<"assistant", t>> \in w.tells => t = s /\ q.at = "done"
    BY <1>5 DEF Writes, Stores, Folds
  <2>4. q.at \in {"saved", "done"}
    BY <1>5 DEF Stores
  <2> QED
    BY <1>1, <1>3, <1>4, <2>1, <2>2, <2>3, <2>4 DEF FreshInv, SendMove, Writes
<1>6. CASE Folds(s, q)
  <2>1. messages' \subseteq messages \cup {w} /\ w.tells \subseteq Tells(FoldTargets(s))
    BY <1>6, FoldFacts DEF Writes, Stores, Folds
  <2>2. /\ FoldTargets(s) \subseteq messages
        /\ \A m \in FoldTargets(s) : m.session = send[s].session
    BY <1>6, FoldFacts
  <2>3. \A x : x \in w.tells => \E m \in messages : x \in m.tells /\ m.session = w.session
    BY <2>1, <2>2 DEF Tells, Writes
  <2>4. q.at = "building" /\ send[s].at = "summarising"
    BY <1>6 DEF Folds
  <2>5. send'[t].at \in {"idle", "opened"} <=> send[t].at \in {"idle", "opened"}
    BY <1>3, <2>4
  <2>6. send'[t].at # "done" <=> send[t].at # "done"
    BY <1>3, <2>4
  <2>7. send'[t].session = send[t].session
    BY <1>3, <1>4
  <2> QED
    BY <1>1, <2>1, <2>3, <2>5, <2>6, <2>7 DEF FreshInv
<1> QED
  BY <1>5, <1>6 DEF Writes

\* A request that moves on without a row.
LEMMA FoldUnderQuiet ==
  ASSUME TypeInv, FoldingInv, ~reused, NEW s \in Sends, NEW q \in SendStates,
         Quiet(s, q), NEW t \in Sends
  PROVE  FoldInv(t)' /\ FreshInv(t)'
<1>1. /\ SendMove(s, q) /\ FreshInv(t) /\ FreshInv(s) /\ FoldInv(t)
      /\ messages' = messages /\ sessions' = sessions
  BY DEF Quiet, FoldingInv
<1>2. send \in [Sends -> SendStates]
  BY DEF TypeInv, AssistantTypeOK
<1>3. send'[t] = IF t = s THEN q ELSE send[t]
  BY <1>1, <1>2 DEF SendMove
<1>4. CASE t # s
  <2>1. send'[t] = send[t]
    BY <1>3, <1>4
  <2> QED
    BY <1>1, <2>1 DEF FoldInv, FreshInv, MayFold, Beyond, FoldTargets, Exists, Tells
<1>5. CASE t = s
  <2>1. send'[t] = q
    BY <1>3, <1>5
  <2>2. FreshInv(t)'
    BY <1>1, <1>5, <2>1 DEF FreshInv, SendMove, Quiet, Kept
  <2>3. ASSUME MayFold(t)'
        PROVE  FoldInv(t)'
    <3>1. q.at = "summarising" /\ send[s].at = "saved" /\ q.session = send[s].session
      BY <1>1, <2>1, <2>3 DEF MayFold, Quiet, SendMove
    <3>2. MayFold(t)
      BY <1>1, <1>5, <2>1, <2>3, <3>1 DEF MayFold, Exists
    <3>3. PICK early \in SUBSET RowsOf(send[s].session) :
            q.folding = Ids(early) /\ q.summary \cup q.unread = Tells(early)
      BY <3>1 DEF Quiet
    <3>4. early \subseteq messages /\ \A m \in early : m.session = q.session
      BY <3>1, <3>3 DEF RowsOf
    <3>5. FoldTargets(t)' = early
      <4>1. \A m \in messages : m.id \in Ids(early) => m \in early
        BY <3>4 DEF Ids, TypeInv, AssistantTypeOK
      <4>2. \A m \in early : m.id \in Ids(early)
        BY DEF Ids
      <4>3. FoldTargets(t)' = {m \in messages : m.id \in Ids(early)}
        BY <1>1, <2>1, <3>3 DEF FoldTargets
      <4> QED
        BY <3>4, <4>1, <4>2, <4>3
    <3>6. PICK w \in messages : Beyond(t, w)
      BY <1>1, <3>2 DEF FoldInv
    <3>7. q.folding \subseteq Ids(messages)
      BY <3>3, <3>4 DEF Ids
    <3>8. Beyond(t, w)'
      BY <1>1, <1>5, <2>1, <3>1, <3>6, <3>7 DEF Beyond
    <3>9. (\E x \in messages : Beyond(t, x))'
      BY <1>1, <3>8
    <3>10. Tells(FoldTargets(t))' = Tells(early)
      BY <3>5 DEF Tells
    <3> QED
      BY <2>1, <3>1, <3>3, <3>4, <3>5, <3>9, <3>10 DEF FoldInv
  <2>4. ~MayFold(t)' => FoldInv(t)'
    BY DEF FoldInv
  <2> QED
    BY <2>2, <2>3, <2>4
<1> QED
  BY <1>4, <1>5

LEMMA FoldingInit == Init => FoldingInv
<1> SUFFICES ASSUME Init
             PROVE  FoldingInv
  OBVIOUS
<1>1. PICK n \in 0 .. MaxEarlier, old \in BOOLEAN :
        messages = {[id |-> k, session |-> 1, role |-> "user",
                     tells |-> {<<"earlier", k>>}, old |-> old] : k \in 1 .. n}
  BY DEF Init
<1>2. \A m \in messages : m.old = old /\ \E k \in 1 .. n : m.tells = {<<"earlier", k>>}
  BY <1>1
<1>3. \A s \in Sends : send[s].at = "idle"
  BY DEF Init, NoSend, Progress
<1>4. OldFirst
  BY <1>2 DEF OldFirst
<1>5. \A s \in Sends : FoldInv(s) /\ FreshInv(s)
  BY <1>2, <1>3 DEF FoldInv, MayFold, FreshInv
<1> QED
  BY <1>4, <1>5 DEF FoldingInv

\* No session id was given twice before a step after which none was.
LEMMA ReusedStays ==
  ASSUME TypeInv, [Next]_vars, ~reused'
  PROVE  ~reused
<1>1. Forms
  BY StepForms DEF TypeInv
<1> QED
  BY <1>1 DEF Forms, CreateSession, Touched, Purge, Quiet, Stores, Folds

LEMMA FoldingNext ==
  ASSUME TypeInv, TypeInv', FoldingInv, [Next]_vars
  PROVE  FoldingInv'
<1>1. Forms
  BY StepForms DEF TypeInv
<1>2. OldFirst'
  BY OldFirstKept DEF FoldingInv
<1>3. ASSUME ~reused', NEW t \in Sends
      PROVE  FoldInv(t)' /\ FreshInv(t)'
  <2>1. ~reused /\ FoldInv(t) /\ FreshInv(t)
    BY <1>3, ReusedStays DEF FoldingInv
  <2>2. ASSUME UNCHANGED <<messages, send>>,
               Exists(send[t].session)' => Exists(send[t].session)
        PROVE  FoldInv(t)' /\ FreshInv(t)'
    BY <2>1, <2>2 DEF FoldInv, FreshInv, MayFold, Beyond, FoldTargets, Tells
  <2>3. CASE sessions' = sessions /\ UNCHANGED <<messages, send>>
    BY <2>2, <2>3 DEF Exists, Ids
  <2>4. CASE CreateSession
    <3>1. NextId(sessions) = created + 1
      BY <1>3, <2>4 DEF CreateSession
    <3>2. send[t].session <= created /\ send[t].session \in Nat /\ created \in Nat
      BY RowSets DEF TypeInv, AssistantTypeOK, SendStates, Numbers
    <3>3. Exists(send[t].session)' => Exists(send[t].session)
      BY <2>4, <3>1, <3>2 DEF CreateSession, Exists, Ids
    <3> QED
      BY <2>2, <2>4, <3>3 DEF CreateSession
  <2>5. CASE Touched /\ UNCHANGED <<messages, send>>
    BY <2>2, <2>5 DEF Touched, Exists
  <2>6. ASSUME NEW gone \in SUBSET messages, Purge(gone)
        PROVE  FoldInv(t)' /\ FreshInv(t)'
    BY <2>1, <2>6, FoldUnderDeletion
  <2>7. ASSUME NEW s \in Sends, NEW q \in SendStates, Quiet(s, q)
        PROVE  FoldInv(t)' /\ FreshInv(t)'
    BY <2>1, <2>7, FoldUnderQuiet
  <2>8. ASSUME NEW s \in Sends, NEW q \in SendStates, Stores(s, q) \/ Folds(s, q)
        PROVE  FoldInv(t)' /\ FreshInv(t)'
    <3>1. PICK w \in MessageRows : Writes(s, q, w)
      BY <2>8, WriteForm
    <3> QED
      BY <2>1, <3>1, FoldUnderWrite, FreshUnderWrite
  <2> QED
    BY <1>1, <2>3, <2>4, <2>5, <2>6, <2>7, <2>8 DEF Forms
<1> QED
  BY <1>2, <1>3 DEF FoldingInv

-----------------------------------------------------------------------------
(* What is told.                                                           *)

LEMMA TellsNext ==
  ASSUME TypeInv, TypeInv', FoldingInv, NothingIsLost, ToldOnce, [Next]_vars
  PROVE  NothingIsLost' /\ ToldOnce'
<1>1. Forms
  BY StepForms DEF TypeInv
<1>2. SUFFICES ASSUME ~reused'
               PROVE  /\ \A s \in Sends : Stored(s)' \subseteq Tells(messages') \cup removed' \cup cut'
                      /\ \A a, b \in messages' : a # b => a.tells \cap b.tells = {}
  BY DEF NothingIsLost, ToldOnce, Tells
<1>3. /\ ~reused
      /\ \A s \in Sends : Stored(s) \subseteq Tells(messages) \cup removed \cup cut
      /\ \A a, b \in messages : a # b => a.tells \cap b.tells = {}
      /\ \A s \in Sends : FoldInv(s) /\ FreshInv(s)
  BY <1>2, ReusedStays DEF NothingIsLost, ToldOnce, FoldingInv
<1>4. send \in [Sends -> SendStates]
  BY DEF TypeInv, AssistantTypeOK
<1>5. CASE UNCHANGED <<messages, removed, cut, send>>
  BY <1>3, <1>5 DEF Stored, Tells
<1>6. ASSUME NEW gone \in SUBSET messages, Purge(gone)
      PROVE  /\ \A t \in Sends : Stored(t)' \subseteq Tells(messages') \cup removed' \cup cut'
             /\ \A a, b \in messages' : a # b => a.tells \cap b.tells = {}
  <2>1. Tells(messages) \subseteq Tells(messages') \cup Tells(gone)
    BY <1>6 DEF Purge, Tells
  <2> QED
    BY <1>3, <1>6, <2>1 DEF Purge, Stored
<1>7. ASSUME NEW s \in Sends, NEW q \in SendStates, Quiet(s, q)
      PROVE  /\ \A t \in Sends : Stored(t)' \subseteq Tells(messages') \cup removed' \cup cut'
             /\ \A a, b \in messages' : a # b => a.tells \cap b.tells = {}
  <2>1. \A t \in Sends : send'[t] = IF t = s THEN q ELSE send[t]
    BY <1>4, <1>7 DEF Quiet, SendMove
  <2>2. \A t \in Sends : Stored(t)' \subseteq Stored(t)
    BY <1>7, <2>1 DEF Quiet, SendMove, Stored, Kept
  <2>3. messages' = messages /\ removed' = removed /\ cut' = cut
    BY <1>7 DEF Quiet
  <2> QED
    BY <1>3, <2>2, <2>3 DEF Tells
<1>8. ASSUME NEW s \in Sends, NEW q \in SendStates, Stores(s, q) \/ Folds(s, q)
      PROVE  /\ \A t \in Sends : Stored(t)' \subseteq Tells(messages') \cup removed' \cup cut'
             /\ \A a, b \in messages' : a # b => a.tells \cap b.tells = {}
  <2>1. PICK w \in MessageRows : Writes(s, q, w)
    BY <1>8, WriteForm
  <2>2. SendMove(s, q) /\ removed' = removed
    BY <1>8 DEF Stores, Folds, Touched
  <2>3. \A t \in Sends : send'[t] = IF t = s THEN q ELSE send[t]
    BY <1>4, <2>2 DEF SendMove
  <2>4. /\ Tells(messages) \cup w.tells \subseteq Tells(messages') \cup cut'
        /\ cut \subseteq cut'
    <3>1. CASE Stores(s, q) /\ messages' = messages \cup {w}
      <4>1. cut' = cut
        BY <3>1 DEF Stores, Touched
      <4> QED
        BY <3>1, <4>1 DEF Tells
    <3>2. CASE /\ Folds(s, q) /\ messages' = (messages \ FoldTargets(s)) \cup {w}
               /\ w.tells = send[s].summary
      <4>1. /\ w.tells \cup send[s].unread = Tells(FoldTargets(s))
            /\ FoldTargets(s) \subseteq messages
        BY <1>3, <3>2, FoldFacts
      <4>2. cut' = cut \cup send[s].unread
        BY <3>2 DEF Folds
      <4> HIDE DEF FoldTargets
      <4>3. Tells(messages') = Tells(messages \ FoldTargets(s)) \cup w.tells
        BY <3>2 DEF Tells
      <4>4. Tells(messages) = Tells(messages \ FoldTargets(s)) \cup Tells(FoldTargets(s))
        BY <4>1 DEF Tells
      <4> QED
        BY <4>1, <4>2, <4>3, <4>4
    <3> QED
      BY <2>1, <3>1, <3>2 DEF Writes
  <2>5. \A t \in Sends : Stored(t)' \subseteq Stored(t) \cup w.tells
    BY <1>8, <2>1, <2>2, <2>3 DEF Stored, Writes, Stores, Folds, SendMove, Kept
  <2>6. \A m \in messages' : m # w => m \in messages /\ m.tells \cap w.tells = {}
    <3>1. CASE Stores(s, q)
      BY <1>3, <2>1, <2>2, <3>1 DEF Writes, Stores, Folds, FreshInv, SendMove
    <3>2. CASE Folds(s, q)
      <4>1. /\ w.tells \subseteq Tells(FoldTargets(s)) /\ FoldTargets(s) \subseteq messages
            /\ messages' = (messages \ FoldTargets(s)) \cup {w}
        BY <1>3, <2>1, <3>2, FoldFacts DEF Writes, Stores, Folds
      <4> HIDE DEF FoldTargets
      <4>2. \A m \in messages \ FoldTargets(s) : m.tells \cap w.tells = {}
        BY <1>3, <4>1 DEF Tells
      <4> QED
        BY <4>1, <4>2
    <3> QED
      BY <1>8, <3>1, <3>2
  <2>7. \A t \in Sends : Stored(t)' \subseteq Tells(messages') \cup removed' \cup cut'
    BY <1>3, <2>2, <2>4, <2>5
  <2>8. \A a, b \in messages' : a # b => a.tells \cap b.tells = {}
    BY <1>3, <2>6
  <2> QED
    BY <2>7, <2>8
<1> QED
  BY <1>1, <1>5, <1>6, <1>7, <1>8 DEF Forms, CreateSession, Touched

LEMMA TellsInit == Init => NothingIsLost /\ ToldOnce
<1> SUFFICES ASSUME Init
             PROVE  NothingIsLost /\ ToldOnce
  OBVIOUS
<1>1. PICK n \in 0 .. MaxEarlier, old \in BOOLEAN :
        messages = {[id |-> k, session |-> 1, role |-> "user",
                     tells |-> {<<"earlier", k>>}, old |-> old] : k \in 1 .. n}
  BY DEF Init
<1>2. \A a, b \in messages : a # b => a.tells \cap b.tells = {}
  BY <1>1
<1>3. \A s \in Sends : Stored(s) = {}
  BY DEF Init, NoSend, Progress, Stored
<1> QED
  BY <1>2, <1>3 DEF NothingIsLost, ToldOnce

\* The inductive invariant of the conversations.
LEMMA ConversationInvariant ==
  Spec => [](TypeInv /\ FoldingInv /\ NothingIsLost /\ ToldOnce)
<1>1. Init => TypeInv /\ FoldingInv /\ NothingIsLost /\ ToldOnce
  BY InitTypes, FoldingInit, TellsInit
<1>2. TypeInv /\ FoldingInv /\ NothingIsLost /\ ToldOnce /\ [Next]_vars
        => TypeInv' /\ FoldingInv' /\ NothingIsLost' /\ ToldOnce'
  BY NextTypes, FoldingNext, TellsNext
<1> QED
  BY <1>1, <1>2, PTL DEF Spec

\* However many sends of however many conversations compress their histories
\* at once: what was said is told by a message, was deleted, or lay past the end
\* of the transcript of the fold that deleted it, as long as no session id was
\* given twice.
THEOREM NothingIsLostHolds == Spec => []NothingIsLost
BY ConversationInvariant, PTL

\* ... and by no more than one: summaries never overlap, whichever of the
\* requests that read the same history wins.
THEOREM ToldOnceHolds == Spec => []ToldOnce
BY ConversationInvariant, PTL

-----------------------------------------------------------------------------
(* What is asked.                                                          *)

\* The only step from "building" to "upstream" is Build.
LEMMA OnlyBuild ==
  ASSUME TypeInv, Next, NEW s \in Sends, send[s].at = "building",
         send'[s].at = "upstream"
  PROVE  Build(s) /\ enabled
<1>1. send \in [Sends -> SendStates]
  BY DEF TypeInv, AssistantTypeOK
<1>2. PICK t \in Sends : SendStep(t)
  BY DEF Next, CreateSession, RenameSession, DeleteSession, ToggleConfig, Cleanup
<1>3. t = s
  <2>1. SUFFICES ASSUME t # s
                 PROVE  send'[s] = send[s]
    OBVIOUS
  <2>2. ASSUME NEW q, send' = [send EXCEPT ![t] = q]
        PROVE  send'[s] = send[s]
    BY <1>1, <2>1, <2>2
  <2>3. \A step : Goto(t, step) => send'[s] = send[s]
    BY <2>2 DEF Goto
  <2>4. CASE \/ Refuse(t) \/ Save(t) \/ Append(t) \/ Timeout(t) \/ Fold(t)
             \/ KeepHistory(t) \/ Answer(t) \/ CallFails(t) \/ StreamFails(t)
             \/ Disconnect(t)
    BY <2>3, <2>4 DEF Refuse, Save, Append, Timeout, Fold, KeepHistory, Answer,
                      CallFails, StreamFails, Disconnect
  <2>5. CASE \E r \in sessions : Open(t, r)
    BY <1>1, <2>1, <2>5 DEF Open
  <2>6. CASE Assess(t)
    BY <1>1, <2>1, <2>3, <2>6 DEF Assess
  <2>7. CASE Build(t)
    BY <1>1, <2>1, <2>3, <2>7 DEF Build
  <2>8. CASE CallTools(t)
    BY <1>1, <2>1, <2>3, <2>8 DEF CallTools, ExecuteTools
  <2> QED
    BY <1>2, <2>4, <2>5, <2>6, <2>7, <2>8 DEF SendStep, Proceed
<1>4. Build(s)
  <2>1. ~Disconnect(s)
    BY <1>1 DEF Disconnect, Goto, Progress
  <2> QED
    BY <1>2, <1>3, <2>1 DEF SendStep, Proceed, Open, Refuse, Save, Assess, Append, Timeout,
                    TimedSteps, Fold, KeepHistory, CallTools, Answer, CallFails,
                    StreamFails
<1>5. enabled
  <2>1. SUFFICES ASSUME ~enabled
                 PROVE  FALSE
    OBVIOUS
  <2>2. send'[s].at = "failed"
    BY <1>1, <1>4, <2>1 DEF Build, Goto, Progress
  <2> QED
    BY <2>2
<1> QED
  BY <1>4, <1>5

LEMMA MessagesAreFinite ==
  ASSUME TypeInv
  PROVE  IsFiniteSet(messages)
<1>1. \A r \in messages : r.id \in 1 .. MaxEarlier + 3 * Cardinality(Sends)
  BY DEF TypeInv, AssistantTypeOK, MessageRows, MessageIds
<1>2. MaxEarlier + 3 * Cardinality(Sends) \in Nat
  BY RowSets
<1> QED
  BY <1>1, <1>2, FiniteRows DEF TypeInv, AssistantTypeOK

\* A message that at most k - 1 larger ones follow is among the k newest of its
\* conversation.
LEMMA AmongTheNewest ==
  ASSUME TypeInv, NEW i, NEW m \in RowsOf(i), NEW k \in Nat,
         Cardinality({n \in messages : n.id > m.id}) < k
  PROVE  m \in Newest(RowsOf(i), k)
<1>1. IsFiniteSet(messages)
  BY MessagesAreFinite
<1> DEFINE All == {n \in messages : n.id > m.id}
           Own == {n \in RowsOf(i) : n.id > m.id}
<1>2. Own \subseteq All /\ All \subseteq messages
  BY DEF RowsOf
<1>3. IsFiniteSet(All)
  BY <1>1, <1>2, FS_Subset
<1>4. /\ Cardinality(Own) \in Nat /\ Cardinality(All) \in Nat
      /\ Cardinality(Own) <= Cardinality(All)
  <2> HIDE DEF All, Own
  <2> QED
    BY <1>2, <1>3, CountGrows
<1>5. Cardinality(Own) < k
  BY <1>4
<1> QED
  BY <1>5 DEF Newest

\* The request that goes upstream carries the message it is to answer, or a
\* summary of it, unless that was deleted, MaxHistory later messages push it out or
\* a fold whose transcript ended before it took it: whatever the other requests
\* have stored and folded since.
THEOREM RequestAnswersItsMessageHolds == Spec => RequestAnswersItsMessage
<1>1. ASSUME TypeInv, FoldingInv, NothingIsLost, Next, NEW s \in Sends,
             send[s].at = "building", send'[s].at = "upstream", ~reused,
             <<"user", s>> \notin removed \cup cut,
             \A m \in messages : <<"user", s>> \in m.tells =>
                ~(Cardinality({n \in messages : n.id > m.id}) >= MaxHistory)
      PROVE  <<"user", s>> \in send'[s].carries
  <2>1. Build(s) /\ enabled
    BY <1>1, OnlyBuild
  <2>2. send'[s].carries = Tells(History(s))
    BY <1>1, <2>1 DEF Build, TypeInv, AssistantTypeOK, SendStates
  <2>3. PICK m \in messages : <<"user", s>> \in m.tells
    BY <1>1 DEF NothingIsLost, Stored, Tells
  <2>4. m \in RowsOf(send[s].session)
    BY <1>1, <2>3 DEF FoldingInv, FreshInv, RowsOf
  <2>5. Cardinality({n \in messages : n.id > m.id}) < MaxHistory
    <3>1. Cardinality({n \in messages : n.id > m.id}) \in Nat
      <4>1. IsFiniteSet(messages) /\ {n \in messages : n.id > m.id} \subseteq messages
        BY <1>1, MessagesAreFinite
      <4> QED
        BY <4>1, CountGrows
    <3>2. MaxHistory \in Nat
      BY AssistantAssumption
    <3> QED
      BY <1>1, <2>3, <3>1, <3>2
  <2>6. m \in History(s)
    BY <1>1, <2>4, <2>5, AmongTheNewest, AssistantAssumption DEF History
  <2> QED
    BY <2>2, <2>3, <2>6 DEF Tells
<1>2. TypeInv /\ FoldingInv /\ NothingIsLost /\ [Next]_vars
        => [\A s \in Sends :
              \/ ~(send[s].at = "building" /\ send'[s].at = "upstream")
              \/ <<"user", s>> \in send'[s].carries \cup removed \cup cut
              \/ reused
              \/ \E m \in messages :
                    /\ <<"user", s>> \in m.tells
                    /\ Cardinality({n \in messages : n.id > m.id}) >= MaxHistory]_vars
  BY <1>1
<1> QED
  BY <1>2, ConversationInvariant, PTL DEF Spec, RequestAnswersItsMessage
=============================================================================
