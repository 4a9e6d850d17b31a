----------------------------- MODULE Assistant -----------------------------
(***************************************************************************)
(* The conversations of one user with the web assistant: the rows of        *)
(* assistant_sessions and assistant_messages, and the requests that send a  *)
(* message (src/app/services/assistant/service.py, behind                   *)
(* src/app/api/assistant.py).  A send stores the message in a transaction   *)
(* of its own, may fold the older messages into a summary, asks the         *)
(* upstream, runs the tools it calls for, and stores the reply.  The sends  *)
(* of one conversation are not serialised: between the awaits of one, the   *)
(* others, the deletion of the conversation (a thread of the pool) and the  *)
(* retention job change the same rows.                                      *)
(*                                                                          *)
(* A row is found by its id, and SQLite gives the id of a deleted last row  *)
(* to the next one; "reused" records that this happened.  The texts are     *)
(* abstracted to what they tell: a stored message tells itself, a summary   *)
(* what the messages its summariser was shown told.  The summariser is      *)
(* shown a bounded transcript, so a fold may drop what did not fit; "cut"   *)
(* records that.                                                            *)
(***************************************************************************)
EXTENDS Naturals, FiniteSets

CONSTANTS
    Sends,        \* the requests that send a message, each used once
    Streams,      \* those of them on the streaming endpoint
    KeepRecent,   \* _COMPRESS_KEEP_RECENT
    MaxHistory,   \* _MAX_HISTORY_MESSAGES
    MaxRounds,    \* _MAX_TOOL_ROUNDS
    MaxSessions,  \* bound: conversations ever created
    MaxEarlier    \* bound: messages the first conversation starts with

ASSUME AssistantAssumption ==
    /\ Streams \subseteq Sends
    /\ IsFiniteSet(Sends)
    /\ KeepRecent \in Nat
    /\ MaxHistory \in Nat \ {0}
    /\ MaxRounds \in Nat \ {0}
    /\ MaxSessions \in Nat \ {0}
    /\ MaxEarlier \in Nat

VARIABLES
    sessions,   \* the rows of assistant_sessions: a set of records
    messages,   \* the rows of assistant_messages: a set of records
    enabled,    \* is_enabled of the LLM configuration the sessions are bound to
    created,    \* how many conversations were created
    reused,     \* history: a session id was given a second time
    removed,    \* history: what a deletion or the retention job took away: marks
    cut,        \* history: what a fold deleted and no summariser was shown: marks
    send        \* the progress of each request

vars == <<sessions, messages, enabled, created, reused, removed, cut, send>>

----------------------------------------------------------------------------
(* Rows. *)

\* What can be told: an earlier message, the question of a send, the reply to it.
Marks == ({"earlier"} \X (1 .. MaxEarlier)) \cup ({"user", "assistant"} \X Sends)

MessageIds == 1 .. (MaxEarlier + 3 * Cardinality(Sends))

SessionRows ==
    [id : 1 .. MaxSessions, idle : BOOLEAN]

MessageRows ==
    [id : MessageIds, session : 1 .. MaxSessions,
     role : {"user", "assistant", "summary"},
     tells : SUBSET Marks, old : BOOLEAN]

Ids(rows) == {r.id : r \in rows}

\* Mutant: the count of the rows.
MutNextId(rows) == Cardinality(rows) + 1

\* INTEGER PRIMARY KEY without AUTOINCREMENT: one more than the largest id.
NextId(rows) ==
    IF rows = {} THEN 1
    ELSE 1 + CHOOSE n \in Ids(rows) : \A m \in Ids(rows) : m <= n

RowsOf(i) == {m \in messages : m.session = i}

\* ORDER BY id DESC LIMIT k.
Newest(rows, k) == {m \in rows : Cardinality({n \in rows : n.id > m.id}) < k}

Oldest(rows, k) == {m \in rows : Cardinality({n \in rows : n.id < m.id}) < k}

Tells(rows) == UNION {m.tells : m \in rows}

Insert(rows, i, role, tells) ==
    rows \cup {[id |-> NextId(rows), session |-> i, role |-> role,
                tells |-> tells, old |-> FALSE]}

----------------------------------------------------------------------------
(* The progress of a request.  "folding" are the rows to be folded,         *)
(* "summary" what the transcript of them that the summariser is shown       *)
(* tells, "unread" what the rest of them tells, "carries" what the messages *)
(* of the upstream request tell.                                            *)

Steps == {"idle", "opened", "saved", "summarising", "building", "upstream",
          "replaying", "done", "failed"}

\* A request that neither folds nor asks the upstream: how far it is, and where.
Progress(step, i) ==
    [at |-> step, session |-> i, folding |-> {}, summary |-> {}, unread |-> {},
     carries |-> {}, round |-> 0]

NoSend == Progress("idle", 0)

SendStates ==
    [at : Steps, session : 0 .. MaxSessions,
     folding : SUBSET MessageIds, summary : SUBSET Marks, unread : SUBSET Marks,
     carries : SUBSET Marks, round : 0 .. MaxRounds]

Goto(s, step) == send' = [send EXCEPT ![s] = Progress(step, send[s].session)]

Exists(i) == i \in Ids(sessions)

\* One conversation, with some messages, both possibly of before the retention
\* period, which is far longer than anything that follows.
Init ==
    /\ \E idle \in BOOLEAN :
           sessions = {[id |-> 1, idle |-> idle]}
    /\ \E n \in 0 .. MaxEarlier, old \in BOOLEAN :
           messages = {[id |-> k, session |-> 1, role |-> "user",
                        tells |-> {<<"earlier", k>>}, old |-> old] : k \in 1 .. n}
    /\ enabled = TRUE
    /\ created = 1
    /\ reused = FALSE
    /\ removed = {}
    /\ cut = {}
    /\ send = [s \in Sends |-> NoSend]

----------------------------------------------------------------------------
(* Conversations. *)

\* _validate_llm_config: the user's own configuration, and enabled.
ConfigUsable == enabled

CreateSession ==
    /\ ConfigUsable
    /\ created < MaxSessions
    /\ created' = created + 1
    /\ sessions' = sessions \cup
          {[id |-> NextId(sessions), idle |-> FALSE]}
    /\ reused' = (reused \/ NextId(sessions) # created + 1)
    /\ UNCHANGED <<messages, enabled, removed, cut, send>>

\* update_session: a new title, which also touches updated_at.
RenameSession(i) ==
    /\ Exists(i)
    /\ sessions' = {IF r.id = i THEN [r EXCEPT !.idle = FALSE] ELSE r : r \in sessions}
    /\ UNCHANGED <<messages, enabled, created, reused, removed, cut, send>>

\* delete_session: its messages go with it (ON DELETE CASCADE).
DeleteSession(i) ==
    /\ Exists(i)
    /\ sessions' = {r \in sessions : r.id # i}
    /\ messages' = messages \ RowsOf(i)
    /\ removed' = removed \cup Tells(RowsOf(i))
    /\ UNCHANGED <<enabled, created, reused, cut, send>>

\* The configuration is switched on or off by its owner or an administrator.
ToggleConfig ==
    /\ enabled' = ~enabled
    /\ UNCHANGED <<sessions, messages, created, reused, removed, cut, send>>

\* cleanup_once: the old messages, then the sessions that neither got a reply
\* nor were changed since, with whatever messages they still have.
Expired == {m \in messages : m.old \/ \E r \in sessions : r.id = m.session /\ r.idle}

Cleanup ==
    /\ sessions' = {r \in sessions : ~r.idle}
    /\ messages' = messages \ Expired
    /\ removed' = removed \cup Tells(Expired)
    /\ UNCHANGED <<enabled, created, reused, cut, send>>

----------------------------------------------------------------------------
(* Sending a message. *)

\* The endpoint reads the session, or answers 404.
Open(s, r) ==
    /\ send[s].at = "idle"
    /\ send' = [send EXCEPT ![s].at = "opened", ![s].session = r.id]
    /\ UNCHANGED <<sessions, messages, enabled, created, reused, removed, cut>>

\* _save_user_message: the text or the page context is refused.
Refuse(s) ==
    /\ send[s].at = "opened"
    /\ Goto(s, "failed")
    /\ UNCHANGED <<sessions, messages, enabled, created, reused, removed, cut>>

\* _save_user_message: stored and committed at once; the foreign key refuses
\* the message of a session that is gone.
Save(s) ==
    /\ send[s].at = "opened"
    /\ IF Exists(send[s].session)
         THEN /\ messages' = Insert(messages, send[s].session, "user", {<<"user", s>>})
              /\ Goto(s, "saved")
         ELSE /\ UNCHANGED messages
              /\ Goto(s, "failed")
    /\ UNCHANGED <<sessions, enabled, created, reused, removed, cut>>

\* compute_usage and the guards of _maybe_compress_history.  How many tokens the
\* texts take is data, so any history that is long enough may be too long.
MayBeTooLong(rows) == Cardinality(rows) > KeepRecent + 1

\* _generate_summary: the summariser is shown the first 8000 characters, the oldest
\* rows first, which the threshold for folding does not respect.  How many rows fit
\* as a whole is data.
Transcripts(early) == {Oldest(early, fit) : fit \in 0 .. Cardinality(early)}

\* _maybe_compress_history up to the call of the summariser, which a configuration
\* that is switched off prevents.
Assess(s) ==
    LET rows  == RowsOf(send[s].session)
        early == rows \ Newest(rows, KeepRecent)
    IN  /\ send[s].at = "saved"
        /\ \/ Goto(s, "building")
           \/ /\ MayBeTooLong(rows)
              /\ enabled
              /\ \E shown \in Transcripts(early) :
                    send' = [send EXCEPT ![s].at = "summarising",
                                         ![s].folding = Ids(early),
                                         ![s].summary = Tells(shown),
                                         ![s].unread = Tells(early \ shown)]
        /\ UNCHANGED <<sessions, messages, enabled, created, reused, removed, cut>>

\* Mutant: what is old enough when the summary arrives.
MutFoldTargets(s) ==
    RowsOf(send[s].session) \ Newest(RowsOf(send[s].session), KeepRecent)

\* The rollback before the summariser's call expired what was read.  What is
\* touched again is read again, and a row that is gone raises ObjectDeletedError,
\* outside the handler that forgives a failed compression.
FoldTargets(s) == {m \in messages : m.id \in send[s].folding}

\* Mutant: a bulk delete that does not notice the missing rows.
MutAllStillThere(s) == Exists(send[s].session)

AllStillThere(s) == Exists(send[s].session) /\ send[s].folding \subseteq Ids(messages)

\* The summary arrives: it is inserted, and all the rows are deleted, those that
\* the summariser was not shown as well.
Fold(s) ==
    /\ send[s].at = "summarising"
    /\ IF AllStillThere(s)
         THEN /\ messages' = Insert(messages, send[s].session, "summary", send[s].summary)
                             \ FoldTargets(s)
              /\ cut' = cut \cup send[s].unread
              /\ Goto(s, "building")
         ELSE /\ UNCHANGED <<messages, cut>>
              /\ Goto(s, "failed")
    /\ UNCHANGED <<sessions, enabled, created, reused, removed>>

\* The summariser fails, answers nonsense or is too late: the history stays.
KeepHistory(s) ==
    /\ send[s].at = "summarising"
    /\ Goto(s, IF Exists(send[s].session) THEN "building" ELSE "failed")
    /\ UNCHANGED <<sessions, messages, enabled, created, reused, removed, cut>>

\* Mutant: without DESC the limit keeps the oldest ones.
MutHistory(s) == Oldest(RowsOf(send[s].session), MaxHistory)

\* The messages of the request: the newest of the session.
History(s) == Newest(RowsOf(send[s].session), MaxHistory)

\* _build_request, which refuses a configuration that is switched off.
Build(s) ==
    /\ send[s].at = "building"
    /\ IF enabled
         THEN send' = [send EXCEPT ![s].at = "upstream", ![s].carries = Tells(History(s))]
         ELSE Goto(s, "failed")
    /\ UNCHANGED <<sessions, messages, enabled, created, reused, removed, cut>>

\* execute_tool: the tools only read, and what they answer, a refusal of a
\* disabled user included, is data of the next round.
ExecuteTools(s) == send' = [send EXCEPT ![s].round = @ + 1]

\* The upstream calls for tools; in the last round that is an error.
CallTools(s) ==
    /\ send[s].at = "upstream"
    /\ IF send[s].round < MaxRounds - 1
         THEN ExecuteTools(s)
         ELSE Goto(s, "failed")
    /\ UNCHANGED <<sessions, messages, enabled, created, reused, removed, cut>>

\* The upstream answers in the last round it needs.
Answer(s) ==
    /\ send[s].at = "upstream"
    /\ Goto(s, "replaying")
    /\ UNCHANGED <<sessions, messages, enabled, created, reused, removed, cut>>

\* _post_upstream raises, or the round is malformed or has no text.
CallFails(s) ==
    /\ s \notin Streams
    /\ send[s].at = "upstream"
    /\ Goto(s, "failed")
    /\ UNCHANGED <<sessions, messages, enabled, created, reused, removed, cut>>

\* _stream_upstream raises or breaks off, or the round is malformed or has no text.
StreamFails(s) ==
    /\ s \in Streams
    /\ send[s].at = "upstream"
    /\ Goto(s, "failed")
    /\ UNCHANGED <<sessions, messages, enabled, created, reused, removed, cut>>

\* Mutant: the summary has no deadline.
MutTimedSteps == {"upstream"}

\* asyncio.timeout over the summary, and one over all the rounds together.
TimedSteps == {"summarising", "upstream"}

Timeout(s) ==
    /\ send[s].at \in TimedSteps
    /\ IF send[s].at = "summarising" /\ Exists(send[s].session)
         THEN Goto(s, "building")
         ELSE Goto(s, "failed")
    /\ UNCHANGED <<sessions, messages, enabled, created, reused, removed, cut>>

\* _append_reply_message and the commit: the reply and last_message_at, or 404.
Append(s) ==
    /\ send[s].at = "replaying"
    /\ IF Exists(send[s].session)
         THEN /\ messages' = Insert(messages, send[s].session, "assistant", {<<"assistant", s>>})
              /\ sessions' = {IF r.id = send[s].session THEN [r EXCEPT !.idle = FALSE] ELSE r :
                                r \in sessions}
              /\ Goto(s, "done")
         ELSE /\ UNCHANGED <<messages, sessions>>
              /\ Goto(s, "failed")
    /\ UNCHANGED <<enabled, created, reused, removed, cut>>

\* The client of a stream goes away while the stream waits, replays, or tells it of
\* the compression.
Disconnect(s) ==
    /\ s \in Streams
    /\ send[s].at \in {"summarising", "building", "upstream", "replaying"}
    /\ Goto(s, "failed")
    /\ UNCHANGED <<sessions, messages, enabled, created, reused, removed, cut>>

\* What a request does by itself, without an answer from outside.
Proceed(s) == Save(s) \/ Assess(s) \/ Build(s) \/ Append(s) \/ Timeout(s)

SendStep(s) ==
    \/ \E r \in sessions : Open(s, r)
    \/ Refuse(s)
    \/ Proceed(s)
    \/ Fold(s)
    \/ KeepHistory(s)
    \/ CallTools(s)
    \/ Answer(s)
    \/ CallFails(s)
    \/ StreamFails(s)
    \/ Disconnect(s)

Next ==
    \/ CreateSession
    \/ \E i \in Ids(sessions) : RenameSession(i) \/ DeleteSession(i)
    \/ ToggleConfig
    \/ Cleanup
    \/ \E s \in Sends : SendStep(s)

Spec == Init /\ [][Next]_vars

\* A request's own steps are taken, and its deadlines pass.  Nothing is assumed
\* of the upstream, of the client or of other people.
FairSpec == Spec /\ \A s \in Sends : WF_vars(Proceed(s))

----------------------------------------------------------------------------
(* Properties. *)

\* The rows are rows: every id names one, and every message has its session.
AssistantTypeOK ==
    /\ sessions \subseteq SessionRows
    /\ messages \subseteq MessageRows
    /\ \A a, b \in sessions : a.id = b.id => a = b
    /\ \A a, b \in messages : a.id = b.id => a = b
    /\ \A m \in messages : Exists(m.session)
    /\ enabled \in BOOLEAN
    /\ created \in 0 .. MaxSessions
    /\ reused \in BOOLEAN
    /\ removed \subseteq Marks
    /\ cut \subseteq Marks
    /\ send \in [Sends -> SendStates]

\* What a send has stored.
Stored(s) ==
    (IF send[s].at \in {"saved", "summarising", "building", "upstream", "replaying", "done"}
       THEN {<<"user", s>>} ELSE {})
    \cup (IF send[s].at = "done" THEN {<<"assistant", s>>} ELSE {})

\* However the compressions of concurrent sends interleave, they lose nothing of
\* their own: what was said is still told by a message, or the user or the
\* retention job deleted it, or it lay past the end of the transcript of the fold
\* that deleted it; as long as no session row is taken for another one.
NothingIsLost ==
    reused \/ \A s \in Sends : Stored(s) \subseteq Tells(messages) \cup removed \cup cut

\* ... and by one message: no two summaries replace the same message, and no
\* summary stands beside one that it replaces, as long as no session row is taken
\* for another one.
ToldOnce ==
    reused \/ \A a, b \in messages : a # b => a.tells \cap b.tells = {}

\* The request that is sent upstream carries the message it is to answer, or a
\* summary of it, whatever the other sends have added or folded meanwhile: only
\* MaxHistory later messages push it out, or a fold whose transcript ended before
\* it.
RequestAnswersItsMessage ==
    [][\A s \in Sends :
          \/ ~(send[s].at = "building" /\ send'[s].at = "upstream")
          \/ <<"user", s>> \in send'[s].carries \cup removed \cup cut
          \/ reused
          \/ \E m \in messages :
                /\ <<"user", s>> \in m.tells
                /\ Cardinality({n \in messages : n.id > m.id}) >= MaxHistory]_vars

\* Every send comes to an end, whatever the upstream does.
SendsEnd == \A s \in Sends : send[s].at # "idle" ~> send[s].at \in {"done", "failed"}
=============================================================================
