--------------------------- MODULE AssignmentFlow ---------------------------
(***************************************************************************)
(* The life of a question in benchmarkd: workers poll for it               *)
(* (service/poll.go), answer it (service/answer.go), miss its deadline     *)
(* (service/timer.go), and it is scored (service/scoring.go), while the    *)
(* process may crash at any step and rebuild its timers from the database. *)
(*                                                                         *)
(* Three kinds of actors interleave:                                       *)
(*  - Session: goroutines that serve one HTTP request of one worker, a     *)
(*    poll or an answer.  A poll is one PostgreSQL transaction, READ       *)
(*    COMMITTED: each of its statements sees what is committed when the    *)
(*    statement starts, plus its own writes.                               *)
(*  - Job: background goroutines, handleTimeout and TryScore.  Each of     *)
(*    their statements commits by itself.                                  *)
(*  - the main goroutine, which recovers on startup and then serves.       *)
(* One action is one statement, or the in-memory step between two of them. *)
(***************************************************************************)
EXTENDS Scoring

CONSTANTS Worker, Question, Session, Job,
          Questioner,  \* the workers that submit questions
          Least, Most, \* the values question.required_answers is given, 0
                       \* standing for all that are not positive
          MaxAssign,   \* bound: assignment ids are 1 .. MaxAssign
          MaxTimers,   \* bound: pending timers per assignment
          MaxCrash,    \* bound: process crashes
          MaxFault,    \* bound: failed or unacknowledged store calls
          MaxChanges,  \* bound: changes of the cached required number
          None         \* no value (SQL NULL, Go nil)

ASSUME BoundAssumption ==
  /\ Least \in Nat /\ Most \in Nat \ {0} /\ Least <= Most
  /\ MaxAssign \in Nat /\ MaxTimers \in Nat \ {0}
  /\ MaxCrash \in Nat /\ MaxFault \in Nat /\ MaxChanges \in Nat

ASSUME QuestionerAssumption == Questioner \subseteq Worker

AId == 1 .. MaxAssign

Choices == Least .. Most

\* What the cache may hold: Go's zero value as well, when Load has failed.
Numbers == {0} \cup Choices

ASSUME NoneAssumption == None \notin Worker \cup Question \cup Reply \cup AId

VARIABLES
  \* table questions
  qstat,    \* [Question -> status]; "absent" before the INSERT
  qauthor,  \* [Question -> questioner]
  qres,     \* [Question -> score and share]
  \* table assignments
  nextId,   \* the next value of the identity column
  st,       \* [AId -> status]; "none" before the INSERT
  aq, aw,   \* [AId -> question], [AId -> worker]
  reply,    \* [AId -> reply_valid and reply_answer]
  ares,     \* [AId -> score and share]
  late,     \* [AId -> BOOLEAN]: the clock has passed reply_ddl
  \* the process
  server,   \* "up", "down", or the phase of RecoverOnStartup
  rec,      \* questions RecoverOnStartup has still to score
  mapped,   \* keys of TimerManager.timers
  pending,  \* [AId -> number of time.AfterFunc timers not yet fired]
  sess,     \* [Session -> the request it serves]
  job,      \* [Job -> the background task it runs]
  \* history: what the properties look back at
  basis,    \* [Question -> the replies it was scored on]
  bar,      \* [Question -> the number its scorer compared the replies with]
  peeked,   \* claims that were open when their worker could read the answer
  \* the configuration, and counters for the bounds
  required, \* RuntimeConfig's question.required_answers
  crashes, faults, changes

history      == <<basis, bar, peeked>>
questionVars == <<qstat, qauthor, qres, history>>
rowVars      == <<nextId, st, aq, aw, reply, ares>>
timerVars    == <<mapped, pending>>
mainVars     == <<server, rec, crashes, required, changes>>
vars == <<questionVars, rowVars, late, timerVars, mainVars, sess, job, faults>>

QStatus   == {"absent", "submitted", "scored"}
AStatus   == {"none", "claimed", "replied", "scored", "timed-out"}
Result    == [score : Scores, share : Nat]
ZeroResult == [score |-> 0, share |-> 0]

\* Where a poll or an answer request stands.
PollPC   == {"clean", "pick", "lock", "count", "insert", "arm"}
AnswerPC == {"expire", "write", "callback", "refused"}

IdleSession == [pc |-> "idle", w |-> None, q |-> None, a |-> None,
                old |-> None, cand |-> {}, need |-> 0]
IdleJob == [pc |-> "idle", q |-> None, a |-> None, seen |-> {}, todo |-> {},
            by |-> "go", need |-> 0]
----------------------------------------------------------------------------
(* What the statements read. *)

Rows(q) == {a \in AId : st[a] # "none" /\ aq[a] = q}

Replied(q) == {a \in Rows(q) : st[a] = "replied"}

Active(q) == {a \in Rows(q) : st[a] \in {"claimed", "replied"}}

Claims(w) == {a \in AId : st[a] = "claimed" /\ aw[a] = w}

\* A poll transaction holds the question's row lock from its
\* SELECT ... FOR UPDATE until it ends.
QuestionLocked(q) ==
  \E s \in Session : sess[s].q = q /\ sess[s].pc \in {"count", "insert"}

\* A poll transaction that timed an expired claim out holds that row's lock.
RowLocked(a) == \E s \in Session : sess[s].old = a

\* The statuses session s sees: what is committed, and its own update.
StatusSeenBy(s) ==
  [a \in AId |-> IF a = sess[s].old THEN "timed-out" ELSE st[a]]

\* The candidates CTE of PickQuestionForWorker, as s sees the tables.
Candidates(s) ==
  LET seen == StatusSeenBy(s)
      Of(q, w, stats) == {a \in Rows(q) : aw[a] = w /\ seen[a] \in stats}
      w == sess[s].w
  IN {q \in Question :
        /\ qstat[q] = "submitted"
        /\ qauthor[q] # w
        /\ Of(q, w, {"claimed", "replied", "scored"}) = {}
        /\ Cardinality(Of(q, w, {"timed-out"})) < 2
        /\ Cardinality(Active(q) \ {sess[s].old}) < sess[s].need}
----------------------------------------------------------------------------
(* Who may read a question's reference answer, or replies to it. *)

\* GET /api/v1/my/questions
MyQuestions(w) == {q \in Question : qauthor[q] = w}

\* GET /api/v1/questions: GetRecentQuestions
PublicQuestions == {q \in Question : qstat[q] = "scored"}

\* GET /api/v1/assignments: ListPublicAssignments
PublicAssignments ==
  {a \in AId : st[a] = "scored" /\ qstat[aq[a]] = "scored"}

\* The questions whose answer w may know from the API.
Disclosed(w) ==
  MyQuestions(w) \cup PublicQuestions \cup {aq[a] : a \in PublicAssignments}

\* The claims that are open although their worker may know the answer.
Peeking == {a \in AId : st[a] = "claimed" /\ aq[a] \in Disclosed(aw[a])}
----------------------------------------------------------------------------
(* What the statements write. *)

\* st with a, when it is a row, marked timed out.
TimedOut(a) ==
  [b \in AId |-> IF b = a THEN "timed-out" ELSE st[b]]

\* The end of a poll transaction that commits nothing but the clean-up.
CommitCleanup(s) == st' = TimedOut(sess[s].old)

Goto(s, fields) == sess' = [sess EXCEPT ![s] = fields]

Finish(s) == Goto(s, IdleSession)

\* A free goroutine takes up a task.
Spawn(j, task) == job[j] = IdleJob /\ job' = [job EXCEPT ![j] = task]

TryScoreTask(q, by) == [IdleJob EXCEPT !.pc = "try", !.q = q, !.by = by]

JobTo(j, pc) == job' = [job EXCEPT ![j].pc = pc]

JobEnds(j) == job' = [job EXCEPT ![j] = IdleJob]
----------------------------------------------------------------------------
Init ==
  /\ qstat = [q \in Question |-> "absent"]
  /\ qauthor = [q \in Question |-> None]
  /\ qres = [q \in Question |-> ZeroResult]
  /\ nextId = 1
  /\ st = [a \in AId |-> "none"]
  /\ aq = [a \in AId |-> None]
  /\ aw = [a \in AId |-> None]
  /\ reply = [a \in AId |-> None]
  /\ ares = [a \in AId |-> ZeroResult]
  /\ late = [a \in AId |-> FALSE]
  /\ server = "up"
  /\ rec = {}
  /\ mapped = {}
  /\ pending = [a \in AId |-> 0]
  /\ sess = [s \in Session |-> IdleSession]
  /\ job = [j \in Job |-> IdleJob]
  /\ basis = [q \in Question |-> {}] /\ bar = [q \in Question |-> 0] /\ peeked = {}
  /\ required \in Numbers
  /\ crashes = 0 /\ faults = 0 /\ changes = 0

\* PUT /admin/v1/config, and its Load puts the number of the table in the cache:
\* requests and tasks that have read it go on with the value they read,
\* questions that are open are looked at again by whatever runs next.
ChangeRequired(n) ==
  /\ server = "up"
  /\ changes < MaxChanges /\ n # required
  /\ required' = n /\ changes' = changes + 1
  /\ UNCHANGED <<questionVars, rowVars, late, timerVars, server, rec, crashes,
                 sess, job, faults>>

\* SubmitQuestion stores a question; its checks are a component of their own.
SubmitQuestion(q, w) ==
  /\ server = "up"
  /\ qstat[q] = "absent"
  /\ qstat' = [qstat EXCEPT ![q] = "submitted"]
  /\ qauthor' = [qauthor EXCEPT ![q] = w]
  /\ UNCHANGED <<qres, history, rowVars, late, timerVars, mainVars, sess, job, faults>>
----------------------------------------------------------------------------
(* GET /poll: PollService.PollOnline. *)

\* A request begins: a poll takes requiredAnswers() once and keeps it.
Request(s, w, pc, a) ==
  /\ server = "up"
  /\ sess[s].pc = "idle"
  /\ Goto(s, [IdleSession EXCEPT !.pc = pc, !.w = w, !.a = a, !.need = required])
  /\ UNCHANGED <<questionVars, rowVars, late, timerVars, mainVars, job, faults>>

\* FindClaimedAssignment finds nothing: go on to pick a question.
PollFindsNone(s, w) == Claims(w) = {} /\ Request(s, w, "pick", None)

\* It finds a claim that has expired: clean it up first.
PollFindsExpired(s, w) ==
  \E a \in Claims(w) : late[a] /\ Request(s, w, "clean", a)

\* It finds a claim that still runs: return it, and start a timer for it
\* again (bounded by MaxTimers).
PollFindsClaim(s, w) ==
  \E a \in Claims(w) :
    /\ ~late[a]
    /\ pending[a] + Cardinality({t \in Session : sess[t].pc = "arm" /\ sess[t].a = a})
         < MaxTimers
    /\ Request(s, w, "arm", a)

\* TimeoutAssignment inside the transaction: waits for the row's lock, and
\* changes nothing when the row is no longer claimed.
PollCleans(s) ==
  LET a == sess[s].a IN
  /\ sess[s].pc = "clean"
  /\ ~RowLocked(a)
  /\ Goto(s, [sess[s] EXCEPT !.pc = "pick", !.a = None,
                             !.old = IF st[a] = "claimed" THEN a ELSE None])
  /\ UNCHANGED <<questionVars, rowVars, late, timerVars, mainVars, job, faults>>

\* PickQuestionForWorker evaluates its CTE on the statement's snapshot.  Its
\* LIMIT 100 is left out: any number of questions can be candidates.
PollSnapshot(s) ==
  /\ sess[s].pc = "pick"
  /\ IF Candidates(s) = {}
       THEN Finish(s) /\ CommitCleanup(s)
       ELSE /\ Goto(s, [sess[s] EXCEPT !.pc = "lock", !.cand = Candidates(s)])
            /\ UNCHANGED st
  /\ UNCHANGED <<questionVars, nextId, aq, aw, reply, ares, late, timerVars,
                 mainVars, job, faults>>

\* FOR UPDATE SKIP LOCKED takes any candidate nobody holds.  The CTE is not
\* evaluated again on the locked row.
PollLocks(s) ==
  /\ sess[s].pc = "lock"
  /\ \E q \in sess[s].cand :
       /\ ~QuestionLocked(q)
       /\ Goto(s, [sess[s] EXCEPT !.pc = "count", !.q = q, !.cand = {}])
  /\ UNCHANGED <<questionVars, rowVars, late, timerVars, mainVars, job, faults>>

\* Every candidate is locked: no question for this poll.
PollSkipsAll(s) ==
  /\ sess[s].pc = "lock"
  /\ \A q \in sess[s].cand : QuestionLocked(q)
  /\ Finish(s)
  /\ CommitCleanup(s)
  /\ UNCHANGED <<questionVars, nextId, aq, aw, reply, ares, late, timerVars,
                 mainVars, job, faults>>

\* Mutant: the count taken by the CTE is trusted.
PollCountsNot(s) ==
  /\ sess[s].pc = "count"
  /\ Goto(s, [sess[s] EXCEPT !.pc = "insert"])
  /\ UNCHANGED <<questionVars, rowVars, late, timerVars, mainVars, job, faults>>

\* CountActiveAssignments, on a fresh snapshot, under the row lock.
PollCounts(s) ==
  LET q == sess[s].q IN
  /\ sess[s].pc = "count"
  /\ IF Cardinality(Active(q) \ {sess[s].old}) >= sess[s].need
       THEN Finish(s) /\ CommitCleanup(s)
       ELSE Goto(s, [sess[s] EXCEPT !.pc = "insert"]) /\ UNCHANGED st
  /\ UNCHANGED <<questionVars, nextId, aq, aw, reply, ares, late, timerVars,
                 mainVars, job, faults>>

\* The rows that make the unique index on a worker's claimed rows reject s.
Conflicts(s) == Claims(sess[s].w) \ {sess[s].old}

\* CreateAssignment and COMMIT, the clean-up of the expired claim included.
InsertCommits(s) ==
  /\ sess[s].pc = "insert"
  /\ Conflicts(s) = {}
  /\ nextId <= MaxAssign
  /\ nextId' = nextId + 1
  /\ st' = [TimedOut(sess[s].old) EXCEPT ![nextId] = "claimed"]
  /\ aq' = [aq EXCEPT ![nextId] = sess[s].q]
  /\ aw' = [aw EXCEPT ![nextId] = sess[s].w]
  /\ UNCHANGED <<qstat, qauthor, qres, basis, bar, reply, ares, late, timerVars,
                 mainVars, job>>
  /\ peeked' = peeked \cup Peeking'

PollInserts(s) ==
  /\ InsertCommits(s)
  /\ Goto(s, [IdleSession EXCEPT !.pc = "arm", !.w = sess[s].w, !.a = nextId])
  /\ UNCHANGED faults

\* The index waits for a conflicting row another transaction has changed,
\* and otherwise rejects the new row: the transaction is rolled back (so it
\* is when the bound MaxAssign is reached).
PollRejected(s) ==
  /\ sess[s].pc = "insert"
  /\ Conflicts(s) # {} \/ nextId > MaxAssign
  /\ \A c \in Conflicts(s) : ~RowLocked(c)
  /\ Finish(s)
  /\ UNCHANGED <<questionVars, rowVars, late, timerVars, mainVars, job, faults>>

\* The COMMIT took effect, but its acknowledgement was lost: PollOnline
\* returns an error and starts no timer.
PollAckLost(s) ==
  /\ faults < MaxFault
  /\ InsertCommits(s)
  /\ Finish(s)
  /\ faults' = faults + 1

\* Mutant: a deadline that has passed by the time the timer is started is
\* overlooked.
PollArmsUnlessLate(s) ==
  LET a == sess[s].a IN
  /\ sess[s].pc = "arm"
  /\ pending' = IF late[a] THEN pending ELSE [pending EXCEPT ![a] = @ + 1]
  /\ mapped' = IF late[a] THEN mapped ELSE mapped \cup {a}
  /\ Finish(s)
  /\ UNCHANGED <<questionVars, rowVars, late, mainVars, job, faults>>

\* OnAssignmentCreated = StartReplyTimer: a timer in the map, which replaces
\* an entry that is there without stopping it; or, past the deadline, a
\* handleTimeout right away, which is a timer due now and not in the map.
\* AfterFunc and the entry are one step: an entry stored for a timer that has
\* fired meanwhile would be of no effect, for stopping that timer does nothing.
PollArms(s) ==
  LET a == sess[s].a IN
  /\ sess[s].pc = "arm"
  /\ pending' = [pending EXCEPT ![a] = @ + 1]
  /\ mapped' = IF late[a] THEN mapped ELSE mapped \cup {a}
  /\ Finish(s)
  /\ UNCHANGED <<questionVars, rowVars, late, mainVars, job, faults>>

\* A statement of the transaction fails, or the client goes away: rollback.
PollAborts(s) ==
  /\ sess[s].pc \in PollPC \ {"arm"}
  /\ Finish(s)
  /\ UNCHANGED <<questionVars, rowVars, late, timerVars, mainVars, job, faults>>
----------------------------------------------------------------------------
(* POST /answers: AnswerService.SubmitAnswer. *)

\* GetAssignmentByWorker returns one of the worker's rows for the question,
\* whichever the database yields first.
AnswerRow(s, w, a, pc) ==
  /\ st[a] # "none"
  /\ aw[a] = w
  /\ Request(s, w, pc, a)

\* Not in claimed state: refused.
AnswerRefused(s, w) ==
  \E a \in AId : st[a] # "claimed" /\ AnswerRow(s, w, a, "refused")

AnswerLate(s, w) ==
  \E a \in AId : st[a] = "claimed" /\ late[a] /\ AnswerRow(s, w, a, "expire")

AnswerInTime(s, w) ==
  \E a \in AId : st[a] = "claimed" /\ ~late[a] /\ AnswerRow(s, w, a, "write")

\* TimeoutAssignment, and the error deadline_passed; no scoring is tried.
AnswerExpires(s) ==
  LET a == sess[s].a IN
  /\ sess[s].pc = "expire"
  /\ ~RowLocked(a)
  /\ st' = IF st[a] = "claimed" THEN TimedOut(a) ELSE st
  /\ Finish(s)
  /\ UNCHANGED <<questionVars, nextId, aq, aw, reply, ares, late, timerVars,
                 mainVars, job, faults>>

\* SetAssignmentReply updates the row if it is still claimed.
ReplyCommits(s, r) ==
  LET a == sess[s].a IN
  /\ sess[s].pc = "write"
  /\ ~RowLocked(a)
  /\ st[a] = "claimed"
  /\ st' = [st EXCEPT ![a] = "replied"]
  /\ reply' = [reply EXCEPT ![a] = r]
  /\ UNCHANGED <<questionVars, nextId, aq, aw, ares, late, timerVars, mainVars,
                 job>>

AnswerWrites(s, r) ==
  /\ ReplyCommits(s, r)
  /\ Goto(s, [sess[s] EXCEPT !.pc = "callback"])
  /\ UNCHANGED faults

\* The answer is too long, the row is no longer claimed, the statement fails
\* or the client goes away; and, when pc is "refused", the error response.
AnswerEnds(s) ==
  /\ sess[s].pc \in {"expire", "write", "refused"}
  /\ Finish(s)
  /\ UNCHANGED <<questionVars, rowVars, late, timerVars, mainVars, job, faults>>

\* The UPDATE took effect, but its acknowledgement was lost: SubmitAnswer
\* returns an error and does not call OnAnswerSubmitted.
AnswerAckLost(s, r) ==
  /\ faults < MaxFault
  /\ ReplyCommits(s, r)
  /\ Finish(s)
  /\ faults' = faults + 1

\* Mutant: CancelTimer stops a timer whether or not the map still has one.
AnswerCallbackStopsAny(s, j) ==
  LET a == sess[s].a IN
  /\ sess[s].pc = "callback"
  /\ Spawn(j, TryScoreTask(aq[a], "go"))
  /\ pending' = [pending EXCEPT ![a] = @ - 1]
  /\ mapped' = mapped \ {a}
  /\ Finish(s)
  /\ UNCHANGED <<questionVars, rowVars, late, mainVars, faults>>

\* Mutant: the callback tries to score only when it cancelled a timer.
AnswerCallbackIfTimed(s, j) ==
  LET a == sess[s].a IN
  /\ sess[s].pc = "callback"
  /\ IF a \in mapped
       THEN /\ Spawn(j, TryScoreTask(aq[a], "go"))
            /\ pending' = [pending EXCEPT ![a] = @ - 1]
       ELSE UNCHANGED <<job, pending>>
  /\ mapped' = mapped \ {a}
  /\ Finish(s)
  /\ UNCHANGED <<questionVars, rowVars, late, mainVars, faults>>

\* OnAnswerSubmitted: CancelTimer stops the timer the map knows; a goroutine
\* runs TryScore.
AnswerCallback(s, j) ==
  LET a == sess[s].a IN
  /\ sess[s].pc = "callback"
  /\ Spawn(j, TryScoreTask(aq[a], "go"))
  /\ pending' = IF a \in mapped THEN [pending EXCEPT ![a] = @ - 1] ELSE pending
  /\ mapped' = mapped \ {a}
  /\ Finish(s)
  /\ UNCHANGED <<questionVars, rowVars, late, mainVars, faults>>
----------------------------------------------------------------------------
(* Reply deadlines: TimerManager.handleTimeout. *)

DeadlinePasses(a) ==
  /\ ~late[a]
  /\ st[a] = "claimed" \/ pending[a] > 0
  /\ late' = [late EXCEPT ![a] = TRUE]
  /\ UNCHANGED <<questionVars, rowVars, timerVars, mainVars, sess, job, faults>>

\* A timer is due: it drops the map's entry, whichever timer that names, and
\* reads the row (one step, since its own entry matters to nobody any more); it
\* has nothing to do unless the row is claimed.
TimerFires(a, j) ==
  /\ late[a]
  /\ pending[a] > 0
  /\ pending' = [pending EXCEPT ![a] = @ - 1]
  /\ mapped' = mapped \ {a}
  /\ IF st[a] = "claimed"
       THEN Spawn(j, [IdleJob EXCEPT !.pc = "timeout", !.q = aq[a], !.a = a])
       ELSE UNCHANGED job
  /\ UNCHANGED <<questionVars, rowVars, late, mainVars, sess, faults>>

\* Mutant: TimeoutAssignment without AND status = 'claimed'.
JobTimesOutAlways(j) ==
  /\ job[j].pc = "timeout"
  /\ ~RowLocked(job[j].a)
  /\ st' = TimedOut(job[j].a)
  /\ job' = [job EXCEPT ![j] = TryScoreTask(@.q, "go")]
  /\ UNCHANGED <<questionVars, nextId, aq, aw, reply, ares, late, timerVars,
                 mainVars, sess, faults>>

\* TimeoutAssignment updates the row if it is still claimed (its score and
\* share are 0 already), and then scoring is tried.
JobTimesOut(j) ==
  LET a == job[j].a IN
  /\ job[j].pc = "timeout"
  /\ ~RowLocked(a)
  /\ IF st[a] = "claimed"
       THEN st' = TimedOut(a) /\ job' = [job EXCEPT ![j] = TryScoreTask(@.q, "go")]
       ELSE UNCHANGED st /\ JobEnds(j)
  /\ UNCHANGED <<questionVars, nextId, aq, aw, reply, ares, late, timerVars,
                 mainVars, sess, faults>>
----------------------------------------------------------------------------
(* TimerManager.TryScore and ScoringService.ScoreQuestion. *)

\* Mutant: claims count as replies.
JobCountsClaims(j) ==
  /\ job[j].pc = "try"
  /\ job' = [job EXCEPT ![j].pc = "weigh", ![j].seen = Active(job[j].q)]
  /\ UNCHANGED <<questionVars, rowVars, late, timerVars, mainVars, sess, faults>>

\* TryScore lists the assignments and counts the replied ones.
JobTries(j) ==
  /\ job[j].pc = "try"
  /\ job' = [job EXCEPT ![j].pc = "weigh", ![j].seen = Replied(job[j].q)]
  /\ UNCHANGED <<questionVars, rowVars, late, timerVars, mainVars, sess, faults>>

\* Then it reads the required number, and goes on to ScoreQuestion; with 0, on
\* whatever there is.
JobWeighs(j) ==
  /\ job[j].pc = "weigh"
  /\ IF Cardinality(job[j].seen) >= required
       THEN job' = [job EXCEPT ![j].pc = "get", ![j].seen = {}, ![j].need = required]
       ELSE JobEnds(j)
  /\ UNCHANGED <<questionVars, rowVars, late, timerVars, mainVars, sess, faults>>

\* GetQuestion: nothing to do unless the question is still submitted.
JobGets(j) ==
  /\ job[j].pc = "get"
  /\ IF qstat[job[j].q] = "submitted" THEN JobTo(j, "list") ELSE JobEnds(j)
  /\ UNCHANGED <<questionVars, rowVars, late, timerVars, mainVars, sess, faults>>

\* Mutant: the list is not filtered by status.
JobListsAll(j) ==
  /\ job[j].pc = "list"
  /\ job' = [job EXCEPT ![j].pc = "cas", ![j].seen = Rows(job[j].q)]
  /\ UNCHANGED <<questionVars, rowVars, late, timerVars, mainVars, sess, faults>>

\* ListAssignmentsByQuestion: the replies that will be scored.
JobLists(j) ==
  LET replied == Replied(job[j].q) IN
  /\ job[j].pc = "list"
  /\ job' = [job EXCEPT ![j] = IF replied = {} THEN IdleJob
                               ELSE [@ EXCEPT !.pc = "cas", !.seen = replied]]
  /\ UNCHANGED <<questionVars, rowVars, late, timerVars, mainVars, sess, faults>>

\* The replies a scorer works on; reply_valid and reply_answer never change
\* once they are written.
Seen(j) == [a \in job[j].seen |-> reply[a]]

\* Store.ScoreQuestion: UPDATE ... WHERE status = 'submitted', which waits
\* for the question's row lock.
JobScoresQuestion(j) ==
  LET q == job[j].q IN
  /\ job[j].pc = "cas"
  /\ ~QuestionLocked(q)
  /\ IF qstat[q] = "submitted"
       THEN /\ qstat' = [qstat EXCEPT ![q] = "scored"]
            /\ qres' = [qres EXCEPT ![q] = QuestionerScore(Seen(j))]
            /\ basis' = [basis EXCEPT ![q] = job[j].seen]
            /\ bar' = [bar EXCEPT ![q] = job[j].need]
            /\ job' = [job EXCEPT ![j].pc = "assign", ![j].todo = job[j].seen]
       ELSE UNCHANGED <<qstat, qres, basis, bar>> /\ JobEnds(j)
  /\ UNCHANGED <<qauthor, rowVars, late, timerVars, mainVars, sess, faults>>
  /\ peeked' = peeked \cup Peeking'

\* Mutant: the replies are listed once more after the question is scored.
JobScoresAnyReply(j) ==
  /\ job[j].pc = "assign"
  /\ \E a \in job[j].todo \cup Replied(job[j].q) :
       /\ st' = [st EXCEPT ![a] = "scored"]
       /\ ares' = [ares EXCEPT ![a] = AnswererScore([b \in job[j].seen \cup {a} |-> reply[b]], a)]
       /\ job' = [job EXCEPT ![j] =
                     IF job[j].todo \subseteq {a} THEN IdleJob
                     ELSE [job[j] EXCEPT !.todo = job[j].todo \ {a}]]
  /\ UNCHANGED <<questionVars, nextId, aq, aw, reply, late, timerVars, mainVars,
                 sess, faults>>

\* SetAssignmentScore, one assignment after the other, unconditionally.
JobScoresAssignment(j) ==
  /\ job[j].pc = "assign"
  /\ \E a \in job[j].todo :
       /\ st' = [st EXCEPT ![a] = "scored"]
       /\ ares' = [ares EXCEPT ![a] = AnswererScore(Seen(j), a)]
       /\ job' = [job EXCEPT ![j] =
                     IF job[j].todo = {a} THEN IdleJob
                     ELSE [job[j] EXCEPT !.todo = job[j].todo \ {a}]]
  /\ UNCHANGED <<questionVars, nextId, aq, aw, reply, late, timerVars, mainVars,
                 sess, faults>>

\* A store call of a background task fails: it logs the error and gives up.
JobFails(j) ==
  /\ faults < MaxFault
  /\ job[j].pc \notin {"idle", "weigh"}
  /\ JobEnds(j)
  /\ faults' = faults + 1
  /\ UNCHANGED <<questionVars, rowVars, late, timerVars, mainVars, sess>>
----------------------------------------------------------------------------
(* Crash, and RecoverOnStartup before the HTTP server listens. *)

\* Everything in memory is gone, open transactions are rolled back.  A
\* graceful shutdown is no better: it waits neither for timer goroutines nor,
\* before it stops waiting for scorers, for requests.
Crash ==
  /\ server # "down"
  /\ crashes < MaxCrash
  /\ crashes' = crashes + 1
  /\ server' = "down"
  /\ rec' = {}
  /\ mapped' = {}
  /\ pending' = [a \in AId |-> 0]
  /\ sess' = [s \in Session |-> IdleSession]
  /\ job' = [j \in Job |-> IdleJob]
  /\ UNCHANGED <<questionVars, rowVars, late, faults, required, changes>>

\* The claims of submitted questions, which phase 1 starts timers for.
Recoverable ==
  {a \in AId : st[a] = "claimed" /\ qstat[aq[a]] = "submitted"}

\* The configuration of a new process: the number of the table, which may have
\* been changed, or 0 when Load fails, which main only warns of.
LoadsNumber(n) ==
  /\ n # required => changes < MaxChanges
  /\ required' = n
  /\ changes' = IF n = required THEN changes ELSE changes + 1

\* Mutant: only the claims that still run are recovered.
RestartSkipsExpired(n) ==
  /\ server = "down"
  /\ server' = "scan"
  /\ LoadsNumber(n)
  /\ pending' = [a \in AId |-> IF a \in Recoverable /\ ~late[a] THEN 1 ELSE 0]
  /\ mapped' = {a \in Recoverable : ~late[a]}
  /\ UNCHANGED <<questionVars, rowVars, late, rec, crashes, sess, job, faults>>

\* Load, and phase 1: timers for the claims that run, handleTimeout for the others.
Restart(n) ==
  /\ server = "down"
  /\ server' = "scan"
  /\ LoadsNumber(n)
  /\ pending' = [a \in AId |-> IF a \in Recoverable THEN 1 ELSE 0]
  /\ mapped' = {a \in Recoverable : ~late[a]}
  /\ UNCHANGED <<questionVars, rowVars, late, rec, crashes, sess, job, faults>>

\* Mutant: > where >= is meant.
RecoverScanStrict ==
  /\ server = "scan"
  /\ server' = "score"
  /\ rec' = {q \in Question : qstat[q] = "submitted"
                               /\ Cardinality(Replied(q)) > required}
  /\ UNCHANGED <<questionVars, rowVars, late, timerVars, crashes, required, changes,
                 sess, job, faults>>

\* Phase 2: the questions that have enough replies ...
RecoverScan ==
  /\ server = "scan"
  /\ server' = "score"
  /\ rec' = {q \in Question : qstat[q] = "submitted"
                               /\ Cardinality(Replied(q)) >= required}
  /\ UNCHANGED <<questionVars, rowVars, late, timerVars, crashes, required, changes,
                 sess, job, faults>>

MainScores == \E j \in Job : job[j].pc # "idle" /\ job[j].by = "main"

\* ... are scored by the main goroutine, one after the other.
RecoverScore(j) ==
  /\ server = "score"
  /\ ~MainScores
  /\ \E q \in rec : rec' = rec \ {q} /\ Spawn(j, TryScoreTask(q, "main"))
  /\ UNCHANGED <<questionVars, rowVars, late, timerVars, server, crashes, required,
                 changes, sess, faults>>

\* srv.ListenAndServe
Serve ==
  /\ server = "score"
  /\ rec = {}
  /\ ~MainScores
  /\ server' = "up"
  /\ UNCHANGED <<questionVars, rowVars, late, timerVars, rec, crashes, required,
                 changes, sess, job, faults>>
----------------------------------------------------------------------------
SessionStep(s) ==
  \/ PollCleans(s) \/ PollSnapshot(s) \/ PollLocks(s) \/ PollSkipsAll(s)
  \/ PollCounts(s) \/ PollInserts(s) \/ PollRejected(s) \/ PollArms(s)
  \/ AnswerExpires(s) \/ (\E r \in Reply : AnswerWrites(s, r)) \/ AnswerEnds(s)
  \/ (\E j \in Job : AnswerCallback(s, j))

JobStep(j) ==
  \/ JobTimesOut(j) \/ JobTries(j) \/ JobWeighs(j) \/ JobGets(j)
  \/ JobLists(j) \/ JobScoresQuestion(j) \/ JobScoresAssignment(j)

MainStep ==
  \/ \E n \in Numbers : Restart(n)
  \/ RecoverScan \/ (\E j \in Job : RecoverScore(j)) \/ Serve

RequestArrives(s, w) ==
  \/ PollFindsNone(s, w) \/ PollFindsExpired(s, w) \/ PollFindsClaim(s, w)
  \/ AnswerRefused(s, w) \/ AnswerLate(s, w) \/ AnswerInTime(s, w)

Fault(s) ==
  PollAborts(s) \/ PollAckLost(s) \/ (\E r \in Reply : AnswerAckLost(s, r))

Next ==
  \/ \E q \in Question, w \in Questioner : SubmitQuestion(q, w)
  \/ \E n \in Choices : ChangeRequired(n)
  \/ \E s \in Session, w \in Worker : RequestArrives(s, w)
  \/ \E s \in Session : SessionStep(s)
  \/ \E s \in Session : Fault(s)
  \/ \E a \in AId : DeadlinePasses(a)
  \/ \E a \in AId, j \in Job : TimerFires(a, j)
  \/ \E j \in Job : JobStep(j) \/ JobFails(j)
  \/ Crash
  \/ MainStep

Spec == Init /\ [][Next]_vars

\* Goroutines that can run do run, timers go off, the process is restarted.
\* A job may wait for a row lock that polls take and release again and again:
\* PostgreSQL queues the waiters, so it gets its turn (strong fairness).
\* Nothing is assumed of workers: no request need ever arrive.
Fairness ==
  /\ \A s \in Session : WF_vars(SessionStep(s))
  /\ \A j \in Job : SF_vars(JobStep(j))
  /\ \A a \in AId : WF_vars(DeadlinePasses(a))
  /\ \A a \in AId : WF_vars(\E j \in Job : TimerFires(a, j))
  /\ WF_vars(MainStep)

FairSpec == Spec /\ Fairness
----------------------------------------------------------------------------
(* Properties. *)

SessionRecord ==
  [pc : {"idle"} \cup PollPC \cup AnswerPC, w : Worker \cup {None},
   q : Question \cup {None}, a : AId \cup {None}, old : AId \cup {None},
   cand : SUBSET Question, need : Numbers]

JobRecord ==
  [pc : {"idle", "timeout", "try", "weigh", "get", "list", "cas", "assign"},
   q : Question \cup {None}, a : AId \cup {None}, seen : SUBSET AId,
   todo : SUBSET AId, by : {"go", "main"}, need : Numbers]

\* The type invariant: every column, timer and goroutine holds values of its
\* type.
TypeOK ==
  /\ qstat \in [Question -> QStatus]
  /\ qauthor \in [Question -> Worker \cup {None}]
  /\ qres \in [Question -> Result]
  /\ nextId \in 1 .. MaxAssign + 1
  /\ st \in [AId -> AStatus]
  /\ aq \in [AId -> Question \cup {None}]
  /\ aw \in [AId -> Worker \cup {None}]
  /\ reply \in [AId -> Reply \cup {None}]
  /\ ares \in [AId -> Result]
  /\ late \in [AId -> BOOLEAN]
  /\ server \in {"up", "down", "scan", "score"}
  /\ rec \in SUBSET Question
  /\ mapped \in SUBSET AId
  /\ pending \in [AId -> Nat]
  /\ sess \in [Session -> SessionRecord]
  /\ job \in [Job -> JobRecord]
  /\ basis \in [Question -> SUBSET AId] /\ bar \in [Question -> Numbers]
  /\ peeked \in SUBSET AId
  /\ required \in Numbers
  /\ crashes \in 0 .. MaxCrash
  /\ faults \in 0 .. MaxFault
  /\ changes \in 0 .. MaxChanges

\* However polls, answers and time-outs interleave, a question never has more
\* claimed and replied assignments than the answers it requires (than the
\* greatest number it has required, when that is changed): what the row lock
\* and the second count in PollOnline are there for.
NoOverAssignment ==
  \A q \in Question : Cardinality(Active(q)) <= Most

\* Whoever races for an assignment (the worker's answer, its timer, an orphaned
\* timer, the next poll, a scorer), it only moves claimed -> replied -> scored
\* or claimed -> timed-out; a reply, once accepted, is never lost or changed.
AssignmentsMoveForward ==
  [][\A a \in AId :
       /\ st'[a] # st[a] =>
            <<st[a], st'[a]>> \in
               {<<"none", "claimed">>, <<"claimed", "replied">>,
                <<"claimed", "timed-out">>, <<"replied", "scored">>}
       /\ reply[a] # None => reply'[a] = reply[a]]_vars

\* A scored question was scored on replies that are still there, no fewer than
\* the number its scorer had compared the count of an earlier list with, never
\* on none, and never on more than have ever been required; its score and share,
\* and those of each of its scored assignments, are what that same set of
\* replies gives: no scorer ever worked on a shrunken or a mixed list.  (That
\* number may be 0, and then a single reply is enough.)
ScoreMatchesReplies ==
  \A q \in Question : qstat[q] = "scored" =>
    LET r == [a \in basis[q] |-> reply[a]] IN
    /\ Cardinality(basis[q]) >= bar[q]
    /\ Cardinality(basis[q]) \in 1 .. Most
    /\ \A a \in basis[q] : st[a] \in {"replied", "scored"}
    /\ qres[q] = QuestionerScore(r)
    /\ \A a \in Rows(q) : st[a] = "scored" =>
         a \in basis[q] /\ ares[a] = AnswererScore(r, a)

\* No claim is forgotten: while the process runs, and no store call has failed,
\* a claim on an open question has a timer, or a goroutine that is about to
\* start one or to time the claim out; also after a crash, and after any
\* number of repeated polls that replace the map's entry.
ClaimWatched ==
  \A a \in AId :
    (faults = 0 /\ server # "down" /\ st[a] = "claimed"
       /\ qstat[aq[a]] = "submitted") =>
      \/ pending[a] > 0
      \/ \E s \in Session : sess[s].pc = "arm" /\ sess[s].a = a
      \/ \E j \in Job : job[j].pc = "timeout" /\ job[j].a = a

\* No wake-up is lost: while the process serves, and no store call has failed,
\* an open question that has all its replies has a goroutine that is about to
\* score it.
ScoringPending ==
  \A q \in Question :
    (faults = 0 /\ server = "up" /\ qstat[q] = "submitted"
       /\ Cardinality(Replied(q)) >= Most) =>
      \/ \E s \in Session : sess[s].pc = "callback" /\ aq[sess[s].a] = q
      \/ \E j \in Job :
           /\ job[j].q = q
           /\ job[j].pc \in {"try", "weigh", "get", "list", "cas"}
           /\ job[j].pc = "weigh" => Cardinality(job[j].seen) >= Most

\* A question that has all the replies it requires is eventually scored,
\* crashes included.
EnoughRepliesScored ==
  \A q \in Question :
    (qstat[q] = "submitted" /\ Cardinality(Replied(q)) >= Most)
      ~> qstat[q] = "scored"

\* A claim on an open question does not block it for ever: it is answered, or
\* timed out, or the question is scored without it.
ClaimsResolved ==
  \A a \in AId :
    (st[a] = "claimed" /\ qstat[aq[a]] = "submitted")
      ~> (st[a] # "claimed" \/ qstat[aq[a]] = "scored")

\* Knowing the answer never pays: a claim that is still open when its worker
\* may already read the answer (docs/protocol.md, Question Submission: it must
\* not be exposed to answerers before scoring is complete) is never scored,
\* whatever is replied to it.
NoPeeking == \A a \in peeked : st[a] # "scored"

Life == INSTANCE QuestionLife

\* Whatever requests, timers, scorers, faults, crashes and changes of the
\* configuration do, what becomes of questions and assignments is what
\* QuestionLife promises: every step of the flow is one of its steps or leaves
\* its state alone.
ImplementsLife == Life!Spec
----------------------------------------------------------------------------
(* What the documentation and the comments say, and the code does not keep. *)

\* docs/protocol.md, Scoring: score the question and all replied assignments.
RepliesOfScoredAreScored ==
  \A a \in AId :
    (st[a] = "replied" /\ qstat[aq[a]] = "scored") ~> st[a] = "scored"

\* docs/protocol.md, Answer Quality Check: an answer is accepted when the
\* worker has an assignment for the question whose deadline has not passed.
RefusedOnlyWithoutClaim ==
  [][\A s \in Session :
       (sess'[s].pc = "refused" /\ sess[s].pc # "refused") =>
         ~ \E a \in AId : /\ st[a] = "claimed" /\ ~late[a]
                          /\ aw[a] = sess'[s].w /\ aq[a] = aq[sess'[s].a]]_vars
=============================================================================
