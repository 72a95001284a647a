------------------------ MODULE AssignmentFlowProofs ------------------------
(***************************************************************************)
(* Proofs about AssignmentFlow, for every number of workers, questions,    *)
(* requests, background goroutines, required answers (and changes of that  *)
(* number), faults and crashes.                                            *)
(***************************************************************************)
EXTENDS AssignmentFlow, FiniteSetTheorems, TLAPS

\* A request that has found an assignment names an existing row; one that has
\* locked a question names it; one inside the transaction names its worker.
GoodSession(x, status) ==
  /\ x.pc \in {"clean", "arm", "expire", "write", "callback", "refused"}
       => x.a \in AId /\ status[x.a] # "none"
  /\ x.pc \in {"count", "insert"} => x.q \in Question
  /\ x.pc \in {"clean", "pick", "lock", "count", "insert"} => x.w \in Worker
  /\ x.old # None => status[x.old] # "none"

\* A background task names a question, a time-out its assignment, a scorer
\* existing rows.
GoodJob(x, status) ==
  /\ x.pc # "idle" => x.q \in Question
  /\ x.pc = "timeout" => x.a \in AId
  /\ x.pc # "assign" => x.todo = {}
  /\ x.todo \subseteq x.seen
  /\ \A a \in x.seen : status[a] # "none"

SessionShape == \A s \in Session : GoodSession(sess[s], st)

JobShape == \A j \in Job : GoodJob(job[j], st)

\* A row that exists belongs to a question and a worker.
RowShape ==
  \A a \in AId : st[a] # "none" => aq[a] \in Question /\ aw[a] \in Worker

\* A timer in the map has not fired.
MappedPending == \A a \in mapped : pending[a] > 0

Shape == TypeOK /\ SessionShape /\ JobShape /\ RowShape /\ MappedPending

\* The bounded identity column has finitely many values.
LEMMA AIdFinite == IsFiniteSet(AId)
  BY FS_Interval, BoundAssumption DEF AId

\* What a set of rows has no more than: monotonicity of Cardinality on AId.
LEMMA SubsetCount ==
  ASSUME NEW S, NEW T, S \subseteq T, T \subseteq AId
  PROVE  /\ Cardinality(S) \in Nat
         /\ Cardinality(T) \in Nat
         /\ Cardinality(S) <= Cardinality(T)
<1>1. IsFiniteSet(T)
  BY AIdFinite, FS_Subset
<1>2. IsFiniteSet(S) /\ Cardinality(S) <= Cardinality(T)
  BY <1>1, FS_Subset
<1> QED
  BY <1>1, <1>2, FS_CardinalityType

\* One more row: what an INSERT may add to a count.
LEMMA AddOne ==
  ASSUME NEW S, NEW x, IsFiniteSet(S)
  PROVE  Cardinality(S \cup {x}) <= Cardinality(S) + 1
<1>1. Cardinality(S) \in Nat
  BY FS_CardinalityType
<1>2. CASE x \in S
  <2>1. Cardinality(S \cup {x}) = Cardinality(S)
    BY <1>2, FS_AddElement
  <2> QED
    BY <1>1, <2>1
<1>3. CASE x \notin S
  <2>1. Cardinality(S \cup {x}) = Cardinality(S) + 1
    BY <1>3, FS_AddElement
  <2> QED
    BY <1>1, <2>1
<1> QED
  BY <1>2, <1>3

\* An equal share of a pool is a natural number of ten-thousandths.
LEMMA EqualShareType ==
  ASSUME NEW n \in Nat, n > 0
  PROVE  EqualShare(n) \in Nat
  BY DEF EqualShare, Whole

\* Scores and shares have the types of their columns.
LEMMA ScoreTypes ==
  ASSUME NEW r, IsFiniteSet(DOMAIN r)
  PROVE  /\ QuestionerScore(r) \in Result
         /\ \A a \in DOMAIN r : AnswererScore(r, a) \in Result
<1>1. \A n : questionerCase3Score(n) \in Result
  BY DEF questionerCase3Score, Result, Scores, Whole
<1>2. QuestionerScore(r) \in Result
  BY <1>1 DEF QuestionerScore, Result, Scores
<1>3. ASSUME NEW a \in DOMAIN r
      PROVE  AnswererScore(r, a) \in Result
  <2>1. Paid(r) \subseteq DOMAIN r
    BY DEF Paid, Correct, Winners
  <2>2. IsFiniteSet(Paid(r)) /\ Cardinality(Paid(r)) \in Nat
    BY <2>1, FS_Subset, FS_CardinalityType
  <2>3. a \in Paid(r) => Cardinality(Paid(r)) > 0
    BY <2>2, FS_EmptySet
  <2>4. a \in Paid(r) => EqualShare(Cardinality(Paid(r))) \in Nat
    BY <2>2, <2>3, EqualShareType
  <2> DEFINE share == IF a \in Paid(r) THEN EqualShare(Cardinality(Paid(r))) ELSE 0
             score == CASE a \in Paid(r) -> 5
                        [] Correct(r) # {} /\ a \in Wrong(r) -> 3
                        [] OTHER -> 2
  <2>5. share \in Nat
    BY <2>4
  <2>6. score \in Scores
    BY DEF Scores
  <2>7. AnswererScore(r, a) = [score |-> score, share |-> share]
    BY DEF AnswererScore
  <2> HIDE DEF score, share
  <2> QED
    BY <2>5, <2>6, <2>7 DEF Result
<1> QED
  BY <1>2, <1>3
----------------------------------------------------------------------------
(* Type correctness. *)

USE NoneAssumption

\* An empty database and an idle process are well-formed.
LEMMA InitShape == Init => Shape
  BY BoundAssumption
  DEF Numbers, Init, Shape, TypeOK, SessionShape, JobShape, RowShape, MappedPending,
      GoodSession, GoodJob, SessionRecord, JobRecord, PollPC, AnswerPC, IdleSession, IdleJob, AId, QStatus, AStatus, Result, Scores, ZeroResult

\* Rows are never deleted.
RowsStay == \A a \in AId : st[a] # "none" => st'[a] # "none"

\* A step that gives one request a well-formed record and deletes no row keeps
\* all requests well-formed.
LEMMA SessionsKept ==
  ASSUME TypeOK, SessionShape, RowsStay, NEW s \in Session,
         NEW x \in SessionRecord, GoodSession(x, st'),
         sess' = [sess EXCEPT ![s] = x]
  PROVE  sess' \in [Session -> SessionRecord] /\ SessionShape'
<1>1. sess' \in [Session -> SessionRecord]
  BY DEF TypeOK
<1>2. ASSUME NEW t \in Session PROVE GoodSession(sess'[t], st')
  <2>1. CASE t = s
    BY <2>1 DEF TypeOK
  <2>2. CASE t # s
    <3>1. sess'[t] = sess[t] /\ sess[t] \in SessionRecord /\ GoodSession(sess[t], st)
      BY <2>2 DEF TypeOK, SessionShape
    <3> QED
      BY <3>1 DEF GoodSession, RowsStay, SessionRecord
  <2> QED
    BY <2>1, <2>2
<1> QED
  BY <1>1, <1>2 DEF SessionShape

\* A step that leaves the requests alone and deletes no row keeps them
\* well-formed.
LEMMA SessionsStay ==
  ASSUME TypeOK, SessionShape, RowsStay, sess' = sess
  PROVE  sess' \in [Session -> SessionRecord] /\ SessionShape'
<1>1. ASSUME NEW t \in Session PROVE GoodSession(sess'[t], st')
  <2>1. sess'[t] = sess[t] /\ sess[t] \in SessionRecord /\ GoodSession(sess[t], st)
    BY DEF TypeOK, SessionShape
  <2> QED
    BY <2>1 DEF GoodSession, RowsStay, SessionRecord
<1> QED
  BY <1>1 DEF SessionShape, TypeOK

\* The same for a background task that takes a step ...
LEMMA JobsKept ==
  ASSUME TypeOK, JobShape, RowsStay, NEW j \in Job,
         NEW x \in JobRecord, GoodJob(x, st'),
         job' = [job EXCEPT ![j] = x]
  PROVE  job' \in [Job -> JobRecord] /\ JobShape'
<1>1. job' \in [Job -> JobRecord]
  BY DEF TypeOK
<1>2. ASSUME NEW k \in Job PROVE GoodJob(job'[k], st')
  <2>1. CASE k = j
    BY <2>1 DEF TypeOK
  <2>2. CASE k # j
    <3>1. job'[k] = job[k] /\ job[k] \in JobRecord /\ GoodJob(job[k], st)
      BY <2>2 DEF TypeOK, JobShape
    <3> QED
      BY <3>1 DEF GoodJob, RowsStay, JobRecord
  <2> QED
    BY <2>1, <2>2
<1> QED
  BY <1>1, <1>2 DEF JobShape

\* ... and for tasks that are left alone.
LEMMA JobsStay ==
  ASSUME TypeOK, JobShape, RowsStay, job' = job
  PROVE  job' \in [Job -> JobRecord] /\ JobShape'
<1>1. ASSUME NEW k \in Job PROVE GoodJob(job'[k], st')
  <2>1. job'[k] = job[k] /\ job[k] \in JobRecord /\ GoodJob(job[k], st)
    BY DEF TypeOK, JobShape
  <2> QED
    BY <2>1 DEF GoodJob, RowsStay, JobRecord
<1> QED
  BY <1>1 DEF JobShape, TypeOK

\* A step that moves one request and changes nothing else.
LEMMA MoveSession ==
  ASSUME Shape, NEW s \in Session, NEW x \in SessionRecord, GoodSession(x, st),
         sess' = [sess EXCEPT ![s] = x],
         UNCHANGED <<questionVars, rowVars, late, timerVars, mainVars, job, faults>>
  PROVE  Shape'
<1>1. st' = st /\ job' = job /\ RowsStay
  BY DEF rowVars, RowsStay
<1>2. sess' \in [Session -> SessionRecord] /\ SessionShape'
  BY <1>1, SessionsKept DEF Shape
<1>3. job' \in [Job -> JobRecord] /\ JobShape'
  BY <1>1, JobsStay DEF Shape
<1> QED
  BY <1>2, <1>3
  DEF Shape, TypeOK, RowShape, MappedPending, questionVars, history, rowVars, timerVars, mainVars

\* The numbers the cache may hold.
LEMMA NumbersType == 0 \in Numbers /\ \A n \in Numbers : n \in Nat /\ n <= Most
  BY BoundAssumption DEF Numbers, Choices

\* An idle request and an idle task refer to nothing.
LEMMA IdleIsGood ==
  /\ IdleSession \in SessionRecord
  /\ \A status : GoodSession(IdleSession, status)
  /\ IdleJob \in JobRecord
  /\ \A status : GoodJob(IdleJob, status)
  BY NumbersType DEF IdleSession, IdleJob, SessionRecord, JobRecord, GoodSession, GoodJob

\* The arrival of a poll or an answer (poll.go, answer.go: first statement).
LEMMA ShapeRequest ==
  ASSUME Shape, NEW s \in Session, NEW w \in Worker, RequestArrives(s, w)
  PROVE  Shape'
<1>1. ASSUME NEW pc \in {"clean", "arm", "expire", "write", "refused"},
             NEW a \in AId, st[a] # "none", Request(s, w, pc, a)
      PROVE  Shape'
  <2> DEFINE x == [IdleSession EXCEPT !.pc = pc, !.w = w, !.a = a, !.need = required]
  <2>1. x \in SessionRecord /\ GoodSession(x, st)
    BY <1>1 DEF IdleSession, SessionRecord, GoodSession, PollPC, AnswerPC, Shape, TypeOK
  <2> QED
    BY <1>1, <2>1, MoveSession DEF Request, Goto
<1>2. CASE PollFindsNone(s, w)
  <2> DEFINE x == [IdleSession EXCEPT !.pc = "pick", !.w = w, !.a = None, !.need = required]
  <2>1. x \in SessionRecord /\ GoodSession(x, st)
    BY DEF IdleSession, SessionRecord, GoodSession, PollPC, Shape, TypeOK
  <2> QED
    BY <1>2, <2>1, MoveSession DEF PollFindsNone, Request, Goto
<1>3. CASE PollFindsExpired(s, w)
  BY <1>1, <1>3 DEF PollFindsExpired, Claims
<1>4. CASE PollFindsClaim(s, w)
  BY <1>1, <1>4 DEF PollFindsClaim, Claims
<1>5. CASE AnswerRefused(s, w)
  BY <1>1, <1>5 DEF AnswerRefused, AnswerRow
<1>6. CASE AnswerLate(s, w)
  BY <1>1, <1>6 DEF AnswerLate, AnswerRow
<1>7. CASE AnswerInTime(s, w)
  BY <1>1, <1>7 DEF AnswerInTime, AnswerRow
<1> QED
  BY <1>2, <1>3, <1>4, <1>5, <1>6, <1>7 DEF RequestArrives

\* Marking an existing row (or none) timed out.
LEMMA TimedOutFacts ==
  ASSUME Shape, NEW a \in AId \cup {None}, a # None => st[a] # "none"
  PROVE  /\ TimedOut(a) \in [AId -> AStatus]
         /\ \A b \in AId : TimedOut(a)[b] = IF b = a THEN "timed-out" ELSE st[b]
         /\ \A b \in AId : TimedOut(a)[b] = "none" <=> st[b] = "none"
  BY DEF Shape, TypeOK, TimedOut, AStatus

\* A step that ends a request, times at most one row out, and no more.
LEMMA FinishCleaning ==
  ASSUME Shape, NEW s \in Session, Finish(s),
         NEW a \in AId \cup {None}, a # None => st[a] # "none",
         st' = TimedOut(a),
         UNCHANGED <<questionVars, nextId, aq, aw, reply, ares, late, timerVars,
                     mainVars, job, faults>>
  PROVE  Shape'
<1>1. st' \in [AId -> AStatus] /\ RowsStay /\ \A b \in AId : st'[b] # "none" => st[b] # "none"
  BY TimedOutFacts DEF RowsStay
<1>2. sess' \in [Session -> SessionRecord] /\ SessionShape'
  BY <1>1, SessionsKept, IdleIsGood DEF Shape, Finish, Goto
<1>3. job' \in [Job -> JobRecord] /\ JobShape'
  BY <1>1, JobsStay DEF Shape
<1>4. RowShape'
  BY <1>1 DEF Shape, RowShape
<1> QED
  BY <1>1, <1>2, <1>3, <1>4
  DEF Shape, TypeOK, MappedPending, questionVars, history, timerVars, mainVars

\* A request that ends without having changed anything.
LEMMA MoveToIdle ==
  ASSUME Shape, NEW s \in Session, Finish(s),
         UNCHANGED <<questionVars, rowVars, late, timerVars, mainVars, job, faults>>
  PROVE  Shape'
  BY MoveSession, IdleIsGood DEF Finish, Goto

\* COMMIT of a poll that creates an assignment, whatever the request does next.
LEMMA ShapeInsert ==
  ASSUME Shape, NEW s \in Session, InsertCommits(s),
         NEW x \in SessionRecord, GoodSession(x, st'),
         sess' = [sess EXCEPT ![s] = x],
         faults' \in 0 .. MaxFault
  PROVE  Shape'
<1> DEFINE old == sess[s].old
<1>0. /\ sess[s] \in SessionRecord
      /\ GoodSession(sess[s], st)
      /\ sess[s].pc = "insert"
  BY DEF Shape, TypeOK, SessionShape, InsertCommits
<1>1. /\ nextId \in AId
      /\ nextId' \in 1 .. MaxAssign + 1
  BY BoundAssumption DEF Shape, TypeOK, InsertCommits, AId
<1>2. /\ sess[s].q \in Question
      /\ sess[s].w \in Worker
      /\ old \in AId \cup {None}
      /\ old # None => st[old] # "none"
  BY <1>0 DEF GoodSession, SessionRecord
<1>3. /\ st' \in [AId -> AStatus]
      /\ RowsStay
      /\ \A b \in AId : b # nextId => (st'[b] # "none" => st[b] # "none")
  <2>1. st' = [TimedOut(old) EXCEPT ![nextId] = "claimed"]
    BY DEF InsertCommits
  <2>2. \A b \in AId : st'[b] = IF b = nextId THEN "claimed" ELSE TimedOut(old)[b]
    BY <1>1, <1>2, <2>1, TimedOutFacts
  <2> HIDE DEF old
  <2> QED
    BY <1>1, <1>2, <2>1, <2>2, TimedOutFacts DEF RowsStay, AStatus
<1>4. sess' \in [Session -> SessionRecord] /\ SessionShape'
  BY <1>3, SessionsKept DEF Shape
<1>5. job' \in [Job -> JobRecord] /\ JobShape'
  BY <1>3, JobsStay DEF Shape, InsertCommits
<1>6. /\ aq' \in [AId -> Question \cup {None}]
      /\ aw' \in [AId -> Worker \cup {None}]
      /\ RowShape'
  BY <1>1, <1>2, <1>3 DEF Shape, TypeOK, RowShape, InsertCommits
<1>7. peeked' \in SUBSET AId
  BY DEF InsertCommits, Peeking, Shape, TypeOK
<1> QED
  BY <1>1, <1>3, <1>4, <1>5, <1>6, <1>7
  DEF Shape, TypeOK, MappedPending, InsertCommits, questionVars, history, timerVars, mainVars

\* The statements of PollOnline, its faults included.
LEMMA ShapePoll ==
  ASSUME Shape, NEW s \in Session,
         \/ PollCleans(s) \/ PollSnapshot(s) \/ PollLocks(s) \/ PollSkipsAll(s)
         \/ PollCounts(s) \/ PollInserts(s) \/ PollRejected(s) \/ PollArms(s)
         \/ PollAborts(s) \/ PollAckLost(s)
  PROVE  Shape'
<1>0. /\ sess[s] \in SessionRecord
      /\ GoodSession(sess[s], st)
      /\ sess[s].old \in AId \cup {None}
      /\ sess[s].old # None => st[sess[s].old] # "none"
  BY DEF Shape, TypeOK, SessionShape, GoodSession, SessionRecord
<1>1. CASE PollCleans(s)
  <2> DEFINE x == [sess[s] EXCEPT !.pc = "pick", !.a = None,
                      !.old = IF st[sess[s].a] = "claimed" THEN sess[s].a ELSE None]
  <2>1. x \in SessionRecord /\ GoodSession(x, st)
    BY <1>0, <1>1 DEF PollCleans, SessionRecord, GoodSession, PollPC
  <2> QED
    BY <1>1, <2>1, MoveSession DEF PollCleans, Goto
<1>2. CASE PollSnapshot(s)
  <2>1. CASE Candidates(s) = {}
    BY <1>0, <1>2, <2>1, FinishCleaning DEF PollSnapshot, CommitCleanup
  <2>2. CASE Candidates(s) # {}
    <3> DEFINE x == [sess[s] EXCEPT !.pc = "lock", !.cand = Candidates(s)]
    <3>0. Candidates(s) \in SUBSET Question
      BY DEF Candidates
    <3>1. x \in SessionRecord /\ GoodSession(x, st)
      BY <1>0, <1>2, <3>0 DEF PollSnapshot, SessionRecord, GoodSession, PollPC
    <3> QED
      BY <1>2, <2>2, <3>1, MoveSession DEF PollSnapshot, Goto, rowVars
  <2> QED
    BY <2>1, <2>2
<1>3. CASE PollLocks(s)
  <2>1. PICK q \in sess[s].cand :
          Goto(s, [sess[s] EXCEPT !.pc = "count", !.q = q, !.cand = {}])
    BY <1>3 DEF PollLocks
  <2> DEFINE x == [sess[s] EXCEPT !.pc = "count", !.q = q, !.cand = {}]
  <2>2. x \in SessionRecord /\ GoodSession(x, st)
    BY <1>0, <1>3 DEF PollLocks, SessionRecord, GoodSession, PollPC
  <2> QED
    BY <1>3, <2>1, <2>2, MoveSession DEF PollLocks, Goto
<1>4. CASE PollSkipsAll(s)
  BY <1>0, <1>4, FinishCleaning DEF PollSkipsAll, CommitCleanup
<1>5. CASE PollCounts(s)
  <2>1. CASE Cardinality(Active(sess[s].q) \ {sess[s].old}) >= sess[s].need
    BY <1>0, <1>5, <2>1, FinishCleaning DEF PollCounts, CommitCleanup
  <2>2. CASE ~(Cardinality(Active(sess[s].q) \ {sess[s].old}) >= sess[s].need)
    <3> DEFINE x == [sess[s] EXCEPT !.pc = "insert"]
    <3>1. x \in SessionRecord /\ GoodSession(x, st)
      BY <1>0, <1>5 DEF PollCounts, SessionRecord, GoodSession, PollPC
    <3> QED
      BY <1>5, <2>2, <3>1, MoveSession DEF PollCounts, Goto, rowVars
  <2> QED
    BY <2>1, <2>2
<1>6. CASE PollInserts(s)
  <2> DEFINE x == [IdleSession EXCEPT !.pc = "arm", !.w = sess[s].w, !.a = nextId]
  <2>1. nextId \in AId
    BY <1>6 DEF PollInserts, InsertCommits, Shape, TypeOK, AId
  <2>2. st'[nextId] = "claimed"
    BY <1>0, <1>6, <2>1, TimedOutFacts DEF PollInserts, InsertCommits, TimedOut
  <2>3. x \in SessionRecord /\ GoodSession(x, st')
    BY <1>0, <2>1, <2>2, NumbersType DEF IdleSession, SessionRecord, GoodSession, PollPC
  <2>4. faults' \in 0 .. MaxFault
    BY <1>6 DEF PollInserts, Shape, TypeOK
  <2> QED
    BY <1>6, <2>3, <2>4, ShapeInsert DEF PollInserts, Goto
<1>7. CASE PollRejected(s)
  BY <1>7, MoveToIdle DEF PollRejected
<1>8. CASE PollArms(s)
  <2>1. sess[s].a \in AId
    BY <1>0, <1>8 DEF PollArms, GoodSession
  <2>2. st' = st /\ job' = job /\ RowsStay
    BY <1>8 DEF PollArms, rowVars, RowsStay
  <2>3. sess' \in [Session -> SessionRecord] /\ SessionShape'
    BY <1>8, <2>2, SessionsKept, IdleIsGood DEF PollArms, Shape, Finish, Goto
  <2>4. job' \in [Job -> JobRecord] /\ JobShape'
    BY <2>2, JobsStay DEF Shape
  <2>5. pending' \in [AId -> Nat] /\ mapped' \in SUBSET AId /\ MappedPending'
    BY <1>8, <2>1 DEF PollArms, Shape, TypeOK, MappedPending
  <2> QED
    BY <1>8, <2>3, <2>4, <2>5
    DEF PollArms, Shape, TypeOK, RowShape, questionVars, history, rowVars, mainVars
<1>9. CASE PollAborts(s)
  BY <1>9, MoveToIdle DEF PollAborts
<1>10. CASE PollAckLost(s)
  <2>1. faults' \in 0 .. MaxFault
    BY <1>10, BoundAssumption DEF PollAckLost, Shape, TypeOK
  <2> QED
    BY <1>10, <2>1, ShapeInsert, IdleIsGood DEF PollAckLost, Finish, Goto
<1> QED
  BY <1>1, <1>2, <1>3, <1>4, <1>5, <1>6, <1>7, <1>8, <1>9, <1>10

\* SetAssignmentReply takes effect, whatever the request does next.
LEMMA ShapeReply ==
  ASSUME Shape, NEW s \in Session, NEW r \in Reply, ReplyCommits(s, r),
         NEW x \in SessionRecord, GoodSession(x, st'),
         sess' = [sess EXCEPT ![s] = x],
         faults' \in 0 .. MaxFault
  PROVE  Shape'
<1>1. sess[s].a \in AId
  BY DEF Shape, SessionShape, GoodSession, ReplyCommits
<1>2. /\ st' \in [AId -> AStatus]
      /\ RowsStay
      /\ \A b \in AId : st'[b] # "none" => st[b] # "none"
      /\ reply' \in [AId -> Reply \cup {None}]
  BY <1>1 DEF ReplyCommits, Shape, TypeOK, RowsStay, AStatus
<1>3. sess' \in [Session -> SessionRecord] /\ SessionShape'
  BY <1>2, SessionsKept DEF Shape
<1>4. job' \in [Job -> JobRecord] /\ JobShape'
  BY <1>2, JobsStay DEF Shape, ReplyCommits
<1>5. RowShape'
  BY <1>2 DEF Shape, RowShape, ReplyCommits
<1> QED
  BY <1>2, <1>3, <1>4, <1>5
  DEF Shape, TypeOK, MappedPending, ReplyCommits, questionVars, history, timerVars, mainVars

\* The statements of SubmitAnswer and its callback.
LEMMA ShapeAnswer ==
  ASSUME Shape, NEW s \in Session,
         \/ AnswerExpires(s) \/ (\E r \in Reply : AnswerWrites(s, r))
         \/ AnswerEnds(s) \/ (\E j \in Job : AnswerCallback(s, j))
         \/ (\E r \in Reply : AnswerAckLost(s, r))
  PROVE  Shape'
<1>0. sess[s] \in SessionRecord /\ GoodSession(sess[s], st)
  BY DEF Shape, TypeOK, SessionShape
<1>1. CASE AnswerExpires(s)
  <2>1. sess[s].a \in AId /\ st[sess[s].a] # "none"
    BY <1>0, <1>1 DEF AnswerExpires, GoodSession
  <2>2. CASE st[sess[s].a] = "claimed"
    BY <1>1, <2>1, <2>2, FinishCleaning DEF AnswerExpires
  <2>3. CASE st[sess[s].a] # "claimed"
    BY <1>1, <2>3, MoveToIdle DEF AnswerExpires, rowVars
  <2> QED
    BY <2>2, <2>3
<1>2. ASSUME NEW r \in Reply, AnswerWrites(s, r)
      PROVE  Shape'
  <2> DEFINE x == [sess[s] EXCEPT !.pc = "callback"]
  <2>1. sess[s].a \in AId /\ st'[sess[s].a] = "replied" /\ sess[s].pc = "write"
    BY <1>0, <1>2 DEF AnswerWrites, ReplyCommits, GoodSession, Shape, TypeOK
  <2>2. x \in SessionRecord
    BY <1>0 DEF SessionRecord, AnswerPC
  <2>3. RowsStay
    BY <1>2, <2>1 DEF RowsStay, AnswerWrites, ReplyCommits, Shape, TypeOK
  <2>4. GoodSession(x, st')
    BY <1>0, <2>1, <2>3 DEF GoodSession, SessionRecord, RowsStay
  <2>5. faults' \in 0 .. MaxFault
    BY <1>2 DEF AnswerWrites, Shape, TypeOK
  <2> QED
    BY <1>2, <2>2, <2>4, <2>5, ShapeReply DEF AnswerWrites, Goto
<1>3. CASE AnswerEnds(s)
  BY <1>3, MoveToIdle DEF AnswerEnds
<1>4. ASSUME NEW j \in Job, AnswerCallback(s, j)
      PROVE  Shape'
  <2> DEFINE a == sess[s].a
             x == TryScoreTask(aq[a], "go")
  <2>1. a \in AId /\ aq[a] \in Question
    BY <1>0, <1>4 DEF AnswerCallback, GoodSession, Shape, RowShape
  <2>2. st' = st /\ RowsStay
    BY <1>4 DEF AnswerCallback, rowVars, RowsStay
  <2>3. x \in JobRecord /\ GoodJob(x, st')
    BY <2>1, NumbersType DEF TryScoreTask, IdleJob, JobRecord, GoodJob
  <2>4. job' \in [Job -> JobRecord] /\ JobShape'
    BY <1>4, <2>2, <2>3, JobsKept DEF AnswerCallback, Spawn, Shape
  <2>5. sess' \in [Session -> SessionRecord] /\ SessionShape'
    BY <1>4, <2>2, SessionsKept, IdleIsGood DEF AnswerCallback, Shape, Finish, Goto
  <2>6. pending' \in [AId -> Nat] /\ mapped' \in SUBSET AId /\ MappedPending'
    BY <1>4, <2>1 DEF AnswerCallback, Shape, TypeOK, MappedPending
  <2> QED
    BY <1>4, <2>4, <2>5, <2>6
    DEF AnswerCallback, Shape, TypeOK, RowShape, questionVars, history, rowVars, mainVars
<1>5. ASSUME NEW r \in Reply, AnswerAckLost(s, r)
      PROVE  Shape'
  <2>1. faults' \in 0 .. MaxFault
    BY <1>5, BoundAssumption DEF AnswerAckLost, Shape, TypeOK
  <2> QED
    BY <1>5, <2>1, ShapeReply, IdleIsGood DEF AnswerAckLost, Finish, Goto
<1> QED
  BY <1>1, <1>2, <1>3, <1>4, <1>5

\* A deadline that passes and a timer that fires: the count of pending timers
\* stays a natural number.
LEMMA ShapeTimer ==
  ASSUME Shape, NEW a \in AId,
         DeadlinePasses(a) \/ \E j \in Job : TimerFires(a, j)
  PROVE  Shape'
<1>1. CASE DeadlinePasses(a)
  <2>1. st' = st /\ sess' = sess /\ job' = job /\ RowsStay
    BY <1>1 DEF DeadlinePasses, rowVars, RowsStay
  <2>2. SessionShape' /\ JobShape'
    BY <2>1, SessionsStay, JobsStay DEF Shape
  <2> QED
    BY <1>1, <2>2
    DEF DeadlinePasses, Shape, TypeOK, RowShape, MappedPending,
        questionVars, history, rowVars, timerVars, mainVars
<1>2. ASSUME NEW j \in Job, TimerFires(a, j)
      PROVE  Shape'
  <2> DEFINE x == [IdleJob EXCEPT !.pc = "timeout", !.q = aq[a], !.a = a]
  <2>1. st' = st /\ sess' = sess /\ RowsStay
    BY <1>2 DEF TimerFires, rowVars, RowsStay
  <2>2. sess' \in [Session -> SessionRecord] /\ SessionShape'
    BY <2>1, SessionsStay DEF Shape
  <2>3. job' \in [Job -> JobRecord] /\ JobShape'
    <3>1. CASE st[a] = "claimed"
      <4>1. x \in JobRecord /\ GoodJob(x, st')
        BY <3>1, NumbersType DEF IdleJob, JobRecord, GoodJob, Shape, RowShape
      <4> QED
        BY <1>2, <2>1, <3>1, <4>1, JobsKept DEF TimerFires, Spawn, Shape
    <3>2. CASE st[a] # "claimed"
      BY <1>2, <2>1, <3>2, JobsStay DEF TimerFires, Shape
    <3> QED
      BY <3>1, <3>2
  <2>4. pending' \in [AId -> Nat] /\ mapped' \in SUBSET AId /\ MappedPending'
    BY <1>2 DEF TimerFires, Shape, TypeOK, MappedPending
  <2> QED
    BY <1>2, <2>2, <2>3, <2>4
    DEF TimerFires, Shape, TypeOK, RowShape, questionVars, history, rowVars, mainVars
<1> QED
  BY <1>1, <1>2

\* A step of a background task that writes nothing but its own state.
LEMMA MoveJob ==
  ASSUME Shape, NEW j \in Job, NEW x \in JobRecord, GoodJob(x, st),
         job' = [job EXCEPT ![j] = x],
         UNCHANGED <<questionVars, rowVars, late, timerVars, mainVars, sess>>,
         faults' \in 0 .. MaxFault
  PROVE  Shape'
<1>1. st' = st /\ sess' = sess /\ RowsStay
  BY DEF rowVars, RowsStay
<1>2. job' \in [Job -> JobRecord] /\ JobShape'
  BY <1>1, JobsKept DEF Shape
<1>3. sess' \in [Session -> SessionRecord] /\ SessionShape'
  BY <1>1, SessionsStay DEF Shape
<1> QED
  BY <1>2, <1>3
  DEF Shape, TypeOK, RowShape, MappedPending, questionVars, history, rowVars, timerVars, mainVars

\* The statements of handleTimeout, TryScore and ScoreQuestion.
LEMMA ShapeJob ==
  ASSUME Shape, NEW j \in Job, JobStep(j) \/ JobFails(j)
  PROVE  Shape'
<1>0. job[j] \in JobRecord /\ GoodJob(job[j], st)
  BY DEF Shape, TypeOK, JobShape
<1>1. CASE JobTimesOut(j)
  <2> DEFINE a == job[j].a
             x == TryScoreTask(job[j].q, "go")
  <2>1. a \in AId /\ job[j].q \in Question
    BY <1>0, <1>1 DEF JobTimesOut, GoodJob
  <2>2. /\ st' \in [AId -> AStatus]
        /\ RowsStay
        /\ \A b \in AId : st'[b] # "none" => st[b] # "none"
    BY <1>1, <2>1, TimedOutFacts DEF JobTimesOut, RowsStay, Shape, TypeOK
  <2>3. sess' \in [Session -> SessionRecord] /\ SessionShape'
    BY <1>1, <2>2, SessionsStay DEF JobTimesOut, Shape
  <2>4. x \in JobRecord /\ GoodJob(x, st')
    BY <2>1, NumbersType DEF TryScoreTask, IdleJob, JobRecord, GoodJob
  <2>5. job' = [job EXCEPT ![j] = x] \/ job' = [job EXCEPT ![j] = IdleJob]
    BY <1>1 DEF JobTimesOut, JobEnds
  <2>6. job' \in [Job -> JobRecord] /\ JobShape'
    BY <2>2, <2>4, <2>5, JobsKept, IdleIsGood DEF Shape
  <2>7. RowShape'
    BY <1>1, <2>2 DEF JobTimesOut, Shape, RowShape
  <2> QED
    BY <1>1, <2>2, <2>3, <2>6, <2>7
    DEF JobTimesOut, Shape, TypeOK, MappedPending, questionVars, history, timerVars, mainVars
<1>2. ASSUME NEW x \in JobRecord, GoodJob(x, st),
             job' = [job EXCEPT ![j] = x] \/ job' = [job EXCEPT ![j] = IdleJob],
             UNCHANGED <<questionVars, rowVars, late, timerVars, mainVars, sess, faults>>
      PROVE  Shape'
  <2>1. faults' \in 0 .. MaxFault
    BY <1>2 DEF Shape, TypeOK
  <2> QED
    BY <1>2, <2>1, MoveJob, IdleIsGood
<1>3. CASE JobTries(j)
  <2> DEFINE x == [job[j] EXCEPT !.pc = "weigh", !.seen = Replied(job[j].q)]
  <2>1. job' = [job EXCEPT ![j] = x]
    BY <1>3 DEF JobTries, Shape, TypeOK
  <2>2. x \in JobRecord /\ GoodJob(x, st)
    BY <1>0, <1>3 DEF JobTries, JobRecord, GoodJob, Replied, Rows
  <2> QED
    BY <1>2, <1>3, <2>1, <2>2 DEF JobTries
<1>4. CASE JobWeighs(j)
  <2> DEFINE x == [job[j] EXCEPT !.pc = "get", !.seen = {}, !.need = required]
  <2>1. job' = [job EXCEPT ![j] = x] \/ job' = [job EXCEPT ![j] = IdleJob]
    BY <1>4 DEF JobWeighs, JobEnds, Shape, TypeOK
  <2>2. x \in JobRecord /\ GoodJob(x, st)
    BY <1>0, <1>4 DEF JobWeighs, JobRecord, GoodJob, Shape, TypeOK
  <2> QED
    BY <1>2, <1>4, <2>1, <2>2 DEF JobWeighs
<1>9. CASE JobGets(j)
  <2> DEFINE x == [job[j] EXCEPT !.pc = "list"]
  <2>1. job' = [job EXCEPT ![j] = x] \/ job' = [job EXCEPT ![j] = IdleJob]
    BY <1>9 DEF JobGets, JobTo, JobEnds, Shape, TypeOK
  <2>2. x \in JobRecord /\ GoodJob(x, st)
    BY <1>0, <1>9 DEF JobGets, JobRecord, GoodJob
  <2> QED
    BY <1>2, <1>9, <2>1, <2>2 DEF JobGets
<1>5. CASE JobLists(j)
  <2> DEFINE x == [job[j] EXCEPT !.pc = "cas", !.seen = Replied(job[j].q)]
  <2>1. job' = [job EXCEPT ![j] = x] \/ job' = [job EXCEPT ![j] = IdleJob]
    BY <1>5 DEF JobLists
  <2>2. CASE job' = [job EXCEPT ![j] = IdleJob]
    BY <1>5, <2>2, MoveJob, IdleIsGood DEF JobLists, Shape, TypeOK
  <2>3. CASE job' = [job EXCEPT ![j] = x] /\ job[j].todo = {}
    <3>1. x \in JobRecord /\ GoodJob(x, st)
      BY <1>0, <1>5, <2>3 DEF JobLists, JobRecord, GoodJob, Replied, Rows
    <3>2. faults' \in 0 .. MaxFault
      BY <1>5 DEF JobLists, Shape, TypeOK
    <3> QED
      BY <1>5, <2>3, <3>1, <3>2, MoveJob DEF JobLists
  <2>4. job[j].todo = {}
    BY <1>0, <1>5 DEF JobLists, GoodJob
  <2> QED
    BY <2>1, <2>2, <2>3, <2>4
<1>6. CASE JobScoresQuestion(j)
  <2> DEFINE q == job[j].q
             x == [job[j] EXCEPT !.pc = "assign", !.todo = job[j].seen]
  <2>1. q \in Question /\ job[j].seen \in SUBSET AId
    BY <1>0, <1>6 DEF JobScoresQuestion, GoodJob, JobRecord
  <2>2. QuestionerScore(Seen(j)) \in Result
    <3>1. DOMAIN Seen(j) = job[j].seen
      BY DEF Seen
    <3>2. IsFiniteSet(job[j].seen)
      BY <2>1, AIdFinite, FS_Subset
    <3> QED
      BY <3>1, <3>2, ScoreTypes
  <2>3. /\ qstat' \in [Question -> QStatus]
        /\ qres' \in [Question -> Result]
        /\ basis' \in [Question -> SUBSET AId]
    <3>1. /\ qstat \in [Question -> QStatus] /\ qres \in [Question -> Result]
          /\ basis \in [Question -> SUBSET AId]
      BY DEF Shape, TypeOK
    <3> QED
      BY <1>6, <2>1, <2>2, <3>1 DEF JobScoresQuestion, QStatus
  <2>10. bar' \in [Question -> Numbers]
    <3>1. job[j].need \in Numbers
      BY <1>0 DEF JobRecord
    <3> QED
      BY <1>6, <2>1, <3>1 DEF JobScoresQuestion, Shape, TypeOK
  <2>4. st' = st /\ sess' = sess /\ RowsStay
    BY <1>6 DEF JobScoresQuestion, rowVars, RowsStay
  <2>5. sess' \in [Session -> SessionRecord] /\ SessionShape'
    BY <2>4, SessionsStay DEF Shape
  <2>6. x \in JobRecord /\ GoodJob(x, st')
    BY <1>0, <2>1, <2>4 DEF JobRecord, GoodJob
  <2>7. job' = [job EXCEPT ![j] = x] \/ job' = [job EXCEPT ![j] = IdleJob]
    BY <1>6 DEF JobScoresQuestion, JobEnds, Shape, TypeOK
  <2>8. job' \in [Job -> JobRecord] /\ JobShape'
    BY <2>4, <2>6, <2>7, JobsKept, IdleIsGood DEF Shape
  <2>9. peeked' \in SUBSET AId
    BY <1>6 DEF JobScoresQuestion, Peeking, Shape, TypeOK
  <2> QED
    BY <1>6, <2>3, <2>5, <2>8, <2>9, <2>10
    DEF JobScoresQuestion, Shape, TypeOK, RowShape, MappedPending,
        rowVars, timerVars, mainVars
<1>7. CASE JobScoresAssignment(j)
  <2>1. PICK a \in job[j].todo :
          /\ st' = [st EXCEPT ![a] = "scored"]
          /\ ares' = [ares EXCEPT ![a] = AnswererScore(Seen(j), a)]
          /\ job' = [job EXCEPT ![j] =
                        IF job[j].todo = {a} THEN IdleJob
                        ELSE [job[j] EXCEPT !.todo = job[j].todo \ {a}]]
    BY <1>7 DEF JobScoresAssignment
  <2> DEFINE x == [job[j] EXCEPT !.todo = job[j].todo \ {a}]
  <2>2. a \in job[j].seen /\ a \in AId /\ st[a] # "none"
    BY <1>0 DEF GoodJob, JobRecord
  <2>3. AnswererScore(Seen(j), a) \in Result
    <3>1. DOMAIN Seen(j) = job[j].seen
      BY DEF Seen
    <3>2. IsFiniteSet(job[j].seen)
      BY <1>0, AIdFinite, FS_Subset DEF JobRecord
    <3> QED
      BY <2>2, <3>1, <3>2, ScoreTypes
  <2>4. /\ st' \in [AId -> AStatus]
        /\ ares' \in [AId -> Result]
        /\ RowsStay
        /\ \A b \in AId : st'[b] # "none" => st[b] # "none"
    BY <2>1, <2>2, <2>3 DEF Shape, TypeOK, RowsStay, AStatus
  <2>5. sess' \in [Session -> SessionRecord] /\ SessionShape'
    BY <1>7, <2>4, SessionsStay DEF JobScoresAssignment, Shape
  <2>6. x \in JobRecord /\ GoodJob(x, st')
    BY <1>0, <1>7, <2>4 DEF JobScoresAssignment, JobRecord, GoodJob, RowsStay
  <2>7. job' = [job EXCEPT ![j] = x] \/ job' = [job EXCEPT ![j] = IdleJob]
    <3>1. CASE job[j].todo = {a}
      BY <2>1, <3>1
    <3>2. CASE job[j].todo # {a}
      BY <2>1, <3>2
    <3> QED
      BY <3>1, <3>2
  <2>8. job' \in [Job -> JobRecord] /\ JobShape'
    BY <2>4, <2>6, <2>7, JobsKept, IdleIsGood DEF Shape
  <2>9. RowShape'
    BY <1>7, <2>4 DEF JobScoresAssignment, Shape, RowShape
  <2> QED
    BY <1>7, <2>4, <2>5, <2>8, <2>9
    DEF JobScoresAssignment, Shape, TypeOK, MappedPending,
        questionVars, history, timerVars, mainVars
<1>8. CASE JobFails(j)
  <2>1. faults' \in 0 .. MaxFault
    BY <1>8, BoundAssumption DEF JobFails, Shape, TypeOK
  <2> QED
    BY <1>8, <2>1, MoveJob, IdleIsGood DEF JobFails, JobEnds
<1> QED
  BY <1>1, <1>3, <1>4, <1>5, <1>6, <1>7, <1>8, <1>9 DEF JobStep

\* A crash, and the steps of RecoverOnStartup.
LEMMA ShapeMain ==
  ASSUME Shape, Crash \/ MainStep
  PROVE  Shape'
<1>1. CASE Crash
  <2>1. /\ sess' \in [Session -> SessionRecord] /\ SessionShape'
        /\ job' \in [Job -> JobRecord] /\ JobShape'
    BY <1>1, IdleIsGood DEF Crash, SessionShape, JobShape
  <2>2. crashes' \in 0 .. MaxCrash
    BY <1>1, BoundAssumption DEF Crash, Shape, TypeOK
  <2> QED
    BY <1>1, <2>1, <2>2
    DEF Crash, Shape, TypeOK, RowShape, MappedPending, questionVars, history, rowVars
<1>2. ASSUME NEW n \in Numbers, Restart(n)
      PROVE  Shape'
  <2>1. st' = st /\ sess' = sess /\ job' = job /\ RowsStay
    BY <1>2 DEF Restart, rowVars, RowsStay
  <2>2. SessionShape' /\ JobShape'
    BY <2>1, SessionsStay, JobsStay DEF Shape
  <2>3. pending' \in [AId -> Nat] /\ mapped' \in SUBSET AId /\ MappedPending'
    BY <1>2 DEF Restart, Recoverable, MappedPending
  <2>4. required' \in Numbers /\ changes' \in 0 .. MaxChanges
    BY <1>2, BoundAssumption DEF Restart, LoadsNumber, Shape, TypeOK
  <2> QED
    BY <1>2, <2>2, <2>3, <2>4
    DEF Restart, Shape, TypeOK, RowShape, questionVars, history, rowVars
<1>3. CASE RecoverScan \/ Serve
  <2>1. st' = st /\ sess' = sess /\ job' = job /\ RowsStay
    BY <1>3 DEF RecoverScan, Serve, rowVars, RowsStay
  <2>2. SessionShape' /\ JobShape'
    BY <2>1, SessionsStay, JobsStay DEF Shape
  <2> QED
    BY <1>3, <2>2
    DEF RecoverScan, Serve, Shape, TypeOK, RowShape, MappedPending,
        questionVars, history, rowVars, timerVars
<1>4. ASSUME NEW j \in Job, RecoverScore(j)
      PROVE  Shape'
  <2>1. PICK q \in rec : rec' = rec \ {q} /\ Spawn(j, TryScoreTask(q, "main"))
    BY <1>4 DEF RecoverScore
  <2>2. st' = st /\ sess' = sess /\ RowsStay
    BY <1>4 DEF RecoverScore, rowVars, RowsStay
  <2>3. sess' \in [Session -> SessionRecord] /\ SessionShape'
    BY <2>2, SessionsStay DEF Shape
  <2>4. q \in Question
    BY DEF Shape, TypeOK
  <2>5. TryScoreTask(q, "main") \in JobRecord /\ GoodJob(TryScoreTask(q, "main"), st')
    BY <2>4, NumbersType DEF TryScoreTask, IdleJob, JobRecord, GoodJob
  <2>6. job' \in [Job -> JobRecord] /\ JobShape'
    BY <2>1, <2>2, <2>5, JobsKept DEF Spawn, Shape
  <2> QED
    BY <1>4, <2>1, <2>3, <2>6
    DEF RecoverScore, Shape, TypeOK, RowShape, MappedPending,
        questionVars, history, rowVars, timerVars
<1> QED
  BY <1>1, <1>2, <1>3, <1>4 DEF MainStep

\* SubmitQuestion's INSERT.
LEMMA ShapeSubmit ==
  ASSUME Shape, NEW q \in Question, NEW w \in Worker, SubmitQuestion(q, w)
  PROVE  Shape'
<1>1. st' = st /\ sess' = sess /\ job' = job /\ RowsStay
  BY DEF SubmitQuestion, rowVars, RowsStay
<1>2. SessionShape' /\ JobShape'
  BY <1>1, SessionsStay, JobsStay DEF Shape
<1> QED
  BY <1>2
  DEF SubmitQuestion, Shape, TypeOK, RowShape, MappedPending, QStatus,
      history, rowVars, timerVars, mainVars

\* A change of question.required_answers.
LEMMA ShapeChange ==
  ASSUME Shape, NEW n \in Choices, ChangeRequired(n)
  PROVE  Shape'
<1>1. st' = st /\ sess' = sess /\ job' = job /\ RowsStay
  BY DEF ChangeRequired, rowVars, RowsStay
<1>2. SessionShape' /\ JobShape'
  BY <1>1, SessionsStay, JobsStay DEF Shape
<1>3. required' \in Numbers /\ changes' \in 0 .. MaxChanges
  BY BoundAssumption DEF ChangeRequired, Shape, TypeOK, Numbers
<1> QED
  BY <1>2, <1>3
  DEF ChangeRequired, Shape, TypeOK, RowShape, MappedPending,
      questionVars, history, rowVars, timerVars

\* A step that changes nothing.
LEMMA ShapeStutter ==
  ASSUME Shape, UNCHANGED vars
  PROVE  Shape'
<1>1. st' = st /\ sess' = sess /\ job' = job /\ RowsStay
  BY DEF vars, rowVars, RowsStay
<1>2. SessionShape' /\ JobShape'
  BY <1>1, SessionsStay, JobsStay DEF Shape
<1> QED
  BY <1>2
  DEF vars, Shape, TypeOK, RowShape, MappedPending,
      questionVars, history, rowVars, timerVars, mainVars

\* Every step keeps the program well-formed.
LEMMA ShapeNext == Shape /\ [Next]_vars => Shape'
<1> SUFFICES ASSUME Shape, [Next]_vars PROVE Shape'
  OBVIOUS
<1>1. ASSUME NEW s \in Session, SessionStep(s) \/ Fault(s) PROVE Shape'
  BY <1>1, ShapePoll, ShapeAnswer DEF SessionStep, Fault
<1> QED
  BY <1>1, QuestionerAssumption, ShapeSubmit, ShapeChange, ShapeRequest, ShapeTimer,
     ShapeJob, ShapeMain, ShapeStutter
  DEF Next

\* Every column, timer and goroutine of the server keeps its type, in every
\* interleaving of requests, time-outs, scorers, faults and crashes; in
\* particular CancelTimer never stops a timer that is not running.
THEOREM TypeCorrect == Spec => []TypeOK
<1>1. Spec => []Shape
  BY InitShape, ShapeNext, PTL DEF Spec
<1>2. Shape => TypeOK
  BY DEF Shape
<1> QED
  BY <1>1, <1>2, PTL
----------------------------------------------------------------------------
(* No question is assigned more often than required. *)

\* Active(q), for given columns status and question_id.
ActiveOf(q, status, of) ==
  {a \in AId : status[a] \in {"claimed", "replied"} /\ of[a] = q}

WithinRequired ==
  \A q \in Question : Cardinality(ActiveOf(q, st, aq)) <= Most

Locking(x) == x.pc \in {"count", "insert"}

\* Two polls never hold the row lock of the same question.
LockExclusive ==
  \A s, t \in Session :
    (s # t /\ Locking(sess[s]) /\ Locking(sess[t])) => sess[s].q # sess[t].q

\* What the count under the lock established still holds when the row is
\* inserted.
RoomLeft ==
  \A s \in Session : sess[s].pc = "insert" =>
    Cardinality(ActiveOf(sess[s].q, st, aq) \ {sess[s].old}) < sess[s].need

Room == WithinRequired /\ LockExclusive /\ RoomLeft

\* No question gains a claimed or replied assignment ...
Shrinks == \A q \in Question : ActiveOf(q, st', aq') \subseteq ActiveOf(q, st, aq)

\* ... and no poll gets on in its transaction while it holds a lock.
LocksKept ==
  \A s \in Session : Locking(sess'[s]) =>
    /\ sess'[s].pc = sess[s].pc
    /\ sess'[s].q = sess[s].q
    /\ sess'[s].old = sess[s].old
    /\ sess'[s].need = sess[s].need

\* Claimed and replied rows are rows.
LEMMA ActiveType == \A q, status, of : ActiveOf(q, status, of) \subseteq AId
  BY DEF ActiveOf

\* CountActiveAssignments counts the rows as they are.
LEMMA ActiveIsActiveOf == \A q : Active(q) = ActiveOf(q, st, aq)
  BY DEF Active, Rows, ActiveOf

\* The number of answers a request goes by is one of the configured ones.
LEMMA NeedType ==
  ASSUME Shape
  PROVE  \A s \in Session : sess[s].need \in Nat /\ sess[s].need <= Most
  BY NumbersType DEF Shape, TypeOK, SessionRecord

\* A step that adds no claimed or replied row and takes no lock keeps Room.
LEMMA RoomQuiet ==
  ASSUME Shape, Room, Shrinks, LocksKept
  PROVE  Room'
<1>1. WithinRequired'
  <2> SUFFICES ASSUME NEW q \in Question PROVE Cardinality(ActiveOf(q, st', aq')) <= Most
    BY DEF WithinRequired
  <2>1. ActiveOf(q, st', aq') \subseteq ActiveOf(q, st, aq) /\ Cardinality(ActiveOf(q, st, aq)) <= Most
    BY DEF Shrinks, Room, WithinRequired
  <2> QED
    BY <2>1, ActiveType, SubsetCount, BoundAssumption
<1>2. LockExclusive'
  BY DEF Room, LockExclusive, LocksKept, Locking
<1>3. RoomLeft'
  <2> SUFFICES ASSUME NEW s \in Session, sess'[s].pc = "insert"
               PROVE  Cardinality(ActiveOf(sess'[s].q, st', aq') \ {sess'[s].old}) < sess'[s].need
    BY DEF RoomLeft
  <2>1. sess[s].pc = "insert" /\ sess'[s].q = sess[s].q /\ sess'[s].old = sess[s].old
        /\ sess'[s].need = sess[s].need
    BY DEF LocksKept, Locking
  <2>2. sess[s].q \in Question
    BY <2>1 DEF Shape, SessionShape, GoodSession
  <2> DEFINE S == ActiveOf(sess[s].q, st', aq') \ {sess[s].old}
             T == ActiveOf(sess[s].q, st, aq) \ {sess[s].old}
  <2>3. S \subseteq T /\ T \subseteq AId
    BY <2>2, ActiveType DEF Shrinks
  <2>4. Cardinality(T) < sess[s].need
    BY <2>1 DEF Room, RoomLeft
  <2>5. Cardinality(S) < sess[s].need
    <3> HIDE DEF S, T
    <3> QED
      BY <2>3, <2>4, SubsetCount, NeedType
  <2>6. ActiveOf(sess'[s].q, st', aq') = ActiveOf(sess[s].q, st', aq')
    BY <2>1 DEF ActiveOf
  <2> QED
    BY <2>1, <2>5, <2>6
<1> QED
  BY <1>1, <1>2, <1>3 DEF Room

\* A step that leaves statuses and questions of the rows alone.
LEMMA SameRowsShrink ==
  ASSUME st' = st, aq' = aq
  PROVE  Shrinks
  BY DEF Shrinks, ActiveOf

\* A step that only takes claims or replies out of the active statuses, or
\* turns a claim into a reply.
LEMMA LessActiveShrink ==
  ASSUME aq' = aq,
         \A a \in AId : st'[a] \in {"claimed", "replied"}
                          => st[a] \in {"claimed", "replied"}
  PROVE  Shrinks
  BY DEF Shrinks, ActiveOf

\* A step that moves one session out of, or outside, the locked region.
LEMMA OneSessionMoves ==
  ASSUME Shape, NEW s \in Session, NEW x, ~Locking(x),
         sess' = [sess EXCEPT ![s] = x]
  PROVE  LocksKept
  BY DEF Shape, TypeOK, LocksKept

\* A request that has ended holds no lock.
LEMMA IdleNotLocking == ~Locking(IdleSession)
  BY DEF Locking, IdleSession

\* A request that arrives neither locks nor inserts.
LEMMA RoomRequest ==
  ASSUME Shape, Room, NEW s \in Session, NEW w \in Worker, RequestArrives(s, w)
  PROVE  Room'
<1>1. PICK pc \in {"pick", "clean", "arm", "expire", "write", "refused"},
           a \in AId \cup {None} : Request(s, w, pc, a)
  BY DEF RequestArrives, PollFindsNone, PollFindsExpired, PollFindsClaim,
         AnswerRefused, AnswerLate, AnswerInTime, AnswerRow, Claims
<1> DEFINE x == [IdleSession EXCEPT !.pc = pc, !.w = w, !.a = a, !.need = required]
<1>2. ~Locking(x)
  BY DEF Locking, IdleSession
<1>3. LocksKept
  BY <1>1, <1>2, OneSessionMoves DEF Request, Goto
<1>4. Shrinks
  BY <1>1, SameRowsShrink DEF Request, rowVars
<1> QED
  BY <1>3, <1>4, RoomQuiet

\* The INSERT: the row lock has kept every other poll away from the question
\* since the count.
LEMMA RoomInsert ==
  ASSUME Shape, Room, NEW s \in Session, InsertCommits(s),
         NEW x, ~Locking(x), sess' = [sess EXCEPT ![s] = x]
  PROVE  Room'
<1> DEFINE q == sess[s].q
           old == sess[s].old
<1>1. /\ q \in Question /\ sess[s].pc = "insert"
      /\ nextId \in AId
      /\ sess[s] \in SessionRecord
  BY DEF Shape, TypeOK, SessionShape, GoodSession, InsertCommits, AId
<1>2. \A b \in AId : /\ b # nextId => aq'[b] = aq[b]
                     /\ b = nextId => aq'[b] = q
  BY <1>1 DEF InsertCommits, Shape, TypeOK
<1>3. \A b \in AId : b # nextId =>
        (st'[b] \in {"claimed", "replied"} =>
           b # old /\ st[b] \in {"claimed", "replied"})
  BY <1>1 DEF InsertCommits, TimedOut, Shape, TypeOK
<1>4. ASSUME NEW p \in Question, p # q
      PROVE  ActiveOf(p, st', aq') \subseteq ActiveOf(p, st, aq)
  BY <1>1, <1>2, <1>3, <1>4 DEF ActiveOf
<1>5. ActiveOf(q, st', aq') \subseteq (ActiveOf(q, st, aq) \ {old}) \cup {nextId}
  BY <1>1, <1>2, <1>3 DEF ActiveOf
<1>6. Cardinality(ActiveOf(q, st', aq')) <= Most
  <2> DEFINE T == ActiveOf(q, st, aq) \ {old}
  <2>1. T \subseteq AId /\ IsFiniteSet(T) /\ Cardinality(T) \in Nat
    BY ActiveType, AIdFinite, FS_Subset, FS_CardinalityType
  <2>2. Cardinality(T) < sess[s].need /\ sess[s].need \in Nat /\ sess[s].need <= Most
    BY <1>1, NeedType DEF Room, RoomLeft
  <2>3. Cardinality(T \cup {nextId}) <= Cardinality(T) + 1
    <3> HIDE DEF T
    <3> QED
      BY <2>1, AddOne
  <2>4. T \cup {nextId} \subseteq AId
    BY <1>1, <2>1
  <2>5. Cardinality(ActiveOf(q, st', aq')) <= Cardinality(T \cup {nextId})
    BY <1>5, <2>4, SubsetCount
  <2>6. Cardinality(ActiveOf(q, st', aq')) \in Nat /\ Cardinality(T \cup {nextId}) \in Nat
    BY <1>5, <2>4, SubsetCount
  <2> HIDE DEF T
  <2> QED
    BY <2>1, <2>2, <2>3, <2>5, <2>6, BoundAssumption
<1>7. WithinRequired'
  <2> SUFFICES ASSUME NEW p \in Question PROVE Cardinality(ActiveOf(p, st', aq')) <= Most
    BY DEF WithinRequired
  <2>1. CASE p = q
    BY <1>6, <2>1
  <2>2. CASE p # q
    <3>1. ActiveOf(p, st', aq') \subseteq ActiveOf(p, st, aq) /\ Cardinality(ActiveOf(p, st, aq)) <= Most
      BY <1>4, <2>2 DEF Room, WithinRequired
    <3> QED
      BY <3>1, ActiveType, SubsetCount, BoundAssumption
  <2> QED
    BY <2>1, <2>2
<1>8. LocksKept
  BY OneSessionMoves
<1>9. LockExclusive'
  BY <1>8 DEF Room, LockExclusive, LocksKept, Locking
<1>10. RoomLeft'
  <2> SUFFICES ASSUME NEW t \in Session, sess'[t].pc = "insert"
               PROVE  Cardinality(ActiveOf(sess'[t].q, st', aq') \ {sess'[t].old}) < sess'[t].need
    BY DEF RoomLeft
  <2>1. /\ t # s
        /\ sess[t].pc = "insert" /\ sess'[t].q = sess[t].q /\ sess'[t].old = sess[t].old
        /\ sess'[t].need = sess[t].need
    BY <1>8 DEF LocksKept, Locking, Shape, TypeOK
  <2>2. sess[t].q \in Question /\ sess[t].q # q
    BY <1>1, <2>1 DEF Shape, SessionShape, GoodSession, Room, LockExclusive, Locking
  <2> DEFINE S == ActiveOf(sess[t].q, st', aq') \ {sess[t].old}
             T == ActiveOf(sess[t].q, st, aq) \ {sess[t].old}
  <2>3. S \subseteq T /\ T \subseteq AId
    BY <1>4, <2>2, ActiveType
  <2>4. Cardinality(T) < sess[t].need
    BY <2>1 DEF Room, RoomLeft
  <2>5. Cardinality(S) < sess[t].need
    <3> HIDE DEF S, T
    <3> QED
      BY <2>3, <2>4, SubsetCount, NeedType
  <2>6. ActiveOf(sess'[t].q, st', aq') = ActiveOf(sess[t].q, st', aq')
    BY <2>1 DEF ActiveOf
  <2> QED
    BY <2>1, <2>5, <2>6
<1> QED
  BY <1>7, <1>9, <1>10 DEF Room

\* PollOnline: the count under the lock leaves room for the row it inserts.
LEMMA RoomPoll ==
  ASSUME Shape, Room, NEW s \in Session,
         \/ PollCleans(s) \/ PollSnapshot(s) \/ PollLocks(s) \/ PollSkipsAll(s)
         \/ PollCounts(s) \/ PollInserts(s) \/ PollRejected(s) \/ PollArms(s)
         \/ PollAborts(s) \/ PollAckLost(s)
  PROVE  Room'
<1>1. ASSUME NEW x, ~Locking(x), Goto(s, x), aq' = aq,
             st' = st \/ CommitCleanup(s)
      PROVE  Room'
  <2>1. LocksKept
    BY <1>1, OneSessionMoves DEF Goto
  <2>2. \A a \in AId : st'[a] \in {"claimed", "replied"}
                         => st[a] \in {"claimed", "replied"}
    BY <1>1 DEF CommitCleanup, TimedOut
  <2>3. Shrinks
    BY <1>1, <2>2, LessActiveShrink
  <2> QED
    BY <2>1, <2>3, RoomQuiet
<1>2. CASE PollCleans(s)
  <2> DEFINE x == [sess[s] EXCEPT !.pc = "pick", !.a = None,
                      !.old = IF st[sess[s].a] = "claimed" THEN sess[s].a ELSE None]
  <2>1. ~Locking(x)
    BY DEF Locking, Shape, TypeOK, SessionRecord
  <2> QED
    BY <1>1, <1>2, <2>1 DEF PollCleans, rowVars
<1>3. CASE PollSnapshot(s)
  <2> DEFINE x == [sess[s] EXCEPT !.pc = "lock", !.cand = Candidates(s)]
  <2>1. ~Locking(x)
    BY DEF Locking, Shape, TypeOK, SessionRecord
  <2>2. CASE Candidates(s) = {}
    BY <1>1, <1>3, <2>2, IdleNotLocking DEF PollSnapshot, Finish
  <2>3. CASE Candidates(s) # {}
    BY <1>1, <1>3, <2>1, <2>3 DEF PollSnapshot
  <2> QED
    BY <2>2, <2>3
<1>4. CASE PollLocks(s)
  <2>1. PICK q \in sess[s].cand :
          /\ ~QuestionLocked(q)
          /\ sess' = [sess EXCEPT ![s] =
                        [sess[s] EXCEPT !.pc = "count", !.q = q, !.cand = {}]]
    BY <1>4 DEF PollLocks, Goto
  <2>2. /\ sess'[s].pc = "count" /\ sess'[s].q = q
        /\ \A t \in Session : t # s => sess'[t] = sess[t]
    BY <2>1 DEF Shape, TypeOK, SessionRecord
  <2>3. LockExclusive'
    BY <2>1, <2>2 DEF LockExclusive, Room, QuestionLocked, Locking
  <2>4. st' = st /\ aq' = aq
    BY <1>4 DEF PollLocks, rowVars
  <2>5. WithinRequired'
    BY <2>4 DEF Room, WithinRequired
  <2>6. RoomLeft'
    BY <2>2, <2>4 DEF Room, RoomLeft
  <2> QED
    BY <2>3, <2>5, <2>6 DEF Room
<1>5. CASE PollSkipsAll(s)
  BY <1>1, <1>5, IdleNotLocking DEF PollSkipsAll, Finish
<1>6. CASE PollCounts(s)
  <2>1. CASE Cardinality(Active(sess[s].q) \ {sess[s].old}) >= sess[s].need
    BY <1>1, <1>6, <2>1, IdleNotLocking DEF PollCounts, Finish
  <2>2. CASE ~(Cardinality(Active(sess[s].q) \ {sess[s].old}) >= sess[s].need)
    <3>1. /\ sess[s].pc = "count"
          /\ sess' = [sess EXCEPT ![s] = [sess[s] EXCEPT !.pc = "insert"]]
          /\ st' = st /\ aq' = aq
      BY <1>6, <2>2 DEF PollCounts, Goto
    <3>2. /\ sess'[s].pc = "insert"
          /\ sess'[s].q = sess[s].q
          /\ sess'[s].old = sess[s].old
          /\ sess'[s].need = sess[s].need
          /\ \A t \in Session : t # s => sess'[t] = sess[t]
      BY <3>1 DEF Shape, TypeOK, SessionRecord
    <3>3. LockExclusive'
      BY <3>1, <3>2 DEF LockExclusive, Room, Locking
    <3>4. WithinRequired'
      BY <3>1 DEF Room, WithinRequired
    <3>5. Cardinality(ActiveOf(sess[s].q, st, aq) \ {sess[s].old}) < sess[s].need
      <4> DEFINE T == ActiveOf(sess[s].q, st, aq) \ {sess[s].old}
      <4>1. Cardinality(T) \in Nat
        BY ActiveType, SubsetCount
      <4>2. ~(Cardinality(T) >= sess[s].need)
        BY <2>2, ActiveIsActiveOf
      <4> HIDE DEF T
      <4>3. Cardinality(T) < sess[s].need
        BY <4>1, <4>2, NeedType
      <4> QED
        BY <4>3 DEF T
    <3>6. RoomLeft'
      BY <3>1, <3>2, <3>5 DEF Room, RoomLeft
    <3> QED
      BY <3>3, <3>4, <3>6 DEF Room
  <2> QED
    BY <2>1, <2>2
<1>7. CASE PollInserts(s)
  <2> DEFINE x == [IdleSession EXCEPT !.pc = "arm", !.w = sess[s].w, !.a = nextId]
  <2>1. ~Locking(x)
    BY DEF Locking, IdleSession
  <2> QED
    BY <1>7, <2>1, RoomInsert DEF PollInserts, Goto
<1>8. CASE PollRejected(s) \/ PollArms(s) \/ PollAborts(s)
  BY <1>1, <1>8, IdleNotLocking DEF PollRejected, PollArms, PollAborts, Finish, rowVars
<1>9. CASE PollAckLost(s)
  BY <1>9, RoomInsert, IdleNotLocking DEF PollAckLost, Finish, Goto
<1> QED
  BY <1>2, <1>3, <1>4, <1>5, <1>6, <1>7, <1>8, <1>9

\* SubmitAnswer turns a claimed row into a replied one, which counts the same.
LEMMA RoomAnswer ==
  ASSUME Shape, Room, NEW s \in Session,
         \/ AnswerExpires(s) \/ (\E r \in Reply : AnswerWrites(s, r))
         \/ AnswerEnds(s) \/ (\E j \in Job : AnswerCallback(s, j))
         \/ (\E r \in Reply : AnswerAckLost(s, r))
  PROVE  Room'
<1>1. PICK x : ~Locking(x) /\ sess' = [sess EXCEPT ![s] = x]
  <2>1. ~Locking([sess[s] EXCEPT !.pc = "callback"])
    BY DEF Locking, Shape, TypeOK, SessionRecord
  <2> QED
    BY <2>1, IdleNotLocking
    DEF AnswerExpires, AnswerWrites, AnswerEnds, AnswerCallback, AnswerAckLost, Finish, Goto
<1>2. LocksKept
  BY <1>1, OneSessionMoves
<1>3. aq' = aq
  BY DEF AnswerExpires, AnswerWrites, AnswerEnds, AnswerCallback, AnswerAckLost,
         ReplyCommits, rowVars
<1>4. \A a \in AId : st'[a] \in {"claimed", "replied"}
                       => st[a] \in {"claimed", "replied"}
  BY DEF AnswerExpires, AnswerWrites, AnswerEnds, AnswerCallback, AnswerAckLost,
         ReplyCommits, rowVars, TimedOut, Shape, TypeOK
<1> QED
  BY <1>2, <1>3, <1>4, LessActiveShrink, RoomQuiet

\* Time-outs and scorers only take rows out of the count.
LEMMA RoomJob ==
  ASSUME Shape, Room, NEW j \in Job, JobStep(j) \/ JobFails(j)
  PROVE  Room'
<1> USE DEF JobTimesOut, JobTries, JobWeighs, JobGets, JobLists,
            JobScoresQuestion, JobScoresAssignment, JobFails, JobStep, rowVars
<1>1. LocksKept
  BY DEF LocksKept
<1>2. aq' = aq
  OBVIOUS
<1>3. \A a \in AId : st'[a] \in {"claimed", "replied"}
                       => st[a] \in {"claimed", "replied"}
  BY DEF TimedOut, Shape, TypeOK
<1> QED
  BY <1>1, <1>2, <1>3, LessActiveShrink, RoomQuiet

\* Submissions, configuration changes, deadlines, timers, crashes and
\* recovery leave the rows alone.
LEMMA RoomOther ==
  ASSUME Shape, Room,
         \/ \E q \in Question, w \in Questioner : SubmitQuestion(q, w)
         \/ \E n \in Choices : ChangeRequired(n)
         \/ \E a \in AId : DeadlinePasses(a)
         \/ \E a \in AId, j \in Job : TimerFires(a, j)
         \/ Crash \/ MainStep
         \/ UNCHANGED vars
  PROVE  Room'
<1>1. /\ st' = st /\ aq' = aq
      /\ sess' = sess \/ sess' = [s \in Session |-> IdleSession]
  BY DEF SubmitQuestion, ChangeRequired, DeadlinePasses, TimerFires, Crash, MainStep, Restart,
         RecoverScan, RecoverScore, Serve, vars, rowVars
<1>2. LocksKept
  <2>1. CASE sess' = sess
    BY <2>1 DEF LocksKept
  <2>2. CASE sess' = [s \in Session |-> IdleSession]
    BY <2>2, IdleNotLocking DEF LocksKept
  <2> QED
    BY <1>1, <2>1, <2>2
<1> QED
  BY <1>1, <1>2, SameRowsShrink, RoomQuiet

\* Every step keeps Room.
LEMMA RoomNext == Shape /\ Room /\ [Next]_vars => Room'
<1> SUFFICES ASSUME Shape, Room, [Next]_vars PROVE Room'
  OBVIOUS
<1>1. ASSUME NEW s \in Session, SessionStep(s) \/ Fault(s) PROVE Room'
  BY <1>1, RoomPoll, RoomAnswer DEF SessionStep, Fault
<1> QED
  BY <1>1, RoomRequest, RoomJob, RoomOther DEF Next

\* An empty table has room.
LEMMA InitRoom == Init => Room
<1> SUFFICES ASSUME Init PROVE Room
  OBVIOUS
<1>1. \A q : ActiveOf(q, st, aq) = {}
  BY DEF Init, ActiveOf
<1>2. WithinRequired
  BY <1>1, FS_EmptySet, BoundAssumption DEF WithinRequired
<1> QED
  BY <1>2 DEF Init, Room, LockExclusive, RoomLeft, Locking, IdleSession

\* Whatever polls, answers, time-outs, scorers, faults and crashes do, and
\* however they interleave, no question ever has more claimed and replied
\* assignments than the greatest number it may require.  The lock that PickQuestionForWorker takes and
\* the count under it are what the proof rests on: the count of the CTE is not
\* used.
THEOREM NeverOverAssigned == Spec => []NoOverAssignment
<1>1. Spec => [](Shape /\ Room)
  BY InitShape, InitRoom, ShapeNext, RoomNext, PTL DEF Spec
<1>2. Room => NoOverAssignment
  BY ActiveIsActiveOf DEF Room, WithinRequired, NoOverAssignment
<1> QED
  BY <1>1, <1>2, PTL
----------------------------------------------------------------------------
(***************************************************************************)
(* AssignmentFlow implements QuestionLife, and what follows from it: the   *)
(* statuses move forward, scores match the replies they were given on, and *)
(* knowing the answer never pays.                                          *)
(*                                                                         *)
(* The abstract steps are about the tables alone.  That each statement of  *)
(* the flow is one of them rests on what the requests and the background   *)
(* tasks know about the tables between two statements: Process, which is   *)
(* proved to be kept together with Tables.                                 *)
(***************************************************************************)
(* The tables. *)

\* A row belongs to a question that was submitted, by another worker.
RowsOfOthers ==
  \A a \in AId : st[a] # "none" =>
    qstat[aq[a]] # "absent" /\ qauthor[aq[a]] # aw[a]

\* A row has a reply from the moment it is answered.
RepliesStored ==
  \A a \in AId :
    /\ st[a] \in {"none", "claimed"} => reply[a] = None
    /\ st[a] \in {"replied", "scored"} => reply[a] # None

\* The replies question q was scored on.
BasisReplies(q) == [a \in basis[q] |-> reply[a]]

\* A question that is scored has the score its basis gives, and the basis are
\* replies to it, at least one and no more than may be required.
QuestionsJudged ==
  \A q \in Question : qstat[q] = "scored" =>
    /\ Cardinality(basis[q]) \in 1 .. Most
    /\ \A a \in basis[q] : st[a] \in {"replied", "scored"} /\ aq[a] = q
    /\ qres[q] = QuestionerScore(BasisReplies(q))

\* Only a scored question has a basis.
BasisOfScored ==
  \A q \in Question : qstat[q] # "scored" => basis[q] = {}

\* A row that is scored is in the basis of its question, and has the score the
\* basis gives it.
RowsJudged ==
  \A a \in AId : st[a] = "scored" =>
    /\ qstat[aq[a]] = "scored"
    /\ a \in basis[aq[a]]
    /\ ares[a] = AnswererScore(BasisReplies(aq[a]), a)

Tables ==
  RowsOfOthers /\ RepliesStored /\ QuestionsJudged /\ BasisOfScored /\ RowsJudged
----------------------------------------------------------------------------
(* The process. *)

\* The identity column hands out the ids in order.
FreshIds == \A a \in AId : st[a] = "none" <=> a >= nextId

\* What request x relies on: the claim it cleans up is its worker's and, being
\* locked, still claimed; its questions are somebody else's; the row whose
\* answer it reports is answered.
PollHolds(x, qs, qa, status, w) ==
  /\ x.old # None => status[x.old] = "claimed" /\ w[x.old] = x.w
  /\ \A q \in x.cand : qs[q] # "absent" /\ qa[q] # x.w
  /\ x.pc \in {"count", "insert"} => qs[x.q] # "absent" /\ qa[x.q] # x.w
  /\ x.pc = "clean" => w[x.a] = x.w
  /\ x.pc = "callback" => status[x.a] \in {"replied", "scored"}

PollsHold == \A s \in Session : PollHolds(sess[s], qstat, qauthor, st, aw)

\* No two polls hold the lock of the same row.
OldExclusive ==
  \A s, t \in Session :
    (s # t /\ sess[s].old # None) => sess[s].old # sess[t].old

\* Replied(q), for given columns status and question_id.
RepliedOf(q, status, of) == {a \in AId : status[a] = "replied" /\ of[a] = q}

\* What background task x relies on: the rows it has listed are replies to its
\* question, and enough of them for the number it has compared them with, as
\* long as nobody else has scored it, and never none; the one
\* that has scored it works on the basis, and what it still has to score has
\* not been scored.
ScorerHolds(x, qs, bas, status, of) ==
  /\ x.pc # "idle" => qs[x.q] # "absent"
  /\ \A a \in x.seen : of[a] = x.q /\ status[a] \in {"replied", "scored"}
  /\ x.pc \in {"get", "list"} /\ qs[x.q] = "submitted" =>
       Cardinality(RepliedOf(x.q, status, of)) >= x.need
  /\ x.pc = "cas" /\ qs[x.q] = "submitted" => Cardinality(x.seen) >= x.need
  /\ x.pc = "cas" => x.seen # {}
  /\ x.pc = "assign" =>
       /\ qs[x.q] = "scored" /\ bas[x.q] = x.seen
       /\ \A a \in x.todo : status[a] = "replied"

ScorersHold == \A j \in Job : ScorerHolds(job[j], qstat, basis, st, aq)

\* Only the task that won the UPDATE of the question scores its rows.
OneScorer ==
  \A j, k \in Job :
    (j # k /\ job[j].pc = "assign" /\ job[k].pc = "assign") => job[j].q # job[k].q

\* Recovery scores questions that exist.
RecoveryKnows == \A q \in rec : qstat[q] # "absent"

\* A claim that was open when its answer could be read came too late to be in
\* the basis.
PeekedTooLate ==
  \A a \in peeked :
    st[a] # "none" /\ qstat[aq[a]] = "scored" /\ a \notin basis[aq[a]]

Process ==
  /\ FreshIds /\ PollsHold /\ OldExclusive /\ ScorersHold /\ OneScorer
  /\ RecoveryKnows /\ PeekedTooLate

Known == Shape /\ Room /\ Tables /\ Process
----------------------------------------------------------------------------

\* QuestionLife counts as the flow does.
LEMMA LifeCardinality == \A S : Life!Cardinality(S) = Cardinality(S)
  BY DEF Life!Cardinality, Cardinality

\* The scoring rules QuestionLife refers to are the ones the scorers apply.
LEMMA LifeScores ==
  ASSUME NEW r
  PROVE  /\ Life!QuestionerScore(r) = QuestionerScore(r)
         /\ \A a : Life!AnswererScore(r, a) = AnswererScore(r, a)
<1>1. /\ Life!Correct(r) = Correct(r)
      /\ Life!JudgedInvalid(r) = JudgedInvalid(r)
  BY DEF Life!Correct, Correct, Life!JudgedInvalid, JudgedInvalid
<1>2. Life!Wrong(r) = Wrong(r)
  BY <1>1 DEF Life!Wrong, Wrong
<1>3. Life!Winners(r) = Winners(r)
  BY LifeCardinality DEF Life!Winners, Winners, Life!Group, Group
<1>4. Life!Paid(r) = Paid(r)
  BY <1>1, <1>3 DEF Life!Paid, Paid
<1>5. \A n : Life!questionerCase3Score(n) = questionerCase3Score(n)
  BY DEF Life!questionerCase3Score, questionerCase3Score, Life!Whole, Whole
<1>6. Life!QuestionerScore(r) = QuestionerScore(r)
  BY <1>1, <1>5, LifeCardinality DEF Life!QuestionerScore, QuestionerScore
<1>7. \A n : Life!EqualShare(n) = EqualShare(n)
  BY DEF Life!EqualShare, EqualShare, Life!Whole, Whole
<1>8. \A a : Life!AnswererScore(r, a) = AnswererScore(r, a)
  BY <1>1, <1>2, <1>4, <1>7, LifeCardinality DEF Life!AnswererScore, AnswererScore
<1> QED
  BY <1>6, <1>8

\* The statements of the flow that change the tables, each as a step of
\* QuestionLife.  SubmitQuestion's INSERT:
LEMMA SubmitIsLife ==
  ASSUME NEW q \in Question, NEW w \in Worker, SubmitQuestion(q, w)
  PROVE  Life!Submit(q, w)
  BY DEF SubmitQuestion, Life!Submit, history, rowVars

\* The COMMIT of a poll with a new assignment: the unique index has left the
\* worker no claim but the one the transaction cleans up.
LEMMA InsertIsLife ==
  ASSUME Known, NEW s \in Session, InsertCommits(s)
  PROVE  /\ nextId \in AId
         /\ Life!Assign(nextId, sess[s].q, sess[s].w)
<1> DEFINE q == sess[s].q
           w == sess[s].w
           old == sess[s].old
<1>1. /\ sess[s] \in SessionRecord
      /\ sess[s].pc = "insert"
      /\ q \in Question /\ w \in Worker
      /\ old \in AId \cup {None}
  BY DEF Known, Shape, TypeOK, SessionShape, GoodSession, SessionRecord, InsertCommits
<1>2. nextId \in AId /\ st[nextId] = "none"
  BY DEF Known, Shape, TypeOK, InsertCommits, AId, Process, FreshIds
<1>3. /\ qstat[q] # "absent" /\ qauthor[q] # w
      /\ old # None => st[old] = "claimed" /\ aw[old] = w
  BY <1>1 DEF Known, Process, PollsHold, PollHolds
<1>4. Claims(w) = {old} \cap AId
  BY <1>1, <1>3, NoneAssumption DEF InsertCommits, Conflicts, Claims
<1>5. Life!Claims(w) = Claims(w) /\ Life!Active(q) = ActiveOf(q, st, aq)
  BY DEF Life!Claims, Claims, Life!Active, Life!Rows, ActiveOf
<1>6. Life!Cardinality(Life!Active(q) \ Life!Claims(w)) < Most
  <2> DEFINE T == ActiveOf(q, st, aq) \ {old}
  <2>1. Life!Active(q) \ Life!Claims(w) = T
    BY <1>4, <1>5 DEF ActiveOf
  <2>2. Cardinality(T) < sess[s].need /\ sess[s].need \in Nat /\ sess[s].need <= Most
    BY <1>1, NeedType DEF Known, Room, RoomLeft
  <2>3. Cardinality(T) \in Nat
    BY ActiveType, SubsetCount
  <2> HIDE DEF T
  <2>4. Cardinality(T) < Most
    BY <2>2, <2>3, BoundAssumption
  <2> QED
    BY <2>1, <2>4, LifeCardinality
<1>7. st' = [b \in AId |-> CASE b = nextId -> "claimed"
                             [] b \in Life!Claims(w) -> "timed-out"
                             [] OTHER -> st[b]]
  <2>1. \A b \in AId : b \in Life!Claims(w) <=> b = old
    BY <1>4, <1>5
  <2>2. nextId # old
    BY <1>2, <1>3, NoneAssumption
  <2>3. st' = [[b \in AId |-> IF b = old THEN "timed-out" ELSE st[b]]
                 EXCEPT ![nextId] = "claimed"]
    BY DEF InsertCommits, TimedOut
  <2> HIDE DEF old, w
  <2>4. st' = [b \in AId |-> st'[b]]
    BY <1>2, <2>3
  <2>5. ASSUME NEW b \in AId
        PROVE  st'[b] = CASE b = nextId -> "claimed"
                          [] b \in Life!Claims(w) -> "timed-out"
                          [] OTHER -> st[b]
    BY <1>2, <2>1, <2>3, <2>2
  <2> QED
    BY <2>4, <2>5
<1> QED
  BY <1>2, <1>3, <1>6, <1>7 DEF Life!Assign, InsertCommits

\* A row that is timed out, by whichever of the actors.
LEMMA ExpireIsLife ==
  ASSUME Known, NEW a \in AId, st[a] = "claimed", st' = TimedOut(a),
         UNCHANGED <<questionVars, aq, aw, reply, ares>>
  PROVE  Life!Expire(a)
  BY DEF Known, Shape, TypeOK, TimedOut, Life!Expire, questionVars, history

\* The end of a poll that inserts nothing: its clean-up, if there is one.
LEMMA CleanupIsLife ==
  ASSUME Known, NEW s \in Session, CommitCleanup(s),
         UNCHANGED <<questionVars, aq, aw, reply, ares>>
  PROVE  (\E a \in AId : Life!Expire(a)) \/ UNCHANGED Life!vars
<1>1. /\ sess[s].old \in AId \cup {None}
      /\ sess[s].old # None => st[sess[s].old] = "claimed"
  BY DEF Known, Shape, TypeOK, SessionRecord, Process, PollsHold, PollHolds
<1>2. CASE sess[s].old = None
  <2>1. st' = st
    BY <1>2, NoneAssumption DEF CommitCleanup, TimedOut, Known, Shape, TypeOK
  <2> QED
    BY <2>1 DEF Life!vars, questionVars, history
<1>3. CASE sess[s].old # None
  BY <1>1, <1>3, ExpireIsLife DEF CommitCleanup
<1> QED
  BY <1>2, <1>3

\* SetAssignmentReply.
LEMMA ReplyIsLife ==
  ASSUME Known, NEW s \in Session, NEW r \in Reply, ReplyCommits(s, r)
  PROVE  sess[s].a \in AId /\ Life!Answers(sess[s].a, r)
  BY DEF Known, Shape, SessionShape, GoodSession, ReplyCommits, Life!Answers,
         questionVars, history

\* Store.ScoreQuestion, when the question is still submitted: the list was
\* complete, and no row of it has been scored.
LEMMA ScoreIsLife ==
  ASSUME Known, NEW j \in Job, JobScoresQuestion(j),
         qstat[job[j].q] = "submitted"
  PROVE  /\ job[j].q \in Question
         /\ job[j].seen \in SUBSET Life!Rows(job[j].q)
         /\ Life!Score(job[j].q, job[j].seen)
<1> DEFINE q == job[j].q
           S == job[j].seen
<1>1. q \in Question /\ S \in SUBSET AId /\ job[j].pc = "cas"
  BY DEF Known, Shape, TypeOK, JobShape, GoodJob, JobRecord, JobScoresQuestion
<1>2. \A a \in S : aq[a] = q /\ st[a] \in {"replied", "scored"}
  BY DEF Known, Process, ScorersHold, ScorerHolds
<1>3. \A a \in S : st[a] = "replied"
  BY <1>1, <1>2 DEF Known, Tables, RowsJudged
<1>4. S \in SUBSET Life!Rows(q)
  BY <1>1, <1>2 DEF Life!Rows
<1>5. Cardinality(S) \in Nat /\ Cardinality(S) <= Most
  <2>1. S \subseteq ActiveOf(q, st, aq)
    BY <1>1, <1>2, <1>3 DEF ActiveOf
  <2>2. Cardinality(ActiveOf(q, st, aq)) <= Most
    BY <1>1 DEF Known, Room, WithinRequired
  <2> QED
    BY <2>1, <2>2, ActiveType, SubsetCount, BoundAssumption
<1>6. Cardinality(S) # 0
  <2>1. S # {}
    BY <1>1 DEF Known, Process, ScorersHold, ScorerHolds
  <2>2. IsFiniteSet(S)
    BY <1>1, AIdFinite, FS_Subset
  <2> QED
    BY <2>1, <2>2, FS_EmptySet
<1>7. Life!Cardinality(S) \in 1 .. Most
  BY <1>5, <1>6, LifeCardinality, BoundAssumption
<1>8. Life!QuestionerScore(Life!RepliesOf(S)) = QuestionerScore(Seen(j))
  BY LifeScores DEF Life!RepliesOf, Seen
<1> QED
  BY <1>1, <1>3, <1>4, <1>7, <1>8 DEF JobScoresQuestion, Life!Score, rowVars

\* SetAssignmentScore, which has no condition: only the scorer that won gets
\* here, with the basis, and each row of it once.
LEMMA AwardIsLife ==
  ASSUME Known, NEW j \in Job, JobScoresAssignment(j)
  PROVE  \E a \in job[j].todo :
           /\ a \in AId /\ Life!Award(a)
           /\ st' = [st EXCEPT ![a] = "scored"]
           /\ job' = [job EXCEPT ![j] =
                         IF job[j].todo = {a} THEN IdleJob
                         ELSE [job[j] EXCEPT !.todo = job[j].todo \ {a}]]
<1>1. PICK a \in job[j].todo :
        /\ st' = [st EXCEPT ![a] = "scored"]
        /\ ares' = [ares EXCEPT ![a] = AnswererScore(Seen(j), a)]
        /\ job' = [job EXCEPT ![j] =
                      IF job[j].todo = {a} THEN IdleJob
                      ELSE [job[j] EXCEPT !.todo = job[j].todo \ {a}]]
  BY DEF JobScoresAssignment
<1>2. a \in job[j].seen /\ a \in AId /\ job[j].pc = "assign"
  BY DEF Known, Shape, TypeOK, JobShape, GoodJob, JobRecord, JobScoresAssignment
<1>3. st[a] = "replied" /\ aq[a] = job[j].q /\ basis[aq[a]] = job[j].seen
  BY <1>2 DEF Known, Process, ScorersHold, ScorerHolds
<1>4. Life!RepliesOf(basis[aq[a]]) = Seen(j)
  BY <1>3 DEF Life!RepliesOf, Seen
<1>5. Life!AnswererScore(Life!RepliesOf(basis[aq[a]]), a) = AnswererScore(Seen(j), a)
  BY <1>4, LifeScores
<1>6. Life!Award(a)
  BY <1>1, <1>2, <1>3, <1>5 DEF JobScoresAssignment, Life!Award, questionVars, history
<1> QED
  BY <1>1, <1>2, <1>6

\* Every step of the flow is a step of QuestionLife, or leaves the tables as
\* they are.
LEMMA StepIsLife == Known /\ [Next]_vars => [Life!Next]_Life!vars
<1> SUFFICES ASSUME Known, [Next]_vars PROVE [Life!Next]_Life!vars
  OBVIOUS
<1> DEFINE Same == UNCHANGED Life!vars
<1>1. CASE \E q \in Question, w \in Questioner : SubmitQuestion(q, w)
  BY <1>1, SubmitIsLife, QuestionerAssumption DEF Life!Next
<1>2. ASSUME NEW s \in Session, NEW w \in Worker, RequestArrives(s, w)
      PROVE  Same
  BY <1>2 DEF RequestArrives, PollFindsNone, PollFindsExpired, PollFindsClaim,
              AnswerRefused, AnswerLate, AnswerInTime, AnswerRow, Request,
              Life!vars, questionVars, history, rowVars
<1>3. ASSUME NEW s \in Session,
             \/ PollCleans(s) \/ PollLocks(s) \/ PollRejected(s) \/ PollArms(s)
             \/ PollAborts(s) \/ AnswerEnds(s) \/ \E j \in Job : AnswerCallback(s, j)
      PROVE  Same
  BY <1>3 DEF PollCleans, PollLocks, PollRejected, PollArms, PollAborts, AnswerEnds,
              AnswerCallback, Life!vars, questionVars, history, rowVars
<1>4. ASSUME NEW s \in Session, PollSnapshot(s) \/ PollSkipsAll(s) \/ PollCounts(s)
      PROVE  [Life!Next]_Life!vars
  <2>1. /\ st' = st \/ CommitCleanup(s)
        /\ UNCHANGED <<questionVars, aq, aw, reply, ares>>
    BY <1>4 DEF PollSnapshot, PollSkipsAll, PollCounts
  <2>2. CASE st' = st
    BY <2>1, <2>2 DEF Life!vars, questionVars, history
  <2>3. CASE CommitCleanup(s)
    BY <2>1, <2>3, CleanupIsLife DEF Life!Next
  <2> QED
    BY <2>1, <2>2, <2>3
<1>5. ASSUME NEW s \in Session, PollInserts(s) \/ PollAckLost(s)
      PROVE  Life!Next
  <2>1. sess[s].q \in Question /\ sess[s].w \in Worker
    BY <1>5 DEF Known, Shape, SessionShape, GoodSession, PollInserts, PollAckLost,
                InsertCommits
  <2> QED
    BY <1>5, <2>1, InsertIsLife DEF PollInserts, PollAckLost, Life!Next
<1>6. ASSUME NEW s \in Session, AnswerExpires(s)
      PROVE  [Life!Next]_Life!vars
  <2>1. sess[s].a \in AId
    BY <1>6 DEF Known, Shape, SessionShape, GoodSession, AnswerExpires
  <2>2. UNCHANGED <<questionVars, aq, aw, reply, ares>>
    BY <1>6 DEF AnswerExpires
  <2>3. CASE st[sess[s].a] = "claimed"
    BY <1>6, <2>1, <2>2, <2>3, ExpireIsLife DEF AnswerExpires, Life!Next
  <2>4. CASE st[sess[s].a] # "claimed"
    BY <1>6, <2>2, <2>4 DEF AnswerExpires, Life!vars, questionVars, history
  <2> QED
    BY <2>3, <2>4
<1>7. ASSUME NEW s \in Session, NEW r \in Reply, AnswerWrites(s, r) \/ AnswerAckLost(s, r)
      PROVE  Life!Next
  <2>1. ReplyCommits(s, r)
    BY <1>7 DEF AnswerWrites, AnswerAckLost
  <2>2. sess[s].a \in AId /\ Life!Answers(sess[s].a, r)
    BY <2>1, ReplyIsLife
  <2> QED
    BY <2>2 DEF Life!Next, Life!Reply, Reply
<1>8. ASSUME NEW j \in Job, JobTimesOut(j)
      PROVE  [Life!Next]_Life!vars
  <2>1. job[j].a \in AId
    BY <1>8 DEF Known, Shape, JobShape, GoodJob, JobTimesOut
  <2>2. UNCHANGED <<questionVars, aq, aw, reply, ares>>
    BY <1>8 DEF JobTimesOut
  <2>3. CASE st[job[j].a] = "claimed"
    BY <1>8, <2>1, <2>2, <2>3, ExpireIsLife DEF JobTimesOut, Life!Next
  <2>4. CASE st[job[j].a] # "claimed"
    BY <1>8, <2>2, <2>4 DEF JobTimesOut, Life!vars, questionVars, history
  <2> QED
    BY <2>3, <2>4
<1>9. ASSUME NEW j \in Job, JobScoresQuestion(j)
      PROVE  [Life!Next]_Life!vars
  <2>1. CASE qstat[job[j].q] = "submitted"
    BY <1>9, <2>1, ScoreIsLife DEF Life!Next
  <2>2. CASE qstat[job[j].q] # "submitted"
    BY <1>9, <2>2 DEF JobScoresQuestion, Life!vars, rowVars
  <2> QED
    BY <2>1, <2>2
<1>10. ASSUME NEW j \in Job, JobScoresAssignment(j)
       PROVE  Life!Next
  BY <1>10, AwardIsLife DEF Life!Next
<1>11. ASSUME NEW j \in Job,
              JobTries(j) \/ JobWeighs(j) \/ JobGets(j) \/ JobLists(j) \/ JobFails(j)
       PROVE  Same
  BY <1>11 DEF JobTries, JobWeighs, JobGets, JobLists, JobFails,
               Life!vars, questionVars, history, rowVars
<1>12. ASSUME \/ \E n \in Choices : ChangeRequired(n)
              \/ \E a \in AId : DeadlinePasses(a)
              \/ \E a \in AId, j \in Job : TimerFires(a, j)
              \/ Crash \/ MainStep \/ UNCHANGED vars
       PROVE  Same
  BY <1>12 DEF ChangeRequired, DeadlinePasses, TimerFires, Crash, MainStep, Restart,
               RecoverScan, RecoverScore, Serve, vars, Life!vars, questionVars, history,
               rowVars
<1>13. ASSUME NEW s \in Session, SessionStep(s) \/ Fault(s)
       PROVE  [Life!Next]_Life!vars
  BY <1>3, <1>4, <1>5, <1>6, <1>7, <1>13 DEF SessionStep, Fault
<1>14. ASSUME NEW j \in Job, JobStep(j) \/ JobFails(j)
       PROVE  [Life!Next]_Life!vars
  BY <1>8, <1>9, <1>10, <1>11, <1>14 DEF JobStep
<1> QED
  BY <1>1, <1>2, <1>12, <1>13, <1>14 DEF Next
----------------------------------------------------------------------------
(* What the steps of QuestionLife keep. *)

\* What is never undone: a question stays, and keeps its author, its score and
\* its basis; a row stays, and keeps its question, its worker and its reply; and
\* a reply stays available until its question is scored.
Advance ==
  /\ \A q \in Question :
       /\ qstat[q] # "absent" => qstat'[q] # "absent" /\ qauthor'[q] = qauthor[q]
       /\ qstat[q] = "scored" => qstat'[q] = "scored" /\ basis'[q] = basis[q]
  /\ \A a \in AId :
       /\ st[a] # "none" => st'[a] # "none" /\ aq'[a] = aq[a] /\ aw'[a] = aw[a]
       /\ st[a] \in {"replied", "scored"} => st'[a] \in {"replied", "scored"}
       /\ st[a] = "replied" => st'[a] = "replied" \/ qstat'[aq[a]] = "scored"

\* The statuses move forward, and a reply is never lost or changed.
Forward ==
  \A a \in AId :
    /\ st'[a] # st[a] =>
         <<st[a], st'[a]>> \in
            {<<"none", "claimed">>, <<"claimed", "replied">>,
             <<"claimed", "timed-out">>, <<"replied", "scored">>}
    /\ reply[a] # None => reply'[a] = reply[a]

Progress == Advance /\ Forward /\ Tables'

\* A new question has neither rows nor a basis that counts.
LEMMA SubmitKeeps ==
  ASSUME Shape, Tables, NEW q \in Question, NEW w \in Worker, Life!Submit(q, w)
  PROVE  Progress
<1>1. /\ \A p \in Question : p # q => qstat'[p] = qstat[p] /\ qauthor'[p] = qauthor[p]
      /\ qstat[q] = "absent" /\ qstat'[q] = "submitted"
      /\ UNCHANGED <<qres, basis, st, aq, aw, reply, ares>>
  BY DEF Life!Submit, Shape, TypeOK
<1>2. Advance /\ Forward
  BY <1>1 DEF Advance, Forward, Tables, RowsOfOthers
<1>3. \A p : BasisReplies(p)' = BasisReplies(p)
  BY <1>1 DEF BasisReplies
<1>4. RowsOfOthers' /\ RepliesStored' /\ BasisOfScored'
  BY <1>1 DEF Tables, RowsOfOthers, RepliesStored, BasisOfScored, Shape, RowShape
<1>5. QuestionsJudged' /\ RowsJudged'
  BY <1>1, <1>3 DEF Tables, QuestionsJudged, RowsJudged, RowsOfOthers, Shape, RowShape
<1> QED
  BY <1>2, <1>4, <1>5 DEF Progress, Tables

\* A new row, and the claim that ends with it, are nobody's basis.
LEMMA AssignKeeps ==
  ASSUME Shape, Tables, NEW a \in AId, NEW q \in Question, NEW w \in Worker,
         Life!Assign(a, q, w)
  PROVE  Progress
<1>1. /\ st[a] = "none" /\ st'[a] = "claimed" /\ aq'[a] = q /\ aw'[a] = w
      /\ qstat[q] # "absent" /\ qauthor[q] # w
      /\ UNCHANGED <<qstat, qauthor, qres, basis, reply, ares>>
  BY DEF Life!Assign, Life!Claims, Shape, TypeOK
<1>2. ASSUME NEW b \in AId, b # a
      PROVE  /\ st'[b] = st[b] \/ (st[b] = "claimed" /\ st'[b] = "timed-out")
             /\ aq'[b] = aq[b] /\ aw'[b] = aw[b]
  <2>1. aq'[b] = aq[b] /\ aw'[b] = aw[b]
    BY <1>2 DEF Life!Assign, Shape, TypeOK
  <2>2. CASE b \in Life!Claims(w)
    BY <1>2, <2>1, <2>2 DEF Life!Assign, Life!Claims
  <2>3. CASE b \notin Life!Claims(w)
    BY <1>2, <2>1, <2>3 DEF Life!Assign
  <2> QED
    BY <2>2, <2>3
<1>3. Advance /\ Forward
  BY <1>1, <1>2 DEF Advance, Forward
<1>4. \A p : BasisReplies(p)' = BasisReplies(p)
  BY <1>1 DEF BasisReplies
<1>5. RowsOfOthers' /\ RepliesStored' /\ BasisOfScored'
  BY <1>1, <1>2 DEF Tables, RowsOfOthers, RepliesStored, BasisOfScored
<1>6. QuestionsJudged'
  BY <1>1, <1>2, <1>4 DEF Tables, QuestionsJudged, Shape, TypeOK
<1>7. RowsJudged'
  BY <1>1, <1>2, <1>4 DEF Tables, RowsJudged
<1> QED
  BY <1>3, <1>5, <1>6, <1>7 DEF Progress, Tables

\* A claim that ends is nobody's basis.
LEMMA ExpireKeeps ==
  ASSUME Shape, Tables, NEW a \in AId, Life!Expire(a)
  PROVE  Progress
<1>1. /\ st[a] = "claimed" /\ st'[a] = "timed-out"
      /\ \A b \in AId : b # a => st'[b] = st[b]
      /\ UNCHANGED <<qstat, qauthor, qres, basis, aq, aw, reply, ares>>
  BY DEF Life!Expire, Shape, TypeOK
<1>2. Advance /\ Forward
  BY <1>1 DEF Advance, Forward
<1>3. \A p : BasisReplies(p)' = BasisReplies(p)
  BY <1>1 DEF BasisReplies
<1>4. RowsOfOthers' /\ RepliesStored' /\ BasisOfScored'
  BY <1>1 DEF Tables, RowsOfOthers, RepliesStored, BasisOfScored
<1>5. QuestionsJudged' /\ RowsJudged'
  BY <1>1, <1>3 DEF Tables, QuestionsJudged, RowsJudged, Shape, TypeOK
<1> QED
  BY <1>2, <1>4, <1>5 DEF Progress, Tables

\* The row had no reply, and belonged to no basis.
LEMMA AnswersKeeps ==
  ASSUME Shape, Tables, NEW a \in AId, NEW r \in Reply, Life!Answers(a, r)
  PROVE  Progress
<1>1. /\ st[a] = "claimed" /\ st'[a] = "replied" /\ reply'[a] = r
      /\ \A b \in AId : b # a => st'[b] = st[b] /\ reply'[b] = reply[b]
      /\ UNCHANGED <<qstat, qauthor, qres, basis, aq, aw, ares>>
  BY DEF Life!Answers, Shape, TypeOK
<1>2. reply[a] = None /\ r # None
  BY <1>1, NoneAssumption DEF Tables, RepliesStored
<1>3. Advance /\ Forward
  BY <1>1, <1>2 DEF Advance, Forward
<1>4. ASSUME NEW q \in Question, qstat[q] = "scored"
      PROVE  BasisReplies(q)' = BasisReplies(q)
  <2>1. basis'[q] = basis[q] /\ \A b \in basis[q] : b \in AId /\ b # a
    BY <1>1, <1>4 DEF Tables, QuestionsJudged, Shape, TypeOK
  <2>2. \A b \in basis[q] : reply'[b] = reply[b]
    BY <1>1, <2>1
  <2> QED
    BY <2>1, <2>2 DEF BasisReplies
<1>5. RowsOfOthers' /\ RepliesStored' /\ BasisOfScored'
  BY <1>1, <1>2 DEF Tables, RowsOfOthers, RepliesStored, BasisOfScored
<1>6. QuestionsJudged'
  BY <1>1, <1>4 DEF Tables, QuestionsJudged, Shape, TypeOK
<1>7. RowsJudged'
  BY <1>1, <1>4 DEF Tables, RowsJudged, Shape, RowShape
<1> QED
  BY <1>3, <1>5, <1>6, <1>7 DEF Progress, Tables

\* The basis of a question is set when it is scored, from replies to it.
LEMMA ScoreKeeps ==
  ASSUME Shape, Tables, NEW q \in Question, NEW S \in SUBSET Life!Rows(q),
         Life!Score(q, S)
  PROVE  Progress
<1>1. /\ qstat[q] = "submitted" /\ qstat'[q] = "scored" /\ basis'[q] = S
      /\ qres'[q] = Life!QuestionerScore(Life!RepliesOf(S))
      /\ \A p \in Question : p # q =>
           qstat'[p] = qstat[p] /\ qres'[p] = qres[p] /\ basis'[p] = basis[p]
      /\ UNCHANGED <<qauthor, st, aq, aw, reply, ares>>
  BY DEF Life!Score, Shape, TypeOK
<1>2. Advance /\ Forward
  BY <1>1 DEF Advance, Forward
<1>3. RowsOfOthers' /\ RepliesStored' /\ BasisOfScored'
  BY <1>1 DEF Tables, RowsOfOthers, RepliesStored, BasisOfScored, Shape, RowShape
<1>4. \A p \in Question : p # q => BasisReplies(p)' = BasisReplies(p)
  BY <1>1 DEF BasisReplies
<1>5. BasisReplies(q)' = Life!RepliesOf(S)
  BY <1>1 DEF BasisReplies, Life!RepliesOf
<1>6. /\ Cardinality(S) \in 1 .. Most
      /\ \A a \in S : st[a] = "replied" /\ aq[a] = q
  BY LifeCardinality DEF Life!Score, Life!Rows
<1>7. QuestionsJudged'
  <2>1. qres'[q] = QuestionerScore(BasisReplies(q)')
    BY <1>1, <1>5, LifeScores
  <2>2. ASSUME NEW p \in Question, qstat'[p] = "scored"
        PROVE  /\ Cardinality(basis'[p]) \in 1 .. Most
               /\ \A a \in basis'[p] : st'[a] \in {"replied", "scored"} /\ aq'[a] = p
               /\ qres'[p] = QuestionerScore(BasisReplies(p)')
    <3>1. CASE p = q
      BY <1>1, <1>6, <2>1, <3>1
    <3>2. CASE p # q
      BY <1>1, <1>4, <2>2, <3>2 DEF Tables, QuestionsJudged
    <3> QED
      BY <3>1, <3>2
  <2> QED
    BY <2>2 DEF QuestionsJudged
<1>8. RowsJudged'
  BY <1>1, <1>4 DEF Tables, RowsJudged, Shape, RowShape
<1> QED
  BY <1>2, <1>3, <1>7, <1>8 DEF Progress, Tables

\* A row of the basis gets the score the basis gives it.
LEMMA AwardKeeps ==
  ASSUME Shape, Tables, NEW a \in AId, Life!Award(a)
  PROVE  Progress
<1>1. /\ st[a] = "replied" /\ a \in basis[aq[a]] /\ st'[a] = "scored"
      /\ ares'[a] = Life!AnswererScore(Life!RepliesOf(basis[aq[a]]), a)
      /\ \A b \in AId : b # a => st'[b] = st[b] /\ ares'[b] = ares[b]
      /\ UNCHANGED <<qstat, qauthor, qres, basis, aq, aw, reply>>
  BY DEF Life!Award, Shape, TypeOK
<1>2. aq[a] \in Question
  BY <1>1 DEF Shape, RowShape
<1>3. qstat[aq[a]] = "scored"
  BY <1>1, <1>2 DEF Tables, BasisOfScored
<1>4. Advance /\ Forward
  BY <1>1, <1>3 DEF Advance, Forward
<1>5. \A q : BasisReplies(q)' = BasisReplies(q)
  BY <1>1 DEF BasisReplies
<1>6. RowsOfOthers' /\ RepliesStored' /\ BasisOfScored'
  BY <1>1 DEF Tables, RowsOfOthers, RepliesStored, BasisOfScored
<1>7. QuestionsJudged'
  BY <1>1, <1>5 DEF Tables, QuestionsJudged, Shape, TypeOK
<1>8. RowsJudged'
  <2>1. ares'[a] = AnswererScore(BasisReplies(aq[a]), a)
    BY <1>1, LifeScores DEF Life!RepliesOf, BasisReplies
  <2> QED
    BY <1>1, <1>3, <1>5, <2>1 DEF Tables, RowsJudged
<1> QED
  BY <1>4, <1>6, <1>7, <1>8 DEF Progress, Tables

\* Every step of QuestionLife.
LEMMA LifeKeeps == Shape /\ Tables /\ [Life!Next]_Life!vars => Progress
<1> SUFFICES ASSUME Shape, Tables, [Life!Next]_Life!vars PROVE Progress
  OBVIOUS
<1>1. CASE Life!Next
  <2>1. ASSUME NEW a \in AId, NEW r \in Life!Reply, Life!Answers(a, r) PROVE Progress
    BY <2>1, AnswersKeeps DEF Life!Reply, Reply
  <2> QED
    BY <1>1, <2>1, SubmitKeeps, AssignKeeps, ScoreKeeps, ExpireKeeps, AwardKeeps
    DEF Life!Next
<1>2. CASE UNCHANGED Life!vars
  <2>1. UNCHANGED <<qstat, qauthor, qres, basis, st, aq, aw, reply, ares>>
    BY <1>2 DEF Life!vars
  <2>2. Advance /\ Forward
    BY <2>1 DEF Advance, Forward
  <2>3. \A q : BasisReplies(q)' = BasisReplies(q)
    BY <2>1 DEF BasisReplies
  <2>4. Tables'
    BY <2>1, <2>3
    DEF Tables, RowsOfOthers, RepliesStored, QuestionsJudged, BasisOfScored, RowsJudged
  <2> QED
    BY <2>2, <2>4 DEF Progress
<1> QED
  BY <1>1, <1>2

\* Every step of the flow, then.
LEMMA StepKeeps == Known /\ [Next]_vars => Shape' /\ Room' /\ Progress
  BY StepIsLife, LifeKeeps, ShapeNext, RoomNext DEF Known
----------------------------------------------------------------------------
(* What the requests and the background tasks know stays true. *)

\* PollHolds and ScorerHolds of the next state.
PollHoldsNext(x) == PollHolds(x, qstat', qauthor', st', aw')
ScorerHoldsNext(x) == ScorerHolds(x, qstat', basis', st', aq')

\* What a poll knows stays true while its row lock is respected.
LEMMA PollStays ==
  ASSUME Shape, Advance, NEW x \in SessionRecord, GoodSession(x, st),
         PollHolds(x, qstat, qauthor, st, aw),
         x.old # None => st'[x.old] = "claimed"
  PROVE  PollHoldsNext(x)
  BY DEF PollHoldsNext, PollHolds, Advance, GoodSession, SessionRecord

\* What a scorer knows stays true while the rows it has to score are left to it.
LEMMA ScorerStays ==
  ASSUME Shape, Advance, NEW x \in JobRecord, GoodJob(x, st),
         ScorerHolds(x, qstat, basis, st, aq),
         x.pc = "assign" => \A a \in x.todo : st'[a] = "replied"
  PROVE  ScorerHoldsNext(x)
<1>1. x.pc # "idle" => x.q \in Question /\ qstat'[x.q] # "absent"
  BY DEF GoodJob, ScorerHolds, Advance
<1>2. \A a \in x.seen : aq'[a] = x.q /\ st'[a] \in {"replied", "scored"}
  BY DEF JobRecord, ScorerHolds, Advance
<1>3. ASSUME x.pc \in {"get", "list", "cas"}, qstat'[x.q] = "submitted"
      PROVE  x.q \in Question /\ qstat[x.q] = "submitted"
  BY <1>1, <1>3 DEF Advance, GoodJob, ScorerHolds, Shape, TypeOK, QStatus
<1>4. ASSUME x.pc \in {"get", "list"}, qstat'[x.q] = "submitted"
      PROVE  Cardinality(RepliedOf(x.q, st', aq')) >= x.need
  <2>1. RepliedOf(x.q, st, aq) \subseteq RepliedOf(x.q, st', aq')
    BY <1>3, <1>4 DEF RepliedOf, Advance
  <2>2. Cardinality(RepliedOf(x.q, st, aq)) >= x.need /\ x.need \in Nat
    BY <1>3, <1>4, NumbersType DEF ScorerHolds, JobRecord
  <2>3. RepliedOf(x.q, st', aq') \subseteq AId
    BY DEF RepliedOf
  <2> QED
    BY <2>1, <2>2, <2>3, SubsetCount
<1>5. /\ x.pc = "cas" /\ qstat'[x.q] = "submitted" => Cardinality(x.seen) >= x.need
      /\ x.pc = "cas" => x.seen # {}
  BY <1>3 DEF ScorerHolds
<1>6. x.pc = "assign" =>
        /\ qstat'[x.q] = "scored" /\ basis'[x.q] = x.seen
        /\ \A a \in x.todo : st'[a] = "replied"
  BY <1>1 DEF ScorerHolds, Advance
<1> QED
  BY <1>1, <1>2, <1>4, <1>5, <1>6 DEF ScorerHoldsNext, ScorerHolds

\* The row locks of the polls other than s are respected.
OthersRowsKept(s) ==
  \A t \in Session : t # s /\ sess[t].old # None => st'[sess[t].old] = "claimed"

\* A step that gives poll s a new record.
LEMMA PollsKept ==
  ASSUME Known, Advance, NEW s \in Session, NEW x, OthersRowsKept(s),
         sess' = [sess EXCEPT ![s] = x], PollHoldsNext(x),
         \A t \in Session : t # s /\ x.old # None => sess[t].old # x.old
  PROVE  PollsHold' /\ OldExclusive'
<1>1. sess'[s] = x /\ \A t \in Session : t # s => sess'[t] = sess[t]
  BY DEF Known, Shape, TypeOK
<1>2. ASSUME NEW t \in Session PROVE PollHoldsNext(sess'[t])
  <2>1. CASE t = s
    BY <1>1, <2>1
  <2>2. CASE t # s
    BY <1>1, <2>2, PollStays
    DEF Known, Shape, TypeOK, SessionShape, Process, PollsHold, OthersRowsKept
  <2> QED
    BY <2>1, <2>2
<1>3. OldExclusive'
  BY <1>1 DEF Known, Process, OldExclusive
<1> QED
  BY <1>2, <1>3 DEF PollsHold, PollHoldsNext

\* A step that leaves the polls alone, or ends all of them.
LEMMA PollsStay ==
  ASSUME Known, Advance,
         \/ /\ sess' = sess
            /\ \A t \in Session : sess[t].old # None => st'[sess[t].old] = "claimed"
         \/ sess' = [s \in Session |-> IdleSession]
  PROVE  PollsHold' /\ OldExclusive'
<1>1. CASE sess' = [s \in Session |-> IdleSession]
  BY <1>1 DEF PollsHold, PollHolds, OldExclusive, IdleSession
<1>2. CASE sess' # [s \in Session |-> IdleSession]
  <2>1. ASSUME NEW t \in Session PROVE PollHoldsNext(sess'[t])
    BY <1>2, PollStays DEF Known, Shape, TypeOK, SessionShape, Process, PollsHold
  <2> QED
    BY <1>2, <2>1 DEF Known, Process, PollsHold, PollHoldsNext, OldExclusive
<1> QED
  BY <1>1, <1>2

\* The rows that the scorers other than j have to score are left to them.
OthersTodoKept(j) ==
  \A k \in Job : k # j /\ job[k].pc = "assign" =>
    \A a \in job[k].todo : st'[a] = "replied"

\* No scorer but j scores the rows of question q.
SoleScorer(j, q) == \A k \in Job : k # j /\ job[k].pc = "assign" => job[k].q # q

\* A step that gives task j a new record.
LEMMA ScorersKept ==
  ASSUME Known, Advance, NEW j \in Job, NEW x, OthersTodoKept(j),
         job' = [job EXCEPT ![j] = x], ScorerHoldsNext(x),
         x.pc = "assign" => SoleScorer(j, x.q)
  PROVE  ScorersHold' /\ OneScorer'
<1>1. job'[j] = x /\ \A k \in Job : k # j => job'[k] = job[k]
  BY DEF Known, Shape, TypeOK
<1>2. ASSUME NEW k \in Job PROVE ScorerHoldsNext(job'[k])
  <2>1. CASE k = j
    BY <1>1, <2>1
  <2>2. CASE k # j
    BY <1>1, <2>2, ScorerStays
    DEF Known, Shape, TypeOK, JobShape, Process, ScorersHold, OthersTodoKept
  <2> QED
    BY <2>1, <2>2
<1>3. OneScorer'
  BY <1>1 DEF Known, Process, OneScorer, SoleScorer
<1> QED
  BY <1>2, <1>3 DEF ScorersHold, ScorerHoldsNext

\* A step that leaves the tasks alone, or ends all of them.
LEMMA ScorersStay ==
  ASSUME Known, Advance,
         \/ /\ job' = job
            /\ \A a \in AId : st[a] = "replied" => st'[a] = "replied"
         \/ job' = [j \in Job |-> IdleJob]
  PROVE  ScorersHold' /\ OneScorer'
<1>1. CASE job' = [j \in Job |-> IdleJob]
  BY <1>1 DEF ScorersHold, ScorerHolds, OneScorer, IdleJob
<1>2. CASE job' # [j \in Job |-> IdleJob]
  <2>1. ASSUME NEW k \in Job PROVE ScorerHoldsNext(job'[k])
    <3>1. /\ job'[k] = job[k] /\ job[k] \in JobRecord /\ GoodJob(job[k], st)
          /\ ScorerHolds(job[k], qstat, basis, st, aq)
      BY <1>2 DEF Known, Shape, TypeOK, JobShape, Process, ScorersHold
    <3>2. job[k].pc = "assign" => \A a \in job[k].todo : st'[a] = "replied"
      BY <1>2, <3>1 DEF ScorerHolds, JobRecord
    <3> QED
      BY <3>1, <3>2, ScorerStays DEF Known
  <2> QED
    BY <1>2, <2>1 DEF Known, Process, ScorersHold, ScorerHoldsNext, OneScorer
<1> QED
  BY <1>1, <1>2

\* A claim that is open while its answer can be read belongs to a scored
\* question, whose author is another worker: it is not in the basis.
LEMMA PeekedKept ==
  ASSUME Known, Shape', Tables', Advance,
         peeked' = peeked \/ peeked' = peeked \cup Peeking'
  PROVE  PeekedTooLate'
<1>1. ASSUME NEW a \in Peeking'
      PROVE  a \in AId /\ st'[a] = "claimed" /\ qstat'[aq'[a]] = "scored"
             /\ a \notin basis'[aq'[a]]
  <2>1. /\ a \in AId /\ st'[a] = "claimed" /\ aq'[a] \in Question
        /\ aq'[a] \in Disclosed(aw[a])'
    BY <1>1 DEF Peeking, Shape, RowShape
  <2>2. qstat'[aq'[a]] = "scored"
    BY <2>1 DEF Disclosed, MyQuestions, PublicQuestions, PublicAssignments, Tables,
                RowsOfOthers
  <2>3. a \notin basis'[aq'[a]]
    BY <2>1, <2>2 DEF Tables, QuestionsJudged
  <2> QED
    BY <2>1, <2>2, <2>3
<1>2. ASSUME NEW a \in peeked
      PROVE  st'[a] # "none" /\ qstat'[aq'[a]] = "scored" /\ a \notin basis'[aq'[a]]
  BY DEF Known, Shape, TypeOK, RowShape, Process, PeekedTooLate, Advance
<1> QED
  BY <1>1, <1>2 DEF PeekedTooLate

\* A step that inserts no row hands out no id.
LEMMA FreshKept ==
  ASSUME Known, nextId' = nextId,
         \A a \in AId : st'[a] = "none" <=> st[a] = "none"
  PROVE  FreshIds'
  BY DEF Known, Process, FreshIds

\* A step that forgets what recovery had to score, or some of it.
LEMMA RecoveryKept ==
  ASSUME Known, Advance, rec' \subseteq rec
  PROVE  RecoveryKnows'
  BY DEF Known, Shape, TypeOK, Process, RecoveryKnows, Advance

\* A step that changes no row: ids, row locks, recovery and the claims that
\* came too late.
LEMMA RowsAlone ==
  ASSUME Known, Shape', Progress, st' = st, nextId' = nextId, rec' \subseteq rec,
         peeked' = peeked \/ peeked' = peeked \cup Peeking'
  PROVE  /\ FreshIds' /\ RecoveryKnows' /\ PeekedTooLate'
         /\ \A s \in Session : OthersRowsKept(s)
         /\ \A j \in Job : OthersTodoKept(j)
<1>1. \A s \in Session : OthersRowsKept(s)
  BY DEF OthersRowsKept, Known, Process, PollsHold, PollHolds
<1>2. \A j \in Job : OthersTodoKept(j)
  BY DEF OthersTodoKept, Known, Process, ScorersHold, ScorerHolds
<1> QED
  BY <1>1, <1>2, FreshKept, RecoveryKept, PeekedKept DEF Progress

\* A request that only moves on, or ends, and changes no row.
LEMMA SessionMoves ==
  ASSUME Known, Shape', Progress, NEW s \in Session, NEW x,
         sess' = [sess EXCEPT ![s] = x], PollHoldsNext(x),
         \A t \in Session : t # s /\ x.old # None => sess[t].old # x.old,
         UNCHANGED <<st, nextId, rec, peeked, job>>
  PROVE  Process'
<1>1. /\ FreshIds' /\ RecoveryKnows' /\ PeekedTooLate' /\ OthersRowsKept(s)
  BY RowsAlone
<1>2. PollsHold' /\ OldExclusive'
  BY <1>1, PollsKept DEF Progress
<1>3. ScorersHold' /\ OneScorer'
  BY ScorersStay DEF Progress
<1> QED
  BY <1>1, <1>2, <1>3 DEF Process

\* A request that has ended relies on nothing.
LEMMA IdleHolds ==
  /\ PollHoldsNext(IdleSession) /\ IdleSession.old = None
  /\ ScorerHoldsNext(IdleJob) /\ IdleJob.pc # "assign"
  BY DEF PollHoldsNext, PollHolds, IdleSession, ScorerHoldsNext, ScorerHolds, IdleJob

\* A request that arrives.
LEMMA ProcessRequest ==
  ASSUME Known, Shape', Progress, NEW s \in Session, NEW w \in Worker,
         RequestArrives(s, w)
  PROVE  Process'
<1>1. PICK pc \in {"pick", "clean", "arm", "expire", "write", "refused"},
           a \in AId \cup {None} :
             /\ Request(s, w, pc, a)
             /\ pc = "clean" => a \in AId /\ aw[a] = w
  BY DEF RequestArrives, PollFindsNone, PollFindsExpired, PollFindsClaim,
         AnswerRefused, AnswerLate, AnswerInTime, AnswerRow, Claims
<1> DEFINE x == [IdleSession EXCEPT !.pc = pc, !.w = w, !.a = a, !.need = required]
<1>2. x.old = None /\ x.cand = {} /\ x.pc = pc /\ x.a = a /\ x.w = w
  BY DEF IdleSession
<1>3. aw' = aw
  BY <1>1 DEF Request, rowVars
<1>4. PollHoldsNext(x)
  BY <1>1, <1>2, <1>3 DEF PollHoldsNext, PollHolds
<1>5. /\ sess' = [sess EXCEPT ![s] = x]
      /\ UNCHANGED <<st, nextId, rec, peeked, job>>
  BY <1>1 DEF Request, Goto, rowVars, mainVars, questionVars, history
<1> QED
  BY <1>2, <1>4, <1>5, SessionMoves

\* What the clean-up of the claim of poll s does to the rows of the others.
LEMMA CleanupSpares ==
  ASSUME Known, NEW s \in Session
  PROVE  /\ \A a \in AId : TimedOut(sess[s].old)[a] = "none" <=> st[a] = "none"
         /\ \A a \in AId : st[a] = "replied" => TimedOut(sess[s].old)[a] = "replied"
         /\ \A t \in Session : t # s /\ sess[t].old # None =>
              /\ sess[t].old \in AId /\ st[sess[t].old] = "claimed"
              /\ TimedOut(sess[s].old)[sess[t].old] = "claimed"
<1>1. \A t \in Session : /\ sess[t].old \in AId \cup {None}
                         /\ sess[t].old # None => st[sess[t].old] = "claimed"
  BY DEF Known, Shape, TypeOK, SessionRecord, Process, PollsHold, PollHolds
<1>2. \A t \in Session : t # s /\ sess[t].old # None => sess[t].old # sess[s].old
  BY DEF Known, Process, OldExclusive
<1> QED
  BY <1>1, <1>2, NoneAssumption DEF TimedOut

\* A poll that ends with no more than its clean-up.
LEMMA CleanupEnds ==
  ASSUME Known, Shape', Progress, NEW s \in Session, Finish(s), CommitCleanup(s),
         UNCHANGED <<nextId, rec, peeked, job>>
  PROVE  Process'
<1>1. OthersRowsKept(s)
  BY CleanupSpares DEF OthersRowsKept, CommitCleanup
<1>2. PollsHold' /\ OldExclusive'
  BY <1>1, PollsKept, IdleHolds DEF Finish, Goto, Progress
<1>3. ScorersHold' /\ OneScorer'
  BY CleanupSpares, ScorersStay DEF CommitCleanup, Progress
<1>4. FreshIds'
  BY CleanupSpares, FreshKept DEF CommitCleanup
<1> QED
  BY <1>2, <1>3, <1>4, RecoveryKept, PeekedKept DEF Process, Progress

\* A poll that commits a new assignment.
LEMMA InsertEnds ==
  ASSUME Known, Shape', Progress, NEW s \in Session, InsertCommits(s), NEW x,
         sess' = [sess EXCEPT ![s] = x], PollHoldsNext(x), x.old = None
  PROVE  Process'
<1>1. /\ nextId \in AId /\ st[nextId] = "none"
      /\ nextId' = nextId + 1
      /\ st' = [TimedOut(sess[s].old) EXCEPT ![nextId] = "claimed"]
      /\ UNCHANGED <<rec, job>>
      /\ peeked' = peeked \cup Peeking'
  BY DEF Known, Shape, TypeOK, InsertCommits, AId, Process, FreshIds, mainVars
<1>2. st'[nextId] = "claimed" /\ \A a \in AId : a # nextId => st'[a] = TimedOut(sess[s].old)[a]
  BY <1>1 DEF TimedOut
<1>3. FreshIds'
  <2>1. \A a \in AId : st'[a] = "none" <=> (st[a] = "none" /\ a # nextId)
    BY <1>1, <1>2, CleanupSpares
  <2> QED
    BY <1>1, <2>1 DEF Known, Process, FreshIds, AId
<1>4. OthersRowsKept(s)
  BY <1>1, <1>2, CleanupSpares DEF OthersRowsKept
<1>5. \A a \in AId : st[a] = "replied" => st'[a] = "replied"
  BY <1>1, <1>2, CleanupSpares
<1>6. PollsHold' /\ OldExclusive'
  BY <1>4, PollsKept DEF Progress
<1>7. ScorersHold' /\ OneScorer'
  BY <1>1, <1>5, ScorersStay DEF Progress
<1> QED
  BY <1>1, <1>3, <1>6, <1>7, RecoveryKept, PeekedKept DEF Process, Progress

\* The steps of a poll.
LEMMA ProcessPoll ==
  ASSUME Known, Shape', Progress, NEW s \in Session,
         \/ PollCleans(s) \/ PollSnapshot(s) \/ PollLocks(s) \/ PollSkipsAll(s)
         \/ PollCounts(s) \/ PollInserts(s) \/ PollRejected(s) \/ PollArms(s)
         \/ PollAborts(s) \/ PollAckLost(s)
  PROVE  Process'
<1> DEFINE y == sess[s]
<1>0. /\ y \in SessionRecord /\ GoodSession(y, st)
      /\ PollHolds(y, qstat, qauthor, st, aw)
      /\ \A t \in Session : t # s /\ y.old # None => sess[t].old # y.old
  BY DEF Known, Shape, TypeOK, SessionShape, Process, PollsHold, OldExclusive
<1>1. CASE PollCleans(s)
  <2> DEFINE x == [y EXCEPT !.pc = "pick", !.a = None,
                            !.old = IF st[y.a] = "claimed" THEN y.a ELSE None]
  <2>1. /\ sess' = [sess EXCEPT ![s] = x]
        /\ UNCHANGED <<st, nextId, rec, peeked, job, qstat, qauthor, aw>>
        /\ y.pc = "clean" /\ ~RowLocked(y.a)
    BY <1>1 DEF PollCleans, Goto, rowVars, mainVars, questionVars, history
  <2>2. /\ x.old = IF st[y.a] = "claimed" THEN y.a ELSE None
        /\ x.pc = "pick" /\ x.w = y.w /\ x.cand = y.cand
    BY <1>0 DEF SessionRecord
  <2>3. PollHoldsNext(x)
    BY <1>0, <2>1, <2>2 DEF PollHoldsNext, PollHolds
  <2>4. \A t \in Session : t # s /\ x.old # None => sess[t].old # x.old
    BY <2>1, <2>2 DEF RowLocked
  <2> HIDE DEF x
  <2> QED
    BY <2>1, <2>3, <2>4, SessionMoves
<1>2. CASE PollSnapshot(s)
  <2>1. CASE Candidates(s) = {}
    BY <1>2, <2>1, CleanupEnds DEF PollSnapshot, mainVars, questionVars, history
  <2>2. CASE Candidates(s) # {}
    <3> DEFINE x == [y EXCEPT !.pc = "lock", !.cand = Candidates(s)]
    <3>1. /\ sess' = [sess EXCEPT ![s] = x]
          /\ UNCHANGED <<st, nextId, rec, peeked, job, qstat, qauthor, aw>>
      BY <1>2, <2>2 DEF PollSnapshot, Goto, rowVars, mainVars, questionVars, history
    <3>2. x.pc = "lock" /\ x.w = y.w /\ x.cand = Candidates(s) /\ x.old = y.old
      BY <1>0 DEF SessionRecord
    <3>3. \A q \in Candidates(s) : qstat[q] # "absent" /\ qauthor[q] # y.w
      BY DEF Candidates
    <3>4. PollHoldsNext(x)
      BY <1>0, <3>1, <3>2, <3>3 DEF PollHoldsNext, PollHolds
    <3>5. \A t \in Session : t # s /\ x.old # None => sess[t].old # x.old
      BY <1>0, <3>2
    <3> HIDE DEF x
    <3> QED
      BY <3>1, <3>4, <3>5, SessionMoves
  <2> QED
    BY <2>1, <2>2
<1>3. CASE PollLocks(s)
  <2>1. PICK q \in y.cand :
          sess' = [sess EXCEPT ![s] = [y EXCEPT !.pc = "count", !.q = q, !.cand = {}]]
    BY <1>3 DEF PollLocks, Goto
  <2> DEFINE x == [y EXCEPT !.pc = "count", !.q = q, !.cand = {}]
  <2>2. UNCHANGED <<st, nextId, rec, peeked, job, qstat, qauthor, aw>>
    BY <1>3 DEF PollLocks, rowVars, mainVars, questionVars, history
  <2>3. x.pc = "count" /\ x.w = y.w /\ x.cand = {} /\ x.q = q /\ x.old = y.old
    BY <1>0 DEF SessionRecord
  <2>4. PollHoldsNext(x)
    BY <1>0, <2>2, <2>3 DEF PollHoldsNext, PollHolds
  <2>5. \A t \in Session : t # s /\ x.old # None => sess[t].old # x.old
    BY <1>0, <2>3
  <2>6. sess' = [sess EXCEPT ![s] = x]
    BY <2>1
  <2> HIDE DEF x
  <2> QED
    BY <2>2, <2>4, <2>5, <2>6, SessionMoves
<1>4. CASE PollSkipsAll(s)
  BY <1>4, CleanupEnds DEF PollSkipsAll, mainVars, questionVars, history
<1>5. CASE PollCounts(s)
  <2>1. CASE Cardinality(Active(y.q) \ {y.old}) >= y.need
    BY <1>5, <2>1, CleanupEnds DEF PollCounts, mainVars, questionVars, history
  <2>2. CASE ~(Cardinality(Active(y.q) \ {y.old}) >= y.need)
    <3> DEFINE x == [y EXCEPT !.pc = "insert"]
    <3>1. /\ sess' = [sess EXCEPT ![s] = x] /\ y.pc = "count"
          /\ UNCHANGED <<st, nextId, rec, peeked, job, qstat, qauthor, aw>>
      BY <1>5, <2>2 DEF PollCounts, Goto, rowVars, mainVars, questionVars, history
    <3>2. x.pc = "insert" /\ x.w = y.w /\ x.cand = y.cand /\ x.q = y.q /\ x.old = y.old
      BY <1>0 DEF SessionRecord
    <3>3. PollHoldsNext(x)
      BY <1>0, <3>1, <3>2 DEF PollHoldsNext, PollHolds
    <3> HIDE DEF x
    <3> QED
      BY <1>0, <3>1, <3>2, <3>3, SessionMoves
  <2> QED
    BY <2>1, <2>2
<1>6. CASE PollInserts(s)
  <2> DEFINE x == [IdleSession EXCEPT !.pc = "arm", !.w = y.w, !.a = nextId]
  <2>1. x.pc = "arm" /\ x.old = None /\ x.cand = {}
    BY DEF IdleSession
  <2>2. PollHoldsNext(x)
    BY <2>1 DEF PollHoldsNext, PollHolds
  <2>3. InsertCommits(s) /\ sess' = [sess EXCEPT ![s] = x]
    BY <1>6 DEF PollInserts, Goto
  <2> HIDE DEF x
  <2> QED
    BY <2>1, <2>2, <2>3, InsertEnds
<1>7. CASE PollRejected(s) \/ PollArms(s) \/ PollAborts(s)
  <2>1. /\ sess' = [sess EXCEPT ![s] = IdleSession]
        /\ UNCHANGED <<st, nextId, rec, peeked, job>>
    BY <1>7 DEF PollRejected, PollArms, PollAborts, Finish, Goto, rowVars, mainVars,
                questionVars, history
  <2> QED
    BY <2>1, SessionMoves, IdleHolds
<1>8. CASE PollAckLost(s)
  BY <1>8, InsertEnds, IdleHolds DEF PollAckLost, Finish, Goto
<1> QED
  BY <1>1, <1>2, <1>3, <1>4, <1>5, <1>6, <1>7, <1>8

\* A step that ends one claim, of a row nobody has locked, or answers it.
LEMMA ClaimEnds ==
  ASSUME Known, Shape', Progress, NEW a \in AId, st[a] = "claimed", ~RowLocked(a),
         st'[a] # "none", \A b \in AId : b # a => st'[b] = st[b],
         UNCHANGED <<nextId, rec, peeked>>
  PROVE  /\ FreshIds' /\ RecoveryKnows' /\ PeekedTooLate'
         /\ \A t \in Session : sess[t].old # None =>
              sess[t].old # a /\ st'[sess[t].old] = "claimed"
         /\ \A s \in Session : OthersRowsKept(s)
         /\ \A b \in AId : st[b] = "replied" => st'[b] = "replied"
         /\ \A j \in Job : OthersTodoKept(j)
<1>1. \A t \in Session : sess[t].old # None =>
        sess[t].old # a /\ st'[sess[t].old] = "claimed"
  BY DEF RowLocked, Known, Shape, TypeOK, SessionRecord, Process, PollsHold, PollHolds
<1>2. \A b \in AId : st[b] = "replied" => st'[b] = "replied"
  OBVIOUS
<1>3. \A j \in Job : OthersTodoKept(j)
  BY <1>2 DEF OthersTodoKept, Known, Shape, TypeOK, JobRecord, Process, ScorersHold,
              ScorerHolds
<1>4. \A b \in AId : st'[b] = "none" <=> st[b] = "none"
  OBVIOUS
<1> QED
  BY <1>1, <1>2, <1>3, <1>4, FreshKept, RecoveryKept, PeekedKept
  DEF OthersRowsKept, Progress

\* The steps of an answer.
LEMMA ProcessAnswer ==
  ASSUME Known, Shape', Progress, NEW s \in Session,
         \/ AnswerExpires(s) \/ (\E r \in Reply : AnswerWrites(s, r))
         \/ AnswerEnds(s) \/ (\E j \in Job : AnswerCallback(s, j))
         \/ (\E r \in Reply : AnswerAckLost(s, r))
  PROVE  Process'
<1> DEFINE y == sess[s]
           a == sess[s].a
<1>0. /\ y \in SessionRecord /\ GoodSession(y, st)
      /\ PollHolds(y, qstat, qauthor, st, aw)
      /\ \A t \in Session : t # s /\ y.old # None => sess[t].old # y.old
  BY DEF Known, Shape, TypeOK, SessionShape, Process, PollsHold, OldExclusive
<1>1. CASE AnswerExpires(s)
  <2>1. /\ a \in AId /\ ~RowLocked(a)
        /\ sess' = [sess EXCEPT ![s] = IdleSession]
        /\ UNCHANGED <<nextId, rec, peeked, job>>
    BY <1>0, <1>1 DEF GoodSession, AnswerExpires, Finish, Goto, mainVars, questionVars, history
  <2>2. CASE st[a] = "claimed"
    <3>1. st'[a] = "timed-out" /\ \A b \in AId : b # a => st'[b] = st[b]
      BY <1>1, <2>1, <2>2 DEF AnswerExpires, TimedOut
    <3>2. PollsHold' /\ OldExclusive'
      BY <2>1, <2>2, <3>1, ClaimEnds, PollsKept, IdleHolds DEF Progress
    <3>3. ScorersHold' /\ OneScorer'
      BY <2>1, <2>2, <3>1, ClaimEnds, ScorersStay DEF Progress
    <3> QED
      BY <2>1, <2>2, <3>1, <3>2, <3>3, ClaimEnds DEF Process
  <2>3. CASE st[a] # "claimed"
    BY <1>1, <2>1, <2>3, SessionMoves, IdleHolds DEF AnswerExpires
  <2> QED
    BY <2>2, <2>3
<1>2. ASSUME NEW r \in Reply, AnswerWrites(s, r) \/ AnswerAckLost(s, r)
      PROVE  Process'
  <2>1. ReplyCommits(s, r) /\ y.pc = "write"
    BY <1>2 DEF AnswerWrites, AnswerAckLost, ReplyCommits
  <2>2. /\ a \in AId /\ ~RowLocked(a) /\ st[a] = "claimed"
        /\ st'[a] = "replied" /\ \A b \in AId : b # a => st'[b] = st[b]
        /\ UNCHANGED <<nextId, rec, peeked, job, qstat, qauthor, aw>>
    BY <1>0, <2>1 DEF GoodSession, ReplyCommits, Known, Shape, TypeOK, mainVars,
                      questionVars, history
  <2>3. ScorersHold' /\ OneScorer'
    BY <2>2, ClaimEnds, ScorersStay DEF Progress
  <2> DEFINE x == [y EXCEPT !.pc = "callback"]
  <2>4. x.pc = "callback" /\ x.old = y.old /\ x.a = a /\ x.cand = y.cand /\ x.w = y.w
    BY <1>0 DEF SessionRecord
  <2>5. y.old # None => st'[y.old] = "claimed"
    BY <2>2, ClaimEnds
  <2>6. PollHoldsNext(x)
    BY <1>0, <2>2, <2>4, <2>5 DEF PollHoldsNext, PollHolds
  <2>7. sess' = [sess EXCEPT ![s] = x] \/ sess' = [sess EXCEPT ![s] = IdleSession]
    BY <1>2 DEF AnswerWrites, AnswerAckLost, Finish, Goto
  <2>8. \A t \in Session : t # s /\ x.old # None => sess[t].old # x.old
    BY <1>0, <2>4
  <2>9. OthersRowsKept(s)
    BY <2>2, ClaimEnds
  <2> HIDE DEF x
  <2>10. PollsHold' /\ OldExclusive'
    BY <2>6, <2>7, <2>8, <2>9, PollsKept, IdleHolds DEF Progress
  <2> QED
    BY <2>2, <2>3, <2>10, ClaimEnds DEF Process
<1>3. CASE AnswerEnds(s)
  <2>1. /\ sess' = [sess EXCEPT ![s] = IdleSession]
        /\ UNCHANGED <<st, nextId, rec, peeked, job>>
    BY <1>3 DEF AnswerEnds, Finish, Goto, rowVars, mainVars, questionVars, history
  <2> QED
    BY <2>1, SessionMoves, IdleHolds
<1>4. ASSUME NEW j \in Job, AnswerCallback(s, j)
      PROVE  Process'
  <2> DEFINE x == TryScoreTask(aq[a], "go")
  <2>1. /\ sess' = [sess EXCEPT ![s] = IdleSession]
        /\ job' = [job EXCEPT ![j] = x]
        /\ UNCHANGED <<st, nextId, rec, peeked, qstat>>
        /\ y.pc = "callback"
    BY <1>4 DEF AnswerCallback, Spawn, Finish, Goto, rowVars, mainVars, questionVars, history
  <2>2. qstat'[aq[a]] # "absent"
    BY <1>0, <2>1 DEF GoodSession, Known, Tables, RowsOfOthers
  <2>3. ScorerHoldsNext(x) /\ x.pc = "try"
    BY <2>2 DEF TryScoreTask, IdleJob, ScorerHoldsNext, ScorerHolds
  <2> HIDE DEF x
  <2>4. /\ FreshIds' /\ RecoveryKnows' /\ PeekedTooLate'
        /\ OthersRowsKept(s) /\ OthersTodoKept(j)
    BY <2>1, RowsAlone
  <2>5. PollsHold' /\ OldExclusive'
    BY <2>1, <2>4, PollsKept, IdleHolds DEF Progress
  <2>6. ScorersHold' /\ OneScorer'
    BY <2>1, <2>3, <2>4, ScorersKept DEF Progress
  <2> QED
    BY <2>4, <2>5, <2>6 DEF Process
<1> QED
  BY <1>1, <1>2, <1>3, <1>4

\* A background task that moves on, or ends, and changes no row.
LEMMA JobMoves ==
  ASSUME Known, Shape', Progress, NEW j \in Job, NEW x,
         job' = [job EXCEPT ![j] = x], ScorerHoldsNext(x),
         x.pc = "assign" => SoleScorer(j, x.q),
         UNCHANGED <<st, nextId, sess>>, rec' \subseteq rec,
         peeked' = peeked \/ peeked' = peeked \cup Peeking'
  PROVE  Process'
<1>1. /\ FreshIds' /\ RecoveryKnows' /\ PeekedTooLate' /\ OthersTodoKept(j)
  BY RowsAlone
<1>2. PollsHold' /\ OldExclusive'
  BY PollsStay DEF Known, Process, PollsHold, PollHolds, Progress
<1>3. ScorersHold' /\ OneScorer'
  BY <1>1, ScorersKept DEF Progress
<1> QED
  BY <1>1, <1>2, <1>3 DEF Process

\* The listed replies of a question that is not scored yet are its replies.
LEMMA ListedReplied ==
  ASSUME Known, NEW j \in Job, qstat[job[j].q] = "submitted"
  PROVE  /\ \A a \in job[j].seen : st[a] = "replied"
         /\ job[j].seen \subseteq RepliedOf(job[j].q, st, aq)
<1>1. \A a \in job[j].seen : a \in AId /\ aq[a] = job[j].q /\ st[a] \in {"replied", "scored"}
  BY DEF Known, Shape, TypeOK, JobRecord, Process, ScorersHold, ScorerHolds
<1> QED
  BY <1>1 DEF Known, Tables, RowsJudged, RepliedOf

\* The steps of a scorer that read, and a failure.
LEMMA ProcessReader ==
  ASSUME Known, Shape', Progress, NEW j \in Job,
         JobTries(j) \/ JobWeighs(j) \/ JobGets(j) \/ JobLists(j) \/ JobFails(j)
  PROVE  Process'
<1> DEFINE y == job[j]
<1>0. /\ y \in JobRecord /\ GoodJob(y, st) /\ ScorerHolds(y, qstat, basis, st, aq)
      /\ UNCHANGED <<st, nextId, sess, rec, peeked, qstat, basis, aq>>
      /\ required \in Nat
  BY NumbersType DEF Known, Shape, TypeOK, JobShape, Process, ScorersHold, JobTries, JobWeighs, JobGets,
         JobLists, JobFails, rowVars, mainVars, questionVars, history
<1>1. Replied(y.q) = RepliedOf(y.q, st, aq)
  BY DEF Replied, Rows, RepliedOf
<1>2. ASSUME NEW x, job' = [job EXCEPT ![j] = x], x.pc # "assign",
             ScorerHolds(x, qstat, basis, st, aq)
      PROVE  Process'
  <2>1. ScorerHoldsNext(x)
    BY <1>0, <1>2 DEF ScorerHoldsNext
  <2> QED
    BY <1>0, <1>2, <2>1, JobMoves
<1>3. ASSUME job' = [job EXCEPT ![j] = IdleJob]
      PROVE  Process'
  BY <1>0, <1>3, IdleHolds, JobMoves
<1>4. CASE JobTries(j)
  <2> DEFINE x == [y EXCEPT !.pc = "weigh", !.seen = Replied(y.q)]
  <2>1. x.pc = "weigh" /\ x.q = y.q /\ x.seen = RepliedOf(y.q, st, aq)
    BY <1>0, <1>1 DEF JobRecord
  <2>2. ScorerHolds(x, qstat, basis, st, aq)
    BY <1>0, <1>4, <2>1 DEF JobTries, ScorerHolds, RepliedOf
  <2>3. job' = [job EXCEPT ![j] = x]
    BY <1>4 DEF JobTries, Known, Shape, TypeOK
  <2> HIDE DEF x
  <2> QED
    BY <1>2, <2>1, <2>2, <2>3
<1>5. CASE JobWeighs(j)
  <2>1. CASE Cardinality(y.seen) >= required
    <3> DEFINE x == [y EXCEPT !.pc = "get", !.seen = {}, !.need = required]
    <3>1. x.pc = "get" /\ x.q = y.q /\ x.seen = {} /\ x.need = required
      BY <1>0 DEF JobRecord
    <3>2. ASSUME qstat[y.q] = "submitted"
          PROVE  Cardinality(RepliedOf(y.q, st, aq)) >= required
      <4>1. y.seen \subseteq RepliedOf(y.q, st, aq)
        BY <3>2, ListedReplied
      <4>2. RepliedOf(y.q, st, aq) \subseteq AId
        BY DEF RepliedOf
      <4> QED
        BY <1>0, <2>1, <4>1, <4>2, SubsetCount
    <3>3. ScorerHolds(x, qstat, basis, st, aq)
      BY <1>0, <1>5, <3>1, <3>2 DEF JobWeighs, ScorerHolds
    <3>4. job' = [job EXCEPT ![j] = x]
      <4>1. DOMAIN job = Job
        BY DEF Known, Shape, TypeOK
      <4> QED
        BY <1>5, <2>1, <4>1 DEF JobWeighs
    <3> HIDE DEF x
    <3> QED
      BY <1>2, <3>1, <3>3, <3>4
  <2>2. CASE ~(Cardinality(y.seen) >= required)
    BY <1>3, <1>5, <2>2 DEF JobWeighs, JobEnds
  <2> QED
    BY <2>1, <2>2
<1>6. CASE JobGets(j)
  <2>1. CASE qstat[y.q] = "submitted"
    <3> DEFINE x == [y EXCEPT !.pc = "list"]
    <3>1. x.pc = "list" /\ x.q = y.q /\ x.seen = y.seen /\ x.need = y.need
      BY <1>0 DEF JobRecord
    <3>2. ScorerHolds(x, qstat, basis, st, aq)
      BY <1>0, <1>6, <3>1 DEF JobGets, ScorerHolds
    <3>3. job' = [job EXCEPT ![j] = x]
      BY <1>6, <2>1 DEF JobGets, JobTo, Known, Shape, TypeOK
    <3> HIDE DEF x
    <3> QED
      BY <1>2, <3>1, <3>2, <3>3
  <2>2. CASE qstat[y.q] # "submitted"
    BY <1>3, <1>6, <2>2 DEF JobGets, JobEnds
  <2> QED
    BY <2>1, <2>2
<1>7. CASE JobLists(j)
  <2>1. CASE Replied(y.q) # {}
    <3> DEFINE x == [y EXCEPT !.pc = "cas", !.seen = Replied(y.q)]
    <3>1. /\ x.pc = "cas" /\ x.q = y.q /\ x.seen = RepliedOf(y.q, st, aq)
          /\ x.need = y.need /\ x.seen # {}
      BY <1>0, <1>1, <2>1 DEF JobRecord
    <3>2. ScorerHolds(x, qstat, basis, st, aq)
      BY <1>0, <1>7, <3>1 DEF JobLists, ScorerHolds, RepliedOf
    <3>3. job' = [job EXCEPT ![j] = x]
      BY <1>7, <2>1 DEF JobLists, Known, Shape, TypeOK
    <3> HIDE DEF x
    <3> QED
      BY <1>2, <3>1, <3>2, <3>3
  <2>2. CASE Replied(y.q) = {}
    BY <1>3, <1>7, <2>2 DEF JobLists
  <2> QED
    BY <2>1, <2>2
<1>8. CASE JobFails(j)
  BY <1>3, <1>8 DEF JobFails, JobEnds
<1> QED
  BY <1>4, <1>5, <1>6, <1>7, <1>8

\* handleTimeout's UPDATE.
LEMMA ProcessTimeout ==
  ASSUME Known, Shape', Progress, NEW j \in Job, JobTimesOut(j)
  PROVE  Process'
<1> DEFINE y == job[j]
           a == job[j].a
<1>1. /\ a \in AId /\ ~RowLocked(a)
      /\ ScorerHolds(y, qstat, basis, st, aq) /\ y.pc = "timeout"
      /\ UNCHANGED <<nextId, sess, rec, peeked, qstat>>
  BY DEF Known, Shape, JobShape, GoodJob, Process, ScorersHold, JobTimesOut, mainVars,
         questionVars, history
<1>2. CASE st[a] = "claimed"
  <2> DEFINE x == TryScoreTask(y.q, "go")
  <2>1. ScorerHoldsNext(x) /\ x.pc = "try"
    BY <1>1 DEF TryScoreTask, IdleJob, ScorerHoldsNext, ScorerHolds
  <2>2. /\ st'[a] = "timed-out" /\ \A b \in AId : b # a => st'[b] = st[b]
        /\ job' = [job EXCEPT ![j] = x]
    BY <1>1, <1>2 DEF JobTimesOut, TimedOut, Known, Shape, TypeOK
  <2> HIDE DEF x
  <2>3. ScorersHold' /\ OneScorer'
    BY <1>1, <1>2, <2>1, <2>2, ClaimEnds, ScorersKept DEF Progress
  <2>4. PollsHold' /\ OldExclusive'
    BY <1>1, <1>2, <2>2, ClaimEnds, PollsStay DEF Progress
  <2> QED
    BY <1>1, <1>2, <2>2, <2>3, <2>4, ClaimEnds DEF Process
<1>3. CASE st[a] # "claimed"
  BY <1>1, <1>3, JobMoves, IdleHolds DEF JobTimesOut, JobEnds
<1> QED
  BY <1>2, <1>3

\* Store.ScoreQuestion: of all tasks for a question, the one that finds it
\* submitted goes on.
LEMMA ProcessScore ==
  ASSUME Known, Shape', Progress, NEW j \in Job, JobScoresQuestion(j)
  PROVE  Process'
<1> DEFINE y == job[j]
<1>1. /\ y \in JobRecord /\ y.q \in Question /\ y.pc = "cas"
      /\ ScorerHolds(y, qstat, basis, st, aq)
      /\ UNCHANGED <<st, nextId, sess, rec, aq>>
      /\ peeked' = peeked \cup Peeking'
  BY DEF Known, Shape, TypeOK, JobShape, GoodJob, Process, ScorersHold, JobScoresQuestion,
         rowVars, mainVars
<1>2. CASE qstat[y.q] = "submitted"
  <2> DEFINE x == [y EXCEPT !.pc = "assign", !.todo = y.seen]
  <2>1. x.pc = "assign" /\ x.q = y.q /\ x.seen = y.seen /\ x.todo = y.seen
    BY <1>1 DEF JobRecord
  <2>2. /\ qstat'[y.q] = "scored" /\ basis'[y.q] = y.seen
        /\ job' = [job EXCEPT ![j] = x]
    <3>1. /\ qstat' = [qstat EXCEPT ![y.q] = "scored"]
          /\ basis' = [basis EXCEPT ![y.q] = y.seen]
          /\ job' = [job EXCEPT ![j].pc = "assign", ![j].todo = y.seen]
      BY <1>2 DEF JobScoresQuestion
    <3>2. job' = [job EXCEPT ![j] = x]
      BY <3>1 DEF Known, Shape, TypeOK
    <3>3. DOMAIN qstat = Question /\ DOMAIN basis = Question
      BY DEF Known, Shape, TypeOK
    <3> QED
      BY <1>1, <3>1, <3>2, <3>3
  <2>3. ScorerHoldsNext(x)
    BY <1>1, <1>2, <2>1, <2>2, ListedReplied DEF ScorerHoldsNext, ScorerHolds
  <2>4. SoleScorer(j, x.q)
    BY <1>2, <2>1 DEF SoleScorer, Known, Process, ScorersHold, ScorerHolds
  <2> HIDE DEF x
  <2> QED
    BY <1>1, <2>2, <2>3, <2>4, JobMoves
<1>3. CASE qstat[y.q] # "submitted"
  BY <1>1, <1>3, JobMoves, IdleHolds DEF JobScoresQuestion, JobEnds
<1> QED
  BY <1>2, <1>3

\* SetAssignmentScore: the rows other scorers have to score belong to other
\* questions.
LEMMA ProcessAward ==
  ASSUME Known, Shape', Progress, NEW j \in Job, JobScoresAssignment(j)
  PROVE  Process'
<1> DEFINE y == job[j]
<1>1. PICK a \in y.todo :
        /\ a \in AId /\ Life!Award(a)
        /\ st' = [st EXCEPT ![a] = "scored"]
        /\ job' = [job EXCEPT ![j] = IF y.todo = {a} THEN IdleJob
                                     ELSE [y EXCEPT !.todo = y.todo \ {a}]]
  BY AwardIsLife
<1>2. /\ y \in JobRecord /\ GoodJob(y, st) /\ y.pc = "assign"
      /\ ScorerHolds(y, qstat, basis, st, aq)
      /\ UNCHANGED <<nextId, sess, rec, peeked, qstat, basis, aq>>
      /\ st[a] = "replied" /\ aq[a] = y.q
  BY DEF Known, Shape, TypeOK, JobShape, GoodJob, Process, ScorersHold, ScorerHolds,
         JobScoresAssignment, mainVars, questionVars, history
<1>3. st'[a] = "scored" /\ \A b \in AId : b # a => st'[b] = st[b]
  BY <1>1 DEF Known, Shape, TypeOK
<1>4. \A t \in Session : sess[t].old # None => st'[sess[t].old] = "claimed"
  BY <1>2, <1>3 DEF Known, Shape, TypeOK, SessionRecord, Process, PollsHold, PollHolds
<1>5. PollsHold' /\ OldExclusive'
  BY <1>2, <1>4, PollsStay DEF Progress
<1>6. OthersTodoKept(j)
  <2>1. ASSUME NEW k \in Job, k # j, job[k].pc = "assign", NEW b \in job[k].todo
        PROVE  st'[b] = "replied"
    <3>1. b \in AId /\ st[b] = "replied" /\ aq[b] = job[k].q /\ job[k].q # y.q
      BY <1>2, <2>1 DEF Known, Shape, TypeOK, JobRecord, JobShape, GoodJob, Process,
                        ScorersHold, ScorerHolds, OneScorer
    <3> QED
      BY <1>2, <1>3, <3>1
  <2> QED
    BY <2>1 DEF OthersTodoKept
<1>7. SoleScorer(j, y.q)
  BY <1>2 DEF SoleScorer, Known, Process, OneScorer
<1>8. ScorersHold' /\ OneScorer'
  <2>1. CASE y.todo = {a}
    BY <1>1, <1>6, <2>1, IdleHolds, ScorersKept DEF Progress
  <2>2. CASE y.todo # {a}
    <3> DEFINE x == [y EXCEPT !.todo = y.todo \ {a}]
    <3>1. x.pc = "assign" /\ x.q = y.q /\ x.seen = y.seen /\ x.todo = y.todo \ {a}
      BY <1>2 DEF JobRecord
    <3>2. \A b \in y.seen : b \in AId
      BY <1>2 DEF JobRecord
    <3>3. ScorerHoldsNext(x)
      BY <1>2, <1>3, <3>1, <3>2 DEF ScorerHoldsNext, ScorerHolds, GoodJob
    <3>4. job' = [job EXCEPT ![j] = x]
      BY <1>1, <2>2
    <3> HIDE DEF x
    <3> QED
      BY <1>6, <1>7, <3>1, <3>3, <3>4, ScorersKept DEF Progress
  <2> QED
    BY <2>1, <2>2
<1>9. FreshIds'
  BY <1>2, <1>3, FreshKept
<1> QED
  BY <1>2, <1>5, <1>8, <1>9, RecoveryKept, PeekedKept DEF Process, Progress

\* Submissions, configuration changes, deadlines, timers, crashes and recovery.
LEMMA ProcessOther ==
  ASSUME Known, Shape', Progress,
         \/ \E q \in Question, w \in Questioner : SubmitQuestion(q, w)
         \/ \E n \in Choices : ChangeRequired(n)
         \/ \E a \in AId : DeadlinePasses(a)
         \/ \E a \in AId, j \in Job : TimerFires(a, j)
         \/ Crash \/ MainStep
         \/ UNCHANGED vars
  PROVE  Process'
<1>1. UNCHANGED <<st, nextId, peeked>>
  BY DEF SubmitQuestion, ChangeRequired, DeadlinePasses, TimerFires, Crash, MainStep, Restart,
         RecoverScan, RecoverScore, Serve, vars, rowVars, questionVars, history
<1>2. ASSUME sess' = sess, job' = job, rec' = rec
      PROVE  Process'
  <2>1. PollsHold' /\ OldExclusive'
    BY <1>1, <1>2, PollsStay DEF Known, Process, PollsHold, PollHolds, Progress
  <2>2. ScorersHold' /\ OneScorer'
    BY <1>1, <1>2, ScorersStay DEF Progress
  <2> QED
    BY <1>1, <1>2, <2>1, <2>2, RowsAlone, RecoveryKept, FreshKept, PeekedKept
    DEF Process, Progress
<1>3. CASE \/ \E q \in Question, w \in Questioner : SubmitQuestion(q, w)
           \/ \E n \in Choices : ChangeRequired(n)
           \/ \E a \in AId : DeadlinePasses(a)
           \/ \E n \in Numbers : Restart(n)
           \/ Serve \/ UNCHANGED vars
  BY <1>2, <1>3 DEF SubmitQuestion, ChangeRequired, DeadlinePasses, Restart, Serve, vars,
                    mainVars
<1>4. ASSUME NEW a \in AId, NEW j \in Job, TimerFires(a, j)
      PROVE  Process'
  <2>1. sess' = sess /\ rec' = rec /\ UNCHANGED <<qstat, aq>>
    BY <1>4 DEF TimerFires, mainVars, questionVars, rowVars
  <2>2. CASE st[a] = "claimed"
    <3> DEFINE x == [IdleJob EXCEPT !.pc = "timeout", !.q = aq[a], !.a = a]
    <3>1. qstat'[aq[a]] # "absent"
      BY <2>1, <2>2 DEF Known, Tables, RowsOfOthers
    <3>2. ScorerHoldsNext(x) /\ x.pc = "timeout"
      BY <3>1 DEF IdleJob, ScorerHoldsNext, ScorerHolds
    <3>3. job' = [job EXCEPT ![j] = x]
      BY <1>4, <2>2 DEF TimerFires, Spawn
    <3> HIDE DEF x
    <3> QED
      BY <1>1, <2>1, <3>2, <3>3, JobMoves
  <2>3. CASE st[a] # "claimed"
    BY <1>2, <1>4, <2>1, <2>3 DEF TimerFires
  <2> QED
    BY <2>2, <2>3
<1>5. CASE Crash
  <2>1. PollsHold' /\ OldExclusive'
    BY <1>5, PollsStay DEF Crash, Progress
  <2>2. ScorersHold' /\ OneScorer'
    BY <1>5, ScorersStay DEF Crash, Progress
  <2>3. rec' \subseteq rec
    BY <1>5 DEF Crash
  <2> QED
    BY <1>1, <2>1, <2>2, <2>3, RowsAlone DEF Process
<1>6. CASE RecoverScan
  <2>1. sess' = sess /\ job' = job /\ qstat' = qstat
    BY <1>6 DEF RecoverScan, questionVars
  <2>2. PollsHold' /\ OldExclusive'
    BY <1>1, <2>1, PollsStay DEF Known, Process, PollsHold, PollHolds, Progress
  <2>3. ScorersHold' /\ OneScorer'
    BY <1>1, <2>1, ScorersStay DEF Progress
  <2>4. RecoveryKnows'
    BY <1>6, <2>1 DEF RecoverScan, RecoveryKnows
  <2> QED
    BY <1>1, <2>2, <2>3, <2>4, FreshKept, PeekedKept DEF Process, Progress
<1>7. ASSUME NEW j \in Job, RecoverScore(j)
      PROVE  Process'
  <2>1. PICK q \in rec : rec' = rec \ {q} /\ Spawn(j, TryScoreTask(q, "main"))
    BY <1>7 DEF RecoverScore
  <2> DEFINE x == TryScoreTask(q, "main")
  <2>2. UNCHANGED <<sess, qstat>>
    BY <1>7 DEF RecoverScore, questionVars
  <2>3. ScorerHoldsNext(x) /\ x.pc = "try"
    BY <2>2 DEF TryScoreTask, IdleJob, ScorerHoldsNext, ScorerHolds, Known, Process,
                RecoveryKnows
  <2>4. job' = [job EXCEPT ![j] = x]
    BY <2>1 DEF Spawn
  <2> HIDE DEF x
  <2> QED
    BY <1>1, <2>1, <2>2, <2>3, <2>4, JobMoves
<1> QED
  BY <1>3, <1>4, <1>5, <1>6, <1>7 DEF MainStep

\* Every step keeps what is known.
LEMMA KnownNext == Known /\ [Next]_vars => Known' /\ Progress
<1> SUFFICES ASSUME Known, [Next]_vars PROVE Known' /\ Progress
  OBVIOUS
<1>1. Shape' /\ Room' /\ Progress
  BY StepKeeps
<1>2. ASSUME NEW s \in Session, SessionStep(s) \/ Fault(s) PROVE Process'
  BY <1>1, <1>2, ProcessPoll, ProcessAnswer DEF SessionStep, Fault
<1>3. ASSUME NEW j \in Job, JobStep(j) \/ JobFails(j) PROVE Process'
  BY <1>1, <1>3, ProcessTimeout, ProcessReader, ProcessScore, ProcessAward DEF JobStep
<1>4. Process'
  BY <1>1, <1>2, <1>3, ProcessRequest, ProcessOther DEF Next
<1> QED
  BY <1>1, <1>4 DEF Known, Progress

\* Nothing has been submitted, assigned or asked for.
LEMMA InitKnown == Init => Known
<1> SUFFICES ASSUME Init PROVE Known
  OBVIOUS
<1>1. Tables
  BY DEF Init, Tables, RowsOfOthers, RepliesStored, QuestionsJudged, BasisOfScored,
         RowsJudged
<1>2. PollsHold /\ OldExclusive
  BY DEF Init, PollsHold, PollHolds, OldExclusive, IdleSession
<1>3. ScorersHold /\ OneScorer
  BY DEF Init, ScorersHold, ScorerHolds, OneScorer, IdleJob
<1>4. FreshIds /\ RecoveryKnows /\ PeekedTooLate
  BY BoundAssumption DEF Init, FreshIds, RecoveryKnows, PeekedTooLate, AId
<1> QED
  BY <1>1, <1>2, <1>3, <1>4, InitShape, InitRoom DEF Known, Process
----------------------------------------------------------------------------
(* The theorems. *)

\* The inductive invariant.
LEMMA AlwaysKnown == Spec => []Known
  BY InitKnown, KnownNext, PTL DEF Spec

\* Whoever races for an assignment (its worker's answer, its timer, an orphaned
\* timer, the next poll, a scorer), its status only moves forward, and an
\* accepted reply is never lost or changed: by the conditions of the UPDATEs,
\* the row locks, and the one scorer that wins a question.
THEOREM StatusesMoveForward == Spec => AssignmentsMoveForward
<1>1. Spec => [][Forward]_vars
  BY AlwaysKnown, KnownNext, PTL DEF Spec, Progress
<1> QED
  BY <1>1, PTL DEF AssignmentsMoveForward, Forward

\* The flow implements QuestionLife: polls, answers, timers, scorers, faults,
\* crashes and configuration changes do to questions and assignments only what
\* its steps allow.
THEOREM FlowImplementsLife == Spec => ImplementsLife
<1>1. Init => Life!Init
  BY DEF Init, Life!Init
<1>2. Known /\ [Next]_vars => [Life!Next]_Life!vars
  BY StepIsLife
<1> QED
  BY <1>1, <1>2, AlwaysKnown, PTL DEF Spec, ImplementsLife, Life!Spec

\* The replies a question was scored on are no fewer than its scorer asked for.
BarMet ==
  \A q \in Question : qstat[q] = "scored" => Cardinality(basis[q]) >= bar[q]

\* The number is recorded with the UPDATE that wins the question, and the list
\* the scorer works on has met it; nothing else touches a scored question.
LEMMA BarStep == Known /\ BarMet /\ [Next]_vars => BarMet'
<1> SUFFICES ASSUME Known, BarMet, [Next]_vars PROVE BarMet'
  OBVIOUS
<1> USE DEF questionVars, history
<1>1. ASSUME UNCHANGED <<qstat, basis, bar>> PROVE BarMet'
  BY <1>1 DEF BarMet
<1>2. ASSUME NEW q \in Question, NEW w \in Questioner, SubmitQuestion(q, w) PROVE BarMet'
  BY <1>2 DEF SubmitQuestion, BarMet, Known, Shape, TypeOK
<1>3. ASSUME NEW j \in Job, JobScoresQuestion(j) PROVE BarMet'
  <2>1. CASE qstat[job[j].q] = "submitted"
    <3>1. job[j].pc = "cas" /\ Cardinality(job[j].seen) >= job[j].need
      BY <1>3, <2>1 DEF JobScoresQuestion, Known, Process, ScorersHold, ScorerHolds
    <3>2. ASSUME NEW q \in Question, qstat'[q] = "scored"
          PROVE  Cardinality(basis'[q]) >= bar'[q]
      <4>1. CASE q = job[j].q
        <5>1. basis'[q] = job[j].seen /\ bar'[q] = job[j].need
          BY <1>3, <2>1, <4>1 DEF JobScoresQuestion, Known, Shape, TypeOK
        <5> QED
          BY <3>1, <5>1
      <4>2. CASE q # job[j].q
        <5>1. qstat'[q] = qstat[q] /\ basis'[q] = basis[q] /\ bar'[q] = bar[q]
          BY <1>3, <2>1, <4>2 DEF JobScoresQuestion, Known, Shape, TypeOK
        <5> QED
          BY <3>2, <5>1 DEF BarMet
      <4> QED
        BY <4>1, <4>2
    <3> QED
      BY <3>2 DEF BarMet
  <2>2. CASE qstat[job[j].q] # "submitted"
    BY <1>1, <1>3, <2>2 DEF JobScoresQuestion
  <2> QED
    BY <2>1, <2>2
<1>4. ASSUME NEW j \in Job, JobStep(j) \/ JobFails(j) PROVE BarMet'
  BY <1>1, <1>3, <1>4 DEF JobStep, JobTimesOut, JobTries, JobWeighs, JobGets, JobLists,
                          JobScoresAssignment, JobFails
<1>5. ASSUME NEW s \in Session, SessionStep(s) \/ Fault(s) PROVE BarMet'
  BY <1>1, <1>5 DEF SessionStep, Fault, PollCleans, PollSnapshot, PollLocks, PollSkipsAll,
      PollCounts, PollInserts, InsertCommits, PollRejected, PollAckLost, PollArms, PollAborts,
      AnswerExpires, AnswerWrites, AnswerAckLost, ReplyCommits, AnswerEnds, AnswerCallback
<1>6. ASSUME NEW s \in Session, NEW w \in Worker, RequestArrives(s, w) PROVE BarMet'
  BY <1>1, <1>6 DEF RequestArrives, PollFindsNone, PollFindsExpired, PollFindsClaim,
      AnswerRefused, AnswerLate, AnswerInTime, AnswerRow, Request
<1>7. ASSUME \/ \E n \in Choices : ChangeRequired(n)
             \/ \E a \in AId : DeadlinePasses(a)
             \/ \E a \in AId, j \in Job : TimerFires(a, j)
             \/ Crash \/ MainStep \/ UNCHANGED vars
      PROVE  BarMet'
  BY <1>1, <1>7 DEF ChangeRequired, DeadlinePasses, TimerFires, Crash, MainStep, Restart,
      RecoverScan, RecoverScore, Serve, vars
<1> QED
  BY <1>2, <1>4, <1>5, <1>6, <1>7 DEF Next

\* A scored question was scored on replies that are there, at least one and no
\* fewer than the number its scorer had compared the count of an earlier list
\* with, and its score and share, and those of each of its scored rows, are what
\* that set of replies gives, whichever scorers raced for it, failed or crashed
\* half-way.
THEOREM ScoresMatchReplies == Spec => []ScoreMatchesReplies
<1>1. ASSUME Known, BarMet PROVE ScoreMatchesReplies
  <2>1. ASSUME NEW q \in Question, qstat[q] = "scored"
        PROVE  /\ Cardinality(basis[q]) >= bar[q]
               /\ Cardinality(basis[q]) \in 1 .. Most
               /\ \A a \in basis[q] : st[a] \in {"replied", "scored"}
               /\ qres[q] = QuestionerScore([a \in basis[q] |-> reply[a]])
    BY <1>1, <2>1 DEF Known, Tables, QuestionsJudged, BasisReplies, BarMet
  <2>2. ASSUME NEW q \in Question, NEW a \in Rows(q), st[a] = "scored"
        PROVE  /\ a \in basis[q]
               /\ ares[a] = AnswererScore([b \in basis[q] |-> reply[b]], a)
    BY <1>1, <2>2 DEF Rows, Known, Tables, RowsJudged, BasisReplies
  <2> QED
    BY <2>1, <2>2 DEF ScoreMatchesReplies
<1>2. Init => BarMet
  BY DEF Init, BarMet
<1>3. Spec => []BarMet
  BY <1>2, AlwaysKnown, BarStep, PTL DEF Spec
<1> QED
  BY <1>1, <1>3, AlwaysKnown, PTL

\* A claim that was open when its worker could already read the answer is never
\* scored: it came too late for the basis, and no row joins a basis later.
THEOREM PeekingNeverPays == Spec => []NoPeeking
<1>1. Known => NoPeeking
  BY DEF Known, Shape, TypeOK, Process, PeekedTooLate, Tables, RowsJudged, NoPeeking
<1> QED
  BY <1>1, AlwaysKnown, PTL
----------------------------------------------------------------------------
(* Nothing is forgotten: every claim on an open question is watched, and every
   open question that has all its replies is about to be scored. *)

\* Somebody is going to time row a out, or to start a timer for it.
Watched(a) ==
  \/ pending[a] > 0
  \/ \E s \in Session : sess[s].pc = "arm" /\ sess[s].a = a
  \/ \E j \in Job : job[j].pc = "timeout" /\ job[j].a = a

\* A step of a request that was not about to start a timer ...
LEMMA WatchSession ==
  ASSUME Shape, NEW s \in Session, NEW x, sess' = [sess EXCEPT ![s] = x],
         sess[s].pc # "arm", UNCHANGED <<pending, job>>, NEW a, Watched(a)
  PROVE  Watched(a)'
  BY DEF Watched, Shape, TypeOK

\* ... and of a task that was not about to time a row out lose no watch.
LEMMA WatchJob ==
  ASSUME Shape, NEW j \in Job, NEW x, job' = [job EXCEPT ![j] = x],
         job[j].pc # "timeout", UNCHANGED <<pending, sess>>, NEW a, Watched(a)
  PROVE  Watched(a)'
  BY DEF Watched, Shape, TypeOK

\* An open claim was there before the step, or the step inserted it.
LEMMA ClaimBefore ==
  ASSUME Known, Progress, NEW a \in AId, st'[a] = "claimed",
         qstat'[aq'[a]] = "submitted", st[a] # "none"
  PROVE  st[a] = "claimed" /\ qstat[aq[a]] = "submitted"
<1>1. st[a] = "claimed" /\ aq'[a] = aq[a] /\ aq[a] \in Question
  BY DEF Known, Shape, RowShape, Progress, Forward, Advance
<1>2. qstat[aq[a]] \in QStatus /\ qstat[aq[a]] # "absent"
  BY <1>1 DEF Known, Shape, TypeOK, Tables, RowsOfOthers
<1> QED
  BY <1>1, <1>2 DEF Progress, Advance, QStatus

\* What has to be shown of a step: the watch of a claim it leaves open is kept,
\* and a claim it creates is watched.
LEMMA WatchBy ==
  ASSUME Known, Progress, ClaimWatched,
         faults' = 0 => faults = 0,
         server' # "down" => server # "down",
         \A a \in AId : /\ faults' = 0 /\ server' # "down"
                        /\ st[a] = "claimed" /\ st'[a] = "claimed"
                        /\ Watched(a)
                        => Watched(a)',
         \A a \in AId : faults' = 0 /\ st[a] = "none" /\ st'[a] = "claimed" => Watched(a)'
  PROVE  ClaimWatched'
<1>1. ASSUME NEW a \in AId, faults' = 0, server' # "down", st'[a] = "claimed",
             qstat'[aq'[a]] = "submitted"
      PROVE  Watched(a)'
  <2>1. CASE st[a] = "none"
    BY <1>1, <2>1
  <2>2. CASE st[a] # "none"
    <3>1. st[a] = "claimed" /\ qstat[aq[a]] = "submitted"
      BY <1>1, <2>2, ClaimBefore
    <3>2. Watched(a)
      BY <1>1, <3>1 DEF ClaimWatched, Watched
    <3> QED
      BY <1>1, <3>1, <3>2
  <2> QED
    BY <2>1, <2>2
<1> QED
  BY <1>1 DEF ClaimWatched, Watched

\* The same for a step that creates no row.
LEMMA WatchKept ==
  ASSUME Known, Known', Progress, ClaimWatched, nextId' = nextId,
         faults' = faults \/ faults' = faults + 1,
         server' # "down" => server # "down",
         \A a \in AId : /\ faults' = 0 /\ server' # "down"
                        /\ st[a] = "claimed" /\ st'[a] = "claimed"
                        /\ Watched(a)
                        => Watched(a)'
  PROVE  ClaimWatched'
<1>1. \A a \in AId : st[a] = "none" => st'[a] = "none"
  BY DEF Known, Process, FreshIds
<1>2. faults' = 0 => faults = 0
  BY BoundAssumption DEF Known, Shape, TypeOK
<1> QED
  BY <1>1, <1>2, WatchBy

\* The steps of a request.
LEMMA WatchRequests ==
  ASSUME Known, Known', Progress, ClaimWatched, NEW s \in Session,
         (\E w \in Worker : RequestArrives(s, w)) \/ SessionStep(s) \/ Fault(s)
  PROVE  ClaimWatched'
<1> USE DEF Goto, Finish, rowVars, timerVars, mainVars
<1>1. ASSUME NEW x, sess' = [sess EXCEPT ![s] = x], sess[s].pc # "arm",
             UNCHANGED <<pending, job, nextId, server>>,
             faults' = faults \/ faults' = faults + 1
      PROVE  ClaimWatched'
  BY <1>1, WatchSession, WatchKept DEF Known
<1>2. CASE \E w \in Worker : RequestArrives(s, w)
  <2>1. PICK w \in Worker : \E pc, a : Request(s, w, pc, a)
    BY <1>2 DEF RequestArrives, PollFindsNone, PollFindsExpired, PollFindsClaim,
                AnswerRefused, AnswerLate, AnswerInTime, AnswerRow
  <2>2. PICK pc, a : Request(s, w, pc, a)
    BY <2>1
  <2> DEFINE x == [IdleSession EXCEPT !.pc = pc, !.w = w, !.a = a, !.need = required]
  <2>3. /\ sess' = [sess EXCEPT ![s] = x] /\ sess[s].pc # "arm"
        /\ UNCHANGED <<pending, job, nextId, server>> /\ faults' = faults
    BY <2>2 DEF Request
  <2> HIDE DEF x
  <2> QED
    BY <1>1, <2>3
<1>3. CASE PollCleans(s) \/ PollSnapshot(s) \/ PollLocks(s) \/ PollSkipsAll(s) \/ PollCounts(s)
           \/ PollRejected(s) \/ PollAborts(s) \/ AnswerExpires(s) \/ AnswerEnds(s)
           \/ \E r \in Reply : AnswerWrites(s, r) \/ AnswerAckLost(s, r)
  <2>1. sess[s].pc # "arm" /\ \E x : sess' = [sess EXCEPT ![s] = x]
    BY <1>3 DEF PollCleans, PollSnapshot, PollLocks, PollSkipsAll, PollCounts, PollRejected,
                PollAborts, PollPC, AnswerExpires, AnswerEnds, AnswerWrites, AnswerAckLost,
                ReplyCommits
  <2>2. UNCHANGED <<pending, job, nextId, server>> /\ (faults' = faults \/ faults' = faults + 1)
    BY <1>3 DEF PollCleans, PollSnapshot, PollLocks, PollSkipsAll, PollCounts, PollRejected,
                PollAborts, AnswerExpires, AnswerEnds, AnswerWrites, AnswerAckLost, ReplyCommits
  <2> QED
    BY <1>1, <2>1, <2>2
<1>4. CASE PollInserts(s)
  <2>1. /\ sess[s].pc = "insert" /\ nextId \in AId
        /\ nextId' = nextId + 1
        /\ UNCHANGED <<pending, job, server, faults>>
        /\ sess' = [sess EXCEPT ![s] = [IdleSession EXCEPT !.pc = "arm", !.w = sess[s].w,
                                                           !.a = nextId]]
    BY <1>4, InsertIsLife DEF PollInserts, InsertCommits
  <2>2. sess'[s].pc = "arm" /\ sess'[s].a = nextId
    BY <2>1 DEF IdleSession, Known, Shape, TypeOK
  <2>3. \A a \in AId : a = nextId => Watched(a)'
    BY <2>1, <2>2 DEF Watched
  <2>4. \A a \in AId : Watched(a) => Watched(a)'
    BY <2>1, WatchSession DEF Known
  <2>5. \A a \in AId : st[a] = "none" /\ st'[a] = "claimed" => a = nextId
    BY <2>1 DEF Known, Shape, TypeOK, Process, FreshIds, AId
  <2> QED
    BY <2>1, <2>3, <2>4, <2>5, WatchBy
<1>5. CASE PollAckLost(s)
  <2>1. faults' = faults + 1 /\ faults \in Nat
    BY <1>5, BoundAssumption DEF PollAckLost, Known, Shape, TypeOK
  <2> QED
    BY <2>1 DEF ClaimWatched
<1>6. CASE PollArms(s)
  <2>1. /\ sess' = [sess EXCEPT ![s] = IdleSession]
        /\ pending' = [pending EXCEPT ![sess[s].a] = @ + 1]
        /\ sess[s].a \in AId
        /\ UNCHANGED <<job, nextId, server, faults>>
    BY <1>6 DEF PollArms, Known, Shape, SessionShape, GoodSession
  <2>2. ASSUME NEW a \in AId, Watched(a) PROVE Watched(a)'
    <3>1. /\ pending'[a] >= pending[a] /\ pending[a] \in Nat
          /\ a = sess[s].a => pending'[a] > 0
          /\ pending'[a] \in Nat
      BY <2>1 DEF Known, Shape, TypeOK
    <3>2. \A t \in Session : t # s => sess'[t] = sess[t]
      BY <2>1 DEF Known, Shape, TypeOK
    <3> QED
      BY <2>1, <2>2, <3>1, <3>2 DEF Watched
  <2> QED
    BY <2>1, <2>2, WatchKept
<1>7. ASSUME NEW j \in Job, AnswerCallback(s, j)
      PROVE  ClaimWatched'
  <2>1. /\ sess' = [sess EXCEPT ![s] = IdleSession] /\ sess[s].pc = "callback"
        /\ job' = [job EXCEPT ![j] = TryScoreTask(aq[sess[s].a], "go")] /\ job[j] = IdleJob
        /\ UNCHANGED <<nextId, server, faults>>
        /\ \A a \in AId : a # sess[s].a => pending'[a] = pending[a]
    BY <1>7 DEF AnswerCallback, Spawn, Known, Shape, TypeOK
  <2>2. st[sess[s].a] # "claimed"
    BY <2>1 DEF Known, Process, PollsHold, PollHolds
  <2>3. ASSUME NEW a \in AId, st[a] = "claimed", Watched(a) PROVE Watched(a)'
    <3>1. pending'[a] = pending[a]
      BY <2>1, <2>2, <2>3
    <3>2. /\ \A t \in Session : t # s => sess'[t] = sess[t]
          /\ \A k \in Job : k # j => job'[k] = job[k]
      BY <2>1 DEF Known, Shape, TypeOK
    <3> QED
      BY <2>1, <2>3, <3>1, <3>2 DEF Watched, IdleJob
  <2> QED
    BY <2>1, <2>3, WatchKept
<1> QED
  BY <1>2, <1>3, <1>4, <1>5, <1>6, <1>7 DEF SessionStep, Fault

\* The steps of a background task.
LEMMA WatchJobs ==
  ASSUME Known, Known', Progress, ClaimWatched, NEW j \in Job, JobStep(j) \/ JobFails(j)
  PROVE  ClaimWatched'
<1> USE DEF rowVars, timerVars, mainVars
<1>1. CASE JobTimesOut(j)
  <2>1. /\ job[j].pc = "timeout" /\ job[j].a \in AId
        /\ st'[job[j].a] # "claimed"
        /\ UNCHANGED <<pending, sess, nextId, server, faults>>
    BY <1>1 DEF JobTimesOut, TimedOut, Known, Shape, JobShape, GoodJob
  <2>2. \A k \in Job : k # j => job'[k] = job[k]
    BY <1>1 DEF JobTimesOut, JobEnds, Known, Shape, TypeOK
  <2>3. \A a \in AId : st'[a] = "claimed" /\ Watched(a) => Watched(a)'
    BY <2>1, <2>2 DEF Watched
  <2> QED
    BY <2>1, <2>3, WatchKept
<1>2. CASE \/ JobTries(j) \/ JobWeighs(j) \/ JobGets(j) \/ JobLists(j)
           \/ JobScoresQuestion(j) \/ JobScoresAssignment(j)
  <2>1. /\ job[j].pc # "timeout"
        /\ UNCHANGED <<pending, sess, nextId, server, faults>>
    BY <1>2 DEF JobTries, JobWeighs, JobGets, JobLists, JobScoresQuestion, JobScoresAssignment
  <2>2. \A k \in Job : k # j => job'[k] = job[k]
    BY <1>2 DEF JobTries, JobWeighs, JobGets, JobLists, JobScoresQuestion,
                JobScoresAssignment, JobTo, JobEnds, Known, Shape, TypeOK
  <2>3. \A a \in AId : Watched(a) => Watched(a)'
    BY <2>1, <2>2 DEF Watched
  <2> QED
    BY <2>1, <2>3, WatchKept
<1>3. CASE JobFails(j)
  <2>1. faults' = faults + 1 /\ faults \in Nat
    BY <1>3, BoundAssumption DEF JobFails, Known, Shape, TypeOK
  <2> QED
    BY <2>1 DEF ClaimWatched
<1> QED
  BY <1>1, <1>2, <1>3 DEF JobStep

\* Submissions, configuration changes, deadlines, timers, crashes, recovery.
LEMMA WatchOther ==
  ASSUME Known, Known', Progress, ClaimWatched,
         \/ \E q \in Question, w \in Questioner : SubmitQuestion(q, w)
         \/ \E n \in Choices : ChangeRequired(n)
         \/ \E a \in AId : DeadlinePasses(a)
         \/ \E a \in AId, j \in Job : TimerFires(a, j)
         \/ Crash \/ MainStep
         \/ UNCHANGED vars
  PROVE  ClaimWatched'
<1> USE DEF rowVars, timerVars, mainVars
<1>1. CASE \/ \E q \in Question, w \in Questioner : SubmitQuestion(q, w)
           \/ \E n \in Choices : ChangeRequired(n)
           \/ \E a \in AId : DeadlinePasses(a)
           \/ RecoverScan \/ Serve \/ UNCHANGED vars
  <2>1. /\ UNCHANGED <<pending, sess, job, nextId, faults>>
        /\ server' # "down" => server # "down"
    BY <1>1 DEF SubmitQuestion, ChangeRequired, DeadlinePasses, RecoverScan, Serve, vars
  <2>2. \A a \in AId : Watched(a) => Watched(a)'
    BY <2>1 DEF Watched
  <2> QED
    BY <2>1, <2>2, WatchKept
<1>2. ASSUME NEW a \in AId, NEW j \in Job, TimerFires(a, j)
      PROVE  ClaimWatched'
  <2>1. /\ UNCHANGED <<sess, nextId, faults, server>>
        /\ \A b \in AId : b # a => pending'[b] = pending[b]
    BY <1>2 DEF TimerFires, Known, Shape, TypeOK
  <2>0. DOMAIN job = Job
    BY DEF Known, Shape, TypeOK
  <2>2. \A k \in Job : job'[k] = job[k] \/ job[k] = IdleJob
    BY <1>2, <2>0 DEF TimerFires, Spawn
  <2>3. \A b \in AId : b # a /\ Watched(b) => Watched(b)'
    BY <2>1, <2>2 DEF Watched, IdleJob
  <2>4. st[a] = "claimed" => Watched(a)'
    <3>1. st[a] = "claimed" =>
            job'[j] = [IdleJob EXCEPT !.pc = "timeout", !.q = aq[a], !.a = a]
      BY <1>2, <2>0 DEF TimerFires, Spawn
    <3> QED
      BY <3>1 DEF Watched, IdleJob
  <2> QED
    BY <2>1, <2>3, <2>4, WatchKept
<1>3. CASE Crash
  BY <1>3 DEF Crash, ClaimWatched
<1>4. ASSUME NEW n \in Numbers, Restart(n)
      PROVE  ClaimWatched'
  <2>1. \A a \in AId : st'[a] = "claimed" /\ qstat'[aq'[a]] = "submitted" => pending'[a] > 0
    BY <1>4 DEF Restart, Recoverable, questionVars
  <2> QED
    BY <2>1 DEF ClaimWatched
<1>5. ASSUME NEW j \in Job, RecoverScore(j)
      PROVE  ClaimWatched'
  <2>1. UNCHANGED <<pending, sess, nextId, faults, server>>
    BY <1>5 DEF RecoverScore
  <2>2. \A k \in Job : job'[k] = job[k] \/ job[k] = IdleJob
    BY <1>5 DEF RecoverScore, Spawn, Known, Shape, TypeOK
  <2>3. \A a \in AId : Watched(a) => Watched(a)'
    BY <2>1, <2>2 DEF Watched, IdleJob
  <2> QED
    BY <2>1, <2>3, WatchKept
<1> QED
  BY <1>1, <1>2, <1>3, <1>4, <1>5 DEF MainStep

\* No claim is forgotten: while the process runs, and no store call has failed,
\* a claim on an open question has a timer, or a goroutine that is about to
\* start one or to time it out; through repeated polls that replace timers in
\* the map, answers that cancel them, crashes and recovery.
THEOREM ClaimsAreWatched == Spec => []ClaimWatched
<1>1. Init => ClaimWatched
  BY DEF Init, ClaimWatched
<1>2. Known /\ ClaimWatched /\ [Next]_vars => ClaimWatched'
  BY KnownNext, WatchRequests, WatchJobs, WatchOther DEF Next
<1> QED
  BY <1>1, <1>2, AlwaysKnown, PTL DEF Spec

\* Request x is about to start TryScore for q; of is the column question_id.
Calls(x, q, of) == x.pc = "callback" /\ of[x.a] = q

\* Task x is on its way to score q, and will not turn back.
OnItsWay(x, q) ==
  /\ x.q = q
  /\ x.pc \in {"try", "weigh", "get", "list", "cas"}
  /\ x.pc = "weigh" => Cardinality(x.seen) >= Most

Awake(q) ==
  \/ \E s \in Session : Calls(sess[s], q, aq)
  \/ \E j \in Job : OnItsWay(job[j], q)

Ready(q) == qstat[q] = "submitted" /\ Cardinality(RepliedOf(q, st, aq)) >= Most

\* ScoringPending, strengthened to the end of recovery: what phase 2 has found
\* and not scored yet counts as awake, and nothing is left when it is over.
Woken ==
  /\ (faults = 0 /\ server \in {"score", "up"}) =>
       \A q \in Question : Ready(q) => q \in rec \/ Awake(q)
  /\ server = "up" => rec = {}

\* A question with all its replies had them before the step, unless the step
\* accepted one of them.
LEMMA ReadyBefore ==
  ASSUME Known, Progress, NEW q \in Question, Ready(q)',
         \A a \in AId : st'[a] = "replied" /\ aq'[a] = q => st[a] = "replied"
  PROVE  Ready(q)
<1>1. \A a \in AId : st[a] = "replied" => aq'[a] = aq[a]
  BY DEF Progress, Advance
<1>2. RepliedOf(q, st', aq') \subseteq RepliedOf(q, st, aq)
  BY <1>1 DEF RepliedOf
<1>3. RepliedOf(q, st, aq) \subseteq AId
  BY DEF RepliedOf
<1>4. Cardinality(RepliedOf(q, st, aq)) >= Most
  BY <1>2, <1>3, SubsetCount, BoundAssumption DEF Ready
<1>5. PICK a \in AId : st[a] = "replied" /\ aq[a] = q
  <2>1. RepliedOf(q, st, aq) # {}
    BY <1>4, FS_EmptySet, BoundAssumption
  <2> QED
    BY <2>1 DEF RepliedOf
<1>6. qstat[q] \in QStatus /\ qstat[q] # "absent" /\ qstat[q] # "scored"
  BY <1>5 DEF Known, Shape, TypeOK, Tables, RowsOfOthers, Progress, Advance, Ready
<1> QED
  BY <1>4, <1>6 DEF Ready, QStatus

\* A step that accepts no reply and lets nobody who is awake fall asleep.
LEMMA WokenBy ==
  ASSUME Known, Progress, Woken,
         \A a \in AId : st'[a] = "replied" => st[a] = "replied",
         faults' = 0 => faults = 0,
         server' \in {"score", "up"} => server \in {"score", "up"},
         server' = "up" => server = "up" \/ rec = {},
         rec' = rec,
         \A q \in Question : faults' = 0 /\ Ready(q) /\ Ready(q)' /\ Awake(q) => Awake(q)'
  PROVE  Woken'
<1>1. ASSUME NEW q \in Question, faults' = 0, server' \in {"score", "up"}, Ready(q)'
      PROVE  q \in rec' \/ Awake(q)'
  <2>1. Ready(q)
    BY <1>1, ReadyBefore
  <2> QED
    BY <1>1, <2>1 DEF Woken
<1> QED
  BY <1>1 DEF Woken

\* A request that is awake for a question names an existing row: its question
\* does not change.
LEMMA CallsStay ==
  ASSUME Known, Progress, NEW s \in Session, sess'[s] = sess[s], NEW q,
         Calls(sess[s], q, aq)
  PROVE  Calls(sess'[s], q, aq')
  BY DEF Calls, Known, Shape, SessionShape, GoodSession, Progress, Advance

\* A step of a request that was not about to call OnAnswerSubmitted.
LEMMA AwakeSession ==
  ASSUME Known, Progress, NEW s \in Session, NEW x, sess' = [sess EXCEPT ![s] = x],
         sess[s].pc # "callback", job' = job, NEW q, Awake(q)
  PROVE  Awake(q)'
<1>1. \A t \in Session : t # s => sess'[t] = sess[t]
  BY DEF Known, Shape, TypeOK
<1>2. ASSUME NEW t \in Session, Calls(sess[t], q, aq)
      PROVE  Calls(sess'[t], q, aq')
  <2>1. t # s
    BY <1>2 DEF Calls
  <2> QED
    BY <1>1, <1>2, <2>1, CallsStay
<1> QED
  BY <1>2 DEF Awake

\* A step of a task that leaves it awake for what it was awake for.
LEMMA AwakeJob ==
  ASSUME Known, Progress, NEW j \in Job, sess' = sess,
         \A k \in Job : k # j => job'[k] = job[k],
         NEW q, OnItsWay(job[j], q) => OnItsWay(job'[j], q), Awake(q)
  PROVE  Awake(q)'
<1>1. \A s \in Session : Calls(sess[s], q, aq) => Calls(sess'[s], q, aq')
  BY CallsStay
<1> QED
  BY <1>1 DEF Awake

\* The steps of a request.
LEMMA WokenRequests ==
  ASSUME Known, Progress, Woken, NEW s \in Session,
         (\E w \in Worker : RequestArrives(s, w)) \/ SessionStep(s) \/ Fault(s)
  PROVE  Woken'
<1> USE DEF Goto, Finish, rowVars, mainVars
<1>1. ASSUME NEW x, sess' = [sess EXCEPT ![s] = x], sess[s].pc # "callback",
             UNCHANGED <<job, rec, server>>, faults' = faults \/ faults' = faults + 1,
             \A a \in AId : st'[a] = "replied" => st[a] = "replied"
      PROVE  Woken'
  <2>1. faults' = 0 => faults = 0
    BY <1>1, BoundAssumption DEF Known, Shape, TypeOK
  <2>2. \A q \in Question : Awake(q) => Awake(q)'
    BY <1>1, AwakeSession
  <2> QED
    BY <1>1, <2>1, <2>2, WokenBy
<1>2. CASE \E w \in Worker : RequestArrives(s, w)
  <2>1. PICK w \in Worker : \E pc, a : Request(s, w, pc, a)
    BY <1>2 DEF RequestArrives, PollFindsNone, PollFindsExpired, PollFindsClaim,
                AnswerRefused, AnswerLate, AnswerInTime, AnswerRow
  <2>2. PICK pc, a : Request(s, w, pc, a)
    BY <2>1
  <2> DEFINE x == [IdleSession EXCEPT !.pc = pc, !.w = w, !.a = a, !.need = required]
  <2>3. /\ sess' = [sess EXCEPT ![s] = x] /\ sess[s].pc # "callback"
        /\ UNCHANGED <<job, rec, server, faults, st>>
    BY <2>2 DEF Request
  <2> HIDE DEF x
  <2> QED
    BY <1>1, <2>3
<1>3. CASE PollCleans(s) \/ PollSnapshot(s) \/ PollLocks(s) \/ PollSkipsAll(s) \/ PollCounts(s)
           \/ PollRejected(s) \/ PollArms(s) \/ PollAborts(s) \/ AnswerExpires(s) \/ AnswerEnds(s)
  <2>1. sess[s].pc # "callback" /\ \E x : sess' = [sess EXCEPT ![s] = x]
    BY <1>3 DEF PollCleans, PollSnapshot, PollLocks, PollSkipsAll, PollCounts, PollRejected,
                PollArms, PollAborts, PollPC, AnswerExpires, AnswerEnds
  <2>2. UNCHANGED <<job, rec, server, faults>>
    BY <1>3 DEF PollCleans, PollSnapshot, PollLocks, PollSkipsAll, PollCounts, PollRejected,
                PollArms, PollAborts, AnswerExpires, AnswerEnds
  <2>3. \A a \in AId : st'[a] = "replied" => st[a] = "replied"
    BY <1>3 DEF PollCleans, PollSnapshot, PollLocks, PollSkipsAll, PollCounts, PollRejected,
                PollArms, PollAborts, AnswerExpires, AnswerEnds, CommitCleanup, TimedOut
  <2> QED
    BY <1>1, <2>1, <2>2, <2>3
<1>4. CASE PollInserts(s) \/ PollAckLost(s)
  <2>1. /\ sess[s].pc # "callback" /\ \E x : sess' = [sess EXCEPT ![s] = x]
        /\ UNCHANGED <<job, rec, server>> /\ (faults' = faults \/ faults' = faults + 1)
    BY <1>4 DEF PollInserts, PollAckLost, InsertCommits
  <2>2. nextId \in AId /\ st' = [TimedOut(sess[s].old) EXCEPT ![nextId] = "claimed"]
    BY <1>4, InsertIsLife DEF PollInserts, PollAckLost, InsertCommits
  <2>3. \A a \in AId : st'[a] = "replied" => st[a] = "replied"
    BY <2>2 DEF TimedOut
  <2> QED
    BY <1>1, <2>1, <2>3
<1>5. ASSUME NEW r \in Reply, AnswerWrites(s, r)
      PROVE  Woken'
  <2> DEFINE a == sess[s].a
  <2>1. /\ sess[s].pc = "write" /\ a \in AId /\ st[a] = "claimed"
        /\ \A b \in AId : b # a => st'[b] = st[b]
        /\ UNCHANGED <<job, rec, server, faults, aq>>
        /\ sess' = [sess EXCEPT ![s] = [sess[s] EXCEPT !.pc = "callback"]]
    BY <1>5 DEF AnswerWrites, ReplyCommits, Known, Shape, TypeOK, SessionShape, GoodSession
  <2>2. sess'[s].pc = "callback" /\ sess'[s].a = a
    BY <2>1 DEF Known, Shape, TypeOK, SessionRecord
  <2>3. ASSUME NEW q \in Question, faults' = 0, server' \in {"score", "up"}, Ready(q)'
        PROVE  q \in rec' \/ Awake(q)'
    <3>1. CASE q = aq[a]
      BY <2>1, <2>2, <3>1 DEF Awake, Calls
    <3>2. CASE q # aq[a]
      <4>1. Ready(q)
        BY <2>1, <2>3, <3>2, ReadyBefore
      <4>2. q \in rec \/ Awake(q)
        BY <2>1, <2>3, <4>1 DEF Woken
      <4> QED
        BY <2>1, <4>2, AwakeSession
    <3> QED
      BY <3>1, <3>2
  <2> QED
    BY <2>1, <2>3 DEF Woken
<1>6. ASSUME NEW r \in Reply, AnswerAckLost(s, r)
      PROVE  Woken'
  <2>1. faults' = faults + 1 /\ faults \in Nat /\ UNCHANGED <<rec, server>>
    BY <1>6, BoundAssumption DEF AnswerAckLost, ReplyCommits, Known, Shape, TypeOK
  <2> QED
    BY <2>1 DEF Woken
<1>7. ASSUME NEW j \in Job, AnswerCallback(s, j)
      PROVE  Woken'
  <2> DEFINE x == TryScoreTask(aq[sess[s].a], "go")
  <2>1. /\ sess' = [sess EXCEPT ![s] = IdleSession]
        /\ job' = [job EXCEPT ![j] = x] /\ job[j] = IdleJob
        /\ UNCHANGED <<rec, server, faults, st>>
    BY <1>7 DEF AnswerCallback, Spawn
  <2>2. /\ \A t \in Session : t # s => sess'[t] = sess[t]
        /\ job'[j] = x /\ \A k \in Job : k # j => job'[k] = job[k]
    BY <2>1 DEF Known, Shape, TypeOK
  <2>3. ASSUME NEW q \in Question, Awake(q) PROVE Awake(q)'
    <3>1. CASE Calls(sess[s], q, aq)
      <4>1. OnItsWay(x, q)
        BY <3>1 DEF Calls, OnItsWay, TryScoreTask, IdleJob
      <4> QED
        BY <2>2, <4>1 DEF Awake
    <3>2. CASE ~Calls(sess[s], q, aq)
      <4>1. \A t \in Session : Calls(sess[t], q, aq) => Calls(sess'[t], q, aq')
        BY <2>2, <3>2, CallsStay
      <4>2. ~OnItsWay(job[j], q)
        BY <2>1 DEF OnItsWay, IdleJob
      <4>3. \A k \in Job : OnItsWay(job[k], q) => OnItsWay(job'[k], q)
        BY <2>2, <4>2
      <4> QED
        BY <2>3, <4>1, <4>3 DEF Awake
    <3> QED
      BY <3>1, <3>2
  <2> QED
    BY <2>1, <2>3, WokenBy
<1> QED
  BY <1>2, <1>3, <1>4, <1>5, <1>6, <1>7 DEF SessionStep, Fault

\* The steps of a background task: one that is on its way to score a question
\* with all its replies gets there.
LEMMA WokenJobs ==
  ASSUME Known, Progress, Woken, NEW j \in Job, JobStep(j) \/ JobFails(j)
  PROVE  Woken'
<1> USE DEF rowVars, mainVars
<1> DEFINE y == job[j]
<1>0. y \in JobRecord
  BY DEF Known, Shape, TypeOK
<1>1. CASE JobFails(j)
  <2>1. faults' = faults + 1 /\ faults \in Nat /\ UNCHANGED <<rec, server>>
    BY <1>1, BoundAssumption DEF JobFails, Known, Shape, TypeOK
  <2> QED
    BY <2>1 DEF Woken
<1>2. CASE JobStep(j)
  <2>0. DOMAIN job = Job /\ DOMAIN st = AId
    BY DEF Known, Shape, TypeOK
  <2>4. /\ UNCHANGED <<sess, rec, server, faults>>
        /\ \A k \in Job : k # j => job'[k] = job[k]
    BY <1>2, <2>0 DEF JobStep, JobTimesOut, JobTries, JobWeighs, JobGets, JobLists,
                JobScoresQuestion, JobScoresAssignment, JobTo, JobEnds
  <2>5. \A a \in AId : st'[a] = "replied" => st[a] = "replied"
    BY <1>2, <2>0 DEF JobStep, JobTimesOut, JobTries, JobWeighs, JobGets, JobLists,
                JobScoresQuestion, JobScoresAssignment, TimedOut
  <2>1. /\ UNCHANGED <<sess, rec, server, faults>>
        /\ \A k \in Job : k # j => job'[k] = job[k]
        /\ \A a \in AId : st'[a] = "replied" => st[a] = "replied"
    BY <2>4, <2>5
  <2>2. ASSUME NEW q \in Question, Ready(q), Ready(q)', OnItsWay(y, q)
        PROVE  OnItsWay(job'[j], q)
    <3>1. Replied(q) = RepliedOf(q, st, aq) /\ y.q = q
      BY <2>2 DEF Replied, Rows, RepliedOf, OnItsWay
    <3>2. CASE JobTries(j)
      <4>1. job'[j] = [y EXCEPT !.pc = "weigh", !.seen = Replied(q)]
        BY <3>1, <3>2 DEF JobTries, Known, Shape, TypeOK
      <4> QED
        BY <1>0, <2>2, <3>1, <4>1 DEF OnItsWay, Ready, JobRecord
    <3>3. CASE JobWeighs(j)
      <4>1. Cardinality(y.seen) >= Most
        BY <2>2, <3>3 DEF JobWeighs, OnItsWay
      <4>2. Cardinality(y.seen) \in Nat
        BY <1>0, SubsetCount DEF JobRecord
      <4>3. Cardinality(y.seen) >= required
        BY <4>1, <4>2, NumbersType, BoundAssumption DEF Known, Shape, TypeOK
      <4>4. job'[j] = [y EXCEPT !.pc = "get", !.seen = {}, !.need = required]
        BY <3>3, <4>3 DEF JobWeighs, Known, Shape, TypeOK
      <4> QED
        BY <1>0, <3>1, <4>4 DEF OnItsWay, JobRecord
    <3>4. CASE JobGets(j)
      <4>1. job'[j] = [y EXCEPT !.pc = "list"]
        BY <2>2, <3>1, <3>4 DEF JobGets, JobTo, Ready, Known, Shape, TypeOK
      <4> QED
        BY <1>0, <3>1, <4>1 DEF OnItsWay, JobRecord
    <3>5. CASE JobLists(j)
      <4>1. Replied(q) # {}
        BY <2>2, <3>1, FS_EmptySet, BoundAssumption DEF Ready
      <4>2. job'[j] = [y EXCEPT !.pc = "cas", !.seen = Replied(q)]
        BY <3>1, <3>5, <4>1 DEF JobLists, Known, Shape, TypeOK
      <4> QED
        BY <1>0, <3>1, <4>2 DEF OnItsWay, JobRecord
    <3>6. CASE JobScoresQuestion(j)
      <4>1. qstat'[q] = "scored"
        BY <2>2, <3>1, <3>6 DEF JobScoresQuestion, Ready, Known, Shape, TypeOK
      <4> QED
        BY <2>2, <4>1 DEF Ready
    <3> QED
      BY <1>2, <2>2, <3>2, <3>3, <3>4, <3>5, <3>6
      DEF JobStep, JobTimesOut, JobScoresAssignment, OnItsWay
  <2>3. \A q \in Question : Ready(q) /\ Ready(q)' /\ Awake(q) => Awake(q)'
    BY <2>1, <2>2, AwakeJob
  <2> QED
    BY <2>1, <2>3, WokenBy
<1> QED
  BY <1>1, <1>2

\* Submissions, configuration changes, deadlines, timers, crashes, recovery.
LEMMA WokenOther ==
  ASSUME Known, Progress, Woken,
         \/ \E q \in Question, w \in Questioner : SubmitQuestion(q, w)
         \/ \E n \in Choices : ChangeRequired(n)
         \/ \E a \in AId : DeadlinePasses(a)
         \/ \E a \in AId, j \in Job : TimerFires(a, j)
         \/ Crash \/ MainStep
         \/ UNCHANGED vars
  PROVE  Woken'
<1> USE DEF rowVars, mainVars
<1>1. CASE \/ \E q \in Question, w \in Questioner : SubmitQuestion(q, w)
           \/ \E n \in Choices : ChangeRequired(n)
           \/ \E a \in AId : DeadlinePasses(a)
           \/ Serve \/ UNCHANGED vars
  <2>1. /\ UNCHANGED <<sess, job, st, faults, rec, aq>>
        /\ server' = server \/ (server = "score" /\ rec = {} /\ server' = "up")
    BY <1>1 DEF SubmitQuestion, ChangeRequired, DeadlinePasses, Serve, vars
  <2>2. \A q \in Question : Awake(q) => Awake(q)'
    BY <2>1 DEF Awake
  <2> QED
    BY <2>1, <2>2, WokenBy
<1>2. ASSUME NEW a \in AId, NEW j \in Job, TimerFires(a, j)
      PROVE  Woken'
  <2>1. UNCHANGED <<sess, st, faults, rec, server>>
    BY <1>2 DEF TimerFires
  <2>2. job' = job \/ (job[j] = IdleJob /\ \A k \in Job : k # j => job'[k] = job[k])
    BY <1>2 DEF TimerFires, Spawn, Known, Shape, TypeOK
  <2>3. \A q : ~OnItsWay(IdleJob, q)
    BY DEF OnItsWay, IdleJob
  <2>4. \A q \in Question : Awake(q) => Awake(q)'
    BY <2>1, <2>2, <2>3, AwakeJob
  <2> QED
    BY <2>1, <2>4, WokenBy
<1>3. CASE Crash \/ \E n \in Numbers : Restart(n)
  BY <1>3 DEF Crash, Restart, Woken
<1>4. CASE RecoverScan
  <2>1. /\ UNCHANGED <<st, aq, qstat>> /\ required \in Numbers /\ server' = "score"
        /\ rec' = {q \in Question : qstat[q] = "submitted"
                                     /\ Cardinality(Replied(q)) >= required}
    BY <1>4 DEF RecoverScan, questionVars, Known, Shape, TypeOK
  <2>2. ASSUME NEW q \in Question, Ready(q)' PROVE q \in rec'
    <3>1. Replied(q) = RepliedOf(q, st, aq) /\ RepliedOf(q, st, aq) \subseteq AId
      BY DEF Replied, Rows, RepliedOf
    <3>2. qstat[q] = "submitted" /\ Cardinality(RepliedOf(q, st, aq)) >= Most
      BY <2>1, <2>2 DEF Ready
    <3>3. Cardinality(RepliedOf(q, st, aq)) \in Nat
      BY <3>1, SubsetCount
    <3> QED
      BY <2>1, <3>1, <3>2, <3>3, NumbersType, BoundAssumption
  <2> QED
    BY <2>1, <2>2 DEF Woken
<1>5. ASSUME NEW j \in Job, RecoverScore(j)
      PROVE  Woken'
  <2>1. PICK q \in rec : rec' = rec \ {q} /\ Spawn(j, TryScoreTask(q, "main"))
    BY <1>5 DEF RecoverScore
  <2>2. UNCHANGED <<sess, st, aq, qstat, faults, server>> /\ server = "score"
    BY <1>5 DEF RecoverScore, questionVars
  <2>3. /\ job'[j] = TryScoreTask(q, "main") /\ job[j] = IdleJob
        /\ \A k \in Job : k # j => job'[k] = job[k]
    BY <2>1 DEF Spawn, Known, Shape, TypeOK
  <2>4. Awake(q)'
    BY <2>3 DEF Awake, OnItsWay, TryScoreTask, IdleJob
  <2>5. ASSUME NEW p \in Question, Awake(p) PROVE Awake(p)'
    <3>1. ~OnItsWay(job[j], p)
      BY <2>3 DEF OnItsWay, IdleJob
    <3> QED
      BY <2>2, <2>3, <2>5, <3>1, AwakeJob
  <2>6. \A p : Ready(p)' => Ready(p)
    BY <2>2 DEF Ready
  <2> QED
    BY <2>1, <2>2, <2>4, <2>5, <2>6 DEF Woken
<1> QED
  BY <1>1, <1>2, <1>3, <1>4, <1>5 DEF MainStep

\* No wake-up is lost: while the process serves, and no store call has failed,
\* an open question that has all its replies has a goroutine that is about to
\* score it; TryScore may run at any time before or after, and give up.
THEOREM ScoringIsPending == Spec => []ScoringPending
<1>1. Init => Woken
  BY FS_EmptySet, BoundAssumption DEF Init, Woken, Ready
<1>2. Known /\ Woken /\ [Next]_vars => Woken'
  BY KnownNext, WokenRequests, WokenJobs, WokenOther DEF Next
<1>3. \A q : Replied(q) = RepliedOf(q, st, aq)
  BY DEF Replied, Rows, RepliedOf
<1>4. Woken => ScoringPending
  BY <1>3 DEF Woken, Ready, Awake, Calls, OnItsWay, ScoringPending
<1> QED
  BY <1>1, <1>2, <1>4, AlwaysKnown, PTL DEF Spec
=============================================================================
