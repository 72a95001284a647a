--------------------------- MODULE QuestionIntake ---------------------------
(***************************************************************************)
(* The benchmark sets and the questions submitted to them                  *)
(* (handler/benchmark_set.go, store/benchmark_set.go, service/question.go, *)
(* handler/question.go, store/question.go).                                *)
(*                                                                         *)
(* SubmitQuestion reads the benchmark set, the time of the worker's last   *)
(* question and the MinHash of every question of the set, one statement    *)
(* each, and stores the question in a transaction of its own at the end.   *)
(* A Session is a goroutine that serves one such request; an admin creates *)
(* sets, a batch in one request, and changes them.                         *)
(*                                                                         *)
(* A question text is a value; what MinHash and Jaccard say of two texts   *)
(* is the relation Similar: sim >= question.similarity_max.  The one limit *)
(* of a set stands for question_maxlen and answer_maxlen.                  *)
(***************************************************************************)
EXTENDS Integers, Sequences, FiniteSets

CONSTANTS Session, Worker, Text,
          SetId,
          Similar,       \* pairs of texts, the equal ones among them
          Length,        \* [Text -> Nat]
          Limits,        \* the limits an admin gives a set
          DefaultLimit,  \* the limit of a set created without one
          RateLimit,     \* question.rate_limit_sec
          MaxNow,        \* bound: the clock
          MaxRequests,   \* bound: submissions
          MaxAdmin,      \* bound: requests that create or change sets
          MaxBatch,      \* bound: sets in one request
          None

ASSUME IntakeAssumption ==
  /\ RateLimit \in Nat /\ MaxNow \in Nat
  /\ MaxRequests \in Nat /\ MaxAdmin \in Nat /\ MaxBatch \in Nat
  /\ IsFiniteSet(Session) /\ None \notin SetId
  /\ Similar \subseteq Text \X Text
  /\ \A t, u \in Text : t = u \/ <<u, t>> \in Similar => <<t, u>> \in Similar
  /\ Length \in [Text -> Nat]
  /\ Limits \subseteq Int /\ DefaultLimit \in Nat

VARIABLES sets,       \* set_id |-> [active, limit, total]
          batch,      \* the sets HandleAdminCreate has still to insert
          questions,  \* the rows, by question_id
          now,
          session,    \* [Session -> the request being served]
          requests, adminRequests,
          after       \* set_id |-> questions stored since it was last closed

admin == <<sets, batch, adminRequests>>
vars == <<admin, questions, now, session, requests, after>>

Idle == [pc |-> "idle", by |-> None, set |-> None, limit |-> 0, text |-> None]

Init ==
  /\ sets = [b \in {} |-> None] /\ batch = <<>> /\ adminRequests = 0
  /\ questions = [i \in {} |-> None] /\ now = 0
  /\ session = [s \in Session |-> Idle] /\ requests = 0
  /\ after = [b \in SetId |-> 0]

Tick ==
  /\ now < MaxNow
  /\ now' = now + 1
  /\ UNCHANGED <<admin, questions, session, requests, after>>
----------------------------------------------------------------------------
(* POST /admin/v1/benchmark-sets: HandleAdminCreate, one object or an      *)
(* array, inserted one by one, each INSERT committing by itself.  One      *)
(* request at a time: the INSERTs of two are for the table like those of   *)
(* one batch, except for what their failures drop.                         *)

\* A set of the request: a status or none, a limit or none.
Item == [set : SetId, active : BOOLEAN, limit : Limits]

AdminCreates(items) ==
  /\ batch = <<>> /\ adminRequests < MaxAdmin
  /\ batch' = items /\ adminRequests' = adminRequests + 1
  /\ UNCHANGED <<sets, questions, now, session, requests, after>>

\* The row of a new set, with the defaults HandleAdminCreate fills in.
NewRow(item) ==
  [active |-> item.active, total |-> 0,
   limit |-> IF item.limit <= 0 THEN DefaultLimit ELSE item.limit]

WithRow(b, row) == [c \in DOMAIN sets \cup {b} |-> IF c = b THEN row ELSE sets[c]]

\* Mutant: INSERT ... ON CONFLICT DO UPDATE.
UpsertBenchmarkSet ==
  /\ batch # <<>>
  /\ sets' = WithRow(Head(batch).set, NewRow(Head(batch)))
  /\ batch' = Tail(batch)
  /\ UNCHANGED <<adminRequests, questions, now, session, requests, after>>

\* The INSERT of the next set; when it exists, 409, and the rest of the batch
\* is dropped, while the sets before it stay.
CreateBenchmarkSet ==
  /\ batch # <<>>
  /\ LET b == Head(batch).set IN
     IF b \in DOMAIN sets THEN UNCHANGED sets /\ batch' = <<>>
     ELSE sets' = WithRow(b, NewRow(Head(batch))) /\ batch' = Tail(batch)
  /\ UNCHANGED <<adminRequests, questions, now, session, requests, after>>

\* The store fails, or the request is cancelled: 500.
CreateFails ==
  /\ batch # <<>>
  /\ batch' = <<>>
  /\ UNCHANGED <<sets, adminRequests, questions, now, session, requests, after>>

\* PUT /admin/v1/benchmark-sets/{set_id}: the status, the limit, or both, as
\* the request says, and no other column.
UpdateBenchmarkSet(b, active, limit) ==
  /\ b \in DOMAIN sets /\ adminRequests < MaxAdmin
  /\ adminRequests' = adminRequests + 1
  /\ sets' = [sets EXCEPT ![b].active = active, ![b].limit = limit]
  /\ after' = [after EXCEPT ![b] = IF sets[b].active THEN 0 ELSE @]
  /\ UNCHANGED <<batch, questions, now, session, requests>>
----------------------------------------------------------------------------
(* POST /api/v1/questions: SubmitQuestion. *)

At(s, pc) == session[s].pc = pc

Goes(s, pc) ==
  /\ session' = [session EXCEPT ![s] =
                   IF pc = "idle" THEN Idle ELSE [@ EXCEPT !.pc = pc]]
  /\ UNCHANGED <<admin, questions, now, requests, after>>

\* Mutant: an inactive set will do.
OpenIfThere(b) == b \in DOMAIN sets

\* bs == nil || bs.Status != BSStatusActive is refused.
Open(b) == b \in DOMAIN sets /\ sets[b].active

\* A request with all its fields, and GetBenchmarkSet.
GetBenchmarkSet(s, w, b, t) ==
  /\ At(s, "idle") /\ requests < MaxRequests
  /\ requests' = requests + 1
  /\ session' = [session EXCEPT ![s] =
       IF Open(b)
         THEN [pc |-> "rate", by |-> w, set |-> b, limit |-> sets[b].limit, text |-> t]
         ELSE Idle]
  /\ UNCHANGED <<admin, questions, now, after>>

\* Mutant: a limit that ends one tick early.
RatedShort(w) ==
  \E i \in DOMAIN questions :
    questions[i].by = w /\ now - questions[i].at < RateLimit - 1

\* GetLastQuestionTime, and time.Since(*lastTime) < cfg.RateLimit: the last
\* question, of any set, is the one that may be too recent.
RateLimited(w) ==
  \E i \in DOMAIN questions :
    questions[i].by = w /\ now - questions[i].at < RateLimit

\* Mutant: the length is not checked.
FitsAlways(s) == TRUE

\* The limit as it was when the set was read.
Fits(s) == Length[session[s].text] <= session[s].limit

\* The two checks that follow from that statement.
CheckRate(s) ==
  /\ At(s, "rate")
  /\ Goes(s, IF ~RateLimited(session[s].by) /\ Fits(s) THEN "similarity" ELSE "idle")

\* Mutant: only a literal repetition is refused.
LikeEqual(b, t) ==
  {i \in DOMAIN questions : questions[i].set = b /\ t = questions[i].text}

\* The questions ListAllQuestionMinHashes returns that are too similar.
Like(b, t) ==
  {i \in DOMAIN questions :
     questions[i].set = b /\ <<t, questions[i].text>> \in Similar}

\* 400 duplicate, or on to the transaction.
CheckSimilarity(s) ==
  /\ At(s, "similarity")
  /\ Goes(s, IF Like(session[s].set, session[s].text) = {} THEN "store" ELSE "idle")

NextId == Cardinality(DOMAIN questions) + 1

Stored(s) ==
  [i \in DOMAIN questions \cup {NextId} |->
     IF i = NextId
       THEN [by |-> session[s].by, set |-> session[s].set,
             text |-> session[s].text, at |-> now]
       ELSE questions[i]]

\* The transaction: CreateQuestion and IncrementBSTotalQuestions.
Store(s) ==
  LET b == session[s].set IN
  /\ At(s, "store")
  /\ questions' = Stored(s)
  /\ sets' = [sets EXCEPT ![b].total = @ + 1]
  /\ after' = [after EXCEPT ![b] = @ + 1]
  /\ session' = [session EXCEPT ![s] = Idle]
  /\ UNCHANGED <<batch, adminRequests, now, requests>>

\* Any of the statements fails; the transaction is rolled back.
Fails(s) == At(s, "rate") \/ At(s, "similarity") \/ At(s, "store")

Fail(s) == Fails(s) /\ Goes(s, "idle")
----------------------------------------------------------------------------
Next ==
  \/ Tick
  \/ \E n \in 1 .. MaxBatch : \E items \in [1 .. n -> Item] : AdminCreates(items)
  \/ CreateBenchmarkSet \/ CreateFails
  \/ \E b \in DOMAIN sets, active \in BOOLEAN :
       \E limit \in Limits \cup {sets[b].limit} : UpdateBenchmarkSet(b, active, limit)
  \/ \E s \in Session :
       \/ \E w \in Worker, b \in SetId, t \in Text : GetBenchmarkSet(s, w, b, t)
       \/ CheckRate(s) \/ CheckSimilarity(s) \/ Store(s) \/ Fail(s)

Spec == Init /\ [][Next]_vars
----------------------------------------------------------------------------
\* Rows and requests are well-formed; question_id counts the rows, and no
\* stored text is longer than every limit there is.
TypeOK ==
  /\ \A b \in DOMAIN sets :
       b \in SetId /\ sets[b] \in [active : BOOLEAN, total : 0 .. MaxRequests,
                                    limit : Limits \cup {DefaultLimit}]
  /\ batch \in Seq(Item) /\ now \in 0 .. MaxNow
  /\ DOMAIN questions = 1 .. Cardinality(DOMAIN questions)
  /\ \A i \in DOMAIN questions :
       /\ questions[i] \in [by : Worker, set : DOMAIN sets, text : Text, at : 0 .. MaxNow]
       /\ \E l \in Limits \cup {DefaultLimit} : Length[questions[i].text] <= l
  /\ \A s \in Session :
       /\ session[s].pc \in {"idle", "rate", "similarity", "store"}
       /\ session[s].pc # "idle" =>
            /\ session[s].by \in Worker /\ session[s].text \in Text
            /\ session[s].set \in DOMAIN sets
  /\ requests \in 0 .. MaxRequests /\ adminRequests \in 0 .. MaxAdmin
  /\ after \in [SetId -> 0 .. MaxRequests]

\* The rate limit as far as it goes: a worker that has n requests under way
\* at once stores at most n questions within any interval of that length, in
\* whichever sets, whatever fails or is retried; with one request at a time,
\* one (GetLastQuestionTime is read before, and not in, the transaction).
BurstBounded ==
  \A i \in DOMAIN questions :
    Cardinality({j \in DOMAIN questions :
                   /\ questions[j].by = questions[i].by
                   /\ questions[j].at - questions[i].at \in 0 .. RateLimit - 1})
      <= Cardinality(Session)

\* Originality as far as it goes: of questions that are all similar to each
\* other a set holds at most as many as requests were under way at once,
\* whoever submitted them (ListAllQuestionMinHashes, read before the INSERT).
TwinsBounded ==
  \A S \in SUBSET DOMAIN questions :
    (\A i, j \in S : /\ questions[i].set = questions[j].set
                     /\ <<questions[i].text, questions[j].text>> \in Similar)
      => Cardinality(S) <= Cardinality(Session)

\* total_questions is the number of questions in the set, though it is kept by
\* a counter, transactions fail at any statement, and admins create (again) and
\* change sets that already have questions.
TotalCounted ==
  \A b \in DOMAIN sets :
    sets[b].total = Cardinality({i \in DOMAIN questions : questions[i].set = b})

\* A set that is closed takes no new request: what it gets from then on, and
\* may still get, comes from requests that had read it before, at most one
\* question each.
ClosedSetSettles ==
  \A b \in DOMAIN sets : ~sets[b].active =>
    after[b] + Cardinality({s \in Session : session[s].set = b})
      <= Cardinality(Session)
=============================================================================
