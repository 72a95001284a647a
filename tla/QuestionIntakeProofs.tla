------------------------ MODULE QuestionIntakeProofs ------------------------
(***************************************************************************)
(* Proofs about QuestionIntake: for every number of concurrent requests,   *)
(* of workers, sets and texts, every similarity relation and rate limit.   *)
(***************************************************************************)
EXTENDS QuestionIntake, FiniteSetTheorems, TLAPS

Limit == Limits \cup {DefaultLimit}

SetRow == [active : BOOLEAN, total : Nat, limit : Limit]

QuestionRow == [by : Worker, set : SetId, text : Text, at : 0 .. MaxNow]

SessionRec == [pc : {"idle", "rate", "similarity", "store"}, by : Worker \cup {None},
               set : SetId \cup {None}, limit : Int, text : Text \cup {None}]

Busy == {s \in Session : session[s].pc # "idle"}

Rows ==
  /\ DOMAIN sets \subseteq SetId /\ sets \in [DOMAIN sets -> SetRow]
  /\ batch \in Seq(Item) /\ now \in 0 .. MaxNow
  /\ requests \in 0 .. MaxRequests /\ adminRequests \in 0 .. MaxAdmin
  /\ after \in [SetId -> Nat]

Short(t) == \E l \in Limit : Length[t] <= l

\* The rows of table questions, numbered as they were stored.
Questions ==
  /\ \E n \in Nat : DOMAIN questions = 1 .. n
  /\ questions \in [DOMAIN questions -> QuestionRow]
  /\ \A i \in DOMAIN questions :
       /\ questions[i].set \in DOMAIN sets /\ questions[i].at <= now
       /\ Short(questions[i].text)

\* What a request holds, given how far it has come.
SessionType(p) ==
  /\ p \in SessionRec /\ (p.pc = "idle" => p = Idle)
  /\ p.pc # "idle" => p.by \in Worker /\ p.text \in Text /\ p.limit \in Limit
  /\ p.pc \in {"similarity", "store"} => Length[p.text] <= p.limit

Sessions ==
  /\ session = [s \in Session |-> session[s]]
  /\ \A s \in Session : SessionType(session[s])
  /\ \A s \in Busy : session[s].set \in DOMAIN sets

\* Every question and every request under way came with a request of its own.
Counted ==
  /\ Cardinality(DOMAIN questions) + Cardinality(Busy) <= requests
  /\ \A b \in SetId : /\ after[b] <= Cardinality(DOMAIN questions)
                      /\ b \notin DOMAIN sets => after[b] = 0

Basic == Rows /\ Questions /\ Sessions /\ Counted /\ TotalCounted
----------------------------------------------------------------------------
(* What the three bounds need: who may still exceed them. *)

\* The requests that have read the set b.
Reading(b) == {s \in Session : session[s].set = b}

\* The questions that the rate limit after question i would forbid, and the
\* requests of worker w that have passed the check of the rate limit.
Window(i) ==
  {j \in DOMAIN questions :
     /\ questions[j].by = questions[i].by
     /\ questions[j].at - questions[i].at \in 0 .. RateLimit - 1}

Rated(w) ==
  {s \in Session : session[s].pc \in {"similarity", "store"} /\ session[s].by = w}

BurstAhead ==
  \A i \in DOMAIN questions : now - questions[i].at < RateLimit =>
    Cardinality(Window(i)) + Cardinality(Rated(questions[i].by)) <= Cardinality(Session)

\* Questions of one set that are all similar, and the requests that have passed
\* the check of similarity with one more.
Twins(S) ==
  \A i, j \in S : /\ questions[i].set = questions[j].set
                  /\ <<questions[i].text, questions[j].text>> \in Similar

Joining(S) ==
  {s \in Session :
     /\ session[s].pc = "store"
     /\ \A i \in S : /\ questions[i].set = session[s].set
                     /\ <<session[s].text, questions[i].text>> \in Similar}

TwinsAhead ==
  \A S \in SUBSET DOMAIN questions : Twins(S) /\ S # {} =>
    Cardinality(S) + Cardinality(Joining(S)) <= Cardinality(Session)
----------------------------------------------------------------------------
(* Cardinalities. *)

\* A part of a finite set.
LEMMA PartCard ==
  ASSUME NEW T, IsFiniteSet(T), NEW S \in SUBSET T
  PROVE  /\ IsFiniteSet(S) /\ Cardinality(S) \in Nat /\ Cardinality(T) \in Nat
         /\ Cardinality(S) <= Cardinality(T)
  BY FS_Subset, FS_CardinalityType

\* A part that lacks an element.
LEMMA LessCard ==
  ASSUME NEW T, IsFiniteSet(T), NEW x \in T, NEW S \in SUBSET T, x \notin S
  PROVE  Cardinality(S) + 1 <= Cardinality(T)
<1>1. S \in SUBSET (T \ {x})
  OBVIOUS
<1>2. IsFiniteSet(T \ {x}) /\ Cardinality(T \ {x}) = Cardinality(T) - 1
  BY FS_RemoveElement
<1> QED
  BY <1>1, <1>2, PartCard, FS_CardinalityType

\* One element more.
LEMMA MoreCard ==
  ASSUME NEW T, IsFiniteSet(T), NEW x
  PROVE  /\ IsFiniteSet(T \cup {x}) /\ Cardinality(T \cup {x}) \in Nat
         /\ Cardinality(T \cup {x}) <= Cardinality(T) + 1
         /\ x \notin T => Cardinality(T \cup {x}) = Cardinality(T) + 1
  BY FS_AddElement, FS_CardinalityType

\* There are finitely many requests under way.
LEMMA SessionCard ==
  ASSUME NEW S \in SUBSET Session
  PROVE  /\ IsFiniteSet(S) /\ Cardinality(S) \in Nat /\ Cardinality(Session) \in Nat
         /\ Cardinality(S) <= Cardinality(Session)
  BY IntakeAssumption, PartCard

\* The questions are counted by their last number.
LEMMA QuestionCard ==
  ASSUME Questions
  PROVE  /\ IsFiniteSet(DOMAIN questions) /\ Cardinality(DOMAIN questions) \in Nat
         /\ DOMAIN questions = 1 .. Cardinality(DOMAIN questions)
         /\ \A S \in SUBSET DOMAIN questions :
              /\ IsFiniteSet(S) /\ Cardinality(S) \in Nat
              /\ Cardinality(S) <= Cardinality(DOMAIN questions)
<1>1. PICK n \in Nat : DOMAIN questions = 1 .. n
  BY DEF Questions
<1>2. IsFiniteSet(1 .. n) /\ Cardinality(1 .. n) = n
  BY FS_Interval, 1 \in Int, n \in Int
<1>3. IsFiniteSet(DOMAIN questions)
  BY <1>1, <1>2
<1> QED
  BY <1>1, <1>2, <1>3, PartCard

\* A request that is not under way.
LEMMA IdleType == SessionType(Idle) /\ Idle.pc = "idle" /\ Idle.set = None
  BY DEF SessionType, SessionRec, Idle
----------------------------------------------------------------------------
(* Basic, step by step. *)

\* Nothing changes but the clock and what an admin has asked for.
LEMMA QuietBasic ==
  ASSUME Basic, UNCHANGED <<sets, questions, session, requests, after>>,
         batch' \in Seq(Item), now' \in 0 .. MaxNow, now <= now',
         adminRequests' \in 0 .. MaxAdmin
  PROVE  Basic'
<1>1. Rows'
  BY DEF Basic, Rows
<1>2. Questions'
  <2>1. \A i \in DOMAIN questions : questions[i].at \in 0 .. MaxNow
    BY DEF Basic, Questions, QuestionRow
  <2>2. now \in 0 .. MaxNow /\ MaxNow \in Nat
    BY IntakeAssumption DEF Basic, Rows
  <2>3. \A i \in DOMAIN questions : questions[i].at <= now'
    BY <2>1, <2>2 DEF Basic, Questions
  <2> QED
    BY <2>3 DEF Basic, Questions
<1>3. Sessions' /\ Counted' /\ TotalCounted'
  BY DEF Basic, Sessions, Busy, Counted, TotalCounted
<1> QED
  BY <1>1, <1>2, <1>3 DEF Basic

\* A set is inserted, for which there cannot be questions yet.
LEMMA CreateBasic ==
  ASSUME Basic, CreateBenchmarkSet
  PROVE  Basic'
<1> DEFINE b == Head(batch).set
<1>1. /\ batch # <<>>
      /\ UNCHANGED <<adminRequests, questions, now, session, requests, after>>
  BY DEF CreateBenchmarkSet
<1>2. batch \in Seq(Item) /\ Head(batch) \in Item /\ Tail(batch) \in Seq(Item)
      /\ <<>> \in Seq(Item)
  BY <1>1 DEF Basic, Rows
<1>3. CASE b \in DOMAIN sets
  <2>1. sets' = sets /\ batch' = <<>>
    BY <1>3 DEF CreateBenchmarkSet
  <2> QED
    BY <1>1, <1>2, <2>1, QuietBasic DEF Basic, Rows
<1>4. CASE b \notin DOMAIN sets
  <2> DEFINE row == NewRow(Head(batch))
  <2>1. sets' = WithRow(b, row) /\ batch' = Tail(batch)
    BY <1>4 DEF CreateBenchmarkSet
  <2>2. b \in SetId /\ row \in SetRow /\ row.total = 0
    BY <1>2, IntakeAssumption DEF NewRow, Item, SetRow, Limit
  <2> HIDE DEF b, row
  <2>3. /\ DOMAIN sets' = DOMAIN sets \cup {b} /\ sets' \in [DOMAIN sets' -> SetRow]
        /\ sets'[b] = row /\ \A c \in DOMAIN sets : sets'[c] = sets[c]
    BY <1>4, <2>1, <2>2 DEF WithRow, Basic, Rows
  <2>4. Rows'
    BY <1>1, <1>2, <2>1, <2>2, <2>3 DEF Basic, Rows
  <2>5. Questions'
    BY <1>1, <2>3 DEF Basic, Questions
  <2>6. Sessions'
    BY <1>1, <2>3 DEF Basic, Sessions, Busy
  <2>7. Counted'
    BY <1>1, <2>3 DEF Basic, Counted, Busy
  <2>8. TotalCounted'
    <3>1. {i \in DOMAIN questions : questions[i].set = b} = {}
      BY <1>4 DEF Basic, Questions
    <3>2. Cardinality({}) = 0
      BY FS_EmptySet
    <3>3. ASSUME NEW c \in DOMAIN sets'
          PROVE  sets'[c].total = Cardinality({i \in DOMAIN questions : questions[i].set = c})
      BY <2>2, <2>3, <3>1, <3>2 DEF Basic, TotalCounted
    <3> QED
      BY <1>1, <3>3 DEF TotalCounted
  <2> QED
    BY <2>4, <2>5, <2>6, <2>7, <2>8 DEF Basic
<1> QED
  BY <1>3, <1>4

\* A set's status and limit change, and no other column.
LEMMA UpdateBasic ==
  ASSUME Basic, NEW b \in DOMAIN sets, NEW active \in BOOLEAN,
         NEW limit \in Limits \cup {sets[b].limit}, UpdateBenchmarkSet(b, active, limit)
  PROVE  Basic'
<1>1. /\ sets' = [sets EXCEPT ![b].active = active, ![b].limit = limit]
      /\ after' = [after EXCEPT ![b] = IF sets[b].active THEN 0 ELSE @]
      /\ adminRequests' = adminRequests + 1 /\ adminRequests < MaxAdmin
      /\ UNCHANGED <<batch, questions, now, session, requests>>
  BY DEF UpdateBenchmarkSet
<1>2. /\ DOMAIN sets' = DOMAIN sets /\ sets' \in [DOMAIN sets' -> SetRow]
      /\ \A c \in DOMAIN sets : sets'[c].total = sets[c].total
  <2>1. sets \in [DOMAIN sets -> SetRow] /\ limit \in Limit
    BY DEF Basic, Rows, SetRow, Limit
  <2> DEFINE new == [sets[b] EXCEPT !.active = active, !.limit = limit]
  <2>2. new \in SetRow /\ new.total = sets[b].total
    BY <2>1 DEF SetRow
  <2>3. sets' = [sets EXCEPT ![b] = new]
    BY <1>1, <2>1 DEF SetRow
  <2> HIDE DEF new
  <2> QED
    BY <2>1, <2>2, <2>3
<1>3. /\ b \in SetId /\ after' \in [SetId -> Nat]
      /\ \A c \in SetId : after'[c] = after[c] \/ (after'[c] = 0 /\ c \in DOMAIN sets)
  BY <1>1 DEF Basic, Rows
<1>4. adminRequests' \in 0 .. MaxAdmin
  BY <1>1, IntakeAssumption DEF Basic, Rows
<1>5. Rows'
  BY <1>1, <1>2, <1>3, <1>4 DEF Basic, Rows
<1>6. Questions'
  BY <1>1, <1>2 DEF Basic, Questions
<1>7. Sessions'
  BY <1>1, <1>2 DEF Basic, Sessions, Busy
<1>8. Counted'
  <2>1. Cardinality(DOMAIN questions) \in Nat
    BY QuestionCard DEF Basic
  <2> QED
    BY <1>1, <1>2, <1>3, <2>1 DEF Basic, Counted, Busy
<1>9. TotalCounted'
  BY <1>1, <1>2 DEF Basic, TotalCounted
<1> QED
  BY <1>5, <1>6, <1>7, <1>8, <1>9 DEF Basic

\* A request starts: it has read its set, or is refused.
LEMMA GetStep ==
  ASSUME Basic, NEW s \in Session, NEW w \in Worker, NEW b \in SetId, NEW t \in Text,
         GetBenchmarkSet(s, w, b, t)
  PROVE  \E r \in SessionRec :
           /\ session' = [session EXCEPT ![s] = r] /\ SessionType(r)
           /\ session[s] = Idle /\ requests' = requests + 1 /\ requests' \in 0 .. MaxRequests
           /\ UNCHANGED <<admin, questions, now, after>>
           /\ r.pc \in {"idle", "rate"}
           /\ r.pc = "rate" => r.set = b /\ b \in DOMAIN sets /\ sets[b].active
<1> DEFINE q == [pc |-> "rate", by |-> w, set |-> b, limit |-> sets[b].limit, text |-> t]
           r == IF Open(b) THEN q ELSE Idle
<1>1. /\ session[s].pc = "idle" /\ requests < MaxRequests /\ requests' = requests + 1
      /\ session' = [session EXCEPT ![s] = r]
      /\ UNCHANGED <<admin, questions, now, after>>
  BY DEF GetBenchmarkSet, At
<1>2. session[s] = Idle
  BY <1>1 DEF Basic, Sessions, SessionType
<1>3. requests' \in 0 .. MaxRequests
  BY <1>1, IntakeAssumption DEF Basic, Rows
<1>4. Open(b) => b \in DOMAIN sets /\ sets[b].active /\ sets[b].limit \in Limit
  BY DEF Open, Basic, Rows, SetRow
<1>5. Open(b) => SessionType(q) /\ q.pc = "rate" /\ q.set = b
  <2>1. \A l \in Limit : l \in Int
    BY IntakeAssumption DEF Limit
  <2> QED
    BY <1>4, <2>1 DEF SessionType, SessionRec
<1>6. SessionType(r) /\ r.pc \in {"idle", "rate"}
      /\ (r.pc = "rate" => r.set = b /\ b \in DOMAIN sets /\ sets[b].active)
  BY <1>4, <1>5, IdleType
<1> HIDE DEF r
<1>7. r \in SessionRec
  BY <1>6 DEF SessionType
<1> QED
  BY <1>1, <1>2, <1>3, <1>6, <1>7

\* A request goes on past a check, or ends.
LEMMA MoveStep ==
  ASSUME Basic, NEW s \in Session, CheckRate(s) \/ CheckSimilarity(s) \/ Fail(s)
  PROVE  \E r \in SessionRec :
           /\ session' = [session EXCEPT ![s] = r] /\ SessionType(r) /\ s \in Busy
           /\ UNCHANGED <<admin, questions, now, requests, after>>
           /\ r.pc \in {"idle", "similarity", "store"}
           /\ r.pc # "idle" => r.by = session[s].by /\ r.set = session[s].set
                               /\ r.text = session[s].text
           /\ r.pc = "similarity" => ~RateLimited(session[s].by)
           /\ r.pc = "store" => /\ session[s].pc = "similarity"
                                /\ Like(session[s].set, session[s].text) = {}
<1>1. PICK x \in {"idle", "similarity", "store"} :
        /\ Goes(s, x) /\ session[s].pc # "idle"
        /\ x = "similarity" => ~RateLimited(session[s].by) /\ Fits(s)
        /\ x = "store" => /\ session[s].pc = "similarity"
                          /\ Like(session[s].set, session[s].text) = {}
  <2>1. CASE CheckRate(s)
    BY <2>1 DEF CheckRate, At
  <2>2. CASE CheckSimilarity(s)
    BY <2>2 DEF CheckSimilarity, At
  <2>3. CASE Fail(s)
    BY <2>3 DEF Fail, Fails, At
  <2> QED
    BY <2>1, <2>2, <2>3
<1> DEFINE q == [session[s] EXCEPT !.pc = x]
           r == IF x = "idle" THEN Idle ELSE q
<1>2. session' = [session EXCEPT ![s] = r]
      /\ UNCHANGED <<admin, questions, now, requests, after>>
  BY <1>1 DEF Goes
<1>3. SessionType(session[s]) /\ session[s] \in SessionRec
  BY DEF Basic, Sessions, SessionType
<1>4. /\ q \in SessionRec /\ q.pc = x /\ q.by = session[s].by /\ q.set = session[s].set
      /\ q.text = session[s].text /\ q.limit = session[s].limit
  BY <1>3 DEF SessionRec
<1> HIDE DEF q
<1>5. x # "idle" => SessionType(q)
  BY <1>1, <1>3, <1>4 DEF SessionType, Fits
<1>6. /\ SessionType(r) /\ r.pc = x
      /\ r.pc # "idle" => r.by = session[s].by /\ r.set = session[s].set
                          /\ r.text = session[s].text
  BY <1>4, <1>5, IdleType
<1> HIDE DEF r
<1>7. r \in SessionRec
  BY <1>6 DEF SessionType
<1> QED
  BY <1>1, <1>2, <1>6, <1>7 DEF Busy

\* The requests after one of them has changed.
LEMMA OneChanges ==
  ASSUME Basic, NEW s \in Session, NEW r, session' = [session EXCEPT ![s] = r]
  PROVE  session'[s] = r /\ \A t \in Session : t # s => session'[t] = session[t]
  BY DEF Basic, Sessions

\* A request that starts.
LEMMA GetBasic ==
  ASSUME Basic, NEW s \in Session, NEW w \in Worker, NEW b \in SetId, NEW t \in Text,
         GetBenchmarkSet(s, w, b, t)
  PROVE  Basic'
<1>1. PICK r \in SessionRec :
        /\ session' = [session EXCEPT ![s] = r] /\ SessionType(r)
        /\ session[s] = Idle /\ requests' = requests + 1 /\ requests' \in 0 .. MaxRequests
        /\ UNCHANGED <<admin, questions, now, after>>
        /\ r.pc \in {"idle", "rate"}
        /\ r.pc = "rate" => r.set = b /\ b \in DOMAIN sets /\ sets[b].active
  BY GetStep
<1>2. session'[s] = r /\ \A u \in Session : u # s => session'[u] = session[u]
  BY <1>1, OneChanges
<1>3. UNCHANGED <<sets, batch, adminRequests, questions, now, after>>
  BY <1>1 DEF admin
<1>4. Rows'
  BY <1>1, <1>3 DEF Basic, Rows
<1>5. Questions' /\ TotalCounted'
  BY <1>3 DEF Basic, Questions, TotalCounted
<1>6. Sessions'
  <2>1. session' = [u \in Session |-> session'[u]]
    BY <1>1 DEF Basic, Sessions
  <2>2. \A u \in Session : SessionType(session'[u])
    BY <1>1, <1>2 DEF Basic, Sessions
  <2>3. ASSUME NEW u \in Busy' PROVE session'[u].set \in DOMAIN sets'
    BY <1>1, <1>2, <1>3 DEF Basic, Sessions, Busy
  <2> QED
    BY <2>1, <2>2, <2>3 DEF Sessions
<1>7. Counted'
  <2>1. Busy' \in SUBSET (Busy \cup {s})
    BY <1>2 DEF Busy
  <2>2. IsFiniteSet(Busy) /\ Cardinality(Busy) \in Nat
    BY SessionCard DEF Busy
  <2>3. /\ Cardinality(Busy \cup {s}) \in Nat /\ IsFiniteSet(Busy \cup {s})
        /\ Cardinality(Busy \cup {s}) <= Cardinality(Busy) + 1
    BY <2>2, MoreCard
  <2>4. Cardinality(Busy') <= Cardinality(Busy \cup {s}) /\ Cardinality(Busy') \in Nat
    BY <2>1, <2>3, PartCard
  <2>5. Cardinality(DOMAIN questions) \in Nat
    BY QuestionCard DEF Basic
  <2>6. Cardinality(DOMAIN questions) + Cardinality(Busy') <= requests'
    BY <1>1, <2>2, <2>3, <2>4, <2>5 DEF Basic, Counted, Rows
  <2> QED
    BY <1>3, <2>6 DEF Basic, Counted
<1> QED
  BY <1>4, <1>5, <1>6, <1>7 DEF Basic

\* A request that goes on, or ends.
LEMMA MoveBasic ==
  ASSUME Basic, NEW s \in Session, CheckRate(s) \/ CheckSimilarity(s) \/ Fail(s)
  PROVE  Basic'
<1>1. PICK r \in SessionRec :
        /\ session' = [session EXCEPT ![s] = r] /\ SessionType(r) /\ s \in Busy
        /\ UNCHANGED <<admin, questions, now, requests, after>>
        /\ r.pc # "idle" => r.set = session[s].set
  BY MoveStep
<1>2. session'[s] = r /\ \A u \in Session : u # s => session'[u] = session[u]
  BY <1>1, OneChanges
<1>3. UNCHANGED <<sets, batch, adminRequests, questions, now, requests, after>>
  BY <1>1 DEF admin
<1>4. Rows' /\ Questions' /\ TotalCounted'
  BY <1>3 DEF Basic, Rows, Questions, TotalCounted
<1>5. Busy' \in SUBSET Busy
  BY <1>1, <1>2 DEF Busy
<1>6. Sessions'
  <2>1. session' = [u \in Session |-> session'[u]]
    BY <1>1 DEF Basic, Sessions
  <2>2. \A u \in Session : SessionType(session'[u])
    BY <1>1, <1>2 DEF Basic, Sessions
  <2>3. ASSUME NEW u \in Busy' PROVE session'[u].set \in DOMAIN sets'
    BY <1>1, <1>2, <1>3, <1>5 DEF Basic, Sessions, Busy
  <2> QED
    BY <2>1, <2>2, <2>3 DEF Sessions
<1>7. Counted'
  <2>1. IsFiniteSet(Busy) /\ Cardinality(Busy) \in Nat
    BY SessionCard DEF Busy
  <2>2. Cardinality(Busy') \in Nat /\ Cardinality(Busy') <= Cardinality(Busy)
    BY <1>5, <2>1, PartCard
  <2>3. Cardinality(DOMAIN questions) \in Nat
    BY QuestionCard DEF Basic
  <2> QED
    BY <1>3, <2>1, <2>2, <2>3 DEF Basic, Counted, Rows
<1> QED
  BY <1>4, <1>6, <1>7 DEF Basic

\* What the transaction of SubmitQuestion does to requests and questions, ...
StoresRow(s, n) ==
  /\ session[s].pc = "store" /\ s \in Busy /\ session[s].set \in DOMAIN sets
  /\ session[s].by \in Worker /\ session[s].text \in Text /\ Short(session[s].text)
  /\ session'[s] = Idle /\ \A t \in Session : t # s => session'[t] = session[t]
  /\ session' = [t \in Session |-> session'[t]]
  /\ DOMAIN questions' = DOMAIN questions \cup {n}
  /\ n \notin DOMAIN questions /\ n \in Nat /\ DOMAIN questions' = 1 .. n
  /\ questions' = [i \in DOMAIN questions' |-> questions'[i]]
  /\ \A i \in DOMAIN questions : questions'[i] = questions[i]
  /\ questions'[n] = [by |-> session[s].by, set |-> session[s].set,
                      text |-> session[s].text, at |-> now]
  /\ UNCHANGED <<batch, adminRequests, now, requests>>

\* ... and to the counters.
StoresCounts(s) ==
  /\ DOMAIN sets' = DOMAIN sets /\ sets' \in [DOMAIN sets' -> SetRow]
  /\ \A b \in DOMAIN sets :
       /\ sets'[b].active = sets[b].active
       /\ sets'[b].total = IF b = session[s].set THEN sets[b].total + 1 ELSE sets[b].total
  /\ after' \in [SetId -> Nat]
  /\ \A b \in SetId : after'[b] = IF b = session[s].set THEN after[b] + 1 ELSE after[b]

\* The new row has the next number.
LEMMA StoreStep ==
  ASSUME Basic, NEW s \in Session, Store(s)
  PROVE  \E n \in Nat : StoresRow(s, n)
<1>1. /\ session[s].pc = "store" /\ questions' = Stored(s)
      /\ session' = [session EXCEPT ![s] = Idle]
      /\ UNCHANGED <<batch, adminRequests, now, requests>>
  BY DEF Store, At
<1>2. /\ s \in Busy /\ session[s].set \in DOMAIN sets /\ session[s].by \in Worker
      /\ session[s].text \in Text /\ Short(session[s].text)
  BY <1>1 DEF Busy, Basic, Sessions, SessionType, Short
<1>3. session'[s] = Idle /\ \A t \in Session : t # s => session'[t] = session[t]
  BY <1>1, OneChanges
<1>4. session' = [t \in Session |-> session'[t]]
  BY <1>1 DEF Basic, Sessions
<1>5. /\ Cardinality(DOMAIN questions) \in Nat
      /\ DOMAIN questions = 1 .. Cardinality(DOMAIN questions)
  BY QuestionCard DEF Basic
<1>6. NextId \in Nat /\ NextId \notin DOMAIN questions
      /\ DOMAIN questions \cup {NextId} = 1 .. NextId
  BY <1>5 DEF NextId
<1> DEFINE row == [by |-> session[s].by, set |-> session[s].set,
                   text |-> session[s].text, at |-> now]
<1>7. questions' = [i \in DOMAIN questions \cup {NextId} |->
                      IF i = NextId THEN row ELSE questions[i]]
  BY <1>1 DEF Stored
<1> HIDE DEF row
<1>8. /\ DOMAIN questions' = DOMAIN questions \cup {NextId} /\ questions'[NextId] = row
      /\ questions' = [i \in DOMAIN questions' |-> questions'[i]]
      /\ \A i \in DOMAIN questions : questions'[i] = questions[i]
  BY <1>6, <1>7
<1>9. questions'[NextId] = [by |-> session[s].by, set |-> session[s].set,
                            text |-> session[s].text, at |-> now]
  BY <1>8 DEF row
<1> QED
  BY <1>1, <1>2, <1>3, <1>4, <1>6, <1>8, <1>9 DEF StoresRow

\* The counters that go with it.
LEMMA StoreCounters ==
  ASSUME Basic, NEW s \in Session, Store(s)
  PROVE  StoresCounts(s)
<1>1. PICK b \in SetId : b = session[s].set /\ b \in DOMAIN sets
  BY StoreStep DEF StoresRow, Basic, Rows
<1>2. /\ sets' = [sets EXCEPT ![b].total = @ + 1]
      /\ after' = [after EXCEPT ![b] = @ + 1]
  BY <1>1 DEF Store
<1>3. sets \in [DOMAIN sets -> SetRow] /\ after \in [SetId -> Nat]
  BY DEF Basic, Rows
<1>4. after' \in [SetId -> Nat]
      /\ \A c \in SetId : after'[c] = IF c = b THEN after[c] + 1 ELSE after[c]
  BY <1>2, <1>3
<1> DEFINE row == [sets[b] EXCEPT !.total = sets[b].total + 1]
<1>5. row \in SetRow /\ row.active = sets[b].active /\ row.total = sets[b].total + 1
  BY <1>1, <1>3 DEF SetRow
<1>6. sets' = [sets EXCEPT ![b] = row]
  BY <1>2
<1> HIDE DEF row
<1>7. /\ DOMAIN sets' = DOMAIN sets /\ sets' \in [DOMAIN sets -> SetRow]
      /\ \A c \in DOMAIN sets : sets'[c] = IF c = b THEN row ELSE sets[c]
  BY <1>1, <1>3, <1>5, <1>6
<1> QED
  BY <1>1, <1>4, <1>5, <1>7 DEF StoresCounts

\* A question is stored, and counted.
LEMMA StoreBasic ==
  ASSUME Basic, NEW s \in Session, Store(s)
  PROVE  Basic'
<1>s. PICK n \in Nat : StoresRow(s, n)
  BY StoreStep
<1>c. StoresCounts(s)
  BY StoreCounters
<1>0. UNCHANGED <<batch, adminRequests, now, requests>>
  BY <1>s DEF StoresRow
<1>1. Rows'
  BY <1>0, <1>c DEF Basic, Rows, StoresCounts
<1>2. Questions'
  <2>1. questions'[n] \in QuestionRow
    <3>1. session[s].set \in SetId /\ now \in 0 .. MaxNow
      BY <1>s DEF StoresRow, Basic, Rows
    <3> QED
      BY <1>s, <3>1 DEF StoresRow, QuestionRow
  <2>2. ASSUME NEW i \in DOMAIN questions'
        PROVE  /\ questions'[i] \in QuestionRow /\ questions'[i].set \in DOMAIN sets'
               /\ questions'[i].at <= now' /\ Short(questions'[i].text)
    <3>1. CASE i \in DOMAIN questions
      BY <1>0, <1>s, <1>c, <3>1 DEF StoresRow, StoresCounts, Basic, Questions
    <3>2. CASE i = n
      <4>1. now <= now
        BY DEF Basic, Rows
      <4> QED
        BY <1>0, <1>s, <1>c, <2>1, <3>2, <4>1 DEF StoresRow, StoresCounts
    <3> QED
      BY <1>s, <3>1, <3>2 DEF StoresRow
  <2>3. \E k \in Nat : DOMAIN questions' = 1 .. k
    BY <1>s DEF StoresRow
  <2>4. questions' \in [DOMAIN questions' -> QuestionRow]
    BY <1>s, <2>2 DEF StoresRow
  <2>5. \A i \in DOMAIN questions' :
          /\ questions'[i].set \in DOMAIN sets' /\ questions'[i].at <= now'
          /\ Short(questions'[i].text)
    BY <2>2
  <2> QED
    BY <2>3, <2>4, <2>5 DEF Questions
<1>3. Busy' = Busy \ {s}
  BY <1>s, IdleType DEF StoresRow, Busy
<1>4. Sessions'
  <2>1. \A u \in Session : SessionType(session'[u])
    BY <1>s, IdleType DEF StoresRow, Basic, Sessions
  <2>2. ASSUME NEW u \in Busy' PROVE session'[u].set \in DOMAIN sets'
    <3>1. u \in Busy /\ u # s /\ u \in Session
      BY <1>3 DEF Busy
    <3> QED
      BY <1>s, <1>c, <3>1 DEF StoresRow, StoresCounts, Basic, Sessions
  <2> QED
    BY <1>s, <2>1, <2>2 DEF StoresRow, Sessions
<1>5. Counted'
  <2>1. IsFiniteSet(Busy) /\ s \in Busy
    BY <1>s, SessionCard DEF StoresRow, Busy
  <2>2. Cardinality(Busy') = Cardinality(Busy) - 1 /\ Cardinality(Busy) \in Nat
    BY <1>3, <2>1, FS_RemoveElement, FS_CardinalityType
  <2>3. /\ Cardinality(DOMAIN questions) \in Nat
        /\ Cardinality(DOMAIN questions') = Cardinality(DOMAIN questions) + 1
    <3>1. IsFiniteSet(DOMAIN questions) /\ Cardinality(DOMAIN questions) \in Nat
      BY QuestionCard DEF Basic
    <3> QED
      BY <1>s, <3>1, MoreCard DEF StoresRow
  <2>4. \A b \in SetId : /\ after'[b] <= Cardinality(DOMAIN questions')
                         /\ b \notin DOMAIN sets' => after'[b] = 0
    <3>1. session[s].set \in DOMAIN sets /\ \A b \in SetId : after[b] \in Nat
      BY <1>s DEF StoresRow, Basic, Rows
    <3> QED
      BY <1>c, <2>3, <3>1 DEF StoresCounts, Basic, Counted
  <2>5. Cardinality(DOMAIN questions') + Cardinality(Busy') <= requests'
    BY <1>0, <2>2, <2>3 DEF Basic, Counted, Rows
  <2> QED
    BY <2>4, <2>5 DEF Counted
<1>6. TotalCounted'
  <2> DEFINE of(c) == {i \in DOMAIN questions : questions[i].set = c}
             later(c) == {i \in DOMAIN questions' : questions'[i].set = c}
  <2>1. ASSUME NEW c \in DOMAIN sets PROVE sets'[c].total = Cardinality(later(c))
    <3>1. IsFiniteSet(of(c)) /\ n \notin of(c) /\ sets[c].total = Cardinality(of(c))
      BY <1>s, QuestionCard DEF StoresRow, Basic, TotalCounted
    <3>2. CASE c = session[s].set
      <4>1. later(c) = of(c) \cup {n}
        BY <1>s, <3>2 DEF StoresRow
      <4> HIDE DEF of, later
      <4> QED
        BY <1>c, <3>1, <3>2, <4>1, MoreCard DEF StoresCounts
    <3>3. CASE c # session[s].set
      <4>1. later(c) = of(c)
        BY <1>s, <3>3 DEF StoresRow
      <4> HIDE DEF of, later
      <4> QED
        BY <1>c, <3>1, <3>3, <4>1 DEF StoresCounts
    <3> QED
      BY <3>2, <3>3
  <2> QED
    BY <1>c, <2>1 DEF StoresCounts, TotalCounted
<1> QED
  BY <1>1, <1>2, <1>4, <1>5, <1>6 DEF Basic

\* Every step.
LEMMA BasicNext ==
  ASSUME Basic, Next
  PROVE  Basic'
<1>1. CASE Tick
  BY <1>1, IntakeAssumption, QuietBasic DEF Tick, admin, Basic, Rows
<1>2. ASSUME NEW n \in 1 .. MaxBatch, NEW items \in [1 .. n -> Item], AdminCreates(items)
      PROVE  Basic'
  <2>1. items \in Seq(Item)
    BY IntakeAssumption
  <2> QED
    BY <1>2, <2>1, IntakeAssumption, QuietBasic DEF AdminCreates, Basic, Rows
<1>3. CASE CreateFails
  <2>1. <<>> \in Seq(Item)
    OBVIOUS
  <2> QED
    BY <1>3, <2>1, QuietBasic DEF CreateFails, Basic, Rows
<1> QED
  BY <1>1, <1>2, <1>3, CreateBasic, UpdateBasic, GetBasic, MoveBasic, StoreBasic DEF Next
----------------------------------------------------------------------------
(* The set that is closed. *)

\* What a closed set may have.
Settled(b) == after[b] + Cardinality(Reading(b)) <= Cardinality(Session)

\* ClosedSetSettles says it of each closed set.
LEMMA ClosedIs == ClosedSetSettles <=> \A b \in DOMAIN sets : ~sets[b].active => Settled(b)
  BY DEF ClosedSetSettles, Settled, Reading

\* A set from which requests only go away.
LEMMA SettledStays ==
  ASSUME Basic, NEW b \in SetId, Settled(b), after' = after, Reading(b)' \in SUBSET Reading(b)
  PROVE  Settled(b)'
<1>1. IsFiniteSet(Reading(b)) /\ Cardinality(Reading(b)) \in Nat
      /\ Cardinality(Session) \in Nat
  BY SessionCard DEF Reading
<1>2. Cardinality(Reading(b)') \in Nat /\ Cardinality(Reading(b)') <= Cardinality(Reading(b))
  BY <1>1, PartCard
<1>3. after[b] \in Nat
  BY DEF Basic, Rows
<1> QED
  BY <1>1, <1>2, <1>3 DEF Settled

\* A set for which nothing is counted yet.
LEMMA SettledAtZero ==
  ASSUME NEW b \in SetId, after'[b] = 0
  PROVE  Settled(b)'
<1>1. Reading(b)' \in SUBSET Session
  BY DEF Reading
<1>2. Cardinality(Reading(b)') \in Nat /\ Cardinality(Session) \in Nat
      /\ Cardinality(Reading(b)') <= Cardinality(Session)
  BY <1>1, SessionCard
<1> QED
  BY <1>2 DEF Settled

\* No step lets a closed set have more.
LEMMA ClosedNext ==
  ASSUME Basic, ClosedSetSettles, Next
  PROVE  ClosedSetSettles'
<1> SUFFICES ASSUME NEW b \in DOMAIN sets', ~sets'[b].active, Basic'
             PROVE  Settled(b)'
  <2>1. Basic'
    BY BasicNext
  <2>2. ClosedSetSettles' <=> \A b \in DOMAIN sets' : ~sets'[b].active => Settled(b)'
    BY DEF ClosedSetSettles, Settled, Reading
  <2> QED
    BY <2>1, <2>2
<1>0. b \in SetId
  BY DEF Basic, Rows
<1>1. CASE UNCHANGED <<sets, session, after>>
  <2>1. Reading(b)' = Reading(b)
    BY <1>1 DEF Reading
  <2> QED
    BY <1>0, <1>1, <2>1, SettledStays, ClosedIs
<1>2. CASE CreateBenchmarkSet
  <2>1. CASE b \in DOMAIN sets /\ sets'[b] = sets[b]
    <3>1. Reading(b)' = Reading(b) /\ after' = after
      BY <1>2 DEF CreateBenchmarkSet, Reading
    <3> QED
      BY <1>0, <2>1, <3>1, SettledStays, ClosedIs
  <2>2. CASE b \notin DOMAIN sets
    BY <1>0, <1>2, <2>2, SettledAtZero DEF CreateBenchmarkSet, Basic, Counted
  <2> QED
    BY <1>2, <2>1, <2>2 DEF CreateBenchmarkSet, WithRow
<1>3. ASSUME NEW c \in DOMAIN sets, NEW active \in BOOLEAN, NEW limit,
             UpdateBenchmarkSet(c, active, limit)
      PROVE  Settled(b)'
  <2>1. DOMAIN sets' = DOMAIN sets /\ Reading(b)' = Reading(b)
    BY <1>3 DEF UpdateBenchmarkSet, Reading
  <2>2. CASE b = c /\ sets[b].active
    BY <1>0, <1>3, <2>2, SettledAtZero DEF UpdateBenchmarkSet, Basic, Rows
  <2>3. CASE b = c /\ ~sets[b].active
    <3>1. Settled(b) /\ after' = after
      BY <1>3, <2>3, ClosedIs DEF UpdateBenchmarkSet, Basic, Rows
    <3> QED
      BY <1>0, <2>1, <3>1, SettledStays
  <2>4. CASE b # c
    <3>1. sets'[b] = sets[b] /\ after'[b] = after[b]
      BY <1>0, <1>3, <2>1, <2>4 DEF UpdateBenchmarkSet, Basic, Rows
    <3>2. Settled(b)
      BY <2>1, <3>1, ClosedIs
    <3> QED
      BY <2>1, <3>1, <3>2 DEF Settled
  <2> QED
    BY <2>2, <2>3, <2>4
<1>4. ASSUME NEW s \in Session, NEW w \in Worker, NEW c \in SetId, NEW t \in Text,
             GetBenchmarkSet(s, w, c, t)
      PROVE  Settled(b)'
  <2>1. PICK r \in SessionRec :
          /\ session' = [session EXCEPT ![s] = r] /\ SessionType(r)
          /\ UNCHANGED <<admin, after>> /\ r.pc \in {"idle", "rate"}
          /\ r.pc = "rate" => r.set = c /\ sets[c].active
    BY <1>4, GetStep
  <2>2. session'[s] = r /\ \A u \in Session : u # s => session'[u] = session[u]
    BY <2>1, OneChanges
  <2>3. r.set # b
    BY <1>0, <2>1, IdleType, IntakeAssumption DEF SessionType, admin
  <2>4. Reading(b)' \in SUBSET Reading(b)
    BY <2>2, <2>3 DEF Reading
  <2> QED
    BY <1>0, <2>1, <2>4, SettledStays, ClosedIs DEF admin
<1>5. ASSUME NEW s \in Session, CheckRate(s) \/ CheckSimilarity(s) \/ Fail(s)
      PROVE  Settled(b)'
  <2>1. PICK r \in SessionRec :
          /\ session' = [session EXCEPT ![s] = r] /\ SessionType(r)
          /\ UNCHANGED <<admin, after>> /\ (r.pc # "idle" => r.set = session[s].set)
    BY <1>5, MoveStep
  <2>2. session'[s] = r /\ \A u \in Session : u # s => session'[u] = session[u]
    BY <2>1, OneChanges
  <2>3. r.set = b => session[s].set = b
    BY <1>0, <2>1, IdleType, IntakeAssumption DEF SessionType
  <2>4. Reading(b)' \in SUBSET Reading(b)
    BY <2>2, <2>3 DEF Reading
  <2> QED
    BY <1>0, <2>1, <2>4, SettledStays, ClosedIs DEF admin
<1>6. ASSUME NEW s \in Session, Store(s) PROVE Settled(b)'
  <2>1. PICK n \in Nat : StoresRow(s, n)
    BY <1>6, StoreStep
  <2>2. StoresCounts(s)
    BY <1>6, StoreCounters
  <2>3. Settled(b) /\ after[b] \in Nat /\ b \in DOMAIN sets
    BY <1>0, <2>2, ClosedIs DEF StoresCounts, Basic, Rows
  <2>4. /\ IsFiniteSet(Reading(b)) /\ Cardinality(Reading(b)) \in Nat
        /\ Cardinality(Session) \in Nat
    BY SessionCard DEF Reading
  <2>5. Idle.set # b
    BY <1>0, IdleType, IntakeAssumption
  <2>6. CASE b = session[s].set
    <3>1. s \in Reading(b) /\ Reading(b)' = Reading(b) \ {s}
      BY <2>1, <2>5, <2>6 DEF StoresRow, Reading
    <3>2. Cardinality(Reading(b)') = Cardinality(Reading(b)) - 1
      BY <2>4, <3>1, FS_RemoveElement
    <3>3. after'[b] = after[b] + 1
      BY <1>0, <2>2, <2>6 DEF StoresCounts
    <3> QED
      BY <2>3, <2>4, <3>2, <3>3 DEF Settled
  <2>7. CASE b # session[s].set
    <3>1. Reading(b)' = Reading(b)
      BY <2>1, <2>5, <2>7 DEF StoresRow, Reading
    <3>2. after'[b] = after[b]
      BY <1>0, <2>2, <2>7 DEF StoresCounts
    <3> QED
      BY <2>3, <3>1, <3>2 DEF Settled
  <2> QED
    BY <2>6, <2>7
<1> QED
  BY <1>1, <1>2, <1>3, <1>4, <1>5, <1>6 DEF Next, Tick, AdminCreates, CreateFails, admin
----------------------------------------------------------------------------
(* The races of the two checks. *)

Races == BurstBounded /\ BurstAhead /\ TwinsAhead

\* What the check of the rate limit bounds, for one question.
LEMMA BurstIs ==
  BurstBounded <=> \A i \in DOMAIN questions : Cardinality(Window(i)) <= Cardinality(Session)
  BY DEF BurstBounded, Window

\* The sets that are counted are finite.
LEMMA RaceCard ==
  ASSUME Basic
  PROVE  /\ \A i : IsFiniteSet(Window(i)) /\ Cardinality(Window(i)) \in Nat
         /\ \A w : IsFiniteSet(Rated(w)) /\ Cardinality(Rated(w)) \in Nat
         /\ \A S : IsFiniteSet(Joining(S)) /\ Cardinality(Joining(S)) \in Nat
         /\ \A S \in SUBSET DOMAIN questions : IsFiniteSet(S) /\ Cardinality(S) \in Nat
         /\ IsFiniteSet(Session) /\ Cardinality(Session) \in Nat
<1>1. ASSUME NEW i PROVE IsFiniteSet(Window(i)) /\ Cardinality(Window(i)) \in Nat
  <2>1. Window(i) \in SUBSET DOMAIN questions
    BY DEF Window
  <2> QED
    BY <2>1, QuestionCard DEF Basic
<1>2. ASSUME NEW w PROVE IsFiniteSet(Rated(w)) /\ Cardinality(Rated(w)) \in Nat
  <2>1. Rated(w) \in SUBSET Session
    BY DEF Rated
  <2> QED
    BY <2>1, SessionCard
<1>3. ASSUME NEW S PROVE IsFiniteSet(Joining(S)) /\ Cardinality(Joining(S)) \in Nat
  <2>1. Joining(S) \in SUBSET Session
    BY DEF Joining
  <2> QED
    BY <2>1, SessionCard
<1>4. IsFiniteSet(Session) /\ Cardinality(Session) \in Nat
  BY SessionCard, Session \in SUBSET Session
<1>5. \A S \in SUBSET DOMAIN questions : IsFiniteSet(S) /\ Cardinality(S) \in Nat
  BY QuestionCard DEF Basic
<1> QED
  BY <1>1, <1>2, <1>3, <1>4, <1>5

\* Time passes, or an admin changes the sets.
LEMMA RacesQuiet ==
  ASSUME Basic, Races, UNCHANGED <<questions, session>>, now' \in Nat, now <= now'
  PROVE  Races'
<1>1. ASSUME NEW i \in DOMAIN questions, now' - questions[i].at < RateLimit
      PROVE  now - questions[i].at < RateLimit
  <2>1. questions[i].at \in Nat /\ now \in Nat /\ RateLimit \in Nat
    BY IntakeAssumption DEF Basic, Questions, QuestionRow, Rows
  <2> QED
    BY <1>1, <2>1
<1>2. \A i : Window(i)' = Window(i)
  BY DEF Window
<1>3. \A w : Rated(w)' = Rated(w)
  BY DEF Rated
<1>4. BurstBounded'
  BY DEF Races, BurstBounded
<1>5. BurstAhead'
  BY <1>1, <1>2, <1>3 DEF Races, BurstAhead
<1>6. TwinsAhead'
  BY DEF Races, TwinsAhead, Twins, Joining
<1> QED
  BY <1>4, <1>5, <1>6 DEF Races

\* A request that has not stored a question: it passes a check only if no
\* question in the way is stored.
LEMMA RacesMove ==
  ASSUME Basic, Races, NEW s \in Session, NEW r, session' = [session EXCEPT ![s] = r],
         UNCHANGED <<questions, now>>,
         r.pc \in {"similarity", "store"} => s \in Rated(r.by) \/ ~RateLimited(r.by),
         r.pc = "store" => Like(r.set, r.text) = {}
  PROVE  Races'
<1>1. session'[s] = r /\ \A u \in Session : u # s => session'[u] = session[u]
  BY OneChanges
<1>2. BurstBounded'
  BY DEF Races, BurstBounded
<1>3. BurstAhead'
  <2>1. ASSUME NEW i \in DOMAIN questions, now - questions[i].at < RateLimit
        PROVE  Cardinality(Window(i)') + Cardinality(Rated(questions[i].by)')
                 <= Cardinality(Session)
    <3> DEFINE w == questions[i].by
    <3>1. Window(i)' = Window(i)
      BY DEF Window
    <3>2. RateLimited(w)
      BY <2>1 DEF RateLimited
    <3>3. Rated(w)' \in SUBSET Rated(w)
      BY <1>1, <3>2 DEF Rated
    <3>4. Cardinality(Rated(w)') \in Nat /\ Cardinality(Rated(w)') <= Cardinality(Rated(w))
      BY <3>3, RaceCard, PartCard
    <3>5. Cardinality(Window(i)) + Cardinality(Rated(w)) <= Cardinality(Session)
      BY <2>1 DEF Races, BurstAhead
    <3> HIDE DEF w
    <3>6. /\ Cardinality(Window(i)) \in Nat /\ Cardinality(Rated(w)) \in Nat
          /\ Cardinality(Session) \in Nat
      BY RaceCard
    <3>7. Cardinality(Window(i)') + Cardinality(Rated(w)') <= Cardinality(Session)
      BY <3>1, <3>4, <3>5, <3>6
    <3> QED
      BY <3>7 DEF w
  <2> QED
    BY <2>1 DEF BurstAhead
<1>4. TwinsAhead'
  <2>1. ASSUME NEW S \in SUBSET DOMAIN questions, Twins(S), S # {}
        PROVE  Cardinality(S) + Cardinality(Joining(S)') <= Cardinality(Session)
    <3>1. PICK i \in S : TRUE
      BY <2>1
    <3>2. r.pc = "store" => ~(/\ questions[i].set = r.set
                              /\ <<r.text, questions[i].text>> \in Similar)
      BY DEF Like
    <3>3. Joining(S)' \in SUBSET Joining(S)
      BY <1>1, <3>1, <3>2 DEF Joining
    <3>4. /\ Cardinality(Joining(S)') \in Nat
          /\ Cardinality(Joining(S)') <= Cardinality(Joining(S))
      BY <3>3, RaceCard, PartCard
    <3>5. Cardinality(S) + Cardinality(Joining(S)) <= Cardinality(Session)
      BY <2>1 DEF Races, TwinsAhead
    <3>6. /\ Cardinality(S) \in Nat /\ Cardinality(Joining(S)) \in Nat
          /\ Cardinality(Session) \in Nat
      BY RaceCard
    <3> QED
      BY <3>4, <3>5, <3>6
  <2>2. \A S : Twins(S)' <=> Twins(S)
    BY DEF Twins
  <2> QED
    BY <2>1, <2>2 DEF TwinsAhead
<1> QED
  BY <1>2, <1>3, <1>4 DEF Races

\* What is bounded for a question i of worker v.
Burst(i, v) ==
  /\ Cardinality(Window(i)) <= Cardinality(Session)
  /\ now - questions[i].at < RateLimit =>
       Cardinality(Window(i)) + Cardinality(Rated(v)) <= Cardinality(Session)

\* A question is stored: its request leaves those that had passed the check.
LEMMA BurstStore ==
  ASSUME Basic, Basic', Races, NEW s \in Session, NEW n \in Nat, StoresRow(s, n)
  PROVE  BurstBounded' /\ BurstAhead'
<1>w. PICK w : w = session[s].by
  OBVIOUS
<1>0. /\ questions'[n].by = w /\ questions'[n].at = now /\ now' = now
      /\ DOMAIN questions' = DOMAIN questions \cup {n} /\ n \notin DOMAIN questions
      /\ \A i \in DOMAIN questions : questions'[i] = questions[i]
      /\ session[s].pc = "store" /\ session'[s] = Idle
      /\ \A t \in Session : t # s => session'[t] = session[t]
  BY <1>w DEF StoresRow
<1>1. \A v : Rated(v)' \in SUBSET Rated(v) \ {s}
  BY <1>0, IdleType DEF Rated
<1>2. s \in Rated(w)
  BY <1>0, <1>w DEF Rated
<1>3. /\ \A i : IsFiniteSet(Window(i)) /\ Cardinality(Window(i)) \in Nat
      /\ \A v : IsFiniteSet(Rated(v)) /\ Cardinality(Rated(v)) \in Nat
      /\ IsFiniteSet(Session) /\ Cardinality(Session) \in Nat
  BY RaceCard
<1>4. /\ \A v : /\ Cardinality(Rated(v)') \in Nat
                /\ Cardinality(Rated(v)') <= Cardinality(Rated(v))
      /\ Cardinality(Rated(w)') + 1 <= Cardinality(Rated(w))
      /\ \A v : Cardinality(Rated(v)') + 1 <= Cardinality(Session)
  <2>1. ASSUME NEW v
        PROVE  /\ Cardinality(Rated(v)') \in Nat
               /\ Cardinality(Rated(v)') <= Cardinality(Rated(v))
    <3>1. Rated(v)' \in SUBSET Rated(v)
      BY <1>1
    <3> QED
      BY <1>3, <3>1, PartCard
  <2>2. Cardinality(Rated(w)') + 1 <= Cardinality(Rated(w))
    <3>1. Rated(w)' \in SUBSET Rated(w) /\ s \notin Rated(w)'
      BY <1>1
    <3> QED
      BY <1>2, <1>3, <3>1, LessCard
  <2>3. ASSUME NEW v PROVE Cardinality(Rated(v)') + 1 <= Cardinality(Session)
    <3>1. Rated(v)' \in SUBSET Session /\ s \notin Rated(v)'
      BY <1>1 DEF Rated
    <3> QED
      BY <1>3, <3>1, LessCard
  <2> QED
    BY <2>1, <2>2, <2>3
<1>5. \A i \in DOMAIN questions' : questions'[i].at \in Nat /\ questions'[i].at <= now
  BY <1>0 DEF Basic, Questions, QuestionRow
<1>6. RateLimit \in Nat /\ now \in Nat
  BY IntakeAssumption DEF Basic, Rows
<1>7. ASSUME NEW i \in DOMAIN questions, NEW v, v = questions[i].by PROVE Burst(i, v)'
  <2>1. /\ Cardinality(Window(i)) <= Cardinality(Session)
        /\ now - questions[i].at < RateLimit =>
             Cardinality(Window(i)) + Cardinality(Rated(v)) <= Cardinality(Session)
    BY <1>7, BurstIs DEF Races, BurstAhead
  <2>2. questions'[i] = questions[i] /\ questions[i].at \in Nat
    BY <1>0, <1>5
  <2>3. CASE n \notin Window(i)'
    <3>1. Window(i)' \in SUBSET Window(i)
      BY <1>0, <2>3 DEF Window
    <3>2. /\ Cardinality(Window(i)') \in Nat
          /\ Cardinality(Window(i)') <= Cardinality(Window(i))
      BY <1>3, <3>1, PartCard
    <3>3. /\ Cardinality(Rated(v)') \in Nat /\ Cardinality(Rated(v)') <= Cardinality(Rated(v))
          /\ Cardinality(Rated(v)) \in Nat /\ Cardinality(Window(i)) \in Nat
          /\ Cardinality(Session) \in Nat
      BY <1>3, <1>4
    <3> QED
      BY <1>0, <2>1, <2>2, <3>2, <3>3 DEF Burst
  <2>4. CASE n \in Window(i)'
    <3>1. v = w /\ now - questions[i].at < RateLimit
      BY <1>0, <1>6, <1>7, <2>2, <2>4 DEF Window
    <3>2. Window(i)' \in SUBSET (Window(i) \cup {n})
      BY <1>0 DEF Window
    <3>3. /\ IsFiniteSet(Window(i) \cup {n}) /\ Cardinality(Window(i) \cup {n}) \in Nat
          /\ Cardinality(Window(i) \cup {n}) <= Cardinality(Window(i)) + 1
      BY <1>3, MoreCard
    <3>4. /\ Cardinality(Window(i)') \in Nat
          /\ Cardinality(Window(i)') <= Cardinality(Window(i) \cup {n})
      BY <3>2, <3>3, PartCard
    <3>5. Cardinality(Window(i)) \in Nat /\ Cardinality(Session) \in Nat
          /\ Cardinality(Rated(w)) \in Nat /\ Cardinality(Rated(w)') \in Nat
          /\ Cardinality(Rated(w)') + 1 <= Cardinality(Rated(w))
      BY <1>3, <1>4
    <3> QED
      BY <1>0, <2>1, <2>2, <3>1, <3>3, <3>4, <3>5 DEF Burst
  <2> QED
    BY <2>3, <2>4
<1>8. Burst(n, w)'
  <2>1. CASE \E k \in DOMAIN questions : questions[k].by = w /\ questions[k].at = now
    <3>1. PICK k \in DOMAIN questions : questions[k].by = w /\ questions[k].at = now
      BY <2>1
    <3>2. questions'[k].by = questions'[n].by /\ questions'[k].at = questions'[n].at
      BY <1>0, <3>1
    <3>3. Window(n)' = Window(k)'
      BY <3>2 DEF Window
    <3>4. Burst(k, w)'
      BY <1>7, <3>1
    <3> QED
      BY <3>2, <3>3, <3>4 DEF Burst
  <2>2. CASE \A k \in DOMAIN questions : questions[k].by = w => questions[k].at # now
    <3>1. ASSUME NEW j \in Window(n)' PROVE j = n
      <4>1. /\ j \in DOMAIN questions' /\ questions'[j].by = w
            /\ questions'[j].at - now \in 0 .. RateLimit - 1
        BY <1>0 DEF Window
      <4>2. questions'[j].at = now
        BY <1>5, <1>6, <4>1
      <4> QED
        BY <1>0, <2>2, <4>1, <4>2
    <3>2. Window(n)' \in SUBSET {n}
      BY <3>1
    <3>3. IsFiniteSet({n}) /\ Cardinality({n}) = 1
      BY FS_Singleton
    <3>4. Cardinality(Window(n)') \in Nat /\ Cardinality(Window(n)') <= 1
      BY <3>2, <3>3, PartCard
    <3>5. /\ Cardinality(Rated(w)') + 1 <= Cardinality(Session)
          /\ Cardinality(Rated(w)') \in Nat /\ Cardinality(Session) \in Nat
      BY <1>3, <1>4
    <3> QED
      BY <3>4, <3>5 DEF Burst
  <2> QED
    BY <2>1, <2>2
<1>9. ASSUME NEW i \in DOMAIN questions', NEW v, v = questions'[i].by PROVE Burst(i, v)'
  BY <1>0, <1>7, <1>8, <1>9
<1>10. BurstAhead'
  <2>1. ASSUME NEW i \in DOMAIN questions', now' - questions'[i].at < RateLimit
        PROVE  Cardinality(Window(i)') + Cardinality(Rated(questions[i].by)')
                 <= Cardinality(Session)
    <3>1. PICK v : v = questions'[i].by
      OBVIOUS
    <3>2. Rated(questions[i].by)' = Rated(v)'
      BY <3>1 DEF Rated
    <3> QED
      BY <1>9, <2>1, <3>1, <3>2 DEF Burst
  <2> QED
    BY <2>1 DEF BurstAhead
<1>11. BurstBounded'
  <2>1. \A i \in DOMAIN questions' : Cardinality(Window(i)') <= Cardinality(Session)
    BY <1>9 DEF Burst
  <2> QED
    BY <2>1 DEF BurstBounded, Window
<1> QED
  BY <1>10, <1>11

\* A question is stored: its request leaves those that could join its twins.
LEMMA TwinsStore ==
  ASSUME Basic, Basic', Races, NEW s \in Session, NEW n \in Nat, StoresRow(s, n)
  PROVE  TwinsAhead'
<1>0. /\ questions'[n].set = session[s].set /\ questions'[n].text = session[s].text
      /\ DOMAIN questions' = DOMAIN questions \cup {n} /\ n \notin DOMAIN questions
      /\ \A i \in DOMAIN questions : questions'[i] = questions[i]
      /\ session[s].pc = "store" /\ session'[s] = Idle
      /\ \A t \in Session : t # s => session'[t] = session[t]
  BY DEF StoresRow
<1>1. ASSUME NEW S \in SUBSET DOMAIN questions', Twins(S)', S # {}
      PROVE  Cardinality(S) + Cardinality(Joining(S)') <= Cardinality(Session)
  <2>0. IsFiniteSet(Session) /\ Cardinality(Session) \in Nat
    BY RaceCard
  <2>1. CASE n \notin S
    <3>1. S \in SUBSET DOMAIN questions /\ Twins(S)
      BY <1>0, <1>1, <2>1 DEF Twins
    <3>2. Joining(S)' \in SUBSET Joining(S)
      BY <1>0, <3>1, IdleType DEF Joining
    <3>3. /\ IsFiniteSet(Joining(S)) /\ Cardinality(Joining(S)) \in Nat
          /\ Cardinality(S) \in Nat
      BY <3>1, RaceCard
    <3>4. /\ Cardinality(Joining(S)') \in Nat
          /\ Cardinality(Joining(S)') <= Cardinality(Joining(S))
      BY <3>2, <3>3, PartCard
    <3>5. Cardinality(S) + Cardinality(Joining(S)) <= Cardinality(Session)
      BY <1>1, <3>1 DEF Races, TwinsAhead
    <3> QED
      BY <2>0, <3>3, <3>4, <3>5
  <2>2. CASE n \in S
    <3> DEFINE R == S \ {n}
    <3>1. R \in SUBSET DOMAIN questions /\ S = R \cup {n} /\ n \notin R
      BY <1>0, <2>2
    <3>2. IsFiniteSet(R) /\ Cardinality(R) \in Nat
      BY <3>1, RaceCard
    <3>3. Cardinality(S) = Cardinality(R) + 1
      BY <3>1, <3>2, MoreCard
    <3>4. CASE R = {}
      <4>1. Joining(S)' \in SUBSET Session /\ s \notin Joining(S)'
        BY <1>0, IdleType DEF Joining
      <4>2. Cardinality(Joining(S)') + 1 <= Cardinality(Session)
        BY <2>0, <4>1, LessCard
      <4>3. Cardinality(Joining(S)') \in Nat
        BY <2>0, <4>1, PartCard
      <4>4. Cardinality(R) = 0
        BY <3>4, FS_EmptySet
      <4> QED
        BY <2>0, <3>3, <4>2, <4>3, <4>4
    <3>5. CASE R # {}
      <4>1. /\ Twins(R)
            /\ \A i \in R : /\ questions[i].set = session[s].set
                            /\ <<session[s].text, questions[i].text>> \in Similar
        BY <1>0, <1>1, <3>1 DEF Twins
      <4> HIDE DEF R
      <4>2. s \in Joining(R)
        BY <1>0, <4>1 DEF Joining
      <4>3. Joining(S)' \in SUBSET Joining(R) /\ s \notin Joining(S)'
        BY <1>0, <3>1, IdleType DEF Joining
      <4>4. IsFiniteSet(Joining(R)) /\ Cardinality(Joining(R)) \in Nat
        BY RaceCard
      <4>5. /\ Cardinality(Joining(S)') + 1 <= Cardinality(Joining(R))
            /\ Cardinality(Joining(S)') \in Nat
        BY <4>2, <4>3, <4>4, LessCard, PartCard
      <4>6. Cardinality(R) + Cardinality(Joining(R)) <= Cardinality(Session)
        BY <3>1, <3>5, <4>1 DEF Races, TwinsAhead
      <4> QED
        BY <2>0, <3>2, <3>3, <4>4, <4>5, <4>6
    <3> QED
      BY <3>4, <3>5
  <2> QED
    BY <2>1, <2>2
<1> QED
  BY <1>1 DEF TwinsAhead

\* Every step.
LEMMA RacesNext ==
  ASSUME Basic, Races, Next
  PROVE  Races'
<1>0. Basic'
  BY BasicNext
<1>1. CASE UNCHANGED <<questions, session>> /\ now' \in {now, now + 1}
  <2>1. now \in Nat
    BY DEF Basic, Rows
  <2> QED
    BY <1>1, <2>1, RacesQuiet
<1>2. ASSUME NEW s \in Session, NEW w \in Worker, NEW b \in SetId, NEW t \in Text,
             GetBenchmarkSet(s, w, b, t)
      PROVE  Races'
  <2>1. PICK r \in SessionRec :
          /\ session' = [session EXCEPT ![s] = r] /\ UNCHANGED <<questions, now>>
          /\ r.pc \in {"idle", "rate"}
    BY <1>2, GetStep
  <2> QED
    BY <2>1, RacesMove
<1>3. ASSUME NEW s \in Session, CheckRate(s) \/ CheckSimilarity(s) \/ Fail(s)
      PROVE  Races'
  <2>1. PICK r \in SessionRec :
          /\ session' = [session EXCEPT ![s] = r] /\ UNCHANGED <<questions, now>>
          /\ r.pc \in {"idle", "similarity", "store"}
          /\ r.pc # "idle" => r.by = session[s].by /\ r.set = session[s].set
                              /\ r.text = session[s].text
          /\ r.pc = "similarity" => ~RateLimited(session[s].by)
          /\ r.pc = "store" => /\ session[s].pc = "similarity"
                               /\ Like(session[s].set, session[s].text) = {}
    BY <1>3, MoveStep
  <2>2. r.pc \in {"similarity", "store"} => s \in Rated(r.by) \/ ~RateLimited(r.by)
    BY <2>1 DEF Rated
  <2>3. r.pc = "store" => Like(r.set, r.text) = {}
    BY <2>1
  <2> QED
    BY <2>1, <2>2, <2>3, RacesMove
<1>4. ASSUME NEW s \in Session, Store(s) PROVE Races'
  <2>1. PICK n \in Nat : StoresRow(s, n)
    BY <1>4, StoreStep
  <2> QED
    BY <1>0, <2>1, BurstStore, TwinsStore DEF Races
<1> QED
  BY <1>1, <1>2, <1>3, <1>4
  DEF Next, Tick, AdminCreates, CreateBenchmarkSet, CreateFails, UpdateBenchmarkSet
----------------------------------------------------------------------------
(* The whole. *)

Inv == Basic /\ ClosedSetSettles /\ Races

\* Before the first set and the first request.
LEMMA InitInv == Init => Inv
<1> SUFFICES ASSUME Init PROVE Inv
  OBVIOUS
<1>1. /\ sets = [b \in {} |-> None] /\ batch = <<>> /\ adminRequests = 0
      /\ questions = [i \in {} |-> None] /\ now = 0 /\ requests = 0
      /\ session = [s \in Session |-> Idle] /\ after = [b \in SetId |-> 0]
  BY DEF Init
<1>2. DOMAIN sets = {} /\ DOMAIN questions = {} /\ Cardinality({}) = 0
  BY <1>1, FS_EmptySet
<1>3. Rows
  BY <1>1, <1>2, IntakeAssumption DEF Rows
<1>4. Questions
  <2>1. 1 .. 0 = {}
    OBVIOUS
  <2>2. \E n \in Nat : DOMAIN questions = 1 .. n
    BY <1>2, <2>1
  <2> QED
    BY <1>1, <1>2, <2>2 DEF Questions
<1>5. Busy = {}
  BY <1>1, IdleType DEF Busy
<1>6. Sessions
  BY <1>1, <1>5, IdleType DEF Sessions
<1>7. Counted /\ TotalCounted /\ ClosedSetSettles
  BY <1>1, <1>2, <1>5 DEF Counted, TotalCounted, ClosedSetSettles
<1>8. Races
  BY <1>2 DEF Races, BurstBounded, BurstAhead, TwinsAhead
<1> QED
  BY <1>3, <1>4, <1>6, <1>7, <1>8 DEF Inv, Basic

\* Every step preserves the invariant.
LEMMA NextInv == Inv /\ [Next]_vars => Inv'
<1> SUFFICES ASSUME Inv, [Next]_vars PROVE Inv'
  OBVIOUS
<1>1. CASE Next
  BY <1>1, BasicNext, ClosedNext, RacesNext DEF Inv
<1>2. CASE UNCHANGED vars
  <2>1. UNCHANGED <<sets, batch, adminRequests, questions, now, session, requests, after>>
    BY <1>2 DEF vars, admin
  <2>2. now \in Nat /\ now' \in 0 .. MaxNow /\ now <= now'
    BY <2>1 DEF Inv, Basic, Rows
  <2>3. Basic'
    BY <2>1, <2>2, QuietBasic DEF Inv, Basic, Rows
  <2>4. Races'
    BY <2>1, <2>2, RacesQuiet DEF Inv
  <2>5. ClosedSetSettles'
    BY <2>1 DEF Inv, ClosedSetSettles
  <2> QED
    BY <2>3, <2>4, <2>5 DEF Inv
<1> QED
  BY <1>1, <1>2

\* The invariant holds in every reachable state.
LEMMA AlwaysInv == Spec => []Inv
  BY InitInv, NextInv, PTL DEF Spec

\* Basic is the type invariant and more.
LEMMA BasicType ==
  ASSUME Basic PROVE TypeOK
<1> DEFINE N == Cardinality(DOMAIN questions)
<1>1. N \in Nat /\ DOMAIN questions = 1 .. N
  BY QuestionCard DEF Basic
<1>2. N <= MaxRequests
  <2>1. Cardinality(Busy) \in Nat
    BY SessionCard DEF Busy
  <2> QED
    BY <1>1, <2>1, IntakeAssumption DEF Basic, Rows, Counted
<1>3. ASSUME NEW b \in DOMAIN sets
      PROVE  b \in SetId /\ sets[b] \in [active : BOOLEAN, total : 0 .. MaxRequests,
                                         limit : Limits \cup {DefaultLimit}]
  <2>1. b \in SetId /\ sets[b] \in SetRow
    BY DEF Basic, Rows
  <2> DEFINE of == {i \in DOMAIN questions : questions[i].set = b}
  <2>2. Cardinality(of) \in Nat /\ Cardinality(of) <= N
    BY QuestionCard DEF Basic
  <2>3. sets[b].total = Cardinality(of)
    BY DEF Basic, TotalCounted
  <2> HIDE DEF of, N
  <2>4. sets[b].total \in 0 .. MaxRequests
    BY <1>1, <1>2, <2>2, <2>3, IntakeAssumption
  <2> QED
    BY <2>1, <2>4 DEF SetRow, Limit
<1>4. ASSUME NEW i \in DOMAIN questions
      PROVE  /\ questions[i] \in [by : Worker, set : DOMAIN sets, text : Text,
                                  at : 0 .. MaxNow]
             /\ \E l \in Limits \cup {DefaultLimit} : Length[questions[i].text] <= l
  BY DEF Basic, Questions, QuestionRow, Short, Limit
<1>5. ASSUME NEW s \in Session
      PROVE  /\ session[s].pc \in {"idle", "rate", "similarity", "store"}
             /\ session[s].pc # "idle" =>
                  /\ session[s].by \in Worker /\ session[s].text \in Text
                  /\ session[s].set \in DOMAIN sets
  BY DEF Basic, Sessions, SessionType, SessionRec, Busy
<1>6. after \in [SetId -> 0 .. MaxRequests]
  <2>1. \A b \in SetId : after[b] \in Nat /\ after[b] <= N
    BY DEF Basic, Rows, Counted
  <2> HIDE DEF N
  <2>2. \A b \in SetId : after[b] \in 0 .. MaxRequests
    BY <1>1, <1>2, <2>1, IntakeAssumption
  <2> QED
    BY <2>2 DEF Basic, Rows
<1> HIDE DEF N
<1> QED
  BY <1>1, <1>3, <1>4, <1>5, <1>6 DEF TypeOK, Basic, Rows, N

\* Rows and requests keep their types, and no text longer than every limit is
\* ever stored.
THEOREM TypeCorrect == Spec => []TypeOK
<1>1. Inv => TypeOK
  BY BasicType DEF Inv
<1> QED
  BY <1>1, AlwaysInv, PTL

\* However requests, failures and admins interleave, total_questions is the
\* number of questions in the set (store/question.go, IncrementBSTotalQuestions
\* in the transaction of the INSERT).
THEOREM TotalsCount == Spec => []TotalCounted
<1>1. Inv => TotalCounted
  BY DEF Inv, Basic
<1> QED
  BY <1>1, AlwaysInv, PTL

\* A closed set gets no more questions than requests were under way when it
\* was closed (service/question.go: the status is read once, at the start).
THEOREM ClosedSettles == Spec => []ClosedSetSettles
<1>1. Inv => ClosedSetSettles
  BY DEF Inv
<1> QED
  BY <1>1, AlwaysInv, PTL

\* The rate limit is exceeded by no more than the requests a worker has under
\* way at once (service/question.go: GetLastQuestionTime is read before the
\* transaction).
THEOREM BurstsAreBounded == Spec => []BurstBounded
<1>1. Inv => BurstBounded
  BY DEF Inv, Races
<1> QED
  BY <1>1, AlwaysInv, PTL

\* Of questions similar to each other a set holds at most as many as there are
\* requests under way at once (service/question.go: ListAllQuestionMinHashes is
\* read before the transaction).
THEOREM TwinsAreBounded == Spec => []TwinsBounded
<1>1. ASSUME Inv PROVE TwinsBounded
  <2>1. ASSUME NEW S \in SUBSET DOMAIN questions, Twins(S)
        PROVE  Cardinality(S) <= Cardinality(Session)
    <3>1. /\ Cardinality(S) \in Nat /\ Cardinality(Joining(S)) \in Nat
          /\ Cardinality(Session) \in Nat
      BY <1>1, RaceCard DEF Inv
    <3>2. CASE S = {}
      BY <3>1, <3>2, FS_EmptySet
    <3>3. CASE S # {}
      BY <1>1, <2>1, <3>1, <3>3 DEF Inv, Races, TwinsAhead
    <3> QED
      BY <3>2, <3>3
  <2> QED
    BY <2>1 DEF TwinsBounded, Twins
<1> QED
  BY <1>1, AlwaysInv, PTL
=============================================================================
