-------------------------- MODULE WorkerGateProofs --------------------------
(***************************************************************************)
(* Proofs about WorkerGate, for every number of requests and scorers that  *)
(* work on a worker's row, every base of the back-off and every width of   *)
(* the integer a duration is kept in.                                      *)
(***************************************************************************)
EXTENDS WorkerGate, FiniteSetTheorems, TLAPS

\* Requests and calls are records.
RequestType == [pc : {"idle", "unknown", "eligible", "reread", "known", "expired"},
                full : BOOLEAN, seen : Row \cup {None}]

CallType == [pc : {"idle", "read", "decided"}, seen : Row \cup {None}, until : Int]

Shape ==
  /\ row \in Row \cup {None}
  /\ req \in [Req -> RequestType] /\ scorer \in [Scorer -> CallType]

Counters ==
  /\ registered \in BOOLEAN /\ now \in 0..MaxNow
  /\ requests \in 0..MaxRequests /\ offences \in 0..MaxOffences
  /\ resets \in 0..MaxResets

\* A row is never deleted: who has met it, or lost the race to insert it, will
\* find it.
RowKept ==
  /\ \A r \in Req : req[r].pc = "reread" => row # None
  /\ \A r \in Req : req[r].pc \in {"known", "expired"} => row # None /\ req[r].seen # None

\* The first n terms of the back-off together.
Terms(n) == Base * (2^n - 1)

\* A suspension until u is covered by n low scores.
Covered(u, n) == u = None \/ u <= now + Terms(n)

\* Every suspension that is stored, or decided on, is covered by the low scores
\* so far; one that a scorer has read, by those without its own.  This is what
\* stacking needs: the new term, which doubles with the violations read, is
\* then at most the term of the scorer's own low score.
Punishments ==
  /\ row # None => Covered(row.until, offences) /\ row.violations <= offences
  /\ \A s \in Scorer :
       /\ scorer[s].pc # "idle" => /\ scorer[s].seen # None
                                   /\ scorer[s].seen.violations < offences
       /\ scorer[s].pc = "read" => Covered(scorer[s].seen.until, offences - 1)
       /\ scorer[s].pc = "decided" => scorer[s].until <= now + Terms(offences)

Inv == Shape /\ Counters /\ RowKept /\ Punishments
----------------------------------------------------------------------------
(* Powers of two. *)

\* 2^n counts the sets of n things, and there is at least the empty one.
LEMMA PowerIs ==
  ASSUME NEW n \in Nat
  PROVE  /\ IsFiniteSet(SUBSET (1..n)) /\ Cardinality(SUBSET (1..n)) = 2^n
         /\ 2^n \in Nat \ {0}
<1>1. IsFiniteSet(1..n) /\ Cardinality(1..n) = n
  BY FS_Interval
<1>2. IsFiniteSet(SUBSET (1..n)) /\ Cardinality(SUBSET (1..n)) = 2^n
  BY <1>1, FS_SUBSET
<1>3. SUBSET (1..n) # {}
  OBVIOUS
<1>4. 2^n \in Nat \ {0}
  BY <1>2, <1>3, FS_CardinalityType, FS_EmptySet
<1> QED
  BY <1>2, <1>4

\* More violations, no shorter terms.
LEMMA PowerGrows ==
  ASSUME NEW n \in Nat, NEW m \in Nat, m <= n
  PROVE  2^m <= 2^n
<1> DEFINE M == SUBSET (1..m)
           N == SUBSET (1..n)
<1>1. M \in SUBSET N
  OBVIOUS
<1>2. IsFiniteSet(N) /\ Cardinality(N) = 2^n /\ Cardinality(M) = 2^m
  BY PowerIs
<1> HIDE DEF M, N
<1> QED
  BY <1>1, <1>2, FS_Subset

\* The sets of n + 1 things: those without the last, and each of them with it.
LEMMA PowerDoubles ==
  ASSUME NEW n \in Nat
  PROVE  2^(n + 1) = 2^n + 2^n
<1> DEFINE A == SUBSET (1..n)
           C == SUBSET (1..(n + 1))
           f == [s \in A |-> s \cup {n + 1}]
           B == {f[s] : s \in A}
<1>1. IsFiniteSet(A) /\ Cardinality(A) = 2^n /\ 2^n \in Nat
  BY PowerIs
<1>2. Cardinality(C) = 2^(n + 1)
  <2>1. n + 1 \in Nat
    OBVIOUS
  <2> QED
    BY <2>1, PowerIs
<1>3. f \in Bijection(A, B)
  <2>1. f \in Surjection(A, B)
    BY DEF Surjection
  <2>2. ASSUME NEW s \in A, NEW t \in A, f[s] = f[t] PROVE s = t
    <3>1. n + 1 \notin s /\ n + 1 \notin t
      OBVIOUS
    <3>2. s \cup {n + 1} = t \cup {n + 1}
      BY <2>2
    <3> QED
      BY <3>1, <3>2
  <2>3. f \in [A -> B]
    OBVIOUS
  <2> HIDE DEF A, B, f
  <2>4. f \in Injection(A, B)
    BY <2>2, <2>3 DEF Injection, IsInjective
  <2> QED
    BY <2>1, <2>4 DEF Bijection
<1>4. IsFiniteSet(B) /\ Cardinality(B) = Cardinality(A)
  <2> HIDE DEF f, A, B
  <2> QED
    BY <1>1, <1>3, FS_Bijection DEF ExistsBijection
<1>5. A \cap B = {}
  <2>1. \A s \in A : n + 1 \notin s
    OBVIOUS
  <2> QED
    BY <2>1
<1>6. A \cup B = C
  <2>1. ASSUME NEW s \in C PROVE s \in A \cup B
    <3>1. CASE n + 1 \notin s
      <4>1. \A i \in s : i \in 1..n
        BY <3>1
      <4> QED
        BY <4>1
    <3>2. CASE n + 1 \in s
      <4>1. s \ {n + 1} \in A
        OBVIOUS
      <4>2. s = f[s \ {n + 1}]
        BY <3>2, <4>1
      <4> QED
        BY <4>1, <4>2
    <3> QED
      BY <3>1, <3>2
  <2>2. ASSUME NEW s \in A PROVE s \in C /\ f[s] \in C
    OBVIOUS
  <2>3. ASSUME NEW b \in B PROVE b \in C
    <3>1. PICK s \in A : b = f[s]
      BY <2>3
    <3> HIDE DEF A, C, f
    <3> QED
      BY <2>2, <3>1
  <2> HIDE DEF A, B, C
  <2>4. \A s : s \in A => s \in C
    BY <2>2
  <2> QED
    BY <2>1, <2>3, <2>4
<1> HIDE DEF A, B, C, f
<1>7. Cardinality(A \cup B) = Cardinality(A) + Cardinality(B) - Cardinality({})
  BY <1>1, <1>4, <1>5, FS_Union
<1>8. PICK x \in Nat : x = 2^n
  BY <1>1
<1>9. Cardinality(A) = x /\ Cardinality(B) = x
  BY <1>1, <1>4, <1>8
<1>10. Cardinality(C) = Cardinality(A \cup B)
  BY <1>6, Zenon
<1>11. Cardinality(C) = x + x
  BY <1>7, <1>9, <1>10, FS_EmptySet
<1> QED
  BY <1>2, <1>8, <1>11
----------------------------------------------------------------------------
(* The back-off. *)

\* The terms grow, and the next one is the base, doubled n times.
LEMMA TermsGrow ==
  ASSUME NEW n \in Nat, NEW m \in Nat, m <= n
  PROVE  /\ Terms(m) \in Nat /\ Terms(n) \in Nat /\ Terms(m) <= Terms(n)
         /\ Terms(n + 1) = Terms(n) + Base * 2^n
         /\ Base * 2^m \in Nat /\ Base * 2^n \in Nat /\ Base * 2^m <= Base * 2^n
<1>1. PICK x \in Nat \ {0}, y \in Nat \ {0}, z \in Nat \ {0} :
        x = 2^m /\ y = 2^n /\ z = 2^(n + 1)
  <2>1. n + 1 \in Nat
    OBVIOUS
  <2> QED
    BY <2>1, PowerIs
<1>2. x <= y /\ z = y + y
  BY <1>1, PowerGrows, PowerDoubles
<1>3. Base \in Nat \ {0}
  BY GateAssumption
<1>4. Base * (x - 1) \in Nat /\ Base * (y - 1) \in Nat /\ Base * x \in Nat /\ Base * y \in Nat
  BY <1>3
<1>5. PICK d \in Nat : y = x + d
  BY <1>2
<1>6. Base * d \in Nat /\ Base * y = Base * x + Base * d
  BY <1>3, <1>5
<1>7. /\ Base * (x - 1) = Base * x - Base /\ Base * (y - 1) = Base * y - Base
      /\ Base * (z - 1) = Base * y + Base * y - Base
  BY <1>2, <1>3
<1>8. Base * x <= Base * y /\ Base * (x - 1) <= Base * (y - 1)
      /\ Base * (z - 1) = Base * (y - 1) + Base * y
  BY <1>3, <1>4, <1>6, <1>7
<1> QED
  BY <1>1, <1>4, <1>8 DEF Terms

\* An integer that overflows wraps around to less, never to more.
LEMMA DurationIs ==
  ASSUME NEW m \in Nat
  PROVE  Duration(m) \in Int /\ Duration(m) <= m
<1>1. PICK k : k = m + Half
  OBVIOUS
<1>2. k \in Nat /\ Wrap \in Nat \ {0} /\ Half \in Nat
  BY <1>1, GateAssumption
<1>3. k % Wrap \in Nat /\ k % Wrap <= k
  BY <1>2
<1>4. Duration(m) = (k % Wrap) - Half
  BY <1>1 DEF Duration
<1> QED
  BY <1>1, <1>2, <1>3, <1>4

\* What a scorer that has read v violations adds is at most the (n + 1)st term.
LEMMA TermIs ==
  ASSUME NEW n \in Nat, NEW v \in Nat, v <= n
  PROVE  /\ Duration(Minutes(v + 1)) \in Int
         /\ Duration(Minutes(v + 1)) <= Terms(n + 1) - Terms(n)
<1>1. PICK b, c : b = Base * 2^v /\ c = Base * 2^n
  OBVIOUS
<1>2. v + 1 - 1 = v
  OBVIOUS
<1>3. Minutes(v + 1) = b
  BY <1>1, <1>2 DEF Minutes
<1>4. /\ b \in Nat /\ c \in Nat /\ b <= c
      /\ Terms(n) \in Nat /\ Terms(n + 1) = Terms(n) + c
  BY <1>1, TermsGrow
<1>5. Duration(b) \in Int /\ Duration(b) <= b
  BY <1>4, DurationIs
<1> QED
  BY <1>3, <1>4, <1>5

\* A suspension that was covered stays so as time passes and scores come in.
LEMMA CoveredStays ==
  ASSUME NEW u \in Int \cup {None}, NEW n \in Nat, NEW m \in Nat, n <= m,
         now \in Nat, now' \in Nat, now <= now'
  PROVE  /\ Covered(u, n) => (u = None \/ u <= now' + Terms(m))
         /\ (u \in Int /\ u <= now + Terms(n)) => u <= now' + Terms(m)
<1>1. Terms(n) \in Nat /\ Terms(m) \in Nat /\ Terms(n) <= Terms(m)
  BY TermsGrow
<1> QED
  BY <1>1 DEF Covered

\* The decision of a scorer: on what it has read, the term of its own low score.
LEMMA UntilCovered ==
  ASSUME NEW w \in Row, NEW n \in Nat \ {0}, w.violations < n, Covered(w.until, n - 1),
         now \in Nat
  PROVE  Until(w) \in Int /\ Until(w) <= now + Terms(n)
<1>1. PICK v, u : v = w.violations /\ u = w.until
  OBVIOUS
<1>2. v \in Nat /\ v <= n - 1 /\ u \in Int \cup {None}
  BY <1>1, GateAssumption DEF Row
<1>3. PICK d : d = Duration(Minutes(v + 1))
  OBVIOUS
<1>4. n - 1 \in Nat /\ (n - 1) + 1 = n
  OBVIOUS
<1>5. d \in Int /\ d <= Terms(n) - Terms(n - 1) /\ Terms(n) \in Nat /\ Terms(n - 1) \in Nat
  BY <1>2, <1>3, <1>4, TermIs, TermsGrow
<1>6. Until(w) = IF u # None /\ u > now THEN u + d ELSE now + d
  BY <1>1, <1>3 DEF Until, IsSuspended
<1>7. u = None \/ u <= now + Terms(n - 1)
  BY <1>1 DEF Covered
<1> QED
  BY <1>2, <1>5, <1>6, <1>7, NoneAssumption
----------------------------------------------------------------------------
(* The steps. *)

\* What a step that leaves the row and the scorers alone preserves.
LEMMA SameRow ==
  ASSUME Inv, Counters', row' = row, scorer' = scorer, now <= now', offences' = offences
  PROVE  Punishments'
<1>1. now \in Nat /\ now' \in Nat /\ offences \in Nat
  BY GateAssumption DEF Inv, Counters
<1>2. ASSUME row' # None
      PROVE  Covered(row.until, offences)' /\ row'.violations <= offences'
  <2>1. row \in Row /\ row.until \in Int \cup {None}
    BY <1>2 DEF Inv, Shape, Row
  <2>2. Covered(row.until, offences) /\ row.violations <= offences
    BY <1>2 DEF Inv, Punishments
  <2>3. row.until = None \/ row.until <= now' + Terms(offences)
    BY <1>1, <2>1, <2>2, CoveredStays
  <2> QED
    BY <2>2, <2>3 DEF Covered, Terms
<1>3. ASSUME NEW s \in Scorer
      PROVE  /\ scorer'[s].pc # "idle" => /\ scorer'[s].seen # None
                                          /\ scorer'[s].seen.violations < offences'
             /\ scorer'[s].pc = "read" => Covered(scorer[s].seen.until, offences - 1)'
             /\ scorer'[s].pc = "decided" => scorer'[s].until <= now' + Terms(offences)'
  <2> DEFINE c == scorer[s]
  <2>1. c.seen \in Row \cup {None} /\ c.until \in Int
    BY DEF Inv, Shape, CallType
  <2>2. /\ c.pc # "idle" => c.seen # None /\ c.seen.violations < offences
        /\ c.pc = "read" => Covered(c.seen.until, offences - 1)
        /\ c.pc = "decided" => c.until <= now + Terms(offences)
    BY DEF Inv, Punishments
  <2> HIDE DEF c
  <2>3. ASSUME c.pc = "read"
        PROVE  c.seen.until = None \/ c.seen.until <= now' + Terms(offences - 1)
    <3>1. c.seen \in Row /\ c.seen.until \in Int \cup {None} /\ c.seen.violations \in Nat
      BY <2>1, <2>2, <2>3, GateAssumption DEF Row
    <3>2. offences - 1 \in Nat
      BY <1>1, <2>2, <2>3, <3>1
    <3> QED
      BY <1>1, <2>2, <2>3, <3>1, <3>2, CoveredStays
  <2>4. ASSUME c.pc = "decided" PROVE c.until <= now' + Terms(offences)
    BY <1>1, <2>1, <2>2, <2>4, CoveredStays
  <2> QED
    BY <2>2, <2>3, <2>4 DEF c, Covered, Terms
<1> QED
  BY <1>2, <1>3 DEF Punishments

\* Where a request has gone.
LEMMA GoesTo ==
  ASSUME Inv, NEW r \in Req, NEW x \in RequestType, req' = [req EXCEPT ![r] = x],
         row # None => row' # None,
         x.pc = "reread" => row' # None,
         x.pc \in {"known", "expired"} => row' # None /\ x.seen # None
  PROVE  req' \in [Req -> RequestType] /\ RowKept'
<1>1. req \in [Req -> RequestType]
  BY DEF Inv, Shape
<1>2. req' \in [Req -> RequestType] /\ \A y \in Req : req'[y] = IF y = r THEN x ELSE req[y]
  BY <1>1
<1>3. RowKept
  BY DEF Inv
<1> QED
  BY <1>2, <1>3 DEF RowKept

\* A step of request r that leaves everything else alone.
LEMMA RequestStep ==
  ASSUME Inv, NEW r \in Req, NEW x \in RequestType, req' = [req EXCEPT ![r] = x],
         UNCHANGED <<row, registered, now, scorer, offences, resets>>,
         requests' \in 0..MaxRequests,
         x.pc = "reread" => row # None,
         x.pc \in {"known", "expired"} => row # None /\ x.seen # None
  PROVE  Inv'
<1>1. Counters'
  BY DEF Inv, Counters
<1>2. now <= now'
  BY GateAssumption DEF Inv, Counters
<1>3. Punishments'
  BY <1>1, <1>2, SameRow
<1>4. req' \in [Req -> RequestType] /\ RowKept'
  BY GoesTo
<1>5. Shape'
  BY <1>4 DEF Inv, Shape
<1> QED
  BY <1>1, <1>3, <1>4, <1>5 DEF Inv

\* A request that goes on, or ends, with what it knows.
LEMMA GoesStep ==
  ASSUME Inv, NEW r \in Req,
         NEW pc \in {"idle", "unknown", "eligible", "reread", "known", "expired"}, Goes(r, pc),
         UNCHANGED <<row, registered, now, scorer, requests, offences, resets>>,
         pc = "reread" => row # None,
         pc \in {"known", "expired"} => row # None /\ req[r].seen # None
  PROVE  Inv'
<1> DEFINE x == IF pc = "idle" THEN NoReq ELSE [req[r] EXCEPT !.pc = pc]
<1>1. req[r] \in RequestType /\ requests \in 0..MaxRequests
  BY DEF Inv, Shape, Counters
<1>2. req' = [req EXCEPT ![r] = x]
  BY DEF Goes
<1>3. /\ x \in RequestType /\ x.pc = pc /\ (pc # "idle" => x.seen = req[r].seen)
  BY <1>1 DEF RequestType, NoReq
<1> HIDE DEF x
<1> QED
  BY <1>1, <1>2, <1>3, RequestStep

\* What a step that writes the row, or a scorer's record, has to establish.
LEMMA RowStep ==
  ASSUME Inv, row' \in Row, now' = now, UNCHANGED <<registered, requests>>,
         offences' = offences, resets' \in 0..MaxResets,
         Covered(row'.until, offences), row'.violations <= offences,
         scorer' \in [Scorer -> CallType],
         \A s \in Scorer : scorer'[s] = scorer[s] \/ scorer'[s] = NoCall,
         req' \in [Req -> RequestType], RowKept'
  PROVE  Inv'
<1>1. Counters'
  BY DEF Inv, Counters
<1>2. Shape'
  BY DEF Shape
<1>3. row' # None
  BY NoneAssumption
<1>4. Covered(row.until, offences)' /\ row'.violations <= offences'
  BY DEF Covered, Terms
<1>5. ASSUME NEW s \in Scorer
      PROVE  /\ scorer'[s].pc # "idle" => /\ scorer'[s].seen # None
                                          /\ scorer'[s].seen.violations < offences'
             /\ scorer'[s].pc = "read" => Covered(scorer[s].seen.until, offences - 1)'
             /\ scorer'[s].pc = "decided" => scorer'[s].until <= now' + Terms(offences)'
  <2>1. CASE scorer'[s] = NoCall
    BY <2>1 DEF NoCall
  <2>2. CASE scorer'[s] = scorer[s]
    BY <2>2 DEF Inv, Punishments, Covered, Terms
  <2> QED
    BY <2>1, <2>2
<1>6. Punishments'
  BY <1>4, <1>5 DEF Punishments
<1> QED
  BY <1>1, <1>2, <1>6 DEF Inv

\* The requests.
LEMMA RequestInv ==
  ASSUME Inv, NEW r \in Req,
         \/ \E full \in BOOLEAN : GetWorker(r, full)
         \/ RegisterCheck(r) \/ CreateWorkerConflict(r) \/ GetWorkerAgain(r)
         \/ RefuseSuspended(r) \/ Admit(r) \/ RequestFails(r)
  PROVE  Inv'
<1>1. /\ row \in Row \cup {None} /\ req[r] \in RequestType /\ RowKept
      /\ requests \in 0..MaxRequests /\ MaxRequests \in Nat
  BY GateAssumption DEF Inv, Shape, Counters
<1>2. ASSUME NEW full \in BOOLEAN, GetWorker(r, full) PROVE Inv'
  <2> DEFINE x == [pc |-> IF row = None THEN "unknown" ELSE "known",
                   full |-> full, seen |-> row]
  <2>1. x \in RequestType /\ (x.pc = "known" => row # None) /\ x.pc \in {"unknown", "known"}
        /\ x.seen = row
    BY <1>1 DEF RequestType
  <2>2. /\ req' = [req EXCEPT ![r] = x] /\ requests' \in 0..MaxRequests
        /\ UNCHANGED <<row, registered, now, scorer, offences, resets>>
    BY <1>1, <1>2 DEF GetWorker
  <2> HIDE DEF x
  <2> QED
    BY <2>1, <2>2, RequestStep
<1>3. CASE RegisterCheck(r)
  BY <1>3, GoesStep DEF RegisterCheck
<1>4. CASE CreateWorkerConflict(r)
  BY <1>4, GoesStep DEF CreateWorkerConflict
<1>5. CASE GetWorkerAgain(r)
  <2> DEFINE x == [req[r] EXCEPT !.pc = "known", !.seen = row]
  <2>1. row # None
    BY <1>1, <1>5 DEF RowKept, GetWorkerAgain, At
  <2>2. x \in RequestType /\ x.pc = "known" /\ x.seen = row
    BY <1>1 DEF RequestType
  <2>3. /\ req' = [req EXCEPT ![r] = x] /\ requests' = requests
        /\ UNCHANGED <<row, registered, now, scorer, offences, resets>>
    BY <1>5 DEF GetWorkerAgain
  <2> HIDE DEF x
  <2> QED
    BY <1>1, <2>1, <2>2, <2>3, RequestStep
<1>6. CASE RefuseSuspended(r)
  BY <1>6, GoesStep DEF RefuseSuspended
<1>7. CASE Admit(r)
  <2>1. row # None /\ req[r].seen # None
    BY <1>1, <1>7 DEF RowKept, Admit, At
  <2> QED
    BY <1>7, <2>1, GoesStep DEF Admit
<1>8. CASE RequestFails(r)
  BY <1>8, GoesStep DEF RequestFails
<1> QED
  BY <1>2, <1>3, <1>4, <1>5, <1>6, <1>7, <1>8

\* The two statements of a request that write the row.
LEMMA RequestWrites ==
  ASSUME Inv, NEW r \in Req, CreateWorker(r) \/ UnsuspendWorker(r)
  PROVE  Inv'
<1>1. /\ row \in Row \cup {None} /\ req[r] \in RequestType /\ RowKept /\ Counters
      /\ offences \in Nat /\ MaxOffences \in Nat /\ scorer \in [Scorer -> CallType]
  BY GateAssumption DEF Inv, Shape, Counters
<1>2. CASE CreateWorker(r)
  <2> DEFINE x == [req[r] EXCEPT !.pc = "known", !.seen = Fresh]
  <2>1. /\ row' = Fresh /\ req' = [req EXCEPT ![r] = x]
        /\ UNCHANGED <<registered, now, scorer, requests, offences, resets>>
    BY <1>2 DEF CreateWorker
  <2>2. Fresh \in Row /\ Fresh.until = None /\ Fresh.violations = 0 /\ Fresh # None
    BY <1>1, NoneAssumption DEF Fresh, Row
  <2>3. x \in RequestType /\ x.pc = "known" /\ x.seen = Fresh
    BY <1>1, <2>2 DEF RequestType
  <2> HIDE DEF x
  <2>4. req' \in [Req -> RequestType] /\ RowKept'
    BY <2>1, <2>2, <2>3, GoesTo
  <2>5. Covered(row'.until, offences) /\ row'.violations <= offences
    BY <1>1, <2>1, <2>2 DEF Covered
  <2> QED
    BY <1>1, <2>1, <2>2, <2>4, <2>5, RowStep DEF Counters
<1>3. CASE UnsuspendWorker(r)
  <2>1. row # None
    BY <1>1, <1>3 DEF RowKept, UnsuspendWorker, At
  <2>2. row \in Row /\ row.violations <= offences
    BY <1>1, <2>1 DEF Inv, Punishments
  <2>3. /\ row' = [row EXCEPT !.until = None] /\ req' = [req EXCEPT ![r] = NoReq]
        /\ UNCHANGED <<registered, now, scorer, requests, offences, resets>>
    BY <1>3 DEF UnsuspendWorker, Goes
  <2>4. row' \in Row /\ row'.until = None /\ row'.violations = row.violations
    BY <2>2, <2>3 DEF Row
  <2>5. NoReq \in RequestType /\ NoReq.pc = "idle"
    BY DEF NoReq, RequestType
  <2>6. req' \in [Req -> RequestType] /\ RowKept'
    BY <2>3, <2>4, <2>5, GoesTo, NoneAssumption
  <2>7. Covered(row'.until, offences) /\ row'.violations <= offences
    BY <2>2, <2>4 DEF Covered
  <2> QED
    BY <1>1, <2>3, <2>4, <2>6, <2>7, RowStep DEF Counters
<1> QED
  BY <1>2, <1>3

\* A scorer reads the row: what it has read is covered without its low score.
LEMMA MaybeSuspendInv ==
  ASSUME Inv, NEW s \in Scorer, MaybeSuspend(s) PROVE Inv'
<1> DEFINE c == [pc |-> "read", seen |-> row, until |-> 0]
<1>1. /\ row \in Row \cup {None} /\ row # None /\ scorer \in [Scorer -> CallType]
      /\ offences \in Nat /\ offences' = offences + 1 /\ offences < MaxOffences
      /\ MaxOffences \in Nat /\ now \in Nat /\ scorer' = [scorer EXCEPT ![s] = c]
      /\ UNCHANGED <<row, registered, now, req, requests, resets>>
  BY GateAssumption DEF Inv, Shape, Counters, MaybeSuspend
<1>2. Covered(row.until, offences) /\ row.violations <= offences
  BY <1>1 DEF Inv, Punishments
<1>3. /\ row \in Row /\ row.until \in Int \cup {None} /\ row.violations \in Nat
  BY <1>1 DEF Row
<1>4. c \in CallType /\ c.pc = "read" /\ c.seen = row
  BY <1>1 DEF CallType
<1> HIDE DEF c
<1>5. \A t \in Scorer : scorer'[t] = IF t = s THEN c ELSE scorer[t]
  BY <1>1
<1>6. Shape' /\ RowKept' /\ Counters'
  BY <1>1, <1>4 DEF Inv, Shape, RowKept, Counters
<1>7. Covered(row.until, offences)' /\ row'.violations <= offences'
  <2>1. row.until = None \/ row.until <= now' + Terms(offences')
    BY <1>1, <1>2, <1>3, CoveredStays
  <2> QED
    BY <1>1, <1>2, <1>3, <2>1 DEF Covered, Terms
<1>8. ASSUME NEW t \in Scorer
      PROVE  /\ scorer'[t].pc # "idle" => /\ scorer'[t].seen # None
                                          /\ scorer'[t].seen.violations < offences'
             /\ scorer'[t].pc = "read" => Covered(scorer[t].seen.until, offences - 1)'
             /\ scorer'[t].pc = "decided" => scorer'[t].until <= now' + Terms(offences)'
  <2>1. CASE t = s
    <3>1. offences' - 1 = offences
      BY <1>1
    <3>2. Covered(scorer[t].seen.until, offences - 1)'
      BY <1>1, <1>2, <1>4, <1>5, <2>1, <3>1 DEF Covered, Terms
    <3> QED
      BY <1>1, <1>2, <1>3, <1>4, <1>5, <2>1, <3>2
  <2>2. CASE t # s
    <3> DEFINE d == scorer[t]
    <3>1. d \in CallType /\ scorer'[t] = d
      BY <1>1, <1>5, <2>2
    <3>2. /\ d.pc # "idle" => d.seen # None /\ d.seen.violations < offences
          /\ d.pc = "read" => Covered(d.seen.until, offences - 1)
          /\ d.pc = "decided" => d.until <= now + Terms(offences)
      BY DEF Inv, Punishments
    <3> HIDE DEF d
    <3>3. ASSUME d.pc # "idle"
          PROVE  d.seen.until \in Int \cup {None} /\ d.seen.violations \in Nat
      BY <3>1, <3>2, <3>3, <1>1 DEF CallType, Row
    <3>4. ASSUME d.pc = "read"
          PROVE  d.seen.until = None \/ d.seen.until <= now' + Terms(offences' - 1)
      <4>1. offences - 1 \in Nat /\ offences' - 1 \in Nat /\ offences - 1 <= offences' - 1
        BY <1>1, <3>2, <3>3, <3>4
      <4> QED
        BY <1>1, <3>2, <3>3, <3>4, <4>1, CoveredStays
    <3>5. ASSUME d.pc = "decided" PROVE d.until <= now' + Terms(offences')
      BY <1>1, <3>1, <3>2, <3>5, CoveredStays DEF CallType
    <3>6. d.pc # "idle" => d.seen # None /\ d.seen.violations < offences'
      BY <1>1, <3>2, <3>3
    <3> QED
      BY <3>1, <3>4, <3>5, <3>6 DEF Covered, Terms
  <2> QED
    BY <2>1, <2>2
<1> QED
  BY <1>6, <1>7, <1>8 DEF Inv, Punishments

\* It decides, by the clock as it is now.
LEMMA DecideUntilInv ==
  ASSUME Inv, NEW s \in Scorer, DecideUntil(s) PROVE Inv'
<1> DEFINE w == scorer[s].seen
           c == [scorer[s] EXCEPT !.pc = "decided", !.until = Until(w)]
<1>1. /\ scorer \in [Scorer -> CallType] /\ offences \in Nat /\ now \in Nat
      /\ scorer[s].pc = "read" /\ scorer' = [scorer EXCEPT ![s] = c]
      /\ UNCHANGED <<row, registered, now, req, requests, offences, resets>>
  <2>1. scorer \in [Scorer -> CallType] /\ offences \in Nat /\ now \in Nat
    BY GateAssumption DEF Inv, Shape, Counters
  <2>2. scorer' = [scorer EXCEPT ![s] = c]
    BY <2>1 DEF DecideUntil
  <2> QED
    BY <2>1, <2>2 DEF DecideUntil
<1>2. w # None /\ w.violations < offences /\ Covered(w.until, offences - 1)
  BY <1>1 DEF Inv, Punishments
<1>3. w \in Row /\ w.violations \in Nat
  BY <1>1, <1>2, GateAssumption DEF CallType, Row
<1>4. offences \in Nat \ {0}
  BY <1>1, <1>2, <1>3
<1>5. Until(w) \in Int /\ Until(w) <= now + Terms(offences)
  BY <1>1, <1>2, <1>3, <1>4, UntilCovered
<1>6. c \in CallType /\ c.pc = "decided" /\ c.seen = w /\ c.until = Until(w)
  BY <1>1, <1>5 DEF CallType
<1> HIDE DEF w, c
<1>7. \A t \in Scorer : scorer'[t] = IF t = s THEN c ELSE scorer[t]
  BY <1>1
<1>8. Shape' /\ RowKept' /\ Counters'
  BY <1>1, <1>6 DEF Inv, Shape, RowKept, Counters
<1>9. ASSUME NEW t \in Scorer
      PROVE  /\ scorer'[t].pc # "idle" => /\ scorer'[t].seen # None
                                          /\ scorer'[t].seen.violations < offences'
             /\ scorer'[t].pc = "read" => Covered(scorer[t].seen.until, offences - 1)'
             /\ scorer'[t].pc = "decided" => scorer'[t].until <= now' + Terms(offences)'
  <2>1. CASE t = s
    BY <1>1, <1>2, <1>5, <1>6, <1>7, <2>1 DEF Terms
  <2>2. CASE t # s
    <3>1. scorer'[t] = scorer[t]
      BY <1>7, <2>2
    <3> QED
      BY <1>1, <3>1 DEF Inv, Punishments, Covered, Terms
  <2> QED
    BY <2>1, <2>2
<1>10. row' # None => Covered(row.until, offences)' /\ row'.violations <= offences'
  BY <1>1 DEF Inv, Punishments, Covered, Terms
<1> QED
  BY <1>8, <1>9, <1>10 DEF Inv, Punishments

\* It writes the row, whatever the row is by now.
LEMMA SuspendWorkerInv ==
  ASSUME Inv, NEW s \in Scorer, SuspendWorker(s) PROVE Inv'
<1> DEFINE c == scorer[s]
           w == [until |-> c.until, violations |-> c.seen.violations + 1]
<1>1. /\ scorer \in [Scorer -> CallType] /\ req \in [Req -> RequestType] /\ RowKept /\ Counters
      /\ offences \in Nat /\ MaxOffences \in Nat /\ offences <= MaxOffences
      /\ c.pc = "decided" /\ scorer' = [scorer EXCEPT ![s] = NoCall] /\ row' = w
      /\ UNCHANGED <<registered, now, req, requests, offences, resets>>
  BY GateAssumption DEF Inv, Shape, Counters, SuspendWorker
<1>2. c.seen # None /\ c.seen.violations < offences /\ c.until <= now + Terms(offences)
  BY <1>1 DEF Inv, Punishments
<1>3. c.seen \in Row /\ c.seen.violations \in Nat /\ c.until \in Int
  BY <1>1, <1>2, GateAssumption DEF CallType, Row
<1>4. w \in Row /\ w.until = c.until /\ w.violations = c.seen.violations + 1
  BY <1>1, <1>2, <1>3 DEF Row
<1>5. NoCall \in CallType
  BY DEF NoCall, CallType
<1> HIDE DEF c, w
<1>6. /\ scorer' \in [Scorer -> CallType]
      /\ \A t \in Scorer : scorer'[t] = scorer[t] \/ scorer'[t] = NoCall
  BY <1>1, <1>5
<1>7. RowKept'
  BY <1>1, <1>4, NoneAssumption DEF RowKept
<1>8. Covered(row'.until, offences) /\ row'.violations <= offences
  BY <1>1, <1>2, <1>3, <1>4 DEF Covered
<1> QED
  BY <1>1, <1>4, <1>6, <1>7, <1>8, RowStep DEF Counters

\* Time, registration and the settlement.
LEMMA WorldInv ==
  ASSUME Inv, Tick \/ Registers \/ ResetAllEpochViolations PROVE Inv'
<1>1. /\ row \in Row \cup {None} /\ req \in [Req -> RequestType] /\ RowKept /\ Counters
      /\ scorer \in [Scorer -> CallType] /\ Shape
  BY DEF Inv, Shape
<1>2. /\ offences \in Nat /\ now \in Nat /\ MaxNow \in Nat /\ MaxResets \in Nat /\ resets \in Nat
  BY <1>1, GateAssumption DEF Counters
<1>3. CASE Tick \/ Registers
  <2>1. /\ now <= now' /\ Counters'
        /\ UNCHANGED <<row, req, scorer, requests, offences, resets>>
    <3>1. CASE Tick
      <4>1. now' \in 0..MaxNow /\ now <= now'
        BY <1>2, <3>1 DEF Tick
      <4> QED
        BY <1>1, <3>1, <4>1 DEF Tick, Counters
    <3>2. CASE Registers
      <4>1. now <= now
        BY <1>2
      <4> QED
        BY <1>1, <3>2, <4>1 DEF Registers, Counters
    <3> QED
      BY <1>3, <3>1, <3>2
  <2>2. Punishments'
    BY <2>1, SameRow
  <2>3. Shape' /\ RowKept'
    BY <1>1, <2>1 DEF Shape, RowKept
  <2> QED
    BY <2>1, <2>2, <2>3 DEF Inv
<1>4. CASE ResetAllEpochViolations
  <2>1. /\ row # None /\ row' = [row EXCEPT !.violations = 0] /\ resets' \in 0..MaxResets
        /\ UNCHANGED <<registered, now, req, scorer, requests, offences>>
    BY <1>2, <1>4 DEF ResetAllEpochViolations
  <2>2. row \in Row /\ Covered(row.until, offences)
    BY <1>1, <2>1 DEF Inv, Punishments
  <2>3. row' \in Row /\ row'.until = row.until /\ row'.violations = 0
    BY <2>1, <2>2, GateAssumption DEF Row
  <2>4. RowKept'
    BY <1>1, <2>1, <2>3, NoneAssumption DEF RowKept
  <2>5. Covered(row'.until, offences) /\ row'.violations <= offences
    BY <1>2, <2>2, <2>3
  <2> QED
    BY <1>1, <2>1, <2>3, <2>4, <2>5, RowStep
<1> QED
  BY <1>3, <1>4
----------------------------------------------------------------------------
(* The specification. *)

\* Nobody has met the worker yet.
LEMMA InitInv == Init => Inv
<1> SUFFICES ASSUME Init PROVE Inv
  OBVIOUS
<1>1. NoReq \in RequestType /\ NoCall \in CallType
  BY DEF NoReq, NoCall, RequestType, CallType
<1>2. Shape
  BY <1>1 DEF Init, Shape
<1>3. Counters
  BY GateAssumption DEF Init, Counters
<1>4. RowKept
  BY DEF Init, RowKept, NoReq
<1>5. Punishments
  BY DEF Init, Punishments, NoCall
<1> QED
  BY <1>2, <1>3, <1>4, <1>5 DEF Inv

\* Every step preserves it.
LEMMA NextInv == Inv /\ [Next]_vars => Inv'
<1> SUFFICES ASSUME Inv, [Next]_vars PROVE Inv'
  OBVIOUS
<1>1. CASE Tick \/ Registers \/ ResetAllEpochViolations
  BY <1>1, WorldInv
<1>2. ASSUME NEW r \in Req,
             \/ \E full \in BOOLEAN : GetWorker(r, full)
             \/ RegisterCheck(r) \/ CreateWorkerConflict(r) \/ GetWorkerAgain(r)
             \/ RefuseSuspended(r) \/ Admit(r) \/ RequestFails(r)
      PROVE  Inv'
  BY <1>2, RequestInv
<1>3. ASSUME NEW r \in Req, CreateWorker(r) \/ UnsuspendWorker(r) PROVE Inv'
  BY <1>3, RequestWrites
<1>4. ASSUME NEW s \in Scorer, MaybeSuspend(s) \/ DecideUntil(s) \/ SuspendWorker(s)
      PROVE  Inv'
  BY <1>4, MaybeSuspendInv, DecideUntilInv, SuspendWorkerInv
<1>5. CASE UNCHANGED vars
  BY <1>5 DEF vars, Inv, Shape, Counters, RowKept, Punishments, Covered, Terms
<1> QED
  BY <1>1, <1>2, <1>3, <1>4, <1>5 DEF Next

\* The invariant of the worker's row.
LEMMA AlwaysInv == Spec => []Inv
  BY InitInv, NextInv, PTL DEF Spec

\* Whatever the interleaving, requests and scorers write well-formed rows: the
\* violations are a number, never more than there were low scores, and a row
\* is there whenever one is updated.
THEOREM TypeCorrect == Spec => []TypeOK
<1>1. Inv => TypeOK
  BY DEF Inv, Shape, Counters, TypeOK, RequestType, CallType
<1> QED
  BY <1>1, AlwaysInv, PTL

\* A request that passes the middleware has a worker in its hands, whoever
\* else registers the worker at the same time.
THEOREM WorkerIsAtHand == Spec => []WorkerAtHand
<1>1. Inv => WorkerAtHand
  BY DEF Inv, RowKept, WorkerAtHand, At
<1> QED
  BY <1>1, AlwaysInv, PTL

\* Suspensions that stack, that overwrite each other, that wrap around or that
\* a request lifts never shut a worker out for longer than its low scores add
\* up to.
THEOREM NobodyOverPunished == Spec => []NeverOverPunished
<1>1. Inv => NeverOverPunished
  BY DEF Inv, Punishments, Covered, Terms, NeverOverPunished, IsSuspended
<1> QED
  BY <1>1, AlwaysInv, PTL
=============================================================================
