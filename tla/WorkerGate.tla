----------------------------- MODULE WorkerGate -----------------------------
(***************************************************************************)
(* Who may use the API: the registration and suspension of a worker        *)
(* (handler/worker_auth.go, store/worker.go, maybeSuspend of               *)
(* service/scoring.go).                                                    *)
(*                                                                         *)
(* Everything happens to one row of table workers, so the model is about   *)
(* one worker.  A Req is a goroutine that serves one of its requests, a    *)
(* Scorer one that has just scored a question or an answer of the worker   *)
(* below suspension.score_threshold (which must be positive, as the        *)
(* default 0 turns suspension off).  Each statement commits by itself, so  *)
(* any two goroutines may interleave between a read and the write that     *)
(* depends on it.  Time is counted in minutes.                             *)
(***************************************************************************)
EXTENDS Integers

CONSTANTS Req, Scorer,
          Base,         \* suspension.base_minutes
          Half, Wrap,   \* 2^63 and 2^64 nanoseconds, in minutes
          MaxNow,       \* bound: the clock
          MaxRequests,  \* bound: requests of the worker
          MaxOffences,  \* bound: low scores of the worker
          MaxResets,    \* bound: settlements, which reset the violations
          None          \* SQL NULL, no row

ASSUME GateAssumption ==
  /\ Base \in Nat \ {0} /\ Half \in Nat /\ Wrap \in Nat \ {0}
  /\ {MaxNow, MaxRequests, MaxOffences, MaxResets} \subseteq Nat

\* The columns suspended_until and epoch_violations.
Row == [until : Int \cup {None}, violations : 0..MaxOffences]

\* NULL is neither a time nor a row.
ASSUME NoneAssumption == None \notin Int /\ None \notin Row

VARIABLES row,         \* the row in workers, or None
          registered,  \* RootNet knows the worker
          now,
          req,         \* [Req -> the request being served]
          scorer,      \* [Scorer -> the call of maybeSuspend being run]
          requests, offences, resets

vars == <<row, registered, now, req, scorer, requests, offences, resets>>

Fresh == [until |-> None, violations |-> 0]

NoReq == [pc |-> "idle", full |-> FALSE, seen |-> None]

NoCall == [pc |-> "idle", seen |-> None, until |-> 0]

IsSuspended(w) == w.until # None /\ w.until > now

Init ==
  /\ row = None /\ registered \in BOOLEAN /\ now = 0
  /\ req = [r \in Req |-> NoReq] /\ scorer = [s \in Scorer |-> NoCall]
  /\ requests = 0 /\ offences = 0 /\ resets = 0

\* The rest of the world: time passes, the worker registers at RootNet.
Tick ==
  /\ now < MaxNow
  /\ now' = now + 1
  /\ UNCHANGED <<row, registered, req, scorer, requests, offences, resets>>

Registers ==
  /\ ~registered
  /\ registered' = TRUE
  /\ UNCHANGED <<row, now, req, scorer, requests, offences, resets>>
----------------------------------------------------------------------------
\* A request.  Its headers, timestamp and signature are in order: a request
\* for which they are not ends before it reads or writes anything.
At(r, pc) == req[r].pc = pc

Goes(r, pc) ==
  req' = [req EXCEPT ![r] = IF pc = "idle" THEN NoReq ELSE [@ EXCEPT !.pc = pc]]

GetWorker(r, full) ==
  /\ At(r, "idle") /\ requests < MaxRequests
  /\ req' = [req EXCEPT ![r] = [pc |-> IF row = None THEN "unknown" ELSE "known",
                                full |-> full, seen |-> row]]
  /\ requests' = requests + 1
  /\ UNCHANGED <<row, registered, now, scorer, offences, resets>>

\* RootNet answers; a worker it does not know is refused with 403.
RegisterCheck(r) ==
  /\ At(r, "unknown")
  /\ Goes(r, IF registered THEN "eligible" ELSE "idle")
  /\ UNCHANGED <<row, registered, now, scorer, requests, offences, resets>>

\* Mutant: epoch_violations without its default.
CreateWorkerNull(r) ==
  /\ At(r, "eligible") /\ row = None
  /\ row' = [Fresh EXCEPT !.violations = None]
  /\ req' = [req EXCEPT ![r].pc = "known", ![r].seen = row']
  /\ UNCHANGED <<registered, now, scorer, requests, offences, resets>>

\* INSERT ... ON CONFLICT DO NOTHING inserts the row.
CreateWorker(r) ==
  /\ At(r, "eligible") /\ row = None
  /\ row' = Fresh
  /\ req' = [req EXCEPT ![r].pc = "known", ![r].seen = Fresh]
  /\ UNCHANGED <<registered, now, scorer, requests, offences, resets>>

\* Mutant: the conflict taken for a success, with no row to return.
CreateWorkerNoReread(r) ==
  /\ At(r, "eligible") /\ row # None
  /\ Goes(r, "known")
  /\ UNCHANGED <<row, registered, now, scorer, requests, offences, resets>>

\* The row is there already: INSERT returns nothing, and the worker is read
\* once more.
CreateWorkerConflict(r) ==
  /\ At(r, "eligible") /\ row # None
  /\ Goes(r, "reread")
  /\ UNCHANGED <<row, registered, now, scorer, requests, offences, resets>>

GetWorkerAgain(r) ==
  /\ At(r, "reread")
  /\ req' = [req EXCEPT ![r].pc = "known", ![r].seen = row]
  /\ UNCHANGED <<row, registered, now, scorer, requests, offences, resets>>

\* The suspension check of fullAuth, with what was read.
RefuseSuspended(r) ==
  /\ At(r, "known") /\ req[r].full /\ IsSuspended(req[r].seen)
  /\ Goes(r, "idle")
  /\ UNCHANGED <<row, registered, now, scorer, requests, offences, resets>>

Expired(w) == w.until # None /\ ~IsSuspended(w)

Admit(r) ==
  /\ At(r, "known") /\ ~(req[r].full /\ IsSuspended(req[r].seen))
  /\ Goes(r, IF Expired(req[r].seen) THEN "expired" ELSE "idle")
  /\ UNCHANGED <<row, registered, now, scorer, requests, offences, resets>>

\* UPDATE workers SET suspended_until = NULL, whatever it is by now.
UnsuspendWorker(r) ==
  /\ At(r, "expired")
  /\ row' = [row EXCEPT !.until = None]
  /\ Goes(r, "idle")
  /\ UNCHANGED <<registered, now, scorer, requests, offences, resets>>

\* A statement or the call of RootNet fails: 500 and nothing else, or, for
\* UnsuspendWorker, whose error is ignored, the request is served.
RequestFails(r) ==
  /\ ~At(r, "idle") /\ ~At(r, "known")
  /\ Goes(r, "idle")
  /\ UNCHANGED <<row, registered, now, scorer, requests, offences, resets>>
----------------------------------------------------------------------------
\* maybeSuspend.  Its caller ignores errors; a call that fails leaves the row
\* as it is, like a score that was high enough, and is not modelled.

\* A low score; GetWorker finds the row, which the worker has since its first
\* request.
MaybeSuspend(s) ==
  /\ scorer[s].pc = "idle" /\ row # None /\ offences < MaxOffences
  /\ scorer' = [scorer EXCEPT ![s] = [pc |-> "read", seen |-> row, until |-> 0]]
  /\ offences' = offences + 1
  /\ UNCHANGED <<row, registered, now, req, requests, resets>>

\* Mutant: the first offence doubles already.
MinutesDoubled(violations) == Base * 2^violations

\* minutes, doubled once for each violation but the first.
Minutes(violations) == Base * 2^(violations - 1)

\* time.Duration(minutes) * time.Minute, a signed 64-bit number.
Duration(minutes) == ((minutes + Half) % Wrap) - Half

Until(w) ==
  LET d == Duration(Minutes(w.violations + 1))
  IN  IF IsSuspended(w) THEN w.until + d ELSE now + d

DecideUntil(s) ==
  /\ scorer[s].pc = "read"
  /\ scorer' = [scorer EXCEPT ![s].pc = "decided",
                              ![s].until = Until(scorer[s].seen)]
  /\ UNCHANGED <<row, registered, now, req, requests, offences, resets>>

SuspendWorker(s) ==
  /\ scorer[s].pc = "decided"
  /\ row' = [until |-> scorer[s].until,
             violations |-> scorer[s].seen.violations + 1]
  /\ scorer' = [scorer EXCEPT ![s] = NoCall]
  /\ UNCHANGED <<registered, now, req, requests, offences, resets>>

\* The settlement of an epoch.
ResetAllEpochViolations ==
  /\ row # None /\ row.violations > 0 /\ resets < MaxResets
  /\ row' = [row EXCEPT !.violations = 0]
  /\ resets' = resets + 1
  /\ UNCHANGED <<registered, now, req, scorer, requests, offences>>
----------------------------------------------------------------------------
Next ==
  \/ Tick \/ Registers \/ ResetAllEpochViolations
  \/ \E r \in Req :
       \/ \E full \in BOOLEAN : GetWorker(r, full)
       \/ RegisterCheck(r)
       \/ CreateWorker(r)
       \/ CreateWorkerConflict(r)
       \/ GetWorkerAgain(r)
       \/ RefuseSuspended(r)
       \/ Admit(r)
       \/ UnsuspendWorker(r)
       \/ RequestFails(r)
  \/ \E s \in Scorer : MaybeSuspend(s) \/ DecideUntil(s) \/ SuspendWorker(s)

Spec == Init /\ [][Next]_vars
----------------------------------------------------------------------------
\* Rows, requests and calls are well-formed: no column of the worker's row is
\* NULL but suspended_until (store/worker.go).
TypeOK ==
  /\ row \in Row \cup {None}
  /\ registered \in BOOLEAN /\ now \in 0..MaxNow
  /\ \A r \in Req :
       /\ req[r].pc \in {"idle", "unknown", "eligible", "reread", "known", "expired"}
       /\ req[r].full \in BOOLEAN /\ req[r].seen \in Row \cup {None}
  /\ \A s \in Scorer :
       /\ scorer[s].pc \in {"idle", "read", "decided"}
       /\ scorer[s].seen \in Row \cup {None} /\ scorer[s].until \in Int
  /\ requests \in 0..MaxRequests /\ offences \in 0..MaxOffences
  /\ resets \in 0..MaxResets

\* However two first requests of a worker interleave, the one that loses the
\* race of the INSERT goes on with a worker and not with a nil pointer, which
\* miner.IsSuspended() would dereference (handler/worker_auth.go:143).
WorkerAtHand == \A r \in Req : At(r, "known") => req[r].seen # None

\* A worker with n low scores is never shut out for longer than the n first
\* terms of the back-off together, however scorers, requests and the reset of
\* the violations interleave (maybeSuspend's stacking).
NeverOverPunished ==
  row # None /\ IsSuspended(row) => row.until <= now + Base * (2^offences - 1)
=============================================================================
