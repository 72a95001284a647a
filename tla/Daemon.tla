------------------------------- MODULE Daemon -------------------------------
(***************************************************************************)
(* The process around the services: its start (cmd/benchmarkd/main.go),    *)
(* the cache of the runtime configuration (service/config.go,              *)
(* store/config.go, PUT /admin/v1/config) and the scheduler that settles   *)
(* the previous day at 01:00 UTC.                                          *)
(*                                                                         *)
(* The actors are the admins' requests, the scheduler's goroutine and the  *)
(* main goroutine.  An update is two statements and then the step under    *)
(* the mutex that replaces the cached values; a call of Settle takes its   *)
(* settings from the cache once, at its start, and may last any time.      *)
(*                                                                         *)
(* A day has DayLen ticks; tick 0 is before 01:00, tick 1 is 01:00.        *)
(***************************************************************************)
EXTENDS Integers

CONSTANTS Admin,
          Key,         \* the keys SettlementConfig returns
          Value,       \* the values that parse
          Junk,        \* a value that does not
          Default,     \* the fallback of getInt, getFloat, getString
          Zero,        \* Go's zero value
          DayLen,
          Day,         \* the days whose epochs are looked at
          MaxClock,    \* bound: the moment at which the clock stops
          MaxUpdates,  \* bound: requests that update the configuration
          MaxStops     \* bound: crashes and shutdowns

\* The moment at which the epoch of day d is settled.
Due(d) == (d + 1) * DayLen + 1

ASSUME DaemonAssumption ==
  /\ DayLen \in Nat /\ DayLen > 1
  /\ Day \subseteq Nat /\ MaxClock \in Nat /\ \A d \in Day : Due(d) < MaxClock
  /\ MaxUpdates \in Nat /\ MaxStops \in Nat
  /\ {Default, Zero} \cap Value = {} /\ Default # Zero
  /\ Junk \notin Value \cup {Default, Zero}

Raw == Value \cup {Junk}
Setting == Value \cup {Default, Zero}

VARIABLES
  table,    \* [Key -> Raw]: system_config
  cache,    \* [Key -> Setting]: RuntimeConfig
  update,   \* [Admin -> the request being served]
  main,     \* "down", "start", "recover" or "up"
  clock,
  sched,    \* the scheduler's goroutine
  settled,  \* day |-> the settings its automatic settlement took, and whether
            \* they had been loaded
  updates, stops,
  \* what has happened, for the properties
  tables,   \* the contents system_config has had
  blind,    \* no Load has succeeded since the process started
  current,  \* the last update was served alone and answered with 200
  missed    \* days whose epoch fell due while the scheduler was not waiting

config    == <<table, cache, update, updates, tables, current>>
scheduler == <<sched, settled, missed>>
vars == <<config, scheduler, main, clock, stops, blind>>

NoUpdate == [pc |-> "idle", seen |-> [k \in Key |-> Junk], alone |-> TRUE]
Stopped  == [pc |-> "off", next |-> 0]

\* Mutant: the stored value is taken as it is.
ParseNothing(raw) == raw

\* getInt and its like: a value that does not parse is replaced.
Parse(raw) == [k \in Key |-> IF raw[k] = Junk THEN Default ELSE raw[k]]

Zeros == [k \in Key |-> Zero]

Init ==
  /\ table \in [Key -> Value] /\ cache = Zeros
  /\ update = [a \in Admin |-> NoUpdate]
  /\ main = "down" /\ clock = 0
  /\ sched = Stopped /\ settled = [d \in {} |-> Zeros]
  /\ updates = 0 /\ stops = 0
  /\ tables = {table} /\ blind = TRUE /\ current = FALSE /\ missed = {}
----------------------------------------------------------------------------
(* run(): the configuration is loaded, timers are recovered, the scheduler *)
(* is started, and then the server listens.                                *)

Start ==
  /\ main = "down"
  /\ main' = "start" /\ cache' = Zeros /\ blind' = TRUE
  /\ UNCHANGED <<table, update, updates, tables, current, scheduler, clock, stops>>

MainLoads ==
  /\ main = "start"
  /\ main' = "recover"
  /\ cache' = Parse(table) /\ current' = TRUE /\ blind' = FALSE
  /\ UNCHANGED <<table, update, updates, tables, scheduler, clock, stops>>

\* Load fails: a warning, and the start goes on with what the cache holds.
MainLoadFails ==
  /\ main = "start"
  /\ main' = "recover"
  /\ UNCHANGED <<config, scheduler, clock, stops, blind>>

\* RecoverOnStartup, startSettlementScheduler, ListenAndServe.
Serve ==
  /\ main = "recover"
  /\ main' = "up" /\ sched' = [Stopped EXCEPT !.pc = "plan"]
  /\ UNCHANGED <<config, settled, missed, clock, stops, blind>>

\* The process crashes, or is shut down.  A shutdown waits for scorers without a
\* limit, for requests five seconds and for a settlement not at all: it may
\* cut any of them off, which is all the model says of it.
Stop ==
  /\ main # "down" /\ stops < MaxStops
  /\ main' = "down" /\ stops' = stops + 1
  /\ sched' = Stopped
  /\ update' = [a \in Admin |-> NoUpdate]
  /\ current' = FALSE
  /\ UNCHANGED <<table, cache, updates, tables, settled, missed, clock, blind>>
----------------------------------------------------------------------------
(* PUT /admin/v1/config: HandleUpdateConfig. *)

Busy == {a \in Admin : update[a].pc # "idle"}

\* Mutant: Load before SetConfig.
SetConfigAfterLoad(a, k, v) ==
  /\ main = "up" /\ update[a].pc = "idle" /\ updates < MaxUpdates
  /\ table' = [table EXCEPT ![k] = v]
  /\ update' = [b \in Admin |->
       IF b = a THEN [pc |-> "install", seen |-> table, alone |-> Busy = {}]
       ELSE [update[b] EXCEPT !.alone = FALSE]]
  /\ updates' = updates + 1
  /\ tables' = tables \cup {table'} /\ current' = FALSE
  /\ UNCHANGED <<cache, scheduler, main, clock, stops, blind>>

\* SetConfig: the UPDATE, of any string but the empty one.
SetConfig(a, k, v) ==
  /\ main = "up" /\ update[a].pc = "idle" /\ updates < MaxUpdates
  /\ table' = [table EXCEPT ![k] = v]
  /\ update' = [b \in Admin |->
       IF b = a THEN [NoUpdate EXCEPT !.pc = "list", !.alone = (Busy = {})]
       ELSE [update[b] EXCEPT !.alone = FALSE]]
  /\ updates' = updates + 1
  /\ tables' = tables \cup {table'} /\ current' = FALSE
  /\ UNCHANGED <<cache, scheduler, main, clock, stops, blind>>

\* Load: ListConfig, before the mutex is taken.
ListConfig(a) ==
  /\ update[a].pc = "list"
  /\ update' = [update EXCEPT ![a].pc = "install", ![a].seen = table]
  /\ UNCHANGED <<table, cache, updates, tables, current, scheduler, main, clock,
                 stops, blind>>

\* Mutant: a value that does not parse leaves the cached one in place.
InstallParsed(a) ==
  /\ update[a].pc = "install"
  /\ cache' = [k \in Key |->
       IF update[a].seen[k] = Junk THEN cache[k] ELSE update[a].seen[k]]
  /\ update' = [update EXCEPT ![a] = NoUpdate]
  /\ current' = update[a].alone /\ blind' = FALSE
  /\ UNCHANGED <<table, updates, tables, scheduler, main, clock, stops>>

\* Load: all fields are replaced under the mutex, and the request is answered.
Install(a) ==
  /\ update[a].pc = "install"
  /\ cache' = Parse(update[a].seen)
  /\ update' = [update EXCEPT ![a] = NoUpdate]
  /\ current' = update[a].alone /\ blind' = FALSE
  /\ UNCHANGED <<table, updates, tables, scheduler, main, clock, stops>>

\* ListConfig fails, or the request is cancelled: the table has the new value,
\* the cache has not.
LoadFails(a) ==
  /\ update[a].pc = "list"
  /\ update' = [update EXCEPT ![a] = NoUpdate]
  /\ UNCHANGED <<table, cache, updates, tables, current, scheduler, main, clock,
                 stops, blind>>
----------------------------------------------------------------------------
(* startSettlementScheduler. *)

\* 01:00 of the day of moment t.
AtOne(t) == (t \div DayLen) * DayLen + 1

\* Mutant: now.After(next) in place of !now.Before(next).
NextRunAfter(now) == IF now > AtOne(now) THEN AtOne(now) + DayLen ELSE AtOne(now)

NextRun(now) == IF now >= AtOne(now) THEN AtOne(now) + DayLen ELSE AtOne(now)

Plan ==
  /\ sched.pc = "plan"
  /\ sched' = [pc |-> "wait", next |-> NextRun(clock)]
  /\ UNCHANGED <<config, settled, missed, main, clock, stops, blind>>

\* The day before the one on which the timer was to fire.
EpochDate(next) == (next - DayLen) \div DayLen

\* The timer fires; Settle begins with its epoch and a snapshot of the cache.
SettleBegins ==
  /\ sched.pc = "wait" /\ clock >= sched.next
  /\ sched' = [sched EXCEPT !.pc = "settle"]
  /\ settled' = [d \in DOMAIN settled \cup {EpochDate(sched.next)} |->
       IF d = EpochDate(sched.next) THEN [set |-> cache, loaded |-> ~blind]
       ELSE settled[d]]
  /\ UNCHANGED <<config, missed, main, clock, stops, blind>>

\* Mutant: a settlement that fails ends the goroutine.
SettleReturnsOrEnds ==
  /\ sched.pc = "settle"
  /\ sched' \in {[sched EXCEPT !.pc = "plan"], Stopped}
  /\ UNCHANGED <<config, settled, missed, main, clock, stops, blind>>

\* Settle returns; an error is printed and otherwise ignored.
SettleReturns ==
  /\ sched.pc = "settle"
  /\ sched' = [sched EXCEPT !.pc = "plan"]
  /\ UNCHANGED <<config, settled, missed, main, clock, stops, blind>>

\* Time passes; a timer that is due does not wait for the next tick.
Tick ==
  /\ clock < MaxClock
  /\ ~(sched.pc = "wait" /\ clock >= sched.next)
  /\ clock' = clock + 1
  /\ missed' = IF main # "up" \/ sched.pc \in {"plan", "settle"}
                 THEN missed \cup {d \in Day : Due(d) = clock'}
                 ELSE missed
  /\ UNCHANGED <<config, sched, settled, main, stops, blind>>
----------------------------------------------------------------------------
MainStep == Start \/ MainLoads \/ Serve

Update(a) == ListConfig(a) \/ Install(a)

Next ==
  \/ MainStep \/ MainLoadFails \/ Stop
  \/ \E a \in Admin :
       \/ \E k \in Key, v \in Raw : SetConfig(a, k, v)
       \/ Update(a) \/ LoadFails(a)
  \/ Plan \/ SettleBegins \/ SettleReturns \/ Tick

Spec == Init /\ [][Next]_vars

\* Goroutines run, the clock goes on, a call of Settle comes to an end.
Fairness ==
  /\ WF_vars(MainStep) /\ WF_vars(Plan) /\ WF_vars(SettleBegins)
  /\ WF_vars(SettleReturns) /\ WF_vars(Tick)

FairSpec == Spec /\ Fairness
----------------------------------------------------------------------------
(* Properties. *)

\* The type invariant.
TypeOK ==
  /\ table \in [Key -> Raw] /\ cache \in [Key -> Setting]
  /\ \A a \in Admin : update[a] \in
       [pc : {"idle", "list", "install"}, seen : [Key -> Raw], alone : BOOLEAN]
  /\ main \in {"down", "start", "recover", "up"} /\ clock \in 0 .. MaxClock
  /\ sched \in [pc : {"off", "plan", "wait", "settle"}, next : 0 .. MaxClock + DayLen]
  /\ \A d \in DOMAIN settled :
       d >= -1 /\ settled[d] \in [set : [Key -> Setting], loaded : BOOLEAN]
  /\ missed \subseteq Day /\ table \in tables

\* The pool and the other settings of a settlement were in system_config
\* together at some moment: a cache that is reloaded while Settle reads it, by
\* overlapping updates too, never yields a mixture.  That is said of processes
\* that have loaded the table, at their start or for an update.
SettingsFromOneTable ==
  \A d \in DOMAIN settled :
    settled[d].loaded => \E t \in tables : settled[d].set = Parse(t)

\* An update that was served without another one overlapping it, and was
\* answered with 200, is in force: the cache is what the table says.
UpdateInForce == (current /\ Busy = {}) => cache = Parse(table)

\* The scheduler settles the epoch of a day after that day is over, and never
\* the same epoch twice, also when the process is restarted within the hour.
OnceAfterItsDay ==
  [][(sched.pc = "wait" /\ sched'.pc = "settle") =>
       \E d \in DOMAIN settled' \ DOMAIN settled : clock >= (d + 1) * DayLen]_vars

\* The scheduler skips no epoch of its own accord: a process that serves before
\* an epoch is due settles it, unless it stops or is busy with an earlier
\* settlement when 01:00 comes.
EpochsSettled ==
  \A d \in Day :
    (main = "up" /\ clock < Due(d)) ~>
      (d \in DOMAIN settled \/ d \in missed \/ main # "up")
----------------------------------------------------------------------------
(* What the documentation and the comments say, and the code does not keep. *)

\* docs/deployment.md, Startup Behavior: the configuration is loaded from
\* system_config, and falls back to defaults on error.
DefaultsOnError ==
  \A d \in DOMAIN settled :
    ~settled[d].loaded => settled[d].set = [k \in Key |-> Default]
=============================================================================
