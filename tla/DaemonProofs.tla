---------------------------- MODULE DaemonProofs ----------------------------
(***************************************************************************)
(* Proofs about Daemon, for every number of admins, updates, crashes and   *)
(* days, and for every set of configuration keys and values.               *)
(***************************************************************************)
EXTENDS Daemon, TLAPS

UpdateRecord ==
  [pc : {"idle", "list", "install"}, seen : [Key -> Raw], alone : BOOLEAN]

\* TypeOK, and what update and tables are as a whole.
Shape ==
  /\ TypeOK
  /\ update \in [Admin -> UpdateRecord]
  /\ tables \subseteq [Key -> Raw]

\* Updates are served, and the scheduler runs, only while the process is up.
UpOnly ==
  /\ sched.pc # "off" => main = "up"
  /\ \A a \in Admin : update[a].pc # "idle" => main = "up"

\* What an update is about to install was in the table.
SeenInTable == \A a \in Admin : update[a].pc = "install" => update[a].seen \in tables

\* The settings s are those of one table.
FromOneTable(s) == \E t \in tables : s = Parse(t)

\* The cache holds such settings, once it has been loaded.
CacheFromOneTable ==
  /\ blind \in BOOLEAN
  /\ main = "start" => blind = TRUE
  /\ main \in {"recover", "up"} /\ blind = FALSE => FromOneTable(cache)

\* An update that has had no other beside it has seen the table as it is.
AloneSeesTable ==
  \A a \in Admin : (update[a].pc # "idle" /\ update[a].alone) =>
    /\ \A b \in Admin : b # a => update[b].pc = "idle"
    /\ update[a].pc = "install" => update[a].seen = table

\* As long as the cache is said to be current, nobody changes it.
CurrentInForce ==
  current => /\ main \in {"recover", "up"}
             /\ \A a \in Admin : update[a].pc = "idle"
             /\ cache = Parse(table)

\* What is settled was due, and before the run the scheduler waits for.
SettledInOrder ==
  /\ \A d \in DOMAIN settled : d \in Int /\ Due(d) <= clock
  /\ sched.pc = "wait" =>
       /\ \E m \in Nat : sched.next = m * DayLen + 1
       /\ \A d \in DOMAIN settled : Due(d) < sched.next

Config == SeenInTable /\ CacheFromOneTable /\ SettingsFromOneTable
          /\ AloneSeesTable /\ CurrentInForce

Inv == Shape /\ UpOnly /\ Config /\ SettledInOrder
----------------------------------------------------------------------------
(* The arithmetic of the scheduler. *)

\* Whole days before moment t.
LEMMA WholeDays ==
  ASSUME NEW t \in Nat
  PROVE  /\ t \div DayLen \in Nat
         /\ (t \div DayLen) * DayLen <= t
         /\ t < (t \div DayLen) * DayLen + DayLen
  BY DaemonAssumption

\* The next run is at 01:00 of a day, later than now and within one day.
LEMMA NextRunLater ==
  ASSUME NEW t \in Nat
  PROVE  /\ \E m \in Nat : NextRun(t) = m * DayLen + 1
         /\ NextRun(t) \in Nat /\ t < NextRun(t) /\ NextRun(t) <= t + DayLen
<1> DEFINE m == t \div DayLen
<1>1. m \in Nat /\ m * DayLen \in Nat /\ m * DayLen <= t /\ t < m * DayLen + DayLen
  BY WholeDays, DaemonAssumption
<1>2. (m + 1) * DayLen = m * DayLen + DayLen
  BY <1>1, DaemonAssumption
<1>3. AtOne(t) = m * DayLen + 1
  BY DEF AtOne
<1> HIDE DEF m
<1>4. CASE t >= m * DayLen + 1
  <2>1. NextRun(t) = m * DayLen + 1 + DayLen
    BY <1>3, <1>4 DEF NextRun
  <2>2. NextRun(t) = (m + 1) * DayLen + 1 /\ m + 1 \in Nat
    BY <1>1, <1>2, <2>1, DaemonAssumption
  <2> QED
    BY <1>1, <1>4, <2>1, <2>2, DaemonAssumption
<1>5. CASE ~(t >= m * DayLen + 1)
  <2>1. NextRun(t) = m * DayLen + 1
    BY <1>3, <1>5 DEF NextRun
  <2> QED
    BY <1>1, <1>5, <2>1, DaemonAssumption
<1> QED
  BY <1>4, <1>5

\* The run at 01:00 of a day settles the epoch that is due then.
LEMMA EpochIsDue ==
  ASSUME NEW m \in Nat, NEW next \in Int, next = m * DayLen + 1
  PROVE  EpochDate(next) = m - 1 /\ Due(m - 1) = next
<1>1. ASSUME NEW x \in Int, x = (m - 1) * DayLen + 1
      PROVE  x \div DayLen = m - 1
  BY <1>1, DaemonAssumption
<1>2. next - DayLen \in Int /\ next - DayLen = (m - 1) * DayLen + 1
  BY DaemonAssumption
<1>3. (next - DayLen) \div DayLen = m - 1
  BY <1>1, <1>2
<1>4. Due(m - 1) = next
  BY DaemonAssumption DEF Due
<1> QED
  BY <1>3, <1>4 DEF EpochDate
----------------------------------------------------------------------------
(* Every step keeps Inv. *)

\* Parsing and the defaults.
LEMMA ParseType ==
  /\ \A raw \in [Key -> Raw] : Parse(raw) \in [Key -> Setting]
  /\ Zeros \in [Key -> Setting]
  BY DaemonAssumption DEF Parse, Zeros, Raw, Setting

\* A finished request.
LEMMA NoUpdateType == NoUpdate \in UpdateRecord /\ NoUpdate.pc = "idle"
  BY DEF NoUpdate, UpdateRecord, Raw

USE DEF config, scheduler

\* A configuration of values and a process that has not started.
LEMMA InitInv == Init => Inv
<1> SUFFICES ASSUME Init PROVE Inv
  OBVIOUS
<1>1. Shape
  BY ParseType, DaemonAssumption
  DEF Init, Shape, TypeOK, UpdateRecord, NoUpdate, Stopped, Raw
<1> QED
  BY <1>1 DEF Init, Inv, UpOnly, Config, SeenInTable, CacheFromOneTable,
              SettingsFromOneTable, AloneSeesTable, CurrentInForce, SettledInOrder,
              NoUpdate, Stopped

\* Start, Load, a failing Load, and ListenAndServe.
LEMMA MainInv ==
  ASSUME Inv, MainStep \/ MainLoadFails
  PROVE  Inv'
<1> USE DEF MainStep, Start, MainLoads, MainLoadFails, Serve, Stopped
<1>1. Shape'
  BY ParseType, DaemonAssumption DEF Inv, Shape, TypeOK
<1>2. UpOnly' /\ SettledInOrder'
  BY DEF Inv, UpOnly, SettledInOrder
<1>3. SeenInTable' /\ AloneSeesTable'
  BY DEF Inv, Config, SeenInTable, AloneSeesTable
<1>4. CacheFromOneTable'
  <2>1. CASE Start
    BY <2>1 DEF CacheFromOneTable
  <2>2. CASE MainLoads
    BY <2>2 DEF Inv, Shape, TypeOK, CacheFromOneTable, FromOneTable
  <2>3. CASE MainLoadFails
    BY <2>3 DEF Inv, Config, CacheFromOneTable
  <2>4. CASE Serve
    BY <2>4 DEF Inv, Config, CacheFromOneTable, FromOneTable
  <2> QED
    BY <2>1, <2>2, <2>3, <2>4
<1>5. SettingsFromOneTable'
  BY DEF Inv, Config, SettingsFromOneTable
<1>6. CurrentInForce'
  BY DEF Inv, UpOnly, Config, CurrentInForce
<1> QED
  BY <1>1, <1>2, <1>3, <1>4, <1>5, <1>6 DEF Inv, Config

\* A crash or a shutdown.
LEMMA StopInv ==
  ASSUME Inv, Stop
  PROVE  Inv'
<1> USE DEF Stop, Stopped, NoUpdate
<1>1. Shape'
  BY DaemonAssumption DEF Inv, Shape, TypeOK, UpdateRecord, Raw
<1> QED
  BY <1>1 DEF Inv, UpOnly, Config, SeenInTable, CacheFromOneTable, SettingsFromOneTable,
              AloneSeesTable, CurrentInForce, SettledInOrder

\* SetConfig: from now on no update that runs is alone, but perhaps this one.
LEMMA SetConfigInv ==
  ASSUME Inv, NEW a \in Admin, NEW k \in Key, NEW v \in Raw, SetConfig(a, k, v)
  PROVE  Inv'
<1>1. /\ main = "up" /\ update[a].pc = "idle"
      /\ table' = [table EXCEPT ![k] = v] /\ tables' = tables \cup {table'}
      /\ current' = FALSE
      /\ UNCHANGED <<cache, scheduler, main, clock, stops, blind>>
  BY DEF SetConfig
<1>2. update'[a] = [pc |-> "list", seen |-> [x \in Key |-> Junk], alone |-> (Busy = {})]
  BY DEF SetConfig, NoUpdate
<1>3. \A b \in Admin : b # a =>
        /\ update'[b] = [update[b] EXCEPT !.alone = FALSE]
        /\ update[b] \in UpdateRecord
  BY DEF SetConfig, Inv, Shape
<1>4. \A b \in Admin : b # a =>
        /\ update'[b] \in UpdateRecord /\ update'[b].alone = FALSE
        /\ update'[b].pc = update[b].pc /\ update'[b].seen = update[b].seen
  <2> SUFFICES ASSUME NEW x \in UpdateRecord, NEW y, y = [x EXCEPT !.alone = FALSE]
               PROVE  /\ y \in UpdateRecord /\ y.alone = FALSE
                      /\ y.pc = x.pc /\ y.seen = x.seen
    BY <1>3
  <2> QED
    BY DEF UpdateRecord
<1>5. update' \in [Admin -> UpdateRecord]
  <2>1. update'[a] \in UpdateRecord
    BY <1>2 DEF UpdateRecord, Raw
  <2>2. update' = [b \in Admin |-> update'[b]]
    BY DEF SetConfig
  <2> QED
    BY <1>4, <2>1, <2>2
<1>6. Shape'
  <2>1. table' \in [Key -> Raw] /\ table' \in tables' /\ tables' \subseteq [Key -> Raw]
    BY <1>1 DEF Inv, Shape, TypeOK
  <2>2. \A b \in Admin : update'[b] \in UpdateRecord
    BY <1>5
  <2> QED
    BY <1>1, <1>5, <2>1, <2>2 DEF Inv, Shape, TypeOK, UpdateRecord
<1>7. UpOnly' /\ SettledInOrder'
  BY <1>1 DEF Inv, UpOnly, SettledInOrder
<1>8. SeenInTable' /\ CacheFromOneTable' /\ SettingsFromOneTable' /\ CurrentInForce'
  BY <1>1, <1>2, <1>4 DEF Inv, Config, SeenInTable, CacheFromOneTable, FromOneTable,
                          SettingsFromOneTable, CurrentInForce
<1>9. AloneSeesTable'
  <2>1. update'[a].pc = "list" /\ (update'[a].alone => Busy = {})
    <3>1. update'[a].pc = "list"
      BY <1>2
    <3>2. ASSUME Busy # {} PROVE update'[a].alone = FALSE
      <4> DEFINE lone == (Busy = {})
      <4>1. update'[a] = [pc |-> "list", seen |-> [x \in Key |-> Junk], alone |-> lone]
        BY <1>2
      <4>2. lone = FALSE
        BY <3>2
      <4> HIDE DEF lone
      <4> QED
        BY <4>1, <4>2
    <3> QED
      BY <3>1, <3>2
  <2>2. ASSUME NEW b \in Admin, update'[b].pc # "idle", update'[b].alone
        PROVE  b = a /\ Busy = {}
    BY <1>4, <2>1, <2>2
  <2>3. Busy = {} => \A b \in Admin : b # a => update'[b].pc = "idle"
    BY <1>4 DEF Busy
  <2> QED
    BY <2>1, <2>2, <2>3 DEF AloneSeesTable
<1> QED
  BY <1>6, <1>7, <1>8, <1>9 DEF Inv, Config

\* Load, and a failing Load.
LEMMA UpdateInv ==
  ASSUME Inv, NEW a \in Admin, Update(a) \/ LoadFails(a)
  PROVE  Inv'
<1> USE DEF Update
<1>1. CASE ListConfig(a)
  <2>0. /\ update \in [Admin -> UpdateRecord] /\ table \in [Key -> Raw]
        /\ update' = [update EXCEPT ![a] = [update[a] EXCEPT !.pc = "install",
                                                             !.seen = table]]
    BY <1>1 DEF ListConfig, Inv, Shape, TypeOK
  <2>01. [update[a] EXCEPT !.pc = "install", !.seen = table] \in UpdateRecord
    BY <2>0 DEF UpdateRecord
  <2>1. /\ update[a].pc = "list" /\ update[a] \in UpdateRecord /\ table \in tables
        /\ update'[a] = [update[a] EXCEPT !.pc = "install", !.seen = table]
        /\ update' \in [Admin -> UpdateRecord]
        /\ \A b \in Admin : b # a => update'[b] = update[b]
        /\ UNCHANGED <<table, cache, updates, tables, current, scheduler, main, clock,
                       stops, blind>>
    BY <1>1, <2>0, <2>01 DEF ListConfig, Inv, Shape, TypeOK
  <2>2. /\ update'[a].pc = "install" /\ update'[a].seen = table
        /\ update'[a].alone = update[a].alone
    BY <2>1 DEF UpdateRecord
  <2>3. Shape'
    BY <2>1 DEF Inv, Shape, TypeOK, UpdateRecord
  <2>4. UpOnly' /\ SettledInOrder'
    BY <2>1, <2>2 DEF Inv, UpOnly, SettledInOrder
  <2>5. SeenInTable' /\ CacheFromOneTable' /\ SettingsFromOneTable' /\ CurrentInForce'
    BY <2>1, <2>2 DEF Inv, Config, SeenInTable, CacheFromOneTable, FromOneTable,
                      SettingsFromOneTable, CurrentInForce
  <2>6. AloneSeesTable'
    <3>1. ASSUME NEW b \in Admin, update'[b].pc # "idle", update'[b].alone
          PROVE  /\ \A c \in Admin : c # b => update'[c].pc = "idle"
                 /\ update'[b].pc = "install" => update'[b].seen = table'
      <4>1. update[b].pc # "idle" /\ update[b].alone
        BY <2>1, <2>2, <3>1
      <4>2. /\ \A c \in Admin : c # b => update[c].pc = "idle"
            /\ update[b].pc = "install" => update[b].seen = table
        BY <4>1 DEF Inv, Config, AloneSeesTable
      <4> QED
        BY <2>1, <2>2, <4>2
    <3> QED
      BY <3>1 DEF AloneSeesTable
  <2> QED
    BY <2>3, <2>4, <2>5, <2>6 DEF Inv, Config
<1>2. CASE Install(a) \/ LoadFails(a)
  <2>1. /\ update[a].pc \in {"list", "install"} /\ update[a] \in UpdateRecord
        /\ update'[a] = NoUpdate
        /\ update' \in [Admin -> UpdateRecord]
        /\ \A b \in Admin : b # a => update'[b] = update[b]
        /\ UNCHANGED <<table, updates, tables, scheduler, main, clock, stops>>
    BY <1>2, NoUpdateType DEF Install, LoadFails, Inv, Shape
  <2>2. \/ UNCHANGED <<cache, current, blind>>
        \/ /\ update[a].pc = "install" /\ cache' = Parse(update[a].seen)
           /\ current' = update[a].alone /\ blind' = FALSE
    BY <1>2 DEF Install, LoadFails
  <2>3. update'[a].pc = "idle"
    BY <2>1 DEF NoUpdate
  <2>4. main = "up"
    BY <2>1 DEF Inv, UpOnly
  <2>5. Shape'
    BY <2>1, <2>2, ParseType DEF Inv, Shape, TypeOK, UpdateRecord
  <2>6. UpOnly' /\ SettledInOrder' /\ SeenInTable' /\ SettingsFromOneTable' /\ AloneSeesTable'
    BY <2>1, <2>3 DEF Inv, UpOnly, SettledInOrder, Config, SeenInTable,
                      SettingsFromOneTable, AloneSeesTable
  <2>7. CacheFromOneTable'
    BY <2>1, <2>2, <2>4 DEF Inv, Config, SeenInTable, CacheFromOneTable, FromOneTable
  <2>8. CurrentInForce'
    BY <2>1, <2>2, <2>3, <2>4 DEF Inv, Config, CurrentInForce, AloneSeesTable
  <2> QED
    BY <2>5, <2>6, <2>7, <2>8 DEF Inv, Config
<1> QED
  BY <1>1, <1>2

\* The scheduler makes its plan: the next run is later than all that is settled.
LEMMA PlanInv ==
  ASSUME Inv, Plan
  PROVE  Inv'
<1>1. /\ sched.pc = "plan" /\ sched' = [pc |-> "wait", next |-> NextRun(clock)]
      /\ clock \in 0 .. MaxClock
      /\ UNCHANGED <<config, settled, missed, main, clock, stops, blind>>
  BY DEF Plan, Inv, Shape, TypeOK
<1>2. /\ \E m \in Nat : sched'.next = m * DayLen + 1
      /\ sched'.next \in Nat /\ clock < sched'.next /\ sched'.next <= clock + DayLen
  <2>1. clock \in Nat /\ sched'.next = NextRun(clock)
    BY <1>1, DaemonAssumption
  <2> QED
    BY <2>1, NextRunLater
<1>3. sched' \in [pc : {"off", "plan", "wait", "settle"}, next : 0 .. MaxClock + DayLen]
  <2>1. NextRun(clock) \in 0 .. MaxClock + DayLen
    BY <1>1, <1>2, DaemonAssumption
  <2> QED
    BY <1>1, <2>1
<1>4. Shape'
  BY <1>1, <1>3 DEF Inv, Shape, TypeOK
<1>5. SettledInOrder'
  <2>1. \A d \in DOMAIN settled : d \in Int /\ Due(d) <= clock /\ Due(d) \in Int
    BY DaemonAssumption DEF Inv, SettledInOrder, Due
  <2>2. \A d \in DOMAIN settled : Due(d) < sched'.next
    BY <1>1, <1>2, <2>1, DaemonAssumption
  <2> QED
    BY <1>1, <1>2, <2>1, <2>2 DEF SettledInOrder
<1>6. UpOnly'
  BY <1>1 DEF Inv, UpOnly
<1>7. Config'
  BY <1>1 DEF Inv, Config, SeenInTable, CacheFromOneTable, FromOneTable,
              SettingsFromOneTable, AloneSeesTable, CurrentInForce
<1> QED
  BY <1>4, <1>5, <1>6, <1>7 DEF Inv

\* The timer fires: a new epoch, the one that is due.
LEMMA SettleNew ==
  ASSUME Inv, SettleBegins
  PROVE  \E d \in Int : /\ d = EpochDate(sched.next) /\ d >= -1
                        /\ d \notin DOMAIN settled
                        /\ Due(d) = sched.next /\ Due(d) <= clock
<1>1. sched.pc = "wait" /\ sched.next <= clock /\ sched.next \in Int
  BY DaemonAssumption DEF SettleBegins, Inv, Shape, TypeOK
<1>2. PICK m \in Nat : sched.next = m * DayLen + 1
  BY <1>1 DEF Inv, SettledInOrder
<1>3. EpochDate(sched.next) = m - 1 /\ Due(m - 1) = sched.next
  BY <1>1, <1>2, EpochIsDue
<1>4. \A d \in DOMAIN settled : Due(d) < sched.next
  BY <1>1 DEF Inv, SettledInOrder
<1>5. m - 1 \notin DOMAIN settled
  BY <1>1, <1>3, <1>4
<1> QED
  BY <1>1, <1>3, <1>5

\* It takes its settings from the cache at that moment.
LEMMA SettleInv ==
  ASSUME Inv, SettleBegins
  PROVE  Inv'
<1>1. PICK d \in Int : /\ d = EpochDate(sched.next) /\ d >= -1
                       /\ d \notin DOMAIN settled
                       /\ Due(d) = sched.next /\ Due(d) <= clock
  BY SettleNew
<1> DEFINE loaded == ~blind
           x == [set |-> cache, loaded |-> loaded]
<1>2. /\ sched.pc = "wait"
      /\ sched' = [sched EXCEPT !.pc = "settle"]
      /\ settled' = [e \in DOMAIN settled \cup {d} |-> IF e = d THEN x ELSE settled[e]]
      /\ UNCHANGED <<config, missed, main, clock, stops, blind>>
  BY <1>1 DEF SettleBegins
<1>7. loaded \in BOOLEAN /\ (loaded => ~blind)
  OBVIOUS
<1> HIDE DEF loaded
<1>8. x.set = cache /\ x.loaded = loaded
  OBVIOUS
<1>9. x \in [set : [Key -> Setting], loaded : BOOLEAN]
  BY <1>7 DEF Inv, Shape, TypeOK
<1> HIDE DEF x
<1>3. Shape'
  BY <1>1, <1>2, <1>9 DEF Inv, Shape, TypeOK
<1>4. UpOnly' /\ SettledInOrder'
  BY <1>1, <1>2 DEF Inv, Shape, TypeOK, UpOnly, SettledInOrder
<1>5. SeenInTable' /\ CacheFromOneTable' /\ AloneSeesTable' /\ CurrentInForce'
  BY <1>2 DEF Inv, Config, SeenInTable, CacheFromOneTable, FromOneTable, AloneSeesTable,
              CurrentInForce
<1>6. SettingsFromOneTable'
  <2>1. loaded => FromOneTable(cache)
    BY <1>2, <1>7 DEF Inv, UpOnly, Config, CacheFromOneTable
  <2>2. x.loaded => \E t \in tables : x.set = Parse(t)
    BY <1>8, <2>1 DEF FromOneTable
  <2>3. \A e \in DOMAIN settled' : settled'[e] = x \/ (e \in DOMAIN settled /\ settled'[e] = settled[e])
    BY <1>2
  <2>4. tables' = tables
    BY <1>2
  <2> QED
    BY <2>2, <2>3, <2>4 DEF Inv, Config, SettingsFromOneTable
<1> QED
  BY <1>3, <1>4, <1>5, <1>6 DEF Inv, Config

\* A settlement ends, time passes, or nothing happens.
LEMMA TickInv ==
  ASSUME Inv, SettleReturns \/ Tick \/ UNCHANGED vars
  PROVE  Inv'
<1>1. /\ UNCHANGED <<config, settled, main, stops, blind>>
      /\ clock' \in 0 .. MaxClock /\ clock <= clock'
      /\ missed' \subseteq Day
      /\ sched' = sched \/ (sched' = [sched EXCEPT !.pc = "plan"] /\ sched.pc = "settle")
  BY DaemonAssumption DEF SettleReturns, Tick, vars, Inv, Shape, TypeOK
<1>2. Shape'
  BY <1>1 DEF Inv, Shape, TypeOK
<1>3. SettledInOrder'
  <2>1. \A d \in DOMAIN settled : Due(d) \in Int /\ Due(d) <= clock'
    BY <1>1, DaemonAssumption DEF Inv, Shape, TypeOK, SettledInOrder, Due
  <2>2. sched'.pc = "wait" => sched' = sched
    BY <1>1 DEF Inv, Shape, TypeOK
  <2> QED
    BY <1>1, <2>1, <2>2 DEF Inv, SettledInOrder
<1>4. UpOnly'
  BY <1>1 DEF Inv, Shape, TypeOK, UpOnly
<1>5. Config'
  BY <1>1 DEF Inv, Config, SeenInTable, CacheFromOneTable, FromOneTable,
              SettingsFromOneTable, AloneSeesTable, CurrentInForce
<1> QED
  BY <1>2, <1>3, <1>4, <1>5 DEF Inv

\* Every step keeps Inv.
LEMMA InvNext == Inv /\ [Next]_vars => Inv'
  BY MainInv, StopInv, SetConfigInv, UpdateInv, PlanInv, SettleInv, TickInv DEF Next

\* The inductive invariant.
LEMMA AlwaysInv == Spec => []Inv
  BY InitInv, InvNext, PTL DEF Spec
----------------------------------------------------------------------------
(* The theorems. *)

\* Every part of the process keeps its type.
THEOREM TypeCorrect == Spec => []TypeOK
<1>1. Inv => TypeOK
  BY DEF Inv, Shape
<1> QED
  BY <1>1, AlwaysInv, PTL

\* However updates overlap, fail and are cut off by crashes, the settings of a
\* settlement were in the table together, or are all zero after a start on
\* which Load failed.
THEOREM SettingsOfOneTable == Spec => []SettingsFromOneTable
<1>1. Inv => SettingsFromOneTable
  BY DEF Inv, Config
<1> QED
  BY <1>1, AlwaysInv, PTL

\* An update that no other overlapped, and that was answered with 200, is in
\* force.
THEOREM UpdatesInForce == Spec => []UpdateInForce
<1>1. Inv => UpdateInForce
  BY DEF Inv, Config, CurrentInForce, UpdateInForce
<1> QED
  BY <1>1, AlwaysInv, PTL

\* The scheduler never settles an epoch a second time, and none before its day
\* is over, however often the process is restarted around 01:00.
THEOREM SettlesOnceAfterItsDay == Spec => OnceAfterItsDay
<1>1. ASSUME Inv, [Next]_vars, sched.pc = "wait", sched'.pc = "settle"
      PROVE  \E d \in DOMAIN settled' \ DOMAIN settled : clock >= (d + 1) * DayLen
  <2>1. SettleBegins
    <3>1. CASE MainStep \/ MainLoadFails \/ Stop
      BY <1>1, <3>1 DEF MainStep, Start, MainLoads, Serve, MainLoadFails, Stop, Stopped
    <3>2. CASE \E a \in Admin : \/ \E k \in Key, v \in Raw : SetConfig(a, k, v)
                              \/ Update(a) \/ LoadFails(a)
      BY <1>1, <3>2 DEF SetConfig, Update, ListConfig, Install, LoadFails
    <3>3. CASE Plan \/ SettleReturns \/ Tick \/ UNCHANGED vars
      BY <1>1, <3>3 DEF Plan, SettleReturns, Tick, vars
    <3> QED
      BY <1>1, <3>1, <3>2, <3>3 DEF Next
  <2>2. PICK d \in Int : /\ d = EpochDate(sched.next) /\ d \notin DOMAIN settled
                         /\ Due(d) <= clock
    BY <1>1, <2>1, SettleNew
  <2>3. d \in DOMAIN settled'
    BY <2>1, <2>2 DEF SettleBegins
  <2>4. clock >= (d + 1) * DayLen
    BY <1>1, <2>2, DaemonAssumption DEF Due, Inv, Shape, TypeOK
  <2> QED
    BY <2>2, <2>3, <2>4
<1>2. Inv /\ [Next]_vars =>
        [(sched.pc = "wait" /\ sched'.pc = "settle") =>
           \E d \in DOMAIN settled' \ DOMAIN settled : clock >= (d + 1) * DayLen]_vars
  BY <1>1
<1> QED
  BY <1>2, AlwaysInv, PTL DEF Spec, OnceAfterItsDay
=============================================================================
