-------------------------- MODULE MonitorLifecycle --------------------------
(***************************************************************************)
(* How the monitors are started, replaced and stopped.  Requests of the    *)
(* web UI change the settings in memory, save them in config.yaml and hand *)
(* them to the service, without a lock of their own.  The service          *)
(* takes lifecycleMu, cancels the group of running monitors, waits until   *)
(* all of them have returned and starts the next group.  Health checks     *)
(* read the settings and write a status outside that lock, and the process *)
(* may be told to shut down at any time.                                   *)
(*                                                                         *)
(* Settings are passed on by value, but the array of their instances is    *)
(* shared by every copy, and deleting a connector shifts it in place.      *)
(* Reading or assigning one copy is a single step; what the file holds is  *)
(* left out.                                                               *)
(*                                                                         *)
(* "intact" is history: nobody has changed the array under this copy.  So  *)
(* are "alone", the request that has met no other since it changed the     *)
(* settings, and "settled": the last change was such a request's, and it   *)
(* has succeeded.                                                          *)
(***************************************************************************)
EXTENDS Naturals, FiniteSets, SequencesExt

CONSTANTS
  Instance,   \* IDs of Minecraft instances
  Request,    \* bound: the requests of the web UI, one change of settings each
  Form        \* settings the form may be saved with, and may be loaded

\* The form is refused when two connectors have one ID; nor does config.yaml
\* hold such at the start.
Connector == [id : Instance, on : BOOLEAN]
DistinctIDs(seq) == \A i, j \in DOMAIN seq : seq[i].id = seq[j].id => i = j
Settings == [enabled : BOOLEAN, seq : Seq(Connector)]

ASSUME ConstantsAssumption ==
  /\ IsFiniteSet(Instance) /\ IsFiniteSet(Request)
  /\ \A f \in Form : f \in Settings /\ DistinctIDs(f.seq)
  /\ "Run" \notin Request

VARIABLES
  form,     \* h.config.Minecraft
  config,   \* s.config
  lock,     \* who holds lifecycleMu
  run,      \* where Run is
  shutdown, \* the root context is done
  groups,   \* groups of monitors ever started
  group,    \* s.group: 0 for none
  monitors, \* the monitors that have not returned
  status,   \* who wrote the status of each instance
  pc, data, \* the requests, and the copy each has handed to ApplyConfig
  check,    \* the instance a health check is busy with: one at a time
  alone, settled

service == <<config, lock, run, groups, group, monitors, status>>
requests == <<pc, data, check>>
history == <<alone, settled>>
vars == <<form, config, lock, run, shutdown, groups, group, monitors, status,
          pc, data, check, alone, settled>>

\* A copy of the settings: its array is told from the others by a number.
Copy(f, n) == [enabled |-> f.enabled, seq |-> f.seq, array |-> n, intact |-> TRUE]
Value(c) == [enabled |-> c.enabled, seq |-> c.seq]
IDs(c) == {c.seq[n].id : n \in DOMAIN c.seq}

ByService == [by |-> "service", group |-> 0]
ByHealthCheck == [by |-> "health check", group |-> 0]
ByMonitor(g) == [by |-> "monitor", group |-> g]
NoStatus == [by |-> "nobody", group |-> 0]

\* initializeStatuses
InitialStatus(c) == [i \in Instance |-> IF i \in IDs(c) THEN ByService ELSE NoStatus]

Init ==
  /\ \E f \in Form : form = Copy(f, 1)
  /\ config = form
  /\ lock = {} /\ run = "new" /\ shutdown = FALSE
  /\ groups = 0 /\ group = 0 /\ monitors = {}
  /\ status = InitialStatus(form)
  /\ pc = [r \in Request |-> "due"]
  /\ data = [r \in Request |-> {}] /\ check = {}
  /\ alone = {} /\ settled = TRUE

-----------------------------------------------------------------------------
(* The service, with lifecycleMu held.                                     *)

\* An instance that is listed twice gets two monitors.
Monitored(c) == {n \in DOMAIN c.seq : c.enabled /\ c.seq[n].on}
Monitors(c, g) ==
  {[id |-> c.seq[n].id, slot |-> n, group |-> g, intact |-> c.intact] : n \in Monitored(c)}

\* Without the master switch there is no group, not even an empty one.
StartGroup ==
  IF config.enabled
  THEN /\ groups' = groups + 1 /\ group' = groups'
       /\ monitors' = monitors \cup Monitors(config, groups')
  ELSE group' = 0 /\ UNCHANGED <<groups, monitors>>

StartMonitors == StartGroup /\ status' = InitialStatus(config)

\* group.done is closed once every monitor of the group has returned.
GroupDone == \A m \in monitors : m.group # group

RunStart ==
  /\ run = "new" /\ lock = {}
  /\ run' = "running"
  /\ StartMonitors
  /\ UNCHANGED <<form, config, lock, shutdown, requests, history>>

Shutdown ==
  /\ ~shutdown
  /\ shutdown' = TRUE
  /\ UNCHANGED <<form, service, requests, history>>

RunStop ==
  /\ run = "running" /\ shutdown /\ lock = {}
  /\ run' = "stopping" /\ lock' = {"Run"}
  /\ UNCHANGED <<form, config, shutdown, groups, group, monitors, status,
                 requests, history>>

RunReturnsAtOnce ==
  /\ run = "stopping"
  /\ run' = "returned" /\ lock' = {} /\ group' = 0
  /\ UNCHANGED <<form, config, shutdown, groups, monitors, status, requests, history>>

RunReturn ==
  /\ run = "stopping" /\ GroupDone
  /\ run' = "returned" /\ lock' = {} /\ group' = 0
  /\ UNCHANGED <<form, config, shutdown, groups, monitors, status, requests, history>>

-----------------------------------------------------------------------------
(* The monitors.                                                           *)

others == <<form, config, lock, run, shutdown, groups, group, requests, history>>

Reports(m) == status' = [status EXCEPT ![m.id] = ByMonitor(m.group)]

MonitorPolls(m) ==
  /\ Reports(m)
  /\ UNCHANGED <<monitors, others>>

\* No password or no log path: an error in the status, and that was it.
MonitorGivesUp(m) ==
  /\ status[m.id] # ByMonitor(m.group)
  /\ Reports(m) /\ monitors' = monitors \ {m}
  /\ UNCHANGED others

MonitorReturnsOnShutdown(m) ==
  /\ shutdown
  /\ Reports(m) /\ monitors' = monitors \ {m}
  /\ UNCHANGED others

\* The context of a group is cancelled by whoever stops it, holding the lock.
Cancelled(m) == shutdown \/ lock # {} \/ m.group # group
MonitorReturns(m) ==
  /\ Cancelled(m)
  /\ Reports(m) /\ monitors' = monitors \ {m}
  /\ UNCHANGED others

-----------------------------------------------------------------------------
(* The requests: change the settings, save them, apply them.               *)

Go(r, to) == pc' = [pc EXCEPT ![r] = to]

Busy == {r \in Request : pc[r] \notin {"due", "done"}}
Change(r) ==
  /\ pc[r] = "due"
  /\ Go(r, "save")
  /\ alone' = IF Busy = {} THEN {r} ELSE {}
  /\ settled' = FALSE
  /\ UNCHANGED <<lock, run, shutdown, groups, group, monitors, status, check>>

Finish(r) ==
  /\ Go(r, "done")
  /\ settled' = (r \in alone) /\ alone' = alone \ {r}

Fail(r) ==
  /\ Go(r, "done")
  /\ alone' = alone \ {r} /\ UNCHANGED settled

Copies == {form, config} \cup UNION {data[r] : r \in Request}
Array == 1..Cardinality(Request) + 3
FreshArray == CHOOSE n \in Array : n \notin {c.array : c \in Copies}

\* The form is parsed into an array of its own.
DoSave(r) ==
  /\ Change(r)
  /\ \E f \in Form : form' = Copy(f, FreshArray)
  /\ UNCHANGED <<config, data>>

\* Writing seq into the array: what a copy then sees within its own length.
Rewrite(c, seq) ==
  LET seen == [n \in DOMAIN c.seq |-> IF n \in DOMAIN seq THEN seq[n] ELSE c.seq[n]]
  IN  IF c.array = form.array
      THEN [c EXCEPT !.seq = seen, !.intact = @ /\ seen = c.seq]
      ELSE c
RewriteCopies(seq) ==
  /\ config' = Rewrite(config, seq)
  /\ data' = [r \in Request |-> {Rewrite(c, seq) : c \in data[r]}]

\* append takes the place behind the last connector if the array has one: it has,
\* when a longer copy is about.
LongerCopy ==
  \E c \in Copies : c.array = form.array /\ Len(c.seq) > Len(form.seq)
DoAddAgain(r) ==
  /\ Change(r)
  /\ \E i \in Instance :
       form' = [form EXCEPT !.seq = Append(@, [id |-> i, on |-> FALSE])]
  /\ UNCHANGED <<config, data>>

DoAdd(r) ==
  /\ Change(r)
  /\ \E i \in Instance \ IDs(form) :
       LET seq == Append(form.seq, [id |-> i, on |-> FALSE])
       IN  \/ /\ form' = [form EXCEPT !.seq = seq]
              /\ RewriteCopies(seq)
           \/ /\ ~LongerCopy
              /\ form' = [form EXCEPT !.seq = seq, !.array = FreshArray]
              /\ UNCHANGED <<config, data>>

DoDelete(r) ==
  /\ Change(r)
  /\ \E n \in DOMAIN form.seq :
       LET seq == RemoveAt(form.seq, n)
       IN  /\ form' = [form EXCEPT !.seq = seq]
           /\ RewriteCopies(seq)

requestOthers == <<config, lock, run, shutdown, groups, group, monitors, status, check>>

\* config.yaml cannot be written: the settings in memory stay changed.
SaveFails(r) ==
  /\ pc[r] = "save"
  /\ Fail(r)
  /\ UNCHANGED <<form, data, requestOthers>>

\* Once it is written, ApplyConfig is called with what the settings are by now.
CallApplyConfig(r) ==
  /\ pc[r] = "save"
  /\ data' = [data EXCEPT ![r] = {form}]
  /\ Go(r, "lock")
  /\ UNCHANGED <<form, requestOthers, history>>

ApplyForgetsConfig(r, c) ==
  /\ pc[r] = "lock" /\ lock = {} /\ c \in data[r]
  /\ data' = [data EXCEPT ![r] = {}]
  /\ IF run = "running"
     THEN Go(r, "stop") /\ lock' = {r} /\ UNCHANGED <<status, history>>
     ELSE Finish(r) /\ status' = InitialStatus(c) /\ UNCHANGED lock
  /\ UNCHANGED <<form, config, run, shutdown, groups, group, monitors, check>>

ApplyKeepsLock(r, c) ==
  /\ pc[r] = "lock" /\ lock = {} /\ c \in data[r]
  /\ config' = c
  /\ data' = [data EXCEPT ![r] = {}]
  /\ lock' = {r}
  /\ IF run = "running"
     THEN Go(r, "stop") /\ UNCHANGED <<status, history>>
     ELSE Finish(r) /\ status' = InitialStatus(c)
  /\ UNCHANGED <<form, run, shutdown, groups, group, monitors, check>>

\* Run has not started, or has returned: nothing to stop or to start.
Apply(r, c) ==
  /\ pc[r] = "lock" /\ lock = {} /\ c \in data[r]
  /\ config' = c
  /\ data' = [data EXCEPT ![r] = {}]
  /\ IF run = "running"
     THEN Go(r, "stop") /\ lock' = {r} /\ UNCHANGED <<status, history>>
     ELSE Finish(r) /\ status' = InitialStatus(c) /\ UNCHANGED lock
  /\ UNCHANGED <<form, run, shutdown, groups, group, monitors, check>>

RestartAtOnce(r) ==
  /\ pc[r] = "stop"
  /\ StartMonitors
  /\ lock' = {} /\ Finish(r)
  /\ UNCHANGED <<form, config, run, shutdown, data, check>>

RestartKeepsStatuses(r) ==
  /\ pc[r] = "stop" /\ GroupDone
  /\ StartGroup
  /\ lock' = {} /\ Finish(r)
  /\ UNCHANGED <<form, config, run, shutdown, status, data, check>>

Restart(r) ==
  /\ pc[r] = "stop" /\ GroupDone
  /\ StartMonitors
  /\ lock' = {} /\ Finish(r)
  /\ UNCHANGED <<form, config, run, shutdown, data, check>>

\* CheckHealth finds the instance, takes its time, and writes a status.
FindInstance(i) ==
  /\ check = {} /\ i \in IDs(config)
  /\ check' = {i}
  /\ UNCHANGED <<form, service, shutdown, pc, data, history>>

CheckHealth(i) ==
  /\ i \in check
  /\ status' = [status EXCEPT ![i] = ByHealthCheck]
  /\ check' = {}
  /\ UNCHANGED <<form, config, lock, run, shutdown, groups, group, monitors,
                 pc, data, history>>

MonitorStep(m) ==
  MonitorPolls(m) \/ MonitorGivesUp(m) \/ MonitorReturns(m)

\* What a request does once it has begun.
Proceed(r) ==
  \/ SaveFails(r) \/ CallApplyConfig(r) \/ Restart(r)
  \/ \E c \in data[r] : Apply(r, c)

Next ==
  \/ RunStart \/ Shutdown \/ RunStop \/ RunReturn
  \/ \E m \in monitors : MonitorStep(m)
  \/ \E r \in Request :
       DoSave(r) \/ DoAdd(r) \/ DoDelete(r) \/ Proceed(r)
  \/ \E i \in Instance : FindInstance(i) \/ CheckHealth(i)

\* Goroutines run, and a mutex is handed to whoever has waited for it long enough.
\* A select takes a done context sooner or later. Nobody must change settings, and
\* no monitor must give up.
Returns(g, n) == \E m \in monitors : m.group = g /\ m.slot = n /\ MonitorReturns(m)
Fairness ==
  /\ WF_vars(RunStart) /\ SF_vars(RunStop) /\ WF_vars(RunReturn)
  /\ \A r \in Request : WF_vars(Proceed(r)) /\ SF_vars(\E c \in data[r] : Apply(r, c))
  /\ \A g \in 1..Cardinality(Request) + 1, n \in 1..Cardinality(Instance) : WF_vars(Returns(g, n))

Spec == Init /\ [][Next]_vars /\ Fairness

-----------------------------------------------------------------------------
(* Properties.                                                             *)

SettingsCopy ==
  [enabled : BOOLEAN, seq : Seq(Connector), array : Array, intact : BOOLEAN]
Monitor(n) == [id : Instance, slot : Nat, group : 1..n, intact : BOOLEAN]
Status(n) == {NoStatus, ByService, ByHealthCheck} \cup {ByMonitor(g) : g \in 1..n}

\* Every variable holds what it can hold, a connector is not listed twice in the
\* settings of the web UI, and the lock is held while someone waits for a group.
TypeOK ==
  /\ form \in SettingsCopy /\ config \in SettingsCopy
  /\ data \in [Request -> SUBSET SettingsCopy]
  /\ DistinctIDs(form.seq)
  /\ run \in {"new", "running", "stopping", "returned"} /\ shutdown \in BOOLEAN
  /\ pc \in [Request -> {"due", "save", "lock", "stop", "done"}]
  /\ lock = {r \in Request : pc[r] = "stop"} \cup IF run = "stopping" THEN {"Run"} ELSE {}
  /\ groups \in Nat /\ group \in {0, groups}
  /\ monitors \subseteq Monitor(groups)
  /\ status \in [Instance -> Status(groups)]
  /\ check \subseteq Instance
  /\ alone \subseteq Busy /\ settled \in BOOLEAN

\* However settings are applied, saved and shut down, no instance is watched by
\* two monitors: they would read its log twice and import its bans twice. Not so
\* when a connector was deleted from under the settings being applied.
OneMonitorPerInstance ==
  \A m, n \in monitors : m.id = n.id /\ m.intact /\ n.intact => m = n

\* A status that a monitor reported is the report of a monitor of the latest
\* group: a late word of one being stopped never stays on the page.
StatusesAreCurrent ==
  \A i \in Instance : status[i].by = "monitor" => status[i].group = groups

\* When Run has returned all monitors have returned, and no request that comes late
\* or has waited for the lock starts others.
NoMonitorAfterRun == run = "returned" => monitors = {}

\* After a change that met no other and succeeded, the service has the settings
\* the web UI shows and has saved.
SettledAgree == settled => Value(config) = Value(form)

\* A request that waits for the monitors to stop gets its turn and returns.
ApplyReturns == \A r \in Request : pc[r] \in {"lock", "stop"} ~> pc[r] = "done"

\* On shutdown Run returns, whatever is being saved, checked or polled.
ShutdownEnds == shutdown ~> run = "returned"

-----------------------------------------------------------------------------
(* The inductive invariant.                                                *)

\* One at a time waits for a group, and only while Run is waiting for the end.
LockInv ==
  /\ \A q, r \in Request : pc[q] = "stop" /\ pc[r] = "stop" => q = r
  /\ \A r \in Request : pc[r] = "stop" => run = "running"

CopiesInv ==
  /\ \A c \in Copies : c.intact => DistinctIDs(c.seq)
  /\ \A r \in Request : \A c, d \in data[r] : c = d

\* A new group begins when the old one is empty.
MonitorsInv ==
  /\ \A m \in monitors : m.group = group
  /\ run \in {"new", "returned"} => monitors = {}

\* Nobody else has a request under way while the settings of one are applied.
AloneInv ==
  /\ \A r \in alone :
       /\ Busy = {r}
       /\ pc[r] = "lock" => data[r] \subseteq {form}
       /\ pc[r] = "stop" => config = form
  /\ settled => Busy = {} /\ Value(config) = Value(form)

IInv ==
  /\ TypeOK /\ LockInv /\ CopiesInv /\ MonitorsInv /\ AloneInv
  /\ OneMonitorPerInstance /\ StatusesAreCurrent
=============================================================================
