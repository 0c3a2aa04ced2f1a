----------------------- MODULE MonitorLifecycleProofs -----------------------
(***************************************************************************)
(* Groups of monitors do not overlap, and settings that are applied are    *)
(* those of the web UI, for every set of instances and requests and        *)
(* whatever the form may hold.                                             *)
(***************************************************************************)
EXTENDS MonitorLifecycle, SequenceTheorems, FiniteSetTheorems, TLAPS

-----------------------------------------------------------------------------
(* Settings and their arrays.                                              *)

\* One element more makes a set larger by one at most.
LEMMA OneMore ==
  ASSUME NEW S, IsFiniteSet(S), NEW x
  PROVE  /\ IsFiniteSet(S \cup {x}) /\ Cardinality(S \cup {x}) \in Nat
         /\ Cardinality(S) \in Nat /\ Cardinality(S \cup {x}) <= Cardinality(S) + 1
<1>1. IsFiniteSet(S \cup {x})
      /\ Cardinality(S \cup {x}) = IF x \in S THEN Cardinality(S) ELSE Cardinality(S) + 1
  BY FS_AddElement
<1>2. Cardinality(S) \in Nat
  BY FS_CardinalityType
<1> QED  BY <1>1, <1>2

\* There are never as many copies as arrays, so a new array can be told from all.
LEMMA FreshArrayExists ==
  ASSUME TypeOK, CopiesInv
  PROVE  FreshArray \in Array /\ \A c \in Copies : c.array # FreshArray
<1> DEFINE InHand == {r \in Request : data[r] # {}}
           f == [r \in InHand |-> (CHOOSE c \in data[r] : TRUE).array]
           A == {f[r] : r \in InHand}
           B == A \cup {form.array} \cup {config.array}
<1>1. IsFiniteSet(InHand) /\ Cardinality(InHand) <= Cardinality(Request)
      /\ Cardinality(InHand) \in Nat /\ Cardinality(Request) \in Nat
  BY ConstantsAssumption, FS_Subset, FS_CardinalityType
<1>2. f \in Surjection(InHand, A)
  BY DEF Surjection
<1>3. IsFiniteSet(A) /\ Cardinality(A) <= Cardinality(Request) /\ Cardinality(A) \in Nat
  <2> HIDE DEF f, A, InHand
  <2>1. IsFiniteSet(A) /\ Cardinality(A) <= Cardinality(InHand)
    BY <1>1, <1>2, FS_Surjection
  <2> QED  BY <1>1, <2>1, FS_CardinalityType
<1>4. IsFiniteSet(B) /\ Cardinality(B) <= Cardinality(Request) + 2 /\ Cardinality(B) \in Nat
  <2> HIDE DEF A
  <2>1. /\ IsFiniteSet(A \cup {form.array}) /\ Cardinality(A \cup {form.array}) \in Nat
        /\ Cardinality(A \cup {form.array}) <= Cardinality(A) + 1
    BY <1>3, OneMore
  <2>2. /\ IsFiniteSet(B) /\ Cardinality(B) \in Nat
        /\ Cardinality(B) <= Cardinality(A \cup {form.array}) + 1
    BY <2>1, OneMore
  <2> QED  BY <1>1, <1>3, <2>1, <2>2
<1>5. {c.array : c \in Copies} \subseteq B
  <2> SUFFICES ASSUME NEW r \in Request, NEW c \in data[r]
               PROVE  c.array \in A
    BY DEF Copies
  <2>1. (CHOOSE d \in data[r] : TRUE) = c
    BY DEF CopiesInv
  <2> QED  BY <2>1
<1>6. \E n \in Array : n \notin B
  <2> SUFFICES ASSUME Array \subseteq B
               PROVE  FALSE
    OBVIOUS
  <2> HIDE DEF B
  <2>1. Cardinality(Array) = Cardinality(Request) + 3
    BY <1>1, FS_Interval DEF Array
  <2>2. Cardinality(Array) <= Cardinality(B)
    BY <1>4, FS_Subset
  <2> QED  BY <1>1, <1>4, <2>1, <2>2
<1> HIDE DEF B
<1>7. \E n \in Array : n \notin {c.array : c \in Copies}
  BY <1>5, <1>6
<1> QED  BY <1>7 DEF FreshArray

\* What the form is saved with has an array of its own.
LEMMA SavedCopy ==
  ASSUME TypeOK, CopiesInv, NEW f \in Form
  PROVE  /\ Copy(f, FreshArray) \in SettingsCopy
         /\ DistinctIDs(Copy(f, FreshArray).seq)
<1>1. FreshArray \in Array
  BY FreshArrayExists
<1> HIDE DEF TypeOK
<1> QED  BY <1>1, ConstantsAssumption DEF Copy, SettingsCopy, Settings

\* Adding a connector with a new ID keeps the IDs distinct.
LEMMA AddedConnector ==
  ASSUME NEW seq \in Seq(Connector), DistinctIDs(seq),
         NEW i \in Instance, i \notin {seq[n].id : n \in DOMAIN seq}
  PROVE  LET new == Append(seq, [id |-> i, on |-> FALSE])
         IN  new \in Seq(Connector) /\ DistinctIDs(new)
<1> DEFINE c == [id |-> i, on |-> FALSE]
           new == Append(seq, c)
<1>1. c \in Connector
  BY DEF Connector
<1>2. /\ new \in Seq(Connector) /\ Len(new) = Len(seq) + 1 /\ Len(seq) \in Nat
      /\ \A n \in 1..Len(seq) : new[n] = seq[n]
      /\ new[Len(seq) + 1] = c
      /\ DOMAIN seq = 1..Len(seq) /\ DOMAIN new = 1..Len(new)
  BY <1>1, AppendProperties, LenProperties
<1> HIDE DEF new
<1>3. \A n \in DOMAIN new : n \in DOMAIN seq \/ n = Len(seq) + 1
  BY <1>2
<1>4. \A m, n \in DOMAIN new : new[m].id = new[n].id => m = n
  BY <1>2, <1>3 DEF DistinctIDs
<1> QED  BY <1>2, <1>4 DEF DistinctIDs, new

\* So does deleting one.
LEMMA DeletedConnector ==
  ASSUME NEW seq \in Seq(Connector), DistinctIDs(seq), NEW n \in DOMAIN seq
  PROVE  RemoveAt(seq, n) \in Seq(Connector) /\ DistinctIDs(RemoveAt(seq, n))
<1> DEFINE low == SubSeq(seq, 1, n - 1)
           high == SubSeq(seq, n + 1, Len(seq))
           new == low \o high
<1>1. DOMAIN seq = 1..Len(seq) /\ Len(seq) \in Nat /\ n \in 1..Len(seq)
      /\ \A k \in 1..Len(seq) : seq[k] \in Connector
  BY LenProperties, ElementOfSeq
<1>2. /\ low \in Seq(Connector) /\ Len(low) = n - 1
      /\ \A k \in 1..(n - 1) : low[k] = seq[k]
  <2>1. /\ low \in Seq(Connector) /\ Len(low) = IF 1 <= n - 1 THEN (n - 1) - 1 + 1 ELSE 0
        /\ \A k \in 1..((n - 1) - 1 + 1) : low[k] = seq[1 + k - 1]
    <3> HIDE DEF low
    <3>1. n - 1 \in Int /\ \A k \in 1..(n - 1) : seq[k] \in Connector
      BY <1>1
    <3> QED  BY <3>1, SubSeqProperties DEF low
  <2> QED  BY <1>1, <2>1
<1>3. /\ high \in Seq(Connector) /\ Len(high) = Len(seq) - n
      /\ \A k \in 1..(Len(seq) - n) : high[k] = seq[n + k]
  <2>1. /\ high \in Seq(Connector)
        /\ Len(high) = IF n + 1 <= Len(seq) THEN Len(seq) - (n + 1) + 1 ELSE 0
        /\ \A k \in 1..(Len(seq) - (n + 1) + 1) : high[k] = seq[(n + 1) + k - 1]
    <3> HIDE DEF high
    <3>1. n + 1 \in Int /\ Len(seq) \in Int /\ \A k \in (n + 1)..Len(seq) : seq[k] \in Connector
      BY <1>1
    <3> QED  BY <3>1, SubSeqProperties DEF high
  <2> QED  BY <1>1, <2>1
<1> HIDE DEF low, high
<1>4. /\ new \in Seq(Connector) /\ Len(new) = Len(low) + Len(high)
      /\ \A k \in 1..(Len(low) + Len(high)) :
           new[k] = IF k <= Len(low) THEN low[k] ELSE high[k - Len(low)]
  BY <1>2, <1>3, ConcatProperties
<1> HIDE DEF new
<1>5. Len(new) = Len(seq) - 1 /\ DOMAIN new = 1..(Len(seq) - 1)
  BY <1>1, <1>2, <1>3, <1>4, LenProperties
<1> DEFINE old(k) == IF k <= n - 1 THEN k ELSE k + 1
<1>6. ASSUME NEW k \in DOMAIN new
      PROVE  new[k] = seq[old(k)] /\ old(k) \in DOMAIN seq
  <2>1. k \in 1..(Len(seq) - 1) /\ k \in 1..(Len(low) + Len(high))
    BY <1>1, <1>2, <1>3, <1>5
  <2>2. CASE k <= n - 1
    BY <1>1, <1>2, <1>4, <2>1, <2>2
  <2>3. CASE ~(k <= n - 1)
    <3>1. k - (n - 1) \in 1..(Len(seq) - n) /\ n + (k - (n - 1)) = k + 1
      BY <1>1, <2>1, <2>3
    <3>2. new[k] = high[k - (n - 1)]
      BY <1>2, <1>4, <2>1, <2>3
    <3> QED  BY <1>1, <1>3, <2>1, <2>3, <3>1, <3>2
  <2> QED  BY <2>2, <2>3
<1>7. DistinctIDs(new)
  <2> SUFFICES ASSUME NEW j \in DOMAIN new, NEW k \in DOMAIN new, new[j].id = new[k].id
               PROVE  j = k
    BY DEF DistinctIDs
  <2>1. seq[old(j)].id = seq[old(k)].id /\ old(j) \in DOMAIN seq /\ old(k) \in DOMAIN seq
    BY <1>6
  <2>2. old(j) = old(k)
    <3> HIDE DEF old
    <3> QED  BY <2>1 DEF DistinctIDs
  <2> QED  BY <1>1, <1>5, <2>2
<1> QED  BY <1>4, <1>7 DEF new, low, high, RemoveAt

\* A copy whose array is written to stays a list of connectors, and stays intact
\* only if it sees no difference.
LEMMA RewrittenCopy ==
  ASSUME NEW c \in SettingsCopy, NEW seq \in Seq(Connector)
  PROVE  /\ Rewrite(c, seq) \in SettingsCopy
         /\ Rewrite(c, seq).intact => c.intact /\ Rewrite(c, seq).seq = c.seq
<1> DEFINE seen == [n \in DOMAIN c.seq |-> IF n \in DOMAIN seq THEN seq[n] ELSE c.seq[n]]
<1>1. c.seq \in Seq(Connector) /\ DOMAIN c.seq = 1..Len(c.seq) /\ Len(c.seq) \in Nat
      /\ DOMAIN seq = 1..Len(seq)
  BY LenProperties DEF SettingsCopy
<1>2. seen \in [1..Len(c.seq) -> Connector]
  BY <1>1, ElementOfSeq
<1>3. seen \in Seq(Connector)
  BY <1>1, <1>2, SeqDef
<1> HIDE DEF seen
<1>4. [c EXCEPT !.seq = seen, !.intact = @ /\ seen = c.seq] \in SettingsCopy
  BY <1>3 DEF SettingsCopy
<1>5. [c EXCEPT !.seq = seen, !.intact = @ /\ seen = c.seq].intact
        => c.intact /\ [c EXCEPT !.seq = seen, !.intact = @ /\ seen = c.seq].seq = c.seq
  BY DEF SettingsCopy
<1>6. Rewrite(c, seq) = IF c.array = form.array
                        THEN [c EXCEPT !.seq = seen, !.intact = @ /\ seen = c.seq] ELSE c
  BY DEF Rewrite, seen
<1> QED  BY <1>4, <1>5, <1>6

\* Writing to the array of the settings leaves copies that are sound.
LEMMA RewrittenCopies ==
  ASSUME TypeOK, CopiesInv, NEW seq \in Seq(Connector), RewriteCopies(seq),
         form' \in SettingsCopy, DistinctIDs(form'.seq)
  PROVE  /\ config' \in SettingsCopy /\ data' \in [Request -> SUBSET SettingsCopy]
         /\ CopiesInv'
<1>1. config' = Rewrite(config, seq)
      /\ data' = [r \in Request |-> {Rewrite(c, seq) : c \in data[r]}]
  BY DEF RewriteCopies
<1>2. \A r \in Request : \A c \in data[r] : c \in SettingsCopy
  BY DEF TypeOK
<1>3. config' \in SettingsCopy /\ data' \in [Request -> SUBSET SettingsCopy]
  BY <1>1, <1>2, RewrittenCopy DEF TypeOK
<1>4. config'.intact => DistinctIDs(config'.seq)
  <2>1. config.intact => DistinctIDs(config.seq)
    BY DEF CopiesInv, Copies
  <2> QED  BY <1>1, <2>1, RewrittenCopy DEF TypeOK
<1>5. ASSUME NEW r \in Request, NEW c \in data'[r], c.intact
      PROVE  DistinctIDs(c.seq)
  <2>1. PICK d \in data[r] : c = Rewrite(d, seq)
    BY <1>1
  <2>2. d.intact => DistinctIDs(d.seq)
    BY DEF CopiesInv, Copies
  <2>3. c.seq = d.seq /\ d.intact
    BY <1>2, <1>5, <2>1, RewrittenCopy
  <2> QED  BY <2>2, <2>3
<1>6. \A r \in Request : \A c, d \in data'[r] : c = d
  BY <1>1 DEF CopiesInv
<1> QED  BY <1>3, <1>4, <1>5, <1>6 DEF CopiesInv, Copies

\* A change of the settings leaves copies that are sound, whoever holds them.
LEMMA ChangedCopies ==
  ASSUME TypeOK, CopiesInv, NEW r \in Request, DoSave(r) \/ DoAdd(r) \/ DoDelete(r)
  PROVE  /\ form' \in SettingsCopy /\ DistinctIDs(form'.seq)
         /\ config' \in SettingsCopy /\ data' \in [Request -> SUBSET SettingsCopy]
         /\ CopiesInv'
<1>1. CASE DoSave(r)
  <2>1. form' \in SettingsCopy /\ DistinctIDs(form'.seq)
    BY <1>1, SavedCopy DEF DoSave
  <2>2. UNCHANGED <<config, data>>
    BY <1>1 DEF DoSave
  <2> QED  BY <2>1, <2>2 DEF CopiesInv, Copies, TypeOK
<1>2. CASE DoAdd(r)
  <2>1. PICK i \in Instance \ IDs(form) :
          LET seq == Append(form.seq, [id |-> i, on |-> FALSE])
          IN  \/ /\ form' = [form EXCEPT !.seq = seq]
                 /\ RewriteCopies(seq)
              \/ /\ form' = [form EXCEPT !.seq = seq, !.array = FreshArray]
                 /\ UNCHANGED <<config, data>>
    BY <1>2 DEF DoAdd
  <2> DEFINE seq == Append(form.seq, [id |-> i, on |-> FALSE])
  <2>2. seq \in Seq(Connector) /\ DistinctIDs(seq)
    BY AddedConnector DEF TypeOK, SettingsCopy, IDs
  <2>3. FreshArray \in Array
    BY FreshArrayExists
  <2> HIDE DEF seq
  <2>4. CASE form' = [form EXCEPT !.seq = seq] /\ RewriteCopies(seq)
    <3>1. form' \in SettingsCopy /\ DistinctIDs(form'.seq)
      BY <2>2, <2>4 DEF TypeOK, SettingsCopy
    <3> QED  BY <2>2, <2>4, <3>1, RewrittenCopies
  <2>5. CASE form' = [form EXCEPT !.seq = seq, !.array = FreshArray] /\ UNCHANGED <<config, data>>
    <3>1. form' \in SettingsCopy /\ DistinctIDs(form'.seq)
      BY <2>2, <2>3, <2>5 DEF TypeOK, SettingsCopy
    <3>2. UNCHANGED <<config, data>>
      BY <2>5
    <3> QED  BY <3>1, <3>2 DEF CopiesInv, Copies, TypeOK
  <2> QED  BY <2>1, <2>4, <2>5 DEF seq
<1>3. CASE DoDelete(r)
  <2>1. PICK n \in DOMAIN form.seq :
          form' = [form EXCEPT !.seq = RemoveAt(form.seq, n)]
          /\ RewriteCopies(RemoveAt(form.seq, n))
    BY <1>3 DEF DoDelete
  <2> DEFINE seq == RemoveAt(form.seq, n)
  <2>2. seq \in Seq(Connector) /\ DistinctIDs(seq)
    BY DeletedConnector DEF TypeOK, SettingsCopy
  <2> HIDE DEF seq
  <2>3. form' = [form EXCEPT !.seq = seq] /\ RewriteCopies(seq)
    BY <2>1 DEF seq
  <2>4. form' \in SettingsCopy /\ DistinctIDs(form'.seq)
    BY <2>2, <2>3 DEF TypeOK, SettingsCopy
  <2> QED  BY <2>2, <2>3, <2>4, RewrittenCopies
<1> QED  BY <1>1, <1>2, <1>3

\* Starting, saving and applying move copies about and make none that is unsound.
LEMMA CopiesStep ==
  ASSUME IInv, Next
  PROVE  CopiesInv'
<1> USE DEF IInv
<1>1. CASE \E r \in Request : DoSave(r) \/ DoAdd(r) \/ DoDelete(r)
  BY <1>1, ChangedCopies
<1>2. ASSUME NEW r \in Request, CallApplyConfig(r)
      PROVE  CopiesInv'
  BY <1>2 DEF CallApplyConfig, requestOthers, CopiesInv, Copies, TypeOK
<1>3. ASSUME NEW r \in Request, NEW c \in data[r], Apply(r, c)
      PROVE  CopiesInv'
  BY <1>3 DEF Apply, CopiesInv, Copies, TypeOK
<1>4. CASE UNCHANGED <<form, config, data>>
  BY <1>4 DEF CopiesInv, Copies
<1>5. \/ \E r \in Request : DoSave(r) \/ DoAdd(r) \/ DoDelete(r)
      \/ \E r \in Request : CallApplyConfig(r)
      \/ \E r \in Request : \E c \in data[r] : Apply(r, c)
      \/ UNCHANGED <<form, config, data>>
  BY DEF Next, RunStart, Shutdown, RunStop, RunReturn, MonitorStep, MonitorPolls,
         MonitorGivesUp, MonitorReturns, Proceed, SaveFails, Restart, FindInstance,
         CheckHealth, service, requests, requestOthers, others
<1> QED  BY <1>1, <1>2, <1>3, <1>4, <1>5

-----------------------------------------------------------------------------
(* Groups of monitors.                                                     *)

\* initializeStatuses leaves no report of a monitor.
LEMMA InitialStatuses ==
  ASSUME NEW c
  PROVE  /\ InitialStatus(c) \in [Instance -> {NoStatus, ByService}]
         /\ \A i \in Instance : InitialStatus(c)[i].by # "monitor"
BY DEF InitialStatus, NoStatus, ByService

\* The monitors of a group that takes the place of an empty one.
LEMMA StartedGroup ==
  ASSUME TypeOK, CopiesInv, MonitorsInv, monitors = {}, StartGroup
  PROVE  /\ groups' \in Nat /\ groups <= groups' /\ group' \in {0, groups'}
         /\ monitors' \subseteq Monitor(groups')
         /\ \A m \in monitors' : m.group = group'
         /\ OneMonitorPerInstance'
<1>1. CASE ~config.enabled
  BY <1>1 DEF StartGroup, TypeOK, OneMonitorPerInstance
<1>2. CASE config.enabled
  <2> DEFINE g == groups + 1
  <2>1. groups' = g /\ group' = g /\ monitors' = Monitors(config, g) /\ g \in Nat /\ g \in 1..g
    BY <1>2 DEF StartGroup, TypeOK
  <2> HIDE DEF g
  <2>2. config.intact \in BOOLEAN /\ config.seq \in Seq(Connector)
    BY DEF TypeOK, SettingsCopy
  <2>3. \A n \in DOMAIN config.seq : n \in Nat /\ config.seq[n].id \in Instance
    <3>1. DOMAIN config.seq = 1..Len(config.seq)
      BY <2>2, LenProperties
    <3>2. \A n \in 1..Len(config.seq) : config.seq[n] \in Connector
      BY <2>2, ElementOfSeq
    <3> QED  BY <3>1, <3>2 DEF Connector
  <2>4. ASSUME NEW m \in monitors'
        PROVE  /\ m.slot \in DOMAIN config.seq
               /\ m = [id |-> config.seq[m.slot].id, slot |-> m.slot, group |-> g,
                       intact |-> config.intact]
    BY <2>1 DEF Monitors, Monitored
  <2>5. monitors' \subseteq Monitor(g)
    BY <2>1, <2>2, <2>3, <2>4 DEF Monitor
  <2>6. \A m \in monitors' : m.group = g
    BY <2>4
  <2>7. ASSUME NEW m \in monitors', NEW n \in monitors', m.id = n.id, m.intact, n.intact
        PROVE  m = n
    <3>1. config.intact /\ config.seq[m.slot].id = config.seq[n.slot].id
      BY <2>4, <2>7
    <3>2. m.slot = n.slot
      BY <2>4, <3>1 DEF CopiesInv, Copies, DistinctIDs
    <3> QED  BY <2>4, <3>2
  <2> QED  BY <2>1, <2>5, <2>6, <2>7 DEF OneMonitorPerInstance, TypeOK, g
<1> QED  BY <1>1, <1>2 DEF TypeOK, SettingsCopy

\* With a group started, all reports of the old one are off the page.
LEMMA StartedMonitors ==
  ASSUME TypeOK, CopiesInv, MonitorsInv, monitors = {}, StartMonitors
  PROVE  status' \in [Instance -> Status(groups')] /\ StatusesAreCurrent'
<1>1. status' = InitialStatus(config)
  BY DEF StartMonitors
<1> QED  BY <1>1, InitialStatuses DEF Status, StatusesAreCurrent

\* Whoever waits for the group to be done is left with no monitor at all.
LEMMA NobodyLeft ==
  ASSUME MonitorsInv, run = "new" \/ GroupDone
  PROVE  monitors = {}
BY DEF MonitorsInv, GroupDone

\* A monitor that is there belongs to the latest group.
LEMMA LatestGroup ==
  ASSUME TypeOK, MonitorsInv, NEW m \in monitors
  PROVE  m \in Monitor(groups) /\ m.group = groups /\ groups \in 1..groups
BY DEF TypeOK, MonitorsInv, Monitor

\* A report is that of a monitor of the latest group.
LEMMA Reported ==
  ASSUME TypeOK, MonitorsInv, StatusesAreCurrent, NEW m \in monitors, Reports(m),
         UNCHANGED groups
  PROVE  status' \in [Instance -> Status(groups')] /\ StatusesAreCurrent'
<1>1. m.id \in Instance /\ m.group = groups /\ groups \in 1..groups
  BY LatestGroup DEF Monitor
<1>2. status' = [status EXCEPT ![m.id] = ByMonitor(groups)]
  BY <1>1 DEF Reports
<1>3. ByMonitor(groups) \in Status(groups) /\ ByMonitor(groups).group = groups
  BY <1>1 DEF Status, ByMonitor
<1>4. status \in [Instance -> Status(groups)]
  BY DEF TypeOK
<1> QED  BY <1>2, <1>3, <1>4 DEF StatusesAreCurrent

-----------------------------------------------------------------------------
(* The steps.                                                              *)

\* The lock is held by those who wait, one at a time.
LEMMA LockStep ==
  ASSUME IInv, Next
  PROVE  /\ LockInv'
         /\ run' \in {"new", "running", "stopping", "returned"}
         /\ pc' \in [Request -> {"due", "save", "lock", "stop", "done"}]
         /\ lock' = {r \in Request : pc'[r] = "stop"}
                    \cup IF run' = "stopping" THEN {"Run"} ELSE {}
<1> USE DEF IInv, TypeOK, LockInv
<1>1. CASE RunStart \/ Shutdown \/ RunStop \/ RunReturn
  BY <1>1 DEF RunStart, Shutdown, RunStop, RunReturn, requests, service
<1>2. ASSUME NEW m \in monitors, MonitorStep(m)
      PROVE  UNCHANGED <<lock, run, pc>>
  BY <1>2 DEF MonitorStep, MonitorPolls, MonitorGivesUp, MonitorReturns, others, requests
<1>3. ASSUME NEW r \in Request, DoSave(r) \/ DoAdd(r) \/ DoDelete(r)
      PROVE  UNCHANGED <<lock, run>> /\ pc[r] = "due" /\ pc' = [pc EXCEPT ![r] = "save"]
  BY <1>3 DEF DoSave, DoAdd, DoDelete, Change, Go
<1>4. ASSUME NEW r \in Request, SaveFails(r) \/ CallApplyConfig(r)
      PROVE  /\ UNCHANGED <<lock, run>> /\ pc[r] = "save"
             /\ pc' = [pc EXCEPT ![r] = "done"] \/ pc' = [pc EXCEPT ![r] = "lock"]
  BY <1>4 DEF SaveFails, CallApplyConfig, Fail, Go, requestOthers
<1>5. ASSUME NEW r \in Request, Restart(r)
      PROVE  pc[r] = "stop" /\ pc' = [pc EXCEPT ![r] = "done"] /\ lock' = {} /\ UNCHANGED run
  BY <1>5 DEF Restart, Finish, Go
<1>6. ASSUME NEW r \in Request, NEW c \in data[r], Apply(r, c)
      PROVE  /\ lock = {} /\ UNCHANGED run
             /\ \/ run = "running" /\ pc' = [pc EXCEPT ![r] = "stop"] /\ lock' = {r}
                \/ pc' = [pc EXCEPT ![r] = "done"] /\ UNCHANGED lock
  BY <1>6 DEF Apply, Finish, Go
<1>7. CASE \E i \in Instance : FindInstance(i) \/ CheckHealth(i)
  BY <1>7 DEF FindInstance, CheckHealth, service
<1> QED  BY <1>1, <1>2, <1>3, <1>4, <1>5, <1>6, <1>7 DEF Next, Proceed

\* A new group begins when the old one is empty, and reports are of the latest.
LEMMA MonitorsStep ==
  ASSUME IInv, Next
  PROVE  /\ groups' \in Nat /\ group' \in {0, groups'}
         /\ monitors' \subseteq Monitor(groups')
         /\ status' \in [Instance -> Status(groups')]
         /\ MonitorsInv' /\ OneMonitorPerInstance' /\ StatusesAreCurrent'
<1> USE DEF IInv
<1>1. CASE UNCHANGED <<run, groups, group, monitors, status>>
  BY <1>1 DEF TypeOK, MonitorsInv, OneMonitorPerInstance, StatusesAreCurrent
<1>2. CASE RunStart
  <2>1. monitors = {}
    BY <1>2, NobodyLeft DEF RunStart
  <2>2. StartMonitors /\ StartGroup /\ run' = "running"
    BY <1>2 DEF RunStart, StartMonitors
  <2> QED  BY <2>1, <2>2, StartedGroup, StartedMonitors DEF MonitorsInv
<1>3. CASE RunStop
  BY <1>3 DEF RunStop, TypeOK, MonitorsInv, OneMonitorPerInstance, StatusesAreCurrent
<1>4. CASE RunReturn
  <2>1. monitors = {}
    BY <1>4, NobodyLeft DEF RunReturn
  <2> QED  BY <1>4, <2>1
           DEF RunReturn, TypeOK, MonitorsInv, OneMonitorPerInstance, StatusesAreCurrent
<1>5. ASSUME NEW m \in monitors, MonitorStep(m)
      PROVE  /\ groups' \in Nat /\ group' \in {0, groups'}
             /\ monitors' \subseteq Monitor(groups')
             /\ status' \in [Instance -> Status(groups')]
             /\ MonitorsInv' /\ OneMonitorPerInstance' /\ StatusesAreCurrent'
  <2>1. Reports(m) /\ monitors' \subseteq monitors /\ UNCHANGED <<run, groups, group>>
    BY <1>5 DEF MonitorStep, MonitorPolls, MonitorGivesUp, MonitorReturns, others
  <2>2. status' \in [Instance -> Status(groups')] /\ StatusesAreCurrent'
    BY <2>1, Reported
  <2> QED  BY <2>1, <2>2 DEF TypeOK, MonitorsInv, OneMonitorPerInstance
<1>6. ASSUME NEW r \in Request, NEW c \in data[r], Apply(r, c)
      PROVE  /\ UNCHANGED <<run, groups, group, monitors>>
             /\ status' = status \/ status' = InitialStatus(c)
  BY <1>6 DEF Apply
<1>7. ASSUME NEW r \in Request, Restart(r)
      PROVE  /\ groups' \in Nat /\ group' \in {0, groups'}
             /\ monitors' \subseteq Monitor(groups')
             /\ status' \in [Instance -> Status(groups')]
             /\ MonitorsInv' /\ OneMonitorPerInstance' /\ StatusesAreCurrent'
  <2>1. monitors = {} /\ StartMonitors /\ StartGroup /\ run' = "running"
    BY <1>7, NobodyLeft DEF Restart, StartMonitors, LockInv
  <2> QED  BY <2>1, StartedGroup, StartedMonitors DEF MonitorsInv
<1>8. ASSUME NEW i \in Instance, CheckHealth(i)
      PROVE  /\ UNCHANGED <<run, groups, group, monitors>>
             /\ status' = [status EXCEPT ![i] = ByHealthCheck]
  BY <1>8 DEF CheckHealth
<1>9. CASE /\ UNCHANGED <<run, groups, group, monitors>>
           /\ \/ \E c : status' = InitialStatus(c)
              \/ \E i \in Instance : status' = [status EXCEPT ![i] = ByHealthCheck]
  <2>1. status' \in [Instance -> Status(groups)] /\ StatusesAreCurrent'
    <3>1. CASE \E c : status' = InitialStatus(c)
      BY <3>1, <1>9, InitialStatuses DEF Status, StatusesAreCurrent
    <3>2. CASE \E i \in Instance : status' = [status EXCEPT ![i] = ByHealthCheck]
      <4>1. PICK i \in Instance : status' = [status EXCEPT ![i] = ByHealthCheck]
        BY <3>2
      <4>2. ByHealthCheck \in Status(groups) /\ ByHealthCheck.by # "monitor"
        BY DEF Status, ByHealthCheck
      <4>3. status \in [Instance -> Status(groups)]
        BY DEF TypeOK
      <4> QED  BY <1>9, <4>1, <4>2, <4>3 DEF StatusesAreCurrent
    <3> QED  BY <1>9, <3>1, <3>2
  <2> QED  BY <1>9, <2>1 DEF TypeOK, MonitorsInv, OneMonitorPerInstance
<1>10. ASSUME NEW r \in Request,
              DoSave(r) \/ DoAdd(r) \/ DoDelete(r) \/ SaveFails(r) \/ CallApplyConfig(r)
       PROVE  UNCHANGED <<run, groups, group, monitors, status>>
  BY <1>10 DEF DoSave, DoAdd, DoDelete, Change, SaveFails, CallApplyConfig, requestOthers,
     RewriteCopies
<1>11. ASSUME NEW i \in Instance, FindInstance(i)
       PROVE  UNCHANGED <<run, groups, group, monitors, status>>
  BY <1>11 DEF FindInstance, service
<1>12. CASE Shutdown
  BY <1>12, <1>1 DEF Shutdown, service
<1> QED  BY <1>1, <1>2, <1>3, <1>4, <1>5, <1>6, <1>7, <1>8, <1>9, <1>10, <1>11, <1>12
         DEF Next, Proceed

\* While a request is under way nothing is settled, and no other one is alone.
LEMMA UnderWay ==
  ASSUME AloneInv, NEW r \in Busy
  PROVE  ~settled /\ alone \subseteq {r} /\ (r \in alone => Busy = {r})
BY DEF AloneInv

\* Who has met no other applies the settings as they are now.
LEMMA AloneStep ==
  ASSUME IInv, Next
  PROVE  AloneInv' /\ alone' \subseteq Busy' /\ settled' \in BOOLEAN
<1> DEFINE Goal == AloneInv' /\ alone' \subseteq Busy' /\ settled' \in BOOLEAN
<1> USE DEF IInv
<1>1. pc \in [Request -> {"due", "save", "lock", "stop", "done"}]
      /\ alone \subseteq Busy /\ alone \subseteq Request /\ settled \in BOOLEAN
      /\ data \in [Request -> SUBSET SettingsCopy]
  BY DEF TypeOK, Busy
<1>2. ASSUME NEW r \in Request, DoSave(r) \/ DoAdd(r) \/ DoDelete(r)
      PROVE  Goal
  <2>1. /\ pc' = [pc EXCEPT ![r] = "save"] /\ settled' = FALSE
        /\ alone' = IF Busy = {} THEN {r} ELSE {}
    BY <1>2 DEF DoSave, DoAdd, DoDelete, Change, Go
  <2>2. Busy' = Busy \cup {r}
    BY <1>1, <2>1 DEF Busy
  <2> QED  BY <1>1, <2>1, <2>2 DEF AloneInv
<1>3. ASSUME NEW r \in Request, SaveFails(r)
      PROVE  Goal
  <2>1. /\ pc[r] = "save" /\ pc' = [pc EXCEPT ![r] = "done"]
        /\ alone' = alone \ {r} /\ settled' = settled
    BY <1>3 DEF SaveFails, Fail, Go
  <2>2. ~settled /\ alone' = {}
    BY <2>1, UnderWay DEF Busy
  <2> QED  BY <1>1, <2>1, <2>2 DEF AloneInv
<1>4. ASSUME NEW r \in Request, CallApplyConfig(r)
      PROVE  Goal
  <2>1. /\ pc[r] = "save" /\ pc' = [pc EXCEPT ![r] = "lock"]
        /\ data' = [data EXCEPT ![r] = {form}] /\ UNCHANGED <<form, alone, settled>>
    BY <1>4 DEF CallApplyConfig, Go, history
  <2>2. ~settled /\ alone \subseteq {r} /\ (r \in alone => Busy = {r})
    BY <2>1, UnderWay DEF Busy
  <2>3. Busy' = Busy /\ pc'[r] = "lock" /\ data'[r] = {form}
    BY <1>1, <2>1 DEF Busy
  <2> QED  BY <1>1, <2>1, <2>2, <2>3 DEF AloneInv
<1>5. ASSUME NEW r \in Request, NEW c \in data[r], Apply(r, c)
      PROVE  Goal
  <2>1. pc[r] = "lock" /\ config' = c /\ form' = form
    BY <1>5 DEF Apply
  <2>2. ~settled /\ alone \subseteq {r} /\ (r \in alone => Busy = {r})
    BY <2>1, UnderWay DEF Busy
  <2>3. r \in alone => config' = form'
    BY <2>1 DEF AloneInv
  <2>4. CASE pc' = [pc EXCEPT ![r] = "stop"] /\ UNCHANGED <<alone, settled>>
    <3>1. Busy' = Busy /\ pc'[r] = "stop"
      BY <1>1, <2>1, <2>4 DEF Busy
    <3> QED  BY <1>1, <2>2, <2>3, <2>4, <3>1 DEF AloneInv
  <2>5. CASE Finish(r)
    <3>1. Busy' = Busy \ {r} /\ alone' = {} /\ settled' = (r \in alone)
      BY <1>1, <2>2, <2>5 DEF Busy, Finish, Go
    <3>2. settled' => Busy' = {} /\ Value(config)' = Value(form)'
      BY <2>2, <2>3, <3>1 DEF Value
    <3> QED  BY <3>1, <3>2 DEF AloneInv
  <2> QED  BY <1>5, <2>4, <2>5 DEF Apply, Go, history
<1>6. ASSUME NEW r \in Request, Restart(r)
      PROVE  Goal
  <2>1. pc[r] = "stop" /\ UNCHANGED <<form, config>> /\ Finish(r)
    BY <1>6 DEF Restart
  <2>2. ~settled /\ alone \subseteq {r} /\ (r \in alone => Busy = {r} /\ config' = form')
    BY <2>1, UnderWay DEF Busy, AloneInv
  <2>3. Busy' = Busy \ {r} /\ alone' = {} /\ settled' = (r \in alone)
    BY <1>1, <2>1, <2>2 DEF Busy, Finish, Go
  <2>4. settled' => Busy' = {} /\ Value(config)' = Value(form)'
    BY <2>2, <2>3 DEF Value
  <2> QED  BY <2>3, <2>4 DEF AloneInv
<1>7. CASE UNCHANGED <<form, config, pc, data, alone, settled>>
  BY <1>1, <1>7 DEF AloneInv, Busy
<1>8. \/ \E r \in Request : DoSave(r) \/ DoAdd(r) \/ DoDelete(r) \/ Proceed(r)
      \/ UNCHANGED <<form, config, pc, data, alone, settled>>
  BY DEF Next, RunStart, Shutdown, RunStop, RunReturn, MonitorStep, MonitorPolls,
         MonitorGivesUp, MonitorReturns, FindInstance, CheckHealth,
         service, requests, history, others
<1> QED  BY <1>2, <1>3, <1>4, <1>5, <1>6, <1>7, <1>8 DEF Proceed

\* The settings, the data of the requests and the check keep their types.
LEMMA TypeStep ==
  ASSUME IInv, Next
  PROVE  TypeOK'
<1> DEFINE Copied == /\ form' \in SettingsCopy /\ DistinctIDs(form'.seq)
                     /\ config' \in SettingsCopy /\ data' \in [Request -> SUBSET SettingsCopy]
<1>1. Copied
  <2> USE DEF IInv
  <2>1. CASE \E r \in Request : DoSave(r) \/ DoAdd(r) \/ DoDelete(r)
    BY <2>1, ChangedCopies
  <2>2. CASE \E r \in Request : CallApplyConfig(r) \/ \E c \in data[r] : Apply(r, c)
    BY <2>2 DEF CallApplyConfig, Apply, requestOthers, TypeOK
  <2>3. CASE UNCHANGED <<form, config, data>>
    BY <2>3 DEF TypeOK
  <2>4. \/ \E r \in Request : DoSave(r) \/ DoAdd(r) \/ DoDelete(r)
        \/ \E r \in Request : CallApplyConfig(r) \/ \E c \in data[r] : Apply(r, c)
        \/ UNCHANGED <<form, config, data>>
    BY DEF Next, RunStart, Shutdown, RunStop, RunReturn, MonitorStep, MonitorPolls,
           MonitorGivesUp, MonitorReturns, Proceed, SaveFails, Restart, FindInstance,
           CheckHealth, service, requests, requestOthers, others
  <2> QED  BY <2>1, <2>2, <2>3, <2>4
<1>2. check' \subseteq Instance /\ shutdown' \in BOOLEAN
  BY DEF IInv, TypeOK, Next, RunStart, Shutdown, RunStop, RunReturn, MonitorStep, MonitorPolls,
         MonitorGivesUp, MonitorReturns, Proceed, SaveFails, CallApplyConfig, Apply, Restart,
         DoSave, DoAdd, DoDelete, Change, FindInstance,
         CheckHealth, service, requests, requestOthers, others
<1> QED  BY <1>1, <1>2, LockStep, MonitorsStep, AloneStep DEF TypeOK

\* No monitor runs before Run does.
LEMMA InitHolds == Init => IInv
<1> SUFFICES ASSUME Init
             PROVE  IInv
  OBVIOUS
<1>1. PICK f \in Form : form = Copy(f, 1)
  BY DEF Init
<1>2. 1 \in Array
  <2>1. Cardinality(Request) \in Nat
    BY ConstantsAssumption, FS_CardinalityType
  <2> QED  BY <2>1 DEF Array
<1>3. form \in SettingsCopy /\ DistinctIDs(form.seq)
  BY <1>1, <1>2, ConstantsAssumption DEF Copy, SettingsCopy, Settings
<1>4. status \in [Instance -> Status(0)] /\ StatusesAreCurrent
  BY InitialStatuses DEF Init, Status, StatusesAreCurrent
<1>5. Busy = {}
  BY DEF Init, Busy
<1>6. TypeOK
  BY <1>3, <1>4, <1>5 DEF Init, TypeOK
<1>7. LockInv /\ MonitorsInv /\ OneMonitorPerInstance
  BY DEF Init, LockInv, MonitorsInv, OneMonitorPerInstance
<1>8. CopiesInv
  BY <1>3 DEF Init, CopiesInv, Copies
<1>9. AloneInv
  BY <1>5 DEF Init, AloneInv
<1> QED  BY <1>4, <1>6, <1>7, <1>8, <1>9 DEF IInv

\* The inductive invariant holds in every state.
THEOREM Invariance == Spec => []IInv
<1>1. IInv /\ [Next]_vars => IInv'
  <2> SUFFICES ASSUME IInv, [Next]_vars
               PROVE  IInv'
    OBVIOUS
  <2>1. CASE Next
    BY <2>1, TypeStep, LockStep, CopiesStep, MonitorsStep, AloneStep DEF IInv
  <2>2. CASE UNCHANGED vars
    BY <2>2 DEF vars, IInv, TypeOK, LockInv, CopiesInv, Copies, MonitorsInv, AloneInv, Busy,
                OneMonitorPerInstance, StatusesAreCurrent
  <2> QED  BY <2>1, <2>2
<1> QED  BY InitHolds, <1>1, PTL DEF Spec

\* The variables have their types in every state.
THEOREM TypeCorrect == Spec => []TypeOK
<1>1. IInv => TypeOK
  BY DEF IInv
<1> QED  BY Invariance, <1>1, PTL

\* However settings are applied, saved and shut down, no instance is watched twice.
THEOREM NoInstanceWatchedTwice == Spec => []OneMonitorPerInstance
<1>1. IInv => OneMonitorPerInstance
  BY DEF IInv
<1> QED  BY Invariance, <1>1, PTL

\* The report of a monitor being stopped never stays on the page.
THEOREM NoLateReports == Spec => []StatusesAreCurrent
<1>1. IInv => StatusesAreCurrent
  BY DEF IInv
<1> QED  BY Invariance, <1>1, PTL

\* Nothing runs once Run has returned, whatever requests come late.
THEOREM NobodyOutlivesRun == Spec => []NoMonitorAfterRun
<1>1. IInv => NoMonitorAfterRun
  BY DEF IInv, MonitorsInv, NoMonitorAfterRun
<1> QED  BY Invariance, <1>1, PTL

\* A change that met no other is what the service has been given.
THEOREM SettingsAgree == Spec => []SettledAgree
<1>1. IInv => SettledAgree
  BY DEF IInv, AloneInv, SettledAgree
<1> QED  BY Invariance, <1>1, PTL
=============================================================================
