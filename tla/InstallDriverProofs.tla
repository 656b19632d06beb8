------------------------ MODULE InstallDriverProofs ------------------------
(***************************************************************************)
(* Proofs about InstallDriver, for every set of directories, every set of   *)
(* well-formed plans, every number of deployments, with and without crashes *)
(* and failing rollbacks.                                                   *)
(***************************************************************************)
EXTENDS InstallDriver, TLAPS

\* Where the executor is, in each of its labels.
AtStep ==
    /\ pc \in {"wipe", "copy"} => step \in DOMAIN plan /\ Cur.op = "install"
    /\ pc \in {"seed", "check"} => step \in DOMAIN plan /\ Cur.op = "write_env"
    /\ pc = "restore" => undo # 0
    /\ pc = "installed" => step = Len(plan) + 1

\* Every record that has a snapshot names one that is on disk.
OnDisk == \A j \in DOMAIN records : records[j].saved \in 0..Len(snapshots)

TypeInv == TypeOK /\ AtStep /\ OnDisk

\* While a step is being executed, it is a well-formed step of the plan.
LEMMA PlanElement ==
    ASSUME TypeOK, NEW i \in DOMAIN plan
    PROVE  /\ plan \in Seq(Step)
           /\ plan[i] \in Step
           /\ i \in 1..Len(plan)
           /\ plan[i].op = "install" => plan[i].on \in Targets
           /\ plan[i].op = "write_env" => plan[i].on \in EnvFiles
  BY PlansAssumption DEF TypeOK, WellFormed

\* The two markers and every version are trees a directory may hold.
LEMMA TreeMembers == Absent \in Tree /\ Torn \in Tree /\ Versions \subseteq Tree
  BY DEF Tree

\* What a rollback puts back from a record's snapshot is a tree.
LEMMA KeptTree ==
    ASSUME TypeOK, OnDisk, NEW j \in 1..Len(records), Kept(records[j])
    PROVE  snapshots[records[j].saved] \in Tree
  BY DEF TypeOK, OnDisk, Kept, Record

\* Length and elements of a sequence after an append.
LEMMA AppendFacts ==
    ASSUME NEW S, NEW s \in Seq(S), NEW x \in S
    PROVE  /\ Append(s, x) \in Seq(S)
           /\ Len(s) \in Nat
           /\ Len(Append(s, x)) = Len(s) + 1
           /\ Append(s, x)[Len(s) + 1] = x
           /\ \A i \in 1..Len(s) : Append(s, x)[i] = s[i]
  OBVIOUS

\* What the start of an install step does to the snapshots and the records.
NoSnapshot == ~ Cur.snapshot /\ UNCHANGED <<snapshots, records>>
NewRecord(r) ==
    /\ Cur.snapshot
    /\ r \in Record
    /\ r.on = Cur.on
    /\ records' = Append(records, r)
    /\ \/ host[Cur.on] = Absent /\ snapshots' = snapshots /\ r.saved = 0
       \/ snapshots' = Append(snapshots, host[Cur.on]) /\ r.saved = Len(snapshots) + 1

\* An install step takes no snapshot, records an absent directory, or copies it.
LEMMA InstallBeginCases ==
    ASSUME TypeOK, InstallBegin
    PROVE  NoSnapshot \/ \E r : NewRecord(r)
  <1>1. Cur.on \in Targets
    BY PlanElement DEF InstallBegin, At, Cur
  <1>2. CASE Cur.snapshot /\ host[Cur.on] = Absent
    <2> DEFINE r == [on |-> Cur.on, saved |-> 0]
    <2>1. r \in Record /\ r.on = Cur.on /\ r.saved = 0
      BY <1>1 DEF Record
    <2>2. records' = Append(records, r) /\ snapshots' = snapshots
      BY <1>2 DEF InstallBegin, SnapshotBefore
    <2> HIDE DEF r
    <2>3. NewRecord(r)
      BY <1>2, <2>1, <2>2 DEF NewRecord
    <2> QED
      BY <2>3
  <1>3. CASE Cur.snapshot /\ host[Cur.on] # Absent
    <2> DEFINE r == [on |-> Cur.on, saved |-> Len(snapshots')]
    <2>1. snapshots' = Append(snapshots, host[Cur.on]) /\ records' = Append(records, r)
      BY <1>3 DEF InstallBegin, SnapshotBefore
    <2>2. Len(snapshots') = Len(snapshots) + 1 /\ Len(snapshots) \in Nat
      <3>1. host[Cur.on] \in Tree /\ snapshots \in Seq(Tree)
        BY <1>1 DEF TypeOK
      <3> QED
        BY ONLY <2>1, <3>1, AppendFacts
    <2>3. r \in Record /\ r.on = Cur.on /\ r.saved = Len(snapshots) + 1
      BY <1>1, <2>2 DEF Record
    <2> HIDE DEF r
    <2>4. NewRecord(r)
      BY <1>3, <2>1, <2>3 DEF NewRecord
    <2> QED
      BY <2>4
  <1>4. CASE ~ Cur.snapshot
    BY <1>4 DEF InstallBegin, NoSnapshot
  <1> QED
    BY <1>2, <1>3, <1>4

\* Records and snapshots before an install step are still there after it.
LEMMA NewRecordFacts ==
    ASSUME TypeOK, Cur.on \in Targets, NEW r, NewRecord(r)
    PROVE  /\ records' \in Seq(Record)
           /\ Len(records) \in Nat /\ Len(records') = Len(records) + 1
           /\ records'[Len(records')] = r
           /\ \A j \in 1..Len(records) : records'[j] = records[j]
           /\ snapshots' \in Seq(Tree)
           /\ Len(snapshots) \in Nat /\ Len(snapshots') \in Nat
           /\ Len(snapshots') >= Len(snapshots)
           /\ \A k \in 1..Len(snapshots) : snapshots'[k] = snapshots[k]
           /\ r.saved \in 0..Len(snapshots')
           /\ r.saved # 0 => snapshots'[r.saved] = host[Cur.on]
           /\ r.saved = 0 => host[Cur.on] = Absent
  <1>1. /\ records \in Seq(Record) /\ snapshots \in Seq(Tree)
        /\ host[Cur.on] \in Tree
    BY DEF TypeOK
  <1>2. r \in Record /\ records' = Append(records, r)
    BY DEF NewRecord
  <1>3. \/ host[Cur.on] = Absent /\ snapshots' = snapshots /\ r.saved = 0
        \/ snapshots' = Append(snapshots, host[Cur.on]) /\ r.saved = Len(snapshots) + 1
    BY DEF NewRecord
  <1>4. /\ records' \in Seq(Record)
        /\ Len(records) \in Nat /\ Len(records') = Len(records) + 1
        /\ records'[Len(records')] = r
        /\ \A j \in 1..Len(records) : records'[j] = records[j]
    BY ONLY <1>1, <1>2, AppendFacts
  <1> DEFINE tree == host[Cur.on]
  <1> HIDE DEF tree
  <1>5. /\ snapshots' \in Seq(Tree)
        /\ Len(snapshots) \in Nat /\ Len(snapshots') \in Nat
        /\ Len(snapshots') >= Len(snapshots)
        /\ \A k \in 1..Len(snapshots) : snapshots'[k] = snapshots[k]
        /\ r.saved \in 0..Len(snapshots')
        /\ r.saved # 0 => snapshots'[r.saved] = tree
        /\ r.saved = 0 => tree = Absent
    BY ONLY SMTT(30), <1>1, <1>3, AppendFacts DEF tree
  <1> QED
    BY <1>4, <1>5 DEF tree

\* The type invariant and its two companions hold at the start.
LEMMA InitTypeInv == Init => TypeInv
  <1> SUFFICES ASSUME Init PROVE TypeInv
    OBVIOUS
  <1>1. plan \in Seq(Step)
    BY PlansAssumption DEF Init, WellFormed
  <1>2. Len(plan) \in Nat
    BY <1>1
  <1> QED
    BY <1>2, BoundAssumption
    DEF Init, TypeInv, TypeOK, AtStep, OnDisk, Tree, EnvState, Resting, Working, Forward, Undoing

\* Every step of the agent, of the operator and of fate preserves them.
LEMMA NextTypeInv == TypeInv /\ [Next]_vars => TypeInv'
  <1> SUFFICES ASSUME TypeInv, [Next]_vars PROVE TypeInv'
    OBVIOUS
  <1> USE TreeMembers DEF TypeInv, TypeOK, AtStep, OnDisk, Cur
  <1> USE DEF Resting, Working, Forward, Undoing, disk, job
  <1>0. plan \in Seq(Step) /\ Len(plan) \in Nat /\ Len(records) \in Nat
    BY PlansAssumption DEF WellFormed
  <1>1. ASSUME NEW p \in Plans, NEW v \in Versions, Begin(p, v) PROVE TypeInv'
    <2>1. Len(p) \in Nat
      BY PlansAssumption DEF WellFormed
    <2> QED
      BY <1>1, <2>1, BoundAssumption DEF Begin
  <1>2. CASE Skip
    BY <1>0, <1>2 DEF Skip, At, Done
  <1>3. CASE Effect
    BY <1>0, <1>3 DEF Effect, Effects, Supervising, Done, Raise
  <1>4. CASE InstallRefused
    <2>1. snapshots' \in Seq(Tree)
      <3>1. snapshots' = snapshots \/ snapshots' = Append(snapshots, Torn)
        BY <1>4 DEF InstallRefused, HalfSnapshot
      <3>2. snapshots \in Seq(Tree) /\ Torn \in Tree
        OBVIOUS
      <3> QED
        BY ONLY <3>1, <3>2
    <2> QED
      BY <1>0, <1>4, <2>1 DEF InstallRefused, HalfSnapshot, At, Raise
  <1>5. CASE InstallBegin
    <2>1. Cur.on \in Targets /\ step \in DOMAIN plan
      BY <1>5, PlanElement DEF InstallBegin, At
    <2> DEFINE Kept_ == /\ snapshots' \in Seq(Tree)
                        /\ records' \in Seq(Record)
                        /\ Len(records') \in Nat /\ Len(records') >= Len(records)
                        /\ OnDisk'
    <2>2. Kept_
      <3>1. CASE NoSnapshot
        BY <1>0, <3>1 DEF NoSnapshot
      <3>2. ASSUME NEW r, NewRecord(r) PROVE Kept_
        <4>1. /\ snapshots' \in Seq(Tree) /\ records' \in Seq(Record)
              /\ Len(records) \in Nat /\ Len(records') = Len(records) + 1
              /\ Len(snapshots) \in Nat /\ Len(snapshots') \in Nat
              /\ Len(snapshots') >= Len(snapshots)
              /\ \A j \in 1..Len(records) : records'[j] = records[j]
              /\ records'[Len(records')] = r
              /\ r.saved \in 0..Len(snapshots')
          BY <2>1, <3>2, NewRecordFacts
        <4>2. ASSUME NEW j \in DOMAIN records'
              PROVE  records'[j].saved \in 0..Len(snapshots')
          <5>1. DOMAIN records' = 1..(Len(records) + 1) /\ DOMAIN records = 1..Len(records)
            BY <1>0, <4>1
          <5>2. CASE j = Len(records')
            BY <4>1, <5>2
          <5>3. CASE j \in DOMAIN records
            <6>1. records'[j] = records[j] /\ records[j].saved \in 0..Len(snapshots)
              BY <4>1, <5>1, <5>3
            <6> QED
              BY <4>1, <6>1
          <5> QED
            BY <4>1, <5>1, <5>2, <5>3
        <4> QED
          BY <4>1, <4>2
      <3> QED
        BY <1>5, <3>1, <3>2, InstallBeginCases
    <2> QED
      BY <1>0, <1>5, <2>1, <2>2 DEF InstallBegin, At, Goto
  <1>6. CASE Wipe
    <2>1. host' \in [Targets -> Tree]
      BY <1>6 DEF Wipe
    <2> QED
      BY <1>0, <1>6, <2>1 DEF Wipe, Raise, Goto
  <1>7. CASE Copy
    <2>1. host' \in [Targets -> Tree]
      BY <1>7 DEF Copy
    <2> QED
      BY SMTT(30), <1>0, <1>7, <2>1 DEF Copy, Raise, Done
  <1>8. CASE WriteEnv
    <2>1. env' \in [EnvFiles -> EnvState]
      BY <1>8 DEF WriteEnv, EnvState
    <2>2. step \in DOMAIN plan /\ Cur.op = "write_env" /\ pc = "dispatch"
      BY <1>8 DEF WriteEnv, At
    <2> QED
      BY <1>0, <1>8, <2>1, <2>2 DEF WriteEnv, Raise, Goto
  <1>9. CASE Seed
    <2>1. env' \in [EnvFiles -> EnvState]
      BY <1>9 DEF Seed, EnvState
    <2> QED
      BY <1>0, <1>9, <2>1 DEF Seed, Raise, Goto
  <1>10. CASE CheckRequiredEnv
    BY <1>0, <1>10 DEF CheckRequiredEnv, Raise, Done
  <1>11. CASE Finish
    BY <1>0, <1>11 DEF Finish, Goto
  <1>12. CASE UndoRemove
    <2>1. host' \in [Targets -> Tree]
      BY <1>12 DEF UndoRemove
    <2> QED
      BY <1>0, <1>12, <2>1 DEF UndoRemove, Goto
  <1>13. CASE UndoRestore
    <2>1. undo \in 1..Len(records)
      BY <1>0, <1>13 DEF UndoRestore
    <2>2. host' \in [Targets -> Tree]
      <3>1. Kept(records[undo]) => snapshots[records[undo].saved] \in Tree
        BY KeptTree, <2>1
      <3> QED
        BY SMTT(30), <1>13, <3>1 DEF UndoRestore
    <2> QED
      BY SMTT(30), <1>0, <1>13, <2>1, <2>2 DEF UndoRestore, Goto
  <1>14. CASE UndoEnd
    BY <1>0, <1>14 DEF UndoEnd, Goto
  <1>15. CASE Crash
    <2>1. host' \in [Targets -> Tree]
      BY <1>15 DEF Crash
    <2>2. snapshots' \in Seq(Tree)
      <3>1. snapshots' = snapshots \/ snapshots' = Append(snapshots, Torn)
        BY <1>15 DEF Crash, HalfSnapshot
      <3>2. snapshots \in Seq(Tree) /\ Torn \in Tree
        OBVIOUS
      <3> QED
        BY ONLY <3>1, <3>2
    <2> QED
      BY <1>0, <1>15, <2>1, <2>2 DEF Crash
  <1>16. ASSUME NEW f \in EnvFiles, OperatorEdits(f) PROVE TypeInv'
    BY <1>0, <1>16 DEF OperatorEdits, EnvState
  <1>17. CASE UNCHANGED vars
    BY <1>17 DEF vars
  <1> QED
    BY <1>1, <1>2, <1>3, <1>4, <1>5, <1>6, <1>7, <1>8, <1>9, <1>10, <1>11, <1>12,
       <1>13, <1>14, <1>15, <1>16, <1>17
    DEF Next, Run, Install, SeedEnv, Rollback

\* The driver's memory and the host's directories are always well formed.
THEOREM TypeCorrect == Spec => []TypeOK
  <1>1. TypeInv => TypeOK
    BY DEF TypeInv
  <1> QED
    BY <1>1, InitTypeInv, NextTypeInv, PTL DEF Spec

-----------------------------------------------------------------------------
(* The inductive invariant behind RollbackRestores and InstalledWhole. *)

\* One of the n oldest records is about directory t.
Recorded(t, n) == \E j \in 1..n : records[j].on = t

\* The records rollback() has still to visit, before and while it runs.
Left == IF pc \in Undoing THEN undo ELSE Len(records)

\* The tree a record stands for.
SavedTree(r) == IF r.saved = 0 THEN Absent ELSE snapshots[r.saved]

InCopy(t) == pc \in {"wipe", "copy"} /\ Cur.on = t

\* A protected directory that no pending record is about is as it was.
PendingOnly ==
    pc \in Working =>
        \A t \in Targets : Protected(t) /\ ~ Recorded(t, Left) => host[t] = before[t]

\* The oldest record of a protected directory stands for its initial tree.
OldestIsBefore ==
    pc \in Working =>
        \A j \in 1..Len(records) :
            Protected(records[j].on) /\ ~ Recorded(records[j].on, j - 1) =>
                SavedTree(records[j]) = before[records[j].on]

\* Every install step with a snapshot that has begun left a record.
SnapshotsRecorded ==
    pc \in Forward =>
        \A i \in DOMAIN plan :
            /\ plan[i].op = "install" /\ plan[i].snapshot
            /\ i < step \/ (i = step /\ pc \in {"wipe", "copy"})
            => Recorded(plan[i].on, Len(records))

RestoringAbsent == pc = "restore" => host[records[undo].on] = Absent

\* What the executed prefix of the plan has done to the host.
PrefixInstalled ==
    pc \in Forward \cup {"installed"} =>
        \A t \in Targets : ~ InCopy(t) =>
            host[t] = IF \E i \in DOMAIN plan : i < step /\ Installs(i, t)
                      THEN version ELSE before[t]

\* The plan of the deployment installs directory t.
InScope(t) == \E i \in DOMAIN plan : Installs(i, t)

\* Only directories of the plan have records, and no other has been touched.
RecordsInScope == \A j \in 1..Len(records) : InScope(records[j].on)
OutsideKept == \A t \in Targets : ~ InScope(t) => host[t] = before[t]
WithinScope == RecordsInScope /\ OutsideKept

IInv == /\ TypeInv
        /\ WithinScope
        /\ PendingOnly /\ OldestIsBefore /\ SnapshotsRecorded /\ RestoringAbsent
        /\ PrefixInstalled
        /\ RollbackRestores

\* While a protected directory is being replaced, a record is there to undo it.
LEMMA ProtectedRecorded ==
    ASSUME IInv, pc \in {"wipe", "copy"}, Protected(Cur.on)
    PROVE  Cur.on \in Targets /\ Recorded(Cur.on, Len(records))
  <1>1. step \in DOMAIN plan /\ Cur.op = "install" /\ plan \in Seq(Step)
    BY PlanElement DEF IInv, TypeInv, AtStep
  <1>2. Cur.on \in Targets /\ Installs(step, Cur.on)
    BY <1>1, PlanElement DEF IInv, TypeInv, Installs, Cur
  <1>3. PICK j \in 1..step : Installs(j, Cur.on) /\ plan[j].snapshot
    BY <1>1, <1>2 DEF Protected
  <1>4. j \in DOMAIN plan /\ (j < step \/ j = step)
    BY <1>1, <1>3
  <1> QED
    BY <1>2, <1>3, <1>4 DEF IInv, SnapshotsRecorded, Installs, Forward

\* An install step that begins adds at most one record, after the others.
LEMMA RecordsGrow ==
    ASSUME TypeInv, InstallBegin
    PROVE  /\ Len(records) \in Nat /\ Len(records') \in Nat
           /\ Len(records') >= Len(records)
           /\ \A j \in 1..Len(records) : records'[j] = records[j]
           /\ Cur.on \in Targets /\ step \in DOMAIN plan
  <1>1. Cur.on \in Targets /\ step \in DOMAIN plan
    BY PlanElement DEF InstallBegin, At, TypeInv, Cur
  <1>2. CASE NoSnapshot
    BY <1>1, <1>2 DEF NoSnapshot, TypeInv, TypeOK
  <1>3. ASSUME NEW r, NewRecord(r)
        PROVE  /\ Len(records) \in Nat /\ Len(records') = Len(records) + 1
               /\ \A j \in 1..Len(records) : records'[j] = records[j]
    BY <1>1, <1>3, NewRecordFacts DEF TypeInv
  <1> QED
    BY <1>1, <1>2, <1>3, InstallBeginCases DEF TypeInv

\* While a directory is being replaced, the plan installs it.
LEMMA CopyInScope ==
    ASSUME TypeInv, pc \in {"wipe", "copy"} \/ At("install")
    PROVE  Cur.on \in Targets /\ InScope(Cur.on)
  <1>1. step \in DOMAIN plan /\ Cur.op = "install"
    BY DEF TypeInv, AtStep, At
  <1> QED
    BY <1>1, PlanElement DEF TypeInv, InScope, Installs, Cur

\* WithinScope is inductive: whatever a step, a rollback or the death of the
\* process changes is a directory of the plan.
LEMMA NextWithinScope == IInv /\ [Next]_vars => WithinScope'
  <1> SUFFICES ASSUME IInv, [Next]_vars PROVE WithinScope'
    OBVIOUS
  <1> USE DEF IInv, WithinScope, RecordsInScope, OutsideKept, disk, job
  <1>0. /\ TypeInv /\ Len(records) \in Nat
        /\ host \in [Targets -> Tree] /\ records \in Seq(Record)
    BY DEF TypeInv, TypeOK
  <1>1. ASSUME UNCHANGED plan PROVE \A t : InScope(t)' <=> InScope(t)
    BY <1>1 DEF InScope, Installs
  <1>2. ASSUME UNCHANGED <<plan, records, host, before>> PROVE WithinScope'
    BY <1>1, <1>2
  \* A step that changes the host at t only, t a directory of the plan.
  <1>3. ASSUME UNCHANGED <<plan, before>>, records' = records \/ records' = <<>>,
               NEW t, InScope(t), NEW x, host' = [host EXCEPT ![t] = x]
        PROVE  WithinScope'
    <2>1. \A u \in Targets : ~ InScope(u) => host'[u] = host[u]
      BY <1>0, <1>3
    <2>2. \A j \in 1..Len(records') : InScope(records'[j].on)
      BY <1>0, <1>3
    <2> QED
      BY <1>1, <1>3, <2>1, <2>2
  <1>4. ASSUME NEW p \in Plans, NEW v \in Versions, Begin(p, v) PROVE WithinScope'
    BY <1>4 DEF Begin
  <1>5. ASSUME \/ Skip \/ Effect \/ InstallRefused \/ SeedEnv \/ Finish \/ UndoEnd
        PROVE  WithinScope'
    BY <1>2, <1>5 DEF Skip, Effect, InstallRefused, SeedEnv, WriteEnv, Seed,
                      CheckRequiredEnv, Finish, UndoEnd
  <1>6. CASE InstallBegin
    <2>1. Cur.on \in Targets /\ InScope(Cur.on)
      BY <1>0, <1>6, CopyInScope DEF InstallBegin
    <2>2. UNCHANGED <<plan, host, before>>
      BY <1>6 DEF InstallBegin
    <2>3. CASE NoSnapshot
      BY <1>2, <2>2, <2>3 DEF NoSnapshot
    <2>4. ASSUME NEW r, NewRecord(r) PROVE WithinScope'
      <3>1. /\ Len(records') = Len(records) + 1
            /\ \A j \in 1..Len(records) : records'[j] = records[j]
            /\ records'[Len(records) + 1].on = Cur.on
        BY <1>0, <2>4, AppendFacts DEF NewRecord
      <3>2. ASSUME NEW j \in 1..Len(records') PROVE InScope(records'[j].on)
        BY <1>0, <2>1, <3>1
      <3> QED
        BY <1>1, <2>2, <3>2
    <2> QED
      BY <1>0, <1>6, <2>1, <2>3, <2>4, InstallBeginCases DEF TypeInv
  <1>7. CASE Wipe
    BY <1>0, <1>3, <1>7, CopyInScope DEF Wipe
  <1>8. CASE Copy
    BY <1>0, <1>3, <1>8, CopyInScope DEF Copy
  <1>9. CASE UndoRemove
    <2>1. undo \in 1..Len(records)
      BY <1>9 DEF UndoRemove, TypeInv, TypeOK
    <2> QED
      BY <1>3, <1>9, <2>1 DEF UndoRemove
  <1>10. CASE UndoRestore
    <2>1. undo \in 1..Len(records)
      BY <1>10 DEF UndoRestore, TypeInv, TypeOK, AtStep
    <2>2. UNCHANGED <<plan, before, records>>
      BY <1>10 DEF UndoRestore
    <2>3. host' = host \/ \E x : host' = [host EXCEPT ![records[undo].on] = x]
      BY <1>10 DEF UndoRestore
    <2> QED
      BY <1>2, <1>3, <2>1, <2>2, <2>3
  <1>11. CASE Crash
    <2>1. UNCHANGED <<plan, before>> /\ records' = <<>>
      BY <1>11 DEF Crash
    <2>2. CASE host' = host
      BY <1>1, <2>1, <2>2
    <2>3. ASSUME NEW t \in Busy, host' = [host EXCEPT ![t] = Torn] PROVE WithinScope'
      <3>1. CASE pc \in {"wipe", "copy"}
        BY <1>0, <1>3, <2>1, <2>3, <3>1, CopyInScope DEF Busy
      <3>2. CASE pc \in {"undo", "restore"}
        <4>1. undo \in 1..Len(records) /\ t = records[undo].on
          BY <2>3, <3>2 DEF Busy, TypeInv, TypeOK, AtStep
        <4> QED
          BY <1>3, <2>1, <2>3, <4>1
      <3>3. CASE pc \notin {"wipe", "copy", "undo", "restore"}
        BY <2>3, <3>3 DEF Busy
      <3> QED
        BY <3>1, <3>2, <3>3
    <2> QED
      BY <1>11, <2>2, <2>3 DEF Crash
  <1>12. ASSUME NEW f \in EnvFiles, OperatorEdits(f) PROVE WithinScope'
    BY <1>2, <1>12 DEF OperatorEdits
  <1>13. CASE UNCHANGED vars
    BY <1>2, <1>13 DEF vars
  <1> QED
    BY <1>4, <1>5, <1>6, <1>7, <1>8, <1>9, <1>10, <1>11, <1>12, <1>13
    DEF Next, Run, Install, Rollback

\* PendingOnly is inductive: only a step being undone or executed may leave a directory other than it was.
LEMMA NextPendingOnly == IInv /\ [Next]_vars => PendingOnly'
  <1> SUFFICES ASSUME IInv, [Next]_vars PROVE PendingOnly'
    OBVIOUS
  <1> USE DEF IInv, TypeInv, TypeOK, AtStep, Cur, disk, job
  <1> USE DEF Resting, Working, Forward, Undoing
  <1> USE DEF PendingOnly, Recorded, Left, Protected, Installs
  <1>0. plan \in Seq(Step) /\ Len(plan) \in Nat /\ Len(records) \in Nat
    BY PlansAssumption DEF WellFormed
  <1>1. ASSUME NEW p \in Plans, NEW v \in Versions, Begin(p, v) PROVE PendingOnly'
    BY <1>0, <1>1 DEF Begin
  <1>2. CASE Skip
    BY <1>0, <1>2 DEF Skip, At, Done
  <1>3. CASE Effect
    BY <1>0, <1>3 DEF Effect, Effects, Supervising, Done, Raise
  <1>4. CASE InstallRefused
    BY <1>0, <1>4 DEF InstallRefused, At, Raise
  <1>5. CASE InstallBegin
    <2>1. /\ Len(records') \in Nat /\ Len(records') >= Len(records)
          /\ \A j \in 1..Len(records) : records'[j] = records[j]
      BY <1>5, RecordsGrow
    <2>2. /\ pc = "dispatch" /\ pc' = "wipe"
          /\ UNCHANGED <<host, before, plan>>
      BY <1>5 DEF InstallBegin, At, Goto
    <2>3. ASSUME NEW t \in Targets, ~ Recorded(t, Left)' PROVE ~ Recorded(t, Left)
      BY <1>0, <2>1, <2>2, <2>3
    <2> QED
      BY <2>2, <2>3
  <1>6. CASE Wipe
    <2>1. Protected(Cur.on) => Recorded(Cur.on, Len(records))
      BY <1>6, ProtectedRecorded DEF Wipe
    <2>2. /\ pc \in {"wipe", "copy"} /\ pc' \in Working
          /\ UNCHANGED <<records, plan, before>>
          /\ \A t \in Targets : t # Cur.on => host'[t] = host[t]
          /\ Left' = Len(records)
      BY <1>6 DEF Wipe, Goto, Raise
    <2>3. ASSUME NEW t \in Targets, Protected(t)', ~ Recorded(t, Left)' PROVE host'[t] = before'[t]
      <3>1. Protected(t) /\ ~ Recorded(t, Len(records))
        BY <2>2, <2>3
      <3>2. t # Cur.on
        BY <2>1, <3>1
      <3> QED
        BY <2>2, <3>1, <3>2
    <2> QED
      BY <2>2, <2>3
  <1>7. CASE Copy
    <2>1. Protected(Cur.on) => Recorded(Cur.on, Len(records))
      BY <1>7, ProtectedRecorded DEF Copy
    <2>2. /\ pc \in {"wipe", "copy"} /\ pc' \in Working
          /\ UNCHANGED <<records, plan, before>>
          /\ \A t \in Targets : t # Cur.on => host'[t] = host[t]
          /\ Left' = Len(records)
      BY <1>7 DEF Copy, Done, Raise
    <2>3. ASSUME NEW t \in Targets, Protected(t)', ~ Recorded(t, Left)' PROVE host'[t] = before'[t]
      <3>1. Protected(t) /\ ~ Recorded(t, Len(records))
        BY <2>2, <2>3
      <3>2. t # Cur.on
        BY <2>1, <3>1
      <3> QED
        BY <2>2, <3>1, <3>2
    <2> QED
      BY <2>2, <2>3
  <1>8. CASE WriteEnv
    BY <1>0, <1>8 DEF WriteEnv, At, Goto, Raise
  <1>9. CASE Seed
    BY <1>0, <1>9 DEF Seed, Goto, Raise
  <1>10. CASE CheckRequiredEnv
    BY <1>0, <1>10 DEF CheckRequiredEnv, Done, Raise
  <1>11. CASE Finish
    BY <1>0, <1>11 DEF Finish, Goto
  <1>12. CASE UndoRemove
    BY <1>0, <1>12 DEF UndoRemove, Goto
  <1>13. CASE UndoRestore
    <2>1. undo \in 1..Len(records)
      BY <1>0, <1>13 DEF UndoRestore
    <2> DEFINE r == records[undo]
    <2>2. r \in Record /\ pc = "restore" /\ host[r.on] = Absent
      BY <2>1, <1>13 DEF UndoRestore, RestoringAbsent
    <2>3. CASE pc' = "undo"
      <3>1. /\ UNCHANGED <<records, plan, before, snapshots>> /\ undo' = undo - 1
            /\ host' = IF Kept(r) THEN [host EXCEPT ![r.on] = snapshots[r.saved]] ELSE host
        BY <1>13, <2>3 DEF UndoRestore, Goto
      <3>2. r.on \in Targets /\ host'[r.on] = SavedTree(r)
        BY <2>2, <3>1 DEF SavedTree, Kept, Record
      <3>3. ASSUME NEW t \in Targets, Protected(t), ~ Recorded(t, undo - 1)
            PROVE  host'[t] = before[t]
        <4>1. CASE r.on = t
          BY <2>1, <2>2, <3>2, <3>3, <4>1 DEF OldestIsBefore
        <4>2. CASE r.on # t
          <5>1. ~ Recorded(t, undo)
            BY <2>1, <3>3, <4>2
          <5>2. host'[t] = host[t]
            BY <3>1, <3>2, <4>2
          <5> QED
            BY <2>2, <3>3, <5>1, <5>2
        <4> QED
          BY <4>1, <4>2
      <3> QED
        BY <2>3, <3>1, <3>3
    <2>4. CASE pc' = "stuck"
      BY <2>4
    <2> QED
      BY <1>13, <2>3, <2>4 DEF UndoRestore, Goto
  <1>14. CASE UndoEnd
    BY <1>0, <1>14 DEF UndoEnd, Goto
  <1>15. CASE Crash
    BY <1>0, <1>15 DEF Crash, Busy
  <1>16. ASSUME NEW f \in EnvFiles, OperatorEdits(f) PROVE PendingOnly'
    BY <1>0, <1>16 DEF OperatorEdits
  <1>17. CASE UNCHANGED vars
    BY <1>17 DEF vars
  <1> QED
    BY <1>1, <1>2, <1>3, <1>4, <1>5, <1>6, <1>7, <1>8, <1>9, <1>10, <1>11, <1>12, <1>13, <1>14, <1>15, <1>16, <1>17
    DEF Next, Run, Install, SeedEnv, Rollback

\* The oldest record of a directory stays the oldest when records are added.
LEMMA OldestStable ==
    ASSUME TypeInv, OldestIsBefore, pc \in Working,
           UNCHANGED <<records, plan, before>>,
           \A k \in 1..Len(snapshots) : snapshots'[k] = snapshots[k]
    PROVE  OldestIsBefore'
  <1> SUFFICES ASSUME NEW j \in 1..Len(records),
                      Protected(records[j].on), ~ Recorded(records[j].on, j - 1)
               PROVE  SavedTree(records[j])' = before[records[j].on]
    BY DEF OldestIsBefore, Recorded, Protected, Installs
  <1>1. SavedTree(records[j]) = before[records[j].on]
    BY DEF OldestIsBefore
  <1>2. records[j] \in Record /\ records[j].saved \in 0..Len(snapshots) /\ Len(snapshots) \in Nat
    BY DEF TypeInv, TypeOK, OnDisk
  <1> QED
    BY <1>1, <1>2 DEF SavedTree, Record

\* OldestIsBefore is inductive: the oldest snapshot of a directory is what the deployment found there.
LEMMA NextOldestIsBefore == IInv /\ [Next]_vars => OldestIsBefore'
  <1> SUFFICES ASSUME IInv, [Next]_vars, pc' \in Working PROVE OldestIsBefore'
    BY DEF OldestIsBefore
  <1> USE DEF IInv, Resting, Working, Forward, Undoing, disk, job
  <1>1. ASSUME NEW p \in Plans, NEW v \in Versions, Begin(p, v) PROVE OldestIsBefore'
    BY <1>1 DEF Begin, OldestIsBefore
  <1>2. CASE InstallBegin
    <2>1. /\ Len(records) \in Nat /\ Len(snapshots) \in Nat
          /\ Cur.on \in Targets /\ step \in DOMAIN plan
      BY <1>2, RecordsGrow DEF TypeInv, TypeOK
    <2>2. pc = "dispatch" /\ pc' = "wipe" /\ UNCHANGED <<host, plan, before>>
      BY <1>2 DEF InstallBegin, At, Goto
    <2>3. CASE NoSnapshot
      BY <2>2, <2>3, OldestStable DEF NoSnapshot
    <2>4. ASSUME NEW r, NewRecord(r) PROVE OldestIsBefore'
      <3>1. /\ Len(records') = Len(records) + 1
            /\ records'[Len(records')] = r
            /\ \A j \in 1..Len(records) : records'[j] = records[j]
            /\ Len(snapshots') >= Len(snapshots) /\ Len(snapshots') \in Nat
            /\ \A k \in 1..Len(snapshots) : snapshots'[k] = snapshots[k]
            /\ r.saved \in 0..Len(snapshots')
            /\ r.saved # 0 => snapshots'[r.saved] = host[Cur.on]
            /\ r.saved = 0 => host[Cur.on] = Absent
        BY <2>1, <2>4, NewRecordFacts DEF TypeInv
      <3>2. r.on = Cur.on
        BY <2>4 DEF NewRecord
      <3> SUFFICES ASSUME NEW j \in 1..Len(records'), Protected(records[j].on)',
                          ~ Recorded(records[j].on, j - 1)'
                   PROVE  SavedTree(records[j])' = before[records'[j].on]
        BY <2>2 DEF OldestIsBefore, Recorded
      <3>3. Protected(records'[j].on)
        BY <2>2 DEF Protected, Installs
      <3>4. CASE j = Len(records')
        <4>1. ~ Recorded(Cur.on, Len(records))
          BY <2>1, <3>1, <3>2, <3>4 DEF Recorded
        <4>2. host[Cur.on] = before[Cur.on]
          BY <2>1, <2>2, <3>1, <3>2, <3>3, <3>4, <4>1 DEF PendingOnly, Left
        <4> QED
          BY <3>1, <3>2, <3>4, <4>2 DEF SavedTree
      <3>5. CASE j \in 1..Len(records)
        <4>1. records'[j] = records[j] /\ ~ Recorded(records[j].on, j - 1)
          BY SMTT(30), <2>1, <3>1, <3>5 DEF Recorded
        <4>2. SavedTree(records[j]) = before[records[j].on]
          BY <2>2, <3>3, <3>5, <4>1 DEF OldestIsBefore
        <4>3. records[j] \in Record /\ records[j].saved \in 0..Len(snapshots)
          BY <3>5 DEF TypeInv, TypeOK, OnDisk
        <4> QED
          BY <2>1, <3>1, <4>1, <4>2, <4>3 DEF SavedTree, Record
      <3> QED
        BY <2>1, <3>1, <3>4, <3>5
    <2> QED
      BY <1>2, <2>3, <2>4, InstallBeginCases DEF TypeInv
  <1>3. CASE InstallRefused
    <2>1. UNCHANGED <<records, plan, before>> /\ pc = "dispatch"
      BY <1>3 DEF InstallRefused, At
    <2>2. \A k \in 1..Len(snapshots) : snapshots'[k] = snapshots[k]
      <3>1. snapshots' = snapshots \/ snapshots' = Append(snapshots, Torn)
        BY <1>3 DEF InstallRefused, HalfSnapshot
      <3>2. snapshots \in Seq(Tree) /\ Torn \in Tree
        BY TreeMembers DEF TypeInv, TypeOK
      <3> QED
        BY <3>1, <3>2, AppendFacts
    <2> QED
      BY <2>1, <2>2, OldestStable
  <1>4. ASSUME \/ Skip \/ Effect \/ Wipe \/ Copy \/ WriteEnv \/ Seed \/ CheckRequiredEnv
               \/ UndoRemove \/ UndoRestore
        PROVE  OldestIsBefore'
    <2>1. UNCHANGED <<records, plan, before, snapshots>> /\ pc \in Working
      BY <1>4 DEF Skip, Effect, Wipe, Copy, WriteEnv, Seed, CheckRequiredEnv,
                  UndoRemove, UndoRestore, At
    <2> QED
      BY <2>1, OldestStable
  <1>5. ASSUME Finish \/ UndoEnd \/ Crash \/ \E f \in EnvFiles : OperatorEdits(f)
        PROVE  pc' \notin Working
    BY <1>5 DEF Finish, UndoEnd, Crash, OperatorEdits, Goto
  <1>6. CASE UNCHANGED vars
    BY <1>6, OldestStable DEF vars
  <1> QED
    BY <1>1, <1>2, <1>3, <1>4, <1>5, <1>6
    DEF Next, Run, Install, SeedEnv, Rollback

\* SnapshotsRecorded is inductive: a step already executed with a snapshot has its record.
LEMMA NextSnapshotsRecorded == IInv /\ [Next]_vars => SnapshotsRecorded'
  <1> SUFFICES ASSUME IInv, [Next]_vars PROVE SnapshotsRecorded'
    OBVIOUS
  <1> USE DEF IInv, TypeInv, TypeOK, AtStep, Cur, disk, job
  <1> USE DEF Resting, Working, Forward, Undoing
  <1> USE DEF SnapshotsRecorded, Recorded
  <1>0. plan \in Seq(Step) /\ Len(plan) \in Nat /\ Len(records) \in Nat
    BY PlansAssumption DEF WellFormed
  <1>1. ASSUME NEW p \in Plans, NEW v \in Versions, Begin(p, v) PROVE SnapshotsRecorded'
    <2>1. p \in Seq(Step) /\ plan' = p /\ step' = 1 /\ pc' = "dispatch"
      BY <1>1, PlansAssumption DEF Begin, WellFormed
    <2>2. \A i \in DOMAIN plan' : ~ (i < step')
      BY <2>1
    <2> QED
      BY <2>1, <2>2
  <1>2. CASE Skip
    <2>1. /\ pc = "dispatch" /\ pc' = "dispatch" /\ step' = step + 1
          /\ Cur.op # "install" /\ UNCHANGED <<plan, records>>
      BY <1>2 DEF Skip, At, Done
    <2>2. \A i \in DOMAIN plan : i < step' => i < step \/ i = step
      BY <1>0, <2>1
    <2> QED
      BY <2>1, <2>2
  <1>3. CASE Effect
    <2>1. plan[step].op # "install"
      BY <1>3 DEF Effect, Effects, Supervising
    <2>2. CASE Done
      <3>1. /\ pc = "dispatch" /\ pc' = "dispatch" /\ step' = step + 1
            /\ UNCHANGED <<plan, records>>
        BY <1>3, <2>2 DEF Effect, Done
      <3>2. \A i \in DOMAIN plan : i < step' => i < step \/ i = step
        BY <1>0, <3>1
      <3> QED
        BY <2>1, <3>1, <3>2
    <2>3. CASE Raise
      BY <1>0, <1>3, <2>3 DEF Effect, Raise
    <2> QED
      BY <1>3, <2>2, <2>3 DEF Effect
  <1>4. CASE InstallRefused
    BY <1>0, <1>4 DEF InstallRefused, At, Raise
  <1>5. CASE InstallBegin
    <2>1. /\ pc = "dispatch" /\ pc' = "wipe" /\ UNCHANGED <<plan, step>>
      BY <1>5 DEF InstallBegin, At, Goto
    <2>2. /\ Len(records') \in Nat /\ Len(records') >= Len(records)
          /\ \A j \in 1..Len(records) : records'[j] = records[j]
          /\ Cur.on \in Targets
      BY <1>5, RecordsGrow
    <2>3. Cur.snapshot => Recorded(Cur.on, Len(records))'
      <3>1. ASSUME NEW r, NewRecord(r) PROVE Recorded(Cur.on, Len(records))'
        <4>1. /\ records'[Len(records')] = r /\ Len(records') = Len(records) + 1
          BY <2>2, <3>1, NewRecordFacts
        <4>2. r.on = Cur.on /\ Cur' = Cur
          BY <2>1, <3>1 DEF NewRecord
        <4> QED
          BY <1>0, <4>1, <4>2
      <3> QED
        BY <1>5, <3>1, InstallBeginCases DEF NoSnapshot
    <2>4. ASSUME NEW t, Recorded(t, Len(records)) PROVE \E j \in 1..Len(records') : records'[j].on = t
      BY <2>2, <2>4
    <2> SUFFICES ASSUME NEW i \in DOMAIN plan', plan'[i].op = "install", plan'[i].snapshot,
                        i < step' \/ i = step'
                 PROVE  \E j \in 1..Len(records') : records'[j].on = plan'[i].on
      BY <2>1
    <2>5. CASE i < step
      BY <2>1, <2>4, <2>5
    <2>6. CASE i = step
      BY <2>1, <2>3, <2>6
    <2> QED
      BY <2>1, <2>5, <2>6
  <1>6. CASE Wipe
    BY <1>0, <1>6 DEF Wipe, Goto, Raise
  <1>7. CASE Copy
    <2>1. /\ pc = "copy" /\ UNCHANGED <<plan, records>>
          /\ Done \/ Raise
      BY <1>7 DEF Copy
    <2>2. CASE Raise
      BY <2>1, <2>2 DEF Raise
    <2>3. CASE Done
      <3>1. step' = step + 1 /\ pc' = "dispatch"
        BY <2>3 DEF Done
      <3>2. \A i \in DOMAIN plan : i < step' => i < step \/ i = step
        BY <1>0, <3>1
      <3> QED
        BY <2>1, <3>1, <3>2
    <2> QED
      BY <2>1, <2>2, <2>3
  <1>8. CASE WriteEnv
    BY <1>0, <1>8 DEF WriteEnv, At, Goto, Raise
  <1>9. CASE Seed
    BY <1>0, <1>9 DEF Seed, Goto, Raise
  <1>10. CASE CheckRequiredEnv
    <2>1. CASE Done
      <3>1. /\ pc = "check" /\ step' = step + 1 /\ pc' = "dispatch"
            /\ Cur.op = "write_env" /\ UNCHANGED <<plan, records>>
        BY <1>10, <2>1 DEF CheckRequiredEnv, Done
      <3>2. \A i \in DOMAIN plan : i < step' => i < step \/ i = step
        BY <1>0, <3>1
      <3> QED
        BY <3>1, <3>2
    <2>2. CASE Raise
      BY <2>2 DEF Raise
    <2> QED
      BY <1>10, <2>1, <2>2 DEF CheckRequiredEnv
  <1>11. CASE Finish
    BY <1>0, <1>11 DEF Finish, Goto
  <1>12. CASE UndoRemove
    BY <1>0, <1>12 DEF UndoRemove, Goto
  <1>13. CASE UndoRestore
    BY <1>0, <1>13 DEF UndoRestore, Kept, Goto
  <1>14. CASE UndoEnd
    BY <1>0, <1>14 DEF UndoEnd, Goto
  <1>15. CASE Crash
    BY <1>0, <1>15 DEF Crash, Busy
  <1>16. ASSUME NEW f \in EnvFiles, OperatorEdits(f) PROVE SnapshotsRecorded'
    BY <1>0, <1>16 DEF OperatorEdits
  <1>17. CASE UNCHANGED vars
    BY <1>17 DEF vars
  <1> QED
    BY <1>1, <1>2, <1>3, <1>4, <1>5, <1>6, <1>7, <1>8, <1>9, <1>10, <1>11, <1>12, <1>13, <1>14, <1>15, <1>16, <1>17
    DEF Next, Run, Install, SeedEnv, Rollback

\* RestoringAbsent is inductive: a directory is removed before its snapshot is copied back.
LEMMA NextRestoringAbsent == IInv /\ [Next]_vars => RestoringAbsent'
  <1> SUFFICES ASSUME IInv, [Next]_vars PROVE RestoringAbsent'
    OBVIOUS
  <1> USE DEF IInv, TypeInv, TypeOK, AtStep, Cur, disk, job
  <1> USE DEF Resting, Working, Forward, Undoing
  <1> USE DEF RestoringAbsent
  <1>0. plan \in Seq(Step) /\ Len(plan) \in Nat /\ Len(records) \in Nat
    BY PlansAssumption DEF WellFormed
  <1>1. ASSUME NEW p \in Plans, NEW v \in Versions, Begin(p, v) PROVE RestoringAbsent'
    BY <1>0, <1>1 DEF Begin
  <1>2. CASE Skip
    BY <1>0, <1>2 DEF Skip, At, Done
  <1>3. CASE Effect
    BY <1>0, <1>3 DEF Effect, Effects, Supervising, Done, Raise
  <1>4. CASE InstallRefused
    BY <1>0, <1>4 DEF InstallRefused, At, Raise
  <1>5. CASE InstallBegin
    BY <1>0, <1>5 DEF InstallBegin, At, Goto
  <1>6. CASE Wipe
    BY <1>0, <1>6 DEF Wipe, Goto, Raise
  <1>7. CASE Copy
    BY <1>0, <1>7 DEF Copy, Done, Raise
  <1>8. CASE WriteEnv
    BY <1>0, <1>8 DEF WriteEnv, At, Goto, Raise
  <1>9. CASE Seed
    BY <1>0, <1>9 DEF Seed, Goto, Raise
  <1>10. CASE CheckRequiredEnv
    BY <1>0, <1>10 DEF CheckRequiredEnv, Done, Raise
  <1>11. CASE Finish
    BY <1>0, <1>11 DEF Finish, Goto
  <1>12. CASE UndoRemove
    <2>1. CASE pc' = "restore"
      <3>1. /\ host' = [host EXCEPT ![records[undo].on] = Absent]
            /\ UNCHANGED <<undo, records>> /\ undo \in 1..Len(records)
        BY <1>0, <1>12, <2>1 DEF UndoRemove, Goto
      <3>2. records[undo] \in Record
        BY <3>1
      <3>3. records[undo].on \in Targets
        BY <3>2 DEF Record
      <3> QED
        BY <3>1, <3>3
    <2> QED
      BY <2>1
  <1>13. CASE UndoRestore
    BY <1>0, <1>13 DEF UndoRestore, Kept, Goto
  <1>14. CASE UndoEnd
    BY <1>0, <1>14 DEF UndoEnd, Goto
  <1>15. CASE Crash
    BY <1>0, <1>15 DEF Crash, Busy
  <1>16. ASSUME NEW f \in EnvFiles, OperatorEdits(f) PROVE RestoringAbsent'
    BY <1>0, <1>16 DEF OperatorEdits
  <1>17. CASE UNCHANGED vars
    BY <1>17 DEF vars
  <1> QED
    BY <1>1, <1>2, <1>3, <1>4, <1>5, <1>6, <1>7, <1>8, <1>9, <1>10, <1>11, <1>12, <1>13, <1>14, <1>15, <1>16, <1>17
    DEF Next, Run, Install, SeedEnv, Rollback

\* PrefixInstalled is inductive: the steps executed so far have installed their directories whole.
LEMMA NextPrefixInstalled == IInv /\ [Next]_vars => PrefixInstalled'
  <1> SUFFICES ASSUME IInv, [Next]_vars PROVE PrefixInstalled'
    OBVIOUS
  <1> USE DEF IInv, TypeInv, TypeOK, AtStep, Cur, disk, job
  <1> USE DEF Resting, Working, Forward, Undoing
  <1> USE DEF PrefixInstalled, InCopy, Installs
  <1>0. plan \in Seq(Step) /\ Len(plan) \in Nat /\ Len(records) \in Nat
    BY PlansAssumption DEF WellFormed
  <1>1. ASSUME NEW p \in Plans, NEW v \in Versions, Begin(p, v) PROVE PrefixInstalled'
    <2>1. p \in Seq(Step) /\ plan' = p /\ step' = 1 /\ pc' = "dispatch"
          /\ before' = host /\ host' = host
      BY <1>1, PlansAssumption DEF Begin, WellFormed
    <2>2. \A i \in DOMAIN plan' : ~ (i < step')
      BY <2>1
    <2> QED
      BY <2>1, <2>2
  <1>2. CASE Skip
    <2>1. /\ pc = "dispatch" /\ pc' = "dispatch" /\ step' = step + 1
          /\ Cur.op # "install" /\ UNCHANGED <<plan, host, before, version>>
      BY <1>2 DEF Skip, At, Done
    <2>2. \A i \in DOMAIN plan : i < step' <=> i < step \/ i = step
      BY <1>0, <2>1
    <2> QED
      BY <2>1, <2>2
  <1>3. CASE Effect
    BY SMTT(30), <1>0, <1>3 DEF Effect, Effects, Supervising, Done, Raise
  <1>4. CASE InstallRefused
    BY <1>0, <1>4 DEF InstallRefused, At, Raise
  <1>5. CASE InstallBegin
    BY <1>0, <1>5 DEF InstallBegin, At, Goto
  <1>6. CASE Wipe
    BY <1>0, <1>6 DEF Wipe, Goto, Raise
  <1>7. CASE Copy
    <2>1. CASE Done
      <3>1. /\ pc = "copy" /\ pc' = "dispatch" /\ step' = step + 1
            /\ host' = [host EXCEPT ![Cur.on] = version]
            /\ UNCHANGED <<plan, before, version>>
            /\ step \in DOMAIN plan /\ Cur.op = "install"
        BY <1>7, <2>1 DEF Copy, Done, Raise
      <3>2. \A i \in DOMAIN plan : i < step' <=> i < step \/ i = step
        BY <1>0, <3>1
      <3>3. \E i \in DOMAIN plan' : i < step' /\ plan'[i].op = "install" /\ plan'[i].on = Cur.on
        BY <1>0, <3>1
      <3>4. ASSUME NEW t \in Targets, t # Cur.on
            PROVE  /\ host'[t] = host[t] /\ ~ InCopy(t)
                   /\ \A i \in DOMAIN plan : i < step' /\ Installs(i, t)' <=> i < step /\ Installs(i, t)
        BY <3>1, <3>2, <3>4
      <3>5. Cur.on \in Targets => host'[Cur.on] = version
        BY <3>1
      <3> QED
        BY <3>1, <3>2, <3>3, <3>4, <3>5
    <2>2. CASE Raise
      BY <2>2 DEF Raise
    <2> QED
      BY <1>7, <2>1, <2>2 DEF Copy
  <1>8. CASE WriteEnv
    BY <1>0, <1>8 DEF WriteEnv, At, Goto, Raise
  <1>9. CASE Seed
    BY <1>0, <1>9 DEF Seed, Goto, Raise
  <1>10. CASE CheckRequiredEnv
    <2>1. CASE Done
      <3>1. /\ pc = "check" /\ step' = step + 1 /\ pc' = "dispatch"
            /\ Cur.op = "write_env" /\ UNCHANGED <<plan, host, before, version>>
        BY <1>10, <2>1 DEF CheckRequiredEnv, Done
      <3>2. \A i \in DOMAIN plan : i < step' <=> i < step \/ i = step
        BY <1>0, <3>1
      <3> QED
        BY <3>1, <3>2
    <2>2. CASE Raise
      BY <2>2 DEF Raise
    <2> QED
      BY <1>10, <2>1, <2>2 DEF CheckRequiredEnv
  <1>11. CASE Finish
    BY <1>0, <1>11 DEF Finish, Goto
  <1>12. CASE UndoRemove
    BY <1>0, <1>12 DEF UndoRemove, Goto
  <1>13. CASE UndoRestore
    BY <1>0, <1>13 DEF UndoRestore, Kept, Goto
  <1>14. CASE UndoEnd
    BY <1>0, <1>14 DEF UndoEnd, Goto
  <1>15. CASE Crash
    BY <1>0, <1>15 DEF Crash, Busy
  <1>16. ASSUME NEW f \in EnvFiles, OperatorEdits(f) PROVE PrefixInstalled'
    BY <1>0, <1>16 DEF OperatorEdits
  <1>17. CASE UNCHANGED vars
    BY <1>17 DEF vars
  <1> QED
    BY <1>1, <1>2, <1>3, <1>4, <1>5, <1>6, <1>7, <1>8, <1>9, <1>10, <1>11, <1>12, <1>13, <1>14, <1>15, <1>16, <1>17
    DEF Next, Run, Install, SeedEnv, Rollback

\* The last record visited by a rollback leaves every protected directory as it was found.
LEMMA NextRollbackRestores == IInv /\ [Next]_vars => RollbackRestores'
  <1> SUFFICES ASSUME IInv, [Next]_vars PROVE RollbackRestores'
    OBVIOUS
  <1> USE DEF IInv, TypeInv, TypeOK, AtStep, Cur, disk, job
  <1> USE DEF Resting, Working, Forward, Undoing
  <1> USE DEF RollbackRestores, Protected, Installs, PendingOnly, Recorded, Left
  <1>0. plan \in Seq(Step) /\ Len(plan) \in Nat /\ Len(records) \in Nat
    BY PlansAssumption DEF WellFormed
  <1>1. ASSUME NEW p \in Plans, NEW v \in Versions, Begin(p, v) PROVE RollbackRestores'
    BY <1>0, <1>1 DEF Begin
  <1>2. CASE Skip
    BY <1>0, <1>2 DEF Skip, At, Done
  <1>3. CASE Effect
    BY <1>0, <1>3 DEF Effect, Effects, Supervising, Done, Raise
  <1>4. CASE InstallRefused
    BY <1>0, <1>4 DEF InstallRefused, At, Raise
  <1>5. CASE InstallBegin
    BY <1>0, <1>5 DEF InstallBegin, At, Goto
  <1>6. CASE Wipe
    BY <1>0, <1>6 DEF Wipe, Goto, Raise
  <1>7. CASE Copy
    BY <1>0, <1>7 DEF Copy, Done, Raise
  <1>8. CASE WriteEnv
    BY <1>0, <1>8 DEF WriteEnv, At, Goto, Raise
  <1>9. CASE Seed
    BY <1>0, <1>9 DEF Seed, Goto, Raise
  <1>10. CASE CheckRequiredEnv
    BY <1>0, <1>10 DEF CheckRequiredEnv, Done, Raise
  <1>11. CASE Finish
    BY <1>0, <1>11 DEF Finish, Goto
  <1>12. CASE UndoRemove
    BY <1>0, <1>12 DEF UndoRemove, Goto
  <1>13. CASE UndoRestore
    BY <1>0, <1>13 DEF UndoRestore, Kept, Goto
  <1>14. CASE UndoEnd
    BY <1>0, <1>14 DEF UndoEnd, Goto
  <1>15. CASE Crash
    BY <1>0, <1>15 DEF Crash, Busy
  <1>16. ASSUME NEW f \in EnvFiles, OperatorEdits(f) PROVE RollbackRestores'
    BY <1>0, <1>16 DEF OperatorEdits
  <1>17. CASE UNCHANGED vars
    BY <1>17 DEF vars
  <1> QED
    BY <1>1, <1>2, <1>3, <1>4, <1>5, <1>6, <1>7, <1>8, <1>9, <1>10, <1>11, <1>12, <1>13, <1>14, <1>15, <1>16, <1>17
    DEF Next, Run, Install, SeedEnv, Rollback

\* The inductive invariant holds at the start.
LEMMA InitIInv == Init => IInv
  <1> SUFFICES ASSUME Init PROVE IInv
    OBVIOUS
  <1>1. TypeInv
    BY InitTypeInv
  <1>2. pc = "idle"
    BY DEF Init
  <1>3. WithinScope
    BY DEF Init, WithinScope, RecordsInScope, OutsideKept
  <1> QED
    BY <1>1, <1>2, <1>3
    DEF IInv, PendingOnly, OldestIsBefore, SnapshotsRecorded, RestoringAbsent,
        PrefixInstalled, RollbackRestores, Working, Forward, Undoing

\* Every step preserves the inductive invariant.
LEMMA NextIInv == IInv /\ [Next]_vars => IInv'
  BY NextTypeInv, NextWithinScope, NextPendingOnly, NextOldestIsBefore, NextSnapshotsRecorded,
     NextRestoringAbsent, NextPrefixInstalled, NextRollbackRestores
  DEF IInv

\* The records, the snapshots and the host agree in every reachable state, in
\* the middle of an installation or of a rollback as much as at its end.
THEOREM InductiveInvariant == Spec => []IInv
  BY InitIInv, NextIInv, PTL DEF Spec

\* A rollback that ran to its end leaves every directory whose first install
\* takes a snapshot exactly as the deployment found it.
THEOREM RollbackCorrect == Spec => []RollbackRestores
  <1>1. IInv => RollbackRestores
    BY DEF IInv
  <1> QED
    BY <1>1, InductiveInvariant, PTL

\* A deployment that completes installs its version whole in every directory
\* of its plan, and leaves the others alone.
THEOREM InstallCorrect == Spec => []InstalledWhole
  <1>1. IInv => InstalledWhole
    <2> SUFFICES ASSUME IInv, pc = "installed", NEW t \in Targets
                 PROVE  host[t] = IF \E i \in DOMAIN plan : Installs(i, t)
                                  THEN version ELSE before[t]
      BY DEF InstalledWhole
    <2>1. plan \in Seq(Step) /\ step = Len(plan) + 1
      BY PlansAssumption DEF IInv, TypeInv, TypeOK, AtStep, WellFormed
    <2>2. \A i \in DOMAIN plan : i < step
      BY <2>1
    <2> QED
      BY <2>2 DEF IInv, PrefixInstalled, InCopy
  <1> QED
    BY <1>1, InductiveInvariant, PTL

-----------------------------------------------------------------------------
(* The refinement of AtomicDeploy. *)

\* An initial state of the driver is one of the atomic deployment.
LEMMA InitRefines == Init => AllOrNothing!Init
  BY DEF Init, AllOrNothing!Init, Tree, Working, Forward, Undoing

\* Every step of the driver is a step of the atomic deployment or a stutter: it
\* commits when the plan is done, aborts when a rollback has visited its last
\* record, and breaks off when the process dies or the rollback raises.
LEMMA NextRefines ==
    ASSUME IInv, [Next]_vars
    PROVE  [AllOrNothing!Next]_(AllOrNothing!vars)
  <1> USE DEF Resting, Working, Forward, Undoing, disk, job
  <1>0. UNCHANGED plan => \A t : (InScope(t)' <=> InScope(t)) /\ (Protected(t)' <=> Protected(t))
    BY DEF InScope, Protected, Installs
  <1>1. ASSUME NEW p \in Plans, NEW v \in Versions, Begin(p, v)
        PROVE  AllOrNothing!Begin
    BY <1>1 DEF Begin, AllOrNothing!Begin, AllOrNothing!Ends
  <1>2. ASSUME Finish PROVE AllOrNothing!Commit
    <2>1. /\ pc = "dispatch" /\ pc' = "installed" /\ step = Len(plan) + 1
          /\ UNCHANGED <<host, plan, version, before>>
      BY <1>2 DEF Finish, Goto
    <2>2. \A i \in DOMAIN plan : i < step
      BY <2>1, PlansAssumption DEF IInv, TypeInv, TypeOK, WellFormed
    <2>3. ASSUME NEW t \in Targets
          PROVE  host[t] = IF \E i \in DOMAIN plan : Installs(i, t)
                           THEN version ELSE before[t]
      BY <2>1, <2>2 DEF IInv, PrefixInstalled, InCopy
    <2>4. host = [t \in Targets |-> IF \E i \in DOMAIN plan : Installs(i, t)
                                    THEN version ELSE before[t]]
      BY <2>3 DEF IInv, TypeInv, TypeOK
    <2> QED
      BY <2>1, <2>4 DEF AllOrNothing!Commit, AllOrNothing!End, AllOrNothing!deployment,
                        Installs, Protected
  <1>3. host \in [Targets -> Tree] /\ before \in [Targets -> Tree] /\ host' \in [Targets -> Tree]
    BY NextTypeInv DEF IInv, TypeInv, TypeOK
  <1>4. ASSUME UndoEnd PROVE AllOrNothing!Abort
    <2>1. /\ pc = "undo" /\ pc' = "rolled_back" /\ undo = 0
          /\ UNCHANGED <<host, plan, version, before>>
      BY <1>4 DEF UndoEnd, Goto
    <2>2. ASSUME NEW t \in Targets, ~ InScope(t) \/ Protected(t) PROVE host[t] = before[t]
      BY <2>1, <2>2 DEF IInv, WithinScope, OutsideKept, PendingOnly, Left, Recorded
    <2>3. AllOrNothing!End("aborted")
      BY <2>1 DEF AllOrNothing!End, AllOrNothing!deployment, Installs, Protected
    <2> QED
      BY <1>3, <2>1, <2>2, <2>3
      DEF AllOrNothing!Abort, AllOrNothing!OnlyIn, InScope
  <1>5. ASSUME pc \in Working, pc' \in {"stuck", "down"}, UNCHANGED <<plan, version, before>>
        PROVE  AllOrNothing!Break
    <2>1. ASSUME NEW t \in Targets, ~ InScope(t) PROVE host'[t] = before[t]
      BY <1>0, <1>5, <2>1, NextWithinScope DEF WithinScope, OutsideKept
    <2>2. AllOrNothing!End("broken")
      BY <1>5 DEF AllOrNothing!End, AllOrNothing!deployment, Installs, Protected
    <2> QED
      BY <1>3, <1>5, <2>1, <2>2 DEF AllOrNothing!Break, AllOrNothing!OnlyIn, InScope
  <1>6. ASSUME pc \in Working, pc' \in Working, UNCHANGED <<plan, version, before>>
        PROVE  UNCHANGED AllOrNothing!vars
    BY <1>6 DEF AllOrNothing!vars, Installs, Protected
  <1>7. ASSUME \/ Skip \/ Effect \/ Install \/ SeedEnv \/ UndoRemove \/ UndoRestore
        PROVE  /\ pc \in Working /\ pc' \in Working \cup {"stuck"}
               /\ UNCHANGED <<plan, version, before>>
    BY <1>7 DEF Skip, Effect, Install, InstallRefused, InstallBegin, Wipe, Copy,
                SeedEnv, WriteEnv, Seed, CheckRequiredEnv, UndoRemove, UndoRestore,
                At, Goto, Done, Raise
  <1>8. ASSUME Crash PROVE AllOrNothing!Break
    BY <1>5, <1>8 DEF Crash
  <1>9. ASSUME NEW f \in EnvFiles, OperatorEdits(f) PROVE UNCHANGED AllOrNothing!vars
    BY <1>9 DEF OperatorEdits, AllOrNothing!vars, Installs, Protected
  <1>10. CASE UNCHANGED vars
    BY <1>10 DEF vars, AllOrNothing!vars, Installs, Protected
  <1> QED
    BY <1>1, <1>2, <1>4, <1>5, <1>6, <1>7, <1>8, <1>9, <1>10
    DEF Next, Run, Rollback, AllOrNothing!Next

\* Whatever fails and whenever the process dies, a deployment commits all of its
\* version, or is undone wherever its plan asks for a snapshot, or breaks off;
\* in no case does it touch a directory that its plan does not install.
THEOREM Refinement == Spec => ImplementsAtomicDeploy
  <1>1. Init => AllOrNothing!Init
    BY InitRefines
  <1>2. IInv /\ [Next]_vars => [AllOrNothing!Next]_(AllOrNothing!vars)
    BY NextRefines
  <1> QED
    BY <1>1, <1>2, InductiveInvariant, PTL
    DEF Spec, AllOrNothing!Spec, ImplementsAtomicDeploy

-----------------------------------------------------------------------------
\* No step of the agent changes an .env file that was already there, crashes
\* and failing rollbacks included.
THEOREM EnvKept == Spec => EnvNeverOverwritten
  <1> DEFINE Kept_ == \A f \in EnvFiles :
                        env[f] # "absent" /\ env'[f] # env[f] =>
                            \/ pc = "seed" /\ Cur.on = f
                            \/ pc \in Resting
  <1>1. TypeInv /\ [Next]_vars => [Kept_]_vars
    <2> SUFFICES ASSUME TypeInv, Next, NEW f \in EnvFiles,
                        env[f] # "absent", env'[f] # env[f]
                 PROVE  \/ pc = "seed" /\ Cur.on = f
                        \/ pc \in Resting
      BY DEF vars
    <2>1. env \in [EnvFiles -> EnvState]
      BY DEF TypeInv, TypeOK
    <2>2. CASE WriteEnv
      BY <2>1, <2>2 DEF WriteEnv
    <2>3. CASE Seed
      BY <2>1, <2>3 DEF Seed
    <2>4. ASSUME NEW g \in EnvFiles, OperatorEdits(g) PROVE pc \in Resting
      BY <2>4 DEF OperatorEdits
    <2>5. ASSUME NEW p \in Plans, NEW v \in Versions, Begin(p, v) PROVE pc \in Resting
      BY <2>5 DEF Begin
    <2>6. ASSUME \/ Skip \/ Effect \/ Install \/ CheckRequiredEnv \/ Finish
                 \/ Rollback \/ Crash
          PROVE  env' = env
      BY <2>6 DEF Skip, Effect, Install, InstallRefused, InstallBegin, Wipe, Copy,
                  CheckRequiredEnv, Finish, Rollback, UndoRemove, UndoRestore, UndoEnd,
                  Crash, disk
    <2> QED
      BY <2>2, <2>3, <2>4, <2>5, <2>6 DEF Next, Run, SeedEnv
  <1> QED
    BY <1>1, InitTypeInv, NextTypeInv, PTL DEF Spec, EnvNeverOverwritten
=============================================================================
