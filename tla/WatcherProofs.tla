---------------------------- MODULE WatcherProofs ----------------------------
(***************************************************************************)
(* Proofs about Watcher, for any number of versions, plugins and troubles.   *)
(***************************************************************************)
EXTENDS Watcher, TLAPS

\* Neither a revert nor a deployment by hand has happened.
Forward == seen \cap {"revert", "manual_deploy"} = {}

\* The Hub, the watcher's copy of its latest version and the record follow one
\* another, as long as versions only go forward.
InOrder ==
    Forward =>
        /\ latest <= latest_on_hub
        /\ record \in Version => record <= latest
        /\ record \in Version /\ host # Torn => record <= host

\* From the end of a deployment to the end of its tick the host holds latest,
\* unless somebody deploys by hand, and from the write on the record says so.
Delivered ==
    "manual_deploy" \notin seen =>
        /\ pc \in {"open", "write", "collect", "restart"} => host = latest
        /\ pc \in {"collect", "restart"} => record = latest
        /\ pc = "restart" =>
              \A p \in Plugin : p < next => process[p] = latest \/ p \in rolling

IInv == TypeOK /\ InOrder /\ Delivered

\* A trouble is added to the history and never taken from it.
LEMMA Troubled ==
    ASSUME TypeOK, NEW kind, Trouble(kind)
    PROVE  /\ trouble' \in 0..MaxTroubles
           /\ seen' \subseteq Troubles
           /\ kind \in seen'
           /\ Forward' => Forward
           /\ "manual_deploy" \notin seen' => "manual_deploy" \notin seen
BY WatcherConstants DEF TypeOK, Trouble, Forward

LEMMA Untroubled ==
    ASSUME TypeOK, UNCHANGED troubles
    PROVE  /\ trouble' \in 0..MaxTroubles
           /\ seen' \subseteq Troubles
           /\ Forward' = Forward
           /\ seen' = seen
BY DEF TypeOK, troubles, Forward

LEMMA InitInvariant == Init => IInv
<1> SUFFICES ASSUME Init PROVE IInv OBVIOUS
<1> USE WatcherConstants DEF Init
<1>1. TypeOK
  BY DEF TypeOK, Version, Plugin, NoRecord, Corrupt, Torn
<1>2. InOrder /\ Delivered
  BY DEF InOrder, Delivered, Version, NoRecord, Torn
<1> QED BY <1>1, <1>2 DEF IInv

\* Each step keeps the invariant; the troubles are told apart first.
LEMMA NextInvariant == IInv /\ [Next]_vars => IInv'
<1> SUFFICES ASSUME IInv, [Next]_vars PROVE IInv' OBVIOUS
<1> USE WatcherConstants, Troubled, Untroubled
    DEF IInv, TypeOK, InOrder, Delivered, Version, Plugin, Torn, NoRecord, Corrupt, disk, hub,
        processes
<1>1. ASSUME NEW v \in Version, Publish(v) PROVE IInv'
  BY <1>1 DEF Publish, Forward
<1>2. CASE Poll
  BY <1>2 DEF Poll
<1>3. CASE Compare
  BY <1>3 DEF Compare
<1>4. CASE Deploy
  BY <1>4 DEF Deploy
<1>5. CASE Truncate
  BY <1>5 DEF Truncate
<1>6. CASE Write
  <2>1. CASE record' = latest /\ pc' = "collect" /\ UNCHANGED troubles
    BY <1>6, <2>1 DEF Write, Forward
  <2>2. CASE Trouble("write_error") /\ pc' = "sleep" /\ UNCHANGED record
    BY <1>6, <2>2 DEF Write
  <2> QED BY <1>6, <2>1, <2>2 DEF Write
<1>7. CASE Collect
  BY <1>7 DEF Collect
<1>8. CASE Restart
  <2>1. /\ pc = "restart" /\ pc' \in {"restart", "sleep"}
        /\ UNCHANGED <<host, record, latest_on_hub, published, latest, supervisor>>
    BY <1>8 DEF Restart, processes, Restarted
  <2>2. CASE UNCHANGED <<processes, next>>
    <3>1. UNCHANGED troubles \/ Trouble("restart_error")
      BY <1>8, <2>2 DEF Restart, Restarted
    <3> QED BY <2>1, <2>2, <3>1 DEF processes
  <2>3. CASE Supervised /\ Restarted /\ UNCHANGED troubles
    <3>1. next \in Plugin /\ next' = next + 1 /\ next' \in 1..(PluginCount + 1)
      BY <2>3 DEF Supervised, Restarted
    <3>2. /\ process' \in [Plugin -> Version \cup {Torn}] /\ rolling' \subseteq Plugin
          /\ process'[next] = host \/ next \in rolling'
          /\ \A p \in Plugin : p # next => process'[p] = process[p]
          /\ rolling \subseteq rolling'
      BY <2>3, <3>1 DEF Restarted
    <3>3. "manual_deploy" \notin seen =>
             \A p \in Plugin : p < next' => process'[p] = latest \/ p \in rolling'
      BY <2>1, <3>1, <3>2
    <3> QED BY <2>1, <2>3, <3>1, <3>2, <3>3
  <2> QED BY <1>8, <2>2, <2>3 DEF Restart
<1>9. CASE Crash
  BY <1>9 DEF Crash
<1>10. ASSUME NEW v \in Version, ManualDeploy(v) PROVE IInv'
  BY <1>10 DEF ManualDeploy, Forward
<1>11. ASSUME NEW p \in Plugin, Load(p) PROVE IInv'
  <2>1. /\ process' \in [Plugin -> Version \cup {Torn}] /\ rolling' \subseteq Plugin
        /\ process'[p] = host
        /\ \A q \in Plugin : q # p => process'[q] = process[q] /\ (q \in rolling => q \in rolling')
    BY <1>11 DEF Load
  <2>2. UNCHANGED <<disk, hub, supervisor, pc, latest, next, troubles>>
    BY <1>11 DEF Load
  <2> QED BY <2>1, <2>2
<1>12. CASE UNCHANGED vars
  BY <1>12 DEF vars, troubles
<1> QED
  BY <1>1, <1>2, <1>3, <1>4, <1>5, <1>6, <1>7, <1>8, <1>9, <1>10, <1>11,
     <1>12 DEF Next, Tick

-----------------------------------------------------------------------------
\* IInv holds in every reachable state.
THEOREM InductiveInvariant == Spec => []IInv
BY InitInvariant, NextInvariant, PTL DEF Spec

\* Types, for any number of versions, plugins, troubles and publications.
THEOREM TypeCorrect == Spec => []TypeOK
<1>1. IInv => TypeOK
  BY DEF IInv
<1> QED BY <1>1, InductiveInvariant, PTL

\* A readable record is never ahead of the host, wherever runs fail and the
\* agent dies, until the Hub goes back or somebody deploys by hand.
THEOREM RecordCorrect == Spec => []RecordNeverAhead
<1>1. IInv => RecordNeverAhead
  BY DEF IInv, InOrder, Forward, RecordNeverAhead
<1> QED BY <1>1, InductiveInvariant, PTL

\* What a tick has restarted runs the version it deployed and recorded, or waits
\* for its rollout to load it, whatever the Hub published since the tick polled it,
\* under any supervisor, until somebody deploys by hand.
THEOREM RestartsCorrect == Spec => []RestartedOnRecord
<1>1. IInv => RestartedOnRecord
  BY DEF IInv, Delivered, RestartedOnRecord
<1> QED BY <1>1, InductiveInvariant, PTL
=============================================================================
