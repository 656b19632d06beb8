-------------------------- MODULE WatchSourcesProofs --------------------------
(***************************************************************************)
(* Proofs about WatchSources, for any number of sources, versions, pins,      *)
(* publications and troubles: what watch-sources takes for up to date is.    *)
(***************************************************************************)
EXTENDS WatchSources, TLAPS

\* A record r of the versions applied to the trees is honest: it is never ahead
\* of the marketplace nor behind the pins, and what it shows as up to date is.
Honest(r) ==
    \A s \in Marketplace :
        /\ plan[s].pin <= Current(r, s) /\ Current(r, s) <= published[s]
        /\ Current(r, s) = published[s] => tree[s] = published[s]

InTick == pc \in {"check", "fetch", "copy", "truncate", "write"}

\* While sources are being looked at, those to come are as they were recorded.
StillToCome ==
    pc \in {"check", "fetch", "copy"} => \A s \in Source : s >= pos => state[s] = file[s]

\* What is being fetched is newer than what is recorded.
FetchesNewer ==
    pc \in {"fetch", "copy"} =>
        /\ pos \in Marketplace
        /\ Current(state, pos) < latest /\ latest <= published[pos]

HonestInv ==
    Forward =>
        /\ Honest(Nothing) /\ Honest(file)
        /\ InTick => Honest(state)
        /\ StillToCome /\ FetchesNewer
        /\ pc # "boot"

IInv == TypeOK /\ HonestInv

LEMMA SeqElements ==
    ASSUME NEW S, NEW s \in Seq(S)
    PROVE  Len(s) \in Nat /\ DOMAIN s = 1..Len(s) /\ \A i \in DOMAIN s : s[i] \in S
OBVIOUS

LEMMA PlanTypes ==
    ASSUME plan \in Plans
    PROVE  /\ Len(plan) \in Nat /\ Source = 1..Len(plan)
           /\ \A s \in Source : plan[s].git \in BOOLEAN /\ plan[s].pin \in Version \cup {None}
<1> DEFINE S == [git : BOOLEAN, pin : Version \cup {None}]
<1>1. plan \in Seq(S)
  BY WatchSourcesConstants
<1>2. \A x \in S : x.git \in BOOLEAN /\ x.pin \in Version \cup {None}
  OBVIOUS
<1> HIDE DEF S
<1> QED
  BY <1>1, <1>2, SeqElements DEF Source

LEMMA VersionTypes == Version \subseteq Nat /\ None \in Nat /\ None \notin Version
                      /\ Torn \notin Version /\ 1 \in Version
BY WatchSourcesConstants DEF Version, None, Torn

-----------------------------------------------------------------------------
(* Types *)

LEMMA InitTypes == Init => TypeOK
<1> SUFFICES ASSUME Init PROVE TypeOK
  OBVIOUS
<1>1. plan \in Plans /\ published \in [Source -> Version]
  BY DEF Init
<1>2. built \in [Source -> Version]
  BY <1>1, PlanTypes DEF Init
<1>3. Len(plan) \in Nat
  BY <1>1, PlanTypes
<1>4. dirty \in BOOLEAN /\ updates \subseteq Source /\ seen \subseteq Troubles
  BY DEF Init
<1>5. tree \in [Source -> Version \cup {Torn}] /\ Nothing \in [Source -> Version \cup {None}]
  BY <1>2 DEF Init, Nothing
<1> QED
  BY <1>1, <1>2, <1>3, <1>4, <1>5, VersionTypes, WatchSourcesConstants DEF Init, TypeOK

\* Every step keeps the types: in particular the position stays within the plan.
LEMMA NextTypes == TypeOK /\ [Next]_vars => TypeOK'
<1> SUFFICES ASSUME TypeOK, [Next]_vars PROVE TypeOK'
  OBVIOUS
<1> USE VersionTypes DEF TypeOK, market, memory, troubles
<1>n. Len(plan) \in Nat /\ Source = 1..Len(plan)
  BY PlanTypes
<1>p. plan' = plan /\ mode' = mode /\ Source' = Source
  <2>1. plan' = plan /\ mode' = mode
    BY DEF Next, CheckOnce, Restart, TickBegin, GitSource, CheckVersion, Fetch, Merge,
           CheckEnd, Truncate, Write, StartAgain, Boot, Crash, Publish, vars
  <2> QED
    BY <2>1 DEF Source
<1> USE <1>n, <1>p
<1>0. ASSUME NEW kind, Trouble(kind)
      PROVE  trouble' \in 0..MaxTroubles /\ seen' \subseteq Troubles
  BY <1>0, WatchSourcesConstants DEF Trouble
<1>1. ASSUME NEW s \in Source, NEW v \in Version, Publish(s, v) PROVE TypeOK'
  <2>1. published' \in [Source -> Version] /\ publications' \in 0..MaxPublish
    BY <1>1, WatchSourcesConstants DEF Publish
  <2> QED
    BY <1>0, <1>1, <2>1 DEF Publish
<1>2. CASE TickBegin
  <2>1. dirty' \in BOOLEAN /\ updates' \subseteq Source
    BY <1>2 DEF TickBegin
  <2>2. pos' \in 1..(Len(plan) + 1) /\ state' \in [Source -> Version \cup {None}]
    BY <1>2 DEF TickBegin
  <2> QED
    BY <1>2, <2>1, <2>2 DEF TickBegin
<1>3. CASE GitSource
  BY <1>3 DEF GitSource, TickAborted
<1>4. CASE CheckVersion
  <2>1. pos \in Source /\ published[pos] \in Version
    BY <1>4 DEF CheckVersion, AtSource
  <2>2. CASE Trouble("check_error") /\ NextSource /\ UNCHANGED <<memory, latest>>
    BY <1>0, <1>4, <2>1, <2>2 DEF CheckVersion, NextSource
  <2>3. CASE state' = [state EXCEPT ![pos] = published[pos]] /\ NextSource
             /\ dirty' = (dirty \/ state[pos] # published[pos])
             /\ UNCHANGED <<updates, latest, troubles>>
    BY <1>4, <2>1, <2>3 DEF CheckVersion, NextSource
  <2>4. CASE latest' = published[pos] /\ pc' = "fetch" /\ UNCHANGED <<memory, pos, troubles>>
    BY <1>4, <2>1, <2>4 DEF CheckVersion
  <2> QED
    BY <1>4, <2>2, <2>3, <2>4 DEF CheckVersion
<1>5. CASE Fetch
  BY <1>0, <1>5 DEF Fetch, AtSource, NextSource
<1>6. CASE Merge
  <2>1. CASE NextSource /\ UNCHANGED troubles
    <3>1. dirty' \in BOOLEAN /\ updates' \subseteq Source
      BY <1>6, <2>1 DEF Merge, AtSource, TickAborted, NextSource
    <3>2. /\ tree' \in [Source -> Version \cup {Torn}]
          /\ state' \in [Source -> Version \cup {None}]
      BY ZenonT(40), <1>6, <2>1 DEF Merge, AtSource, TickAborted, NextSource
    <3> QED
      BY <1>6, <2>1, <3>1, <3>2 DEF Merge, AtSource, NextSource
  <2>2. CASE Trouble("io_error") /\ TickAborted /\ UNCHANGED memory
    BY <1>0, <1>6, <2>2 DEF Merge, AtSource, TickAborted
  <2> QED
    BY <1>6, <2>1, <2>2 DEF Merge
<1>7. CASE CheckEnd
  BY <1>7 DEF CheckEnd, Return
<1>8. CASE Truncate
  BY <1>0, <1>8 DEF Truncate, Nothing, TickAborted
<1>9. CASE Write
  BY <1>0, <1>9 DEF Write, Return, TickAborted
<1>10. CASE Crash
  BY SMTT(30), <1>0, <1>10 DEF Crash, AtSource
<1>11. CASE StartAgain
  BY <1>11 DEF StartAgain
<1>12. CASE Boot
  BY SMTT(30), <1>0, <1>12 DEF Boot
<1>13. CASE UNCHANGED vars
  BY <1>13 DEF vars
<1> QED
  BY <1>1, <1>2, <1>3, <1>4, <1>5, <1>6, <1>7, <1>8, <1>9, <1>10, <1>11, <1>12, <1>13
  DEF Next, CheckOnce, Restart

\* Types, for any plan, number of versions and troubles.
THEOREM TypeCorrect == Spec => []TypeOK
BY InitTypes, NextTypes, PTL DEF Spec

-----------------------------------------------------------------------------
(* Honest records *)

\* The marketplace moves forward: what was newest is no longer, nothing else.
LEMMA PublishHonest ==
    ASSUME TypeOK, NEW r \in [Source -> Version \cup {None}], Honest(r),
           NEW s \in Source, NEW v \in Version, v > published[s],
           published' = [published EXCEPT ![s] = v], UNCHANGED <<plan, tree>>
    PROVE  \A t \in Marketplace :
               /\ plan[t].pin <= Current(r, t) /\ Current(r, t) <= published'[t]
               /\ Current(r, t) = published'[t] => tree[t] = published'[t]
<1>1. \A t \in Source : Current(r, t) \in Nat /\ published[t] \in Nat
  BY PlanTypes, VersionTypes DEF TypeOK, Current
<1>2. \A t \in Source : published'[t] = IF t = s THEN v ELSE published[t]
  BY DEF TypeOK
<1> QED
  BY <1>1, <1>2, VersionTypes DEF Honest, Marketplace

\* The start of the record.
LEMMA InitHonest == Init => HonestInv
<1> SUFFICES ASSUME Init PROVE HonestInv
  OBVIOUS
<1>1. \A s \in Source : published[s] \in Nat /\ plan[s].pin \in Nat
  BY PlanTypes, VersionTypes DEF Init
<1>2. Honest(Nothing)
  <2> SUFFICES ASSUME NEW s \in Marketplace
               PROVE  /\ plan[s].pin <= Current(Nothing, s)
                      /\ Current(Nothing, s) <= published[s]
                      /\ Current(Nothing, s) = published[s] => tree[s] = published[s]
    BY DEF Honest
  <2>1. s \in Source /\ Current(Nothing, s) = plan[s].pin
    BY DEF Marketplace, Nothing, Current
  <2>2. /\ built[s] = IF plan[s].pin = None THEN published[s] ELSE plan[s].pin
        /\ published[s] >= built[s] /\ tree[s] = built[s] /\ published[s] \in Version
    BY <2>1 DEF Init
  <2> QED
    BY <1>1, <2>1, <2>2, VersionTypes DEF None
<1>3. file = Nothing /\ pc = "sleep"
  BY DEF Init
<1> QED
  BY <1>2, <1>3 DEF HonestInv, InTick, StillToCome, FetchesNewer

\* A merge of the version fetched, whole or in part, leaves a record honest that
\* shows an older one for its source.
LEMMA MergeHonest ==
    ASSUME TypeOK, NEW r \in [Source -> Version \cup {None}], Honest(r),
           pos \in Marketplace, Current(r, pos) < latest, latest <= published[pos],
           \A s \in Source \ {pos} : tree'[s] = tree[s],
           UNCHANGED <<plan, published>>
    PROVE  \A s \in Marketplace :
               /\ plan[s].pin <= Current(r, s) /\ Current(r, s) <= published[s]
               /\ Current(r, s) = published[s] => tree'[s] = published[s]
<1>1. \A s \in Source : Current(r, s) \in Nat /\ published[s] \in Nat
  BY PlanTypes, VersionTypes DEF TypeOK, Current
<1>2. latest \in Nat /\ Marketplace \subseteq Source
  BY VersionTypes DEF TypeOK, Marketplace
<1>3. Current(r, pos) # published[pos]
  BY <1>1, <1>2
<1> QED
  BY <1>2, <1>3 DEF Honest

\* Whatever was honest stays so while plan, trees and marketplace stay as they are.
LEMMA SameHonest ==
    ASSUME NEW r, Honest(r), UNCHANGED <<plan, published, tree>>
    PROVE  \A s \in Marketplace :
               /\ plan[s].pin <= Current(r, s) /\ Current(r, s) <= published'[s]
               /\ Current(r, s) = published'[s] => tree'[s] = published'[s]
BY DEF Honest

\* Every step of a host whose trees have one writer keeps its records honest.
LEMMA NextHonest == IInv /\ [Next]_vars => HonestInv'
<1> SUFFICES ASSUME IInv, [Next]_vars, Forward' PROVE HonestInv'
  BY DEF HonestInv
<1>t. TypeOK /\ TypeOK'
  BY NextTypes DEF IInv
<1>p. plan' = plan /\ mode' = mode
  BY DEF Next, CheckOnce, Restart, TickBegin, GitSource, CheckVersion, Fetch, Merge,
         CheckEnd, Truncate, Write, StartAgain, Boot, Crash, Publish, vars, market
<1>s. Source' = Source /\ Marketplace' = Marketplace /\ Nothing' = Nothing
  BY <1>p DEF Source, Marketplace, Nothing
<1>f. Forward
  BY <1>p DEF Forward, Next, CheckOnce, Restart, TickBegin, GitSource, CheckVersion, Fetch, Merge,
         CheckEnd, Truncate, Write, StartAgain, Boot, Crash, Publish, vars, troubles, Trouble
<1>i. /\ Honest(Nothing) /\ Honest(file)
      /\ InTick => Honest(state)
      /\ StillToCome /\ FetchesNewer /\ pc # "boot"
  BY <1>f DEF IInv, HonestInv
<1>n. /\ Len(plan) \in Nat /\ Source = 1..Len(plan) /\ Marketplace \subseteq Source
      /\ \A s \in Source : published[s] \in Nat /\ plan[s].pin \in Nat
      /\ latest \in Nat /\ pos \in Nat
  <2>1. Marketplace \subseteq Source
    BY DEF Marketplace
  <2>2. \A s \in Source : published[s] \in Nat /\ plan[s].pin \in Nat
    BY <1>t, PlanTypes, VersionTypes DEF TypeOK
  <2>3. Len(plan) \in Nat /\ Source = 1..Len(plan)
    BY <1>t, PlanTypes DEF TypeOK
  <2>4. latest \in Nat /\ pos \in Nat
    BY <1>t, <2>3, VersionTypes DEF TypeOK
  <2> QED
    BY <2>1, <2>2, <2>3, <2>4
<1>r. /\ Nothing \in [Source -> Version \cup {None}]
      /\ file \in [Source -> Version \cup {None}] /\ state \in [Source -> Version \cup {None}]
  BY <1>t DEF TypeOK, Nothing
<1> USE <1>p, <1>s, <1>n
\* The trees and the marketplace as they were.
<1>a. ASSUME UNCHANGED <<tree, published>>
      PROVE  /\ Honest(Nothing)'
             /\ file' = file => Honest(file)'
             /\ file' = Nothing => Honest(file)'
             /\ file' = state /\ InTick => Honest(file)'
             /\ state' = state /\ InTick => Honest(state)'
             /\ state' = file => Honest(state)'
  <2>1. ASSUME NEW r, Honest(r)
        PROVE  \A s \in Marketplace :
                 /\ plan[s].pin <= Current(r, s) /\ Current(r, s) <= published'[s]
                 /\ Current(r, s) = published'[s] => tree'[s] = published'[s]
    BY <2>1, <1>a, SameHonest
  <2>2. Honest(Nothing)'
    BY <2>1, <1>i DEF Honest, Current
  <2>3. file' = file => Honest(file)'
    BY <2>1, <1>i DEF Honest, Current
  <2>4. file' = Nothing => Honest(file)'
    BY <2>1, <1>i DEF Honest, Current
  <2>5. file' = state /\ InTick => Honest(file)'
    BY SMTT(30), <2>1, <1>i DEF Honest, Current
  <2>6. state' = state /\ InTick => Honest(state)'
    BY SMTT(30), <2>1, <1>i DEF Honest, Current
  <2>7. state' = file => Honest(state)'
    BY <2>1, <1>i DEF Honest, Current
  <2> QED
    BY <2>2, <2>3, <2>4, <2>5, <2>6, <2>7
<1>1. ASSUME NEW s \in Source, NEW v \in Version, Publish(s, v) PROVE HonestInv'
  <2>1. v > published[s] /\ published' = [published EXCEPT ![s] = v]
        /\ UNCHANGED <<tree, file, state, pc, pos, latest>>
    BY <1>1 DEF Publish, Trouble, Forward, memory
  <2>2. Honest(Nothing)' /\ Honest(file)' /\ (InTick' => Honest(state)')
    <3>1. ASSUME NEW r \in [Source -> Version \cup {None}], Honest(r)
          PROVE  \A t \in Marketplace :
                   /\ plan[t].pin <= Current(r, t) /\ Current(r, t) <= published'[t]
                   /\ Current(r, t) = published'[t] => tree[t] = published'[t]
      BY <3>1, <2>1, <1>t, PublishHonest
    <3>2. Honest(Nothing)'
      BY <3>1, <2>1, <1>i, <1>r DEF Honest, Current
    <3>3. Honest(file)'
      BY SMTT(30), <3>1, <2>1, <1>i, <1>r DEF Honest, Current
    <3>4. InTick' => InTick
      BY <2>1 DEF InTick
    <3>5. InTick => Honest(state)'
      BY ZenonT(40), <3>1, <2>1, <1>i, <1>r DEF Honest, Current
    <3> QED
      BY <3>2, <3>3, <3>4, <3>5
  <2>3. StillToCome' /\ pc' # "boot"
    BY <2>1, <1>i DEF StillToCome
  <2>4. FetchesNewer'
    <3>1. published'[pos] >= published[pos] \/ pos \notin Source
      BY <2>1, <1>t, VersionTypes DEF TypeOK
    <3>2. published'[pos] \in Nat \/ pos \notin Source
      BY <1>t, VersionTypes DEF TypeOK
    <3> QED
      BY <2>1, <3>1, <3>2, <1>i DEF FetchesNewer, Current
  <2> QED
    BY <2>2, <2>3, <2>4 DEF HonestInv
<1>2. CASE TickBegin
  BY <1>2, <1>a DEF TickBegin, market, HonestInv, StillToCome, FetchesNewer
<1>3. CASE GitSource
  BY <1>3, <1>a DEF GitSource, TickAborted, market, HonestInv, StillToCome, FetchesNewer, InTick
<1>4. CASE CheckVersion
  <2>1. /\ pos \in Marketplace /\ pc = "check" /\ InTick
        /\ UNCHANGED <<tree, published, file>>
    BY <1>4 DEF CheckVersion, AtSource, Marketplace, market, InTick
  <2>2. Current(state, pos) \in Nat /\ Current(state, pos) <= published[pos]
    <3>1. Honest(state)
      BY <2>1, <1>i
    <3>2. Current(state, pos) \in Nat
      BY <2>1, <1>r, VersionTypes DEF Current
    <3> QED
      BY <2>1, <3>1, <3>2 DEF Honest
  <2>3. CASE Trouble("check_error") /\ NextSource /\ UNCHANGED <<memory, latest>>
    BY <2>1, <2>3, <1>a, <1>i
    DEF NextSource, memory, HonestInv, StillToCome, FetchesNewer
  <2>4. CASE Current(state, pos) = published[pos] /\ NextSource
             /\ state' = [state EXCEPT ![pos] = published[pos]]
    <3>1. Honest(state)'
      <4>1. \A t \in Source \ {pos} : Current(state', t) = Current(state, t)
        BY <2>4, <1>r DEF Current
      <4>2. Current(state', pos) = published[pos]
        <5>1. published[pos] # None
          BY <1>t, <2>1, VersionTypes DEF TypeOK
        <5> QED
          BY <2>1, <2>4, <5>1, <1>r DEF Current
      <4>3. ASSUME NEW t \in Marketplace
            PROVE  /\ plan[t].pin <= Current(state', t) /\ Current(state', t) <= published[t]
                   /\ Current(state', t) = published[t] => tree[t] = published[t]
        <5>1. Honest(state)
          BY <2>1, <1>i
        <5>2. CASE t = pos
          <6>1. /\ plan[pos].pin <= Current(state, pos)
                /\ Current(state, pos) = published[pos] => tree[pos] = published[pos]
            BY <2>1, <5>1 DEF Honest
          <6> QED
            BY <2>1, <2>4, <4>2, <5>2, <6>1
        <5>3. CASE t # pos
          BY <4>1, <5>1, <5>3 DEF Honest
        <5> QED
          BY <5>2, <5>3
      <4> QED
        BY <2>1, <4>3 DEF Honest, Current
    <3>2. StillToCome'
      BY <2>1, <2>4, <1>i, <1>r DEF StillToCome, NextSource
    <3> QED
      BY <2>1, <2>4, <3>1, <3>2, <1>a DEF NextSource, HonestInv, FetchesNewer
  <2>5. CASE Current(state, pos) # published[pos] /\ latest' = published[pos] /\ pc' = "fetch"
             /\ UNCHANGED <<memory, pos, troubles>>
    <3>1. FetchesNewer'
      BY <2>1, <2>2, <2>5 DEF FetchesNewer, memory, Current
    <3> QED
      BY <2>1, <2>5, <3>1, <1>a, <1>i DEF memory, HonestInv, StillToCome
  <2> QED
    BY <1>4, <2>3, <2>4, <2>5 DEF CheckVersion
<1>5. CASE Fetch
  <2>1. pc = "fetch" /\ InTick /\ UNCHANGED <<tree, published, file, state, latest>>
    BY <1>5 DEF Fetch, AtSource, market, memory, InTick
  <2> QED
    BY <1>5, <2>1, <1>a, <1>i
    DEF Fetch, NextSource, HonestInv, StillToCome, FetchesNewer, Current
\* While a tree is being merged into, its records show an older version.
<1>m. ASSUME pc = "copy", \A t \in Source \ {pos} : tree'[t] = tree[t], published' = published
      PROVE  /\ Honest(Nothing)'
             /\ file' = file => Honest(file)'
  <2>1. pos \in Marketplace /\ Current(state, pos) < latest /\ latest <= published[pos]
    BY <1>m, <1>i DEF FetchesNewer
  <2>2. state[pos] = file[pos]
    BY <1>m, <2>1, <1>i DEF StillToCome
  <2>3. Current(file, pos) < latest
    BY <2>1, <2>2 DEF Current
  <2>4. Current(Nothing, pos) <= Current(state, pos)
    <3>1. Honest(state)
      BY <1>m, <1>i DEF InTick
    <3>2. Current(Nothing, pos) = plan[pos].pin
      BY <2>1 DEF Current, Nothing
    <3> QED
      BY <2>1, <3>1, <3>2 DEF Honest
  <2>5. Current(Nothing, pos) < latest
    <3>1. Current(Nothing, pos) \in Nat /\ Current(state, pos) \in Nat
      BY <2>1, <1>r, VersionTypes DEF Current
    <3> QED
      BY <2>1, <2>4, <3>1
  <2> QED
    <3>1. ASSUME NEW r \in [Source -> Version \cup {None}], Honest(r), Current(r, pos) < latest
          PROVE  \A t \in Marketplace :
                   /\ plan[t].pin <= Current(r, t) /\ Current(r, t) <= published[t]
                   /\ Current(r, t) = published[t] => tree'[t] = published[t]
      BY <1>m, <1>t, <2>1, <3>1, MergeHonest
    <3>2. Honest(Nothing)'
      BY ZenonT(40), <3>1, <2>5, <1>m, <1>i, <1>r DEF Honest, Current
    <3>3. file' = file => Honest(file)'
      BY ZenonT(40), <3>1, <2>3, <1>m, <1>i, <1>r DEF Honest, Current
    <3> QED
      BY <3>2, <3>3
<1>6. CASE Merge
  <2>1. pc = "copy" /\ pos \in Marketplace /\ UNCHANGED <<published, file>> /\ InTick
    BY <1>6, <1>i DEF Merge, AtSource, market, FetchesNewer, InTick
  <2>2. \A t \in Source \ {pos} : tree'[t] = tree[t]
    BY <1>6, <1>t DEF Merge, TypeOK
  <2>3. Honest(Nothing)' /\ Honest(file)'
    BY <1>m, <2>1, <2>2
  <2>4. CASE tree' = [tree EXCEPT ![pos] = latest] /\ state' = [state EXCEPT ![pos] = latest]
             /\ NextSource
    <3>1. \A t \in Source \ {pos} : Current(state', t) = Current(state, t)
      BY <2>4, <1>r DEF Current
    <3>2. Current(state', pos) = latest /\ tree'[pos] = latest
      <4>1. latest # None
        BY <1>t, VersionTypes DEF TypeOK
      <4> QED
        BY <2>1, <2>4, <4>1, <1>r, <1>t DEF Current, TypeOK
    <3>3. Honest(state)'
      <4>1. Honest(state) /\ Current(state, pos) < latest /\ latest <= published[pos]
        <5>1. Honest(state)
          BY <2>1, <1>i
        <5> QED
          BY <2>1, <5>1, <1>i DEF FetchesNewer
      <4>2. plan[pos].pin <= Current(state, pos) /\ Current(state, pos) \in Nat
        BY <2>1, <4>1, <1>r, VersionTypes DEF Honest, Current
      <4>3. ASSUME NEW t \in Marketplace
            PROVE  /\ plan[t].pin <= Current(state', t) /\ Current(state', t) <= published[t]
                   /\ Current(state', t) = published[t] => tree'[t] = published[t]
        BY <2>1, <2>2, <3>1, <3>2, <4>1, <4>2 DEF Honest
      <4> QED
        BY <2>1, <4>3 DEF Honest, Current
    <3>4. StillToCome'
      BY <2>1, <2>4, <1>i, <1>r DEF StillToCome, NextSource
    <3> QED
      BY <2>3, <2>4, <3>3, <3>4 DEF NextSource, HonestInv, FetchesNewer
  <2>5. CASE TickAborted
    BY <2>3, <2>5 DEF TickAborted, HonestInv, StillToCome, FetchesNewer, InTick
  <2> QED
    BY <1>6, <2>4, <2>5 DEF Merge
<1>7. CASE CheckEnd
  BY <1>7, <1>a
  DEF CheckEnd, Return, market, memory, HonestInv, StillToCome, FetchesNewer, InTick
<1>8. CASE Truncate
  BY <1>8, <1>a
  DEF Truncate, TickAborted, market, memory, HonestInv, StillToCome, FetchesNewer, InTick
<1>9. CASE Write
  BY <1>9, <1>a
  DEF Write, Return, TickAborted, market, memory, HonestInv, StillToCome, FetchesNewer, InTick
<1>10. CASE Crash
  <2>1. pc' = "exited" /\ UNCHANGED <<file, published>>
    BY <1>10 DEF Crash, market
  <2>2. Honest(Nothing)' /\ Honest(file)'
    <3>1. CASE UNCHANGED tree
      BY <2>1, <3>1, <1>a
    <3>2. CASE AtSource("copy") /\ \E left \in {Torn, latest} : tree' = [tree EXCEPT ![pos] = left]
      BY <2>1, <3>2, <1>m, <1>t DEF AtSource, TypeOK
    <3> QED
      BY <1>10, <3>1, <3>2 DEF Crash
  <2> QED
    BY <2>1, <2>2 DEF HonestInv, StillToCome, FetchesNewer, InTick
<1>11. CASE StartAgain
  BY <1>11, <1>a, <1>f
  DEF StartAgain, market, memory, HonestInv, StillToCome, FetchesNewer, InTick, Forward
<1>12. CASE Boot
  BY <1>12, <1>i DEF Boot
<1>13. CASE UNCHANGED vars
  BY <1>13, <1>a, <1>i
  DEF vars, HonestInv, StillToCome, FetchesNewer, InTick, Current
<1> QED
  BY <1>1, <1>2, <1>3, <1>4, <1>5, <1>6, <1>7, <1>8, <1>9, <1>10, <1>11, <1>12, <1>13
  DEF Next, CheckOnce, Restart

\* IInv holds in every reachable state.
THEOREM InductiveInvariant == Spec => []IInv
<1>1. IInv /\ [Next]_vars => IInv'
  BY NextTypes, NextHonest DEF IInv
<1> QED
  BY <1>1, InitTypes, InitHonest, PTL DEF Spec, IInv

\* What the next tick would take for up to date is, for any sources and pins, and
\* whatever fetch, merge, crash or truncated record the last one ended with.
THEOREM UpToDateCorrect == Spec => []UpToDateIsReal
<1>1. IInv => UpToDateIsReal
  BY DEF IInv, HonestInv, Honest, UpToDateIsReal
<1> QED
  BY <1>1, InductiveInvariant, PTL
=============================================================================
