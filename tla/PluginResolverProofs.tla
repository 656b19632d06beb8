------------------------ MODULE PluginResolverProofs ------------------------
(***************************************************************************)
(* Proofs about PluginResolver, for any processes, sources, revisions and    *)
(* faults: what a marker promises, and what resolve() returns.               *)
(***************************************************************************)
EXTENDS PluginResolver, TLAPS

\* A call that has the directory of its source to itself and has not marked it.
Fetching == {"remove", "fetch", "extract", "extract_rest", "mark", "cleanup"}
Labels == Fetching \cup {"idle", "returned"}

Revision == 1..Revisions

\* c is a file of a source that is kept in directory k.
Belongs(c, k) ==
    \E s \in Sources, r \in Revision : c = [of |-> s, revision |-> r] /\ Key(s) = k

Types ==
    /\ serves \in [Sources -> Revision]
    /\ files \in [Keys -> [File -> Content]]
    /\ marker \in [Keys -> BOOLEAN]
    /\ pc \in [Processes -> Labels]
    /\ source \in [Processes -> Sources]
    /\ got \in [Processes -> Content]
    /\ overlapped \in BOOLEAN

\* A directory with a marker has a tree, whole and of one revision.
MarkedIsWhole ==
    \A k \in Keys : marker[k] =>
        /\ Belongs(files[k][1], k)
        /\ files[k][2] = files[k][1]

\* Who fetches does so because there is no marker, and who has returned found
\* one; what a call has fetched is of its source, and what it has extracted so far
\* is what it has fetched.
CallInv(p) ==
    /\ pc[p] \in Fetching => ~marker[K(p)]
    /\ pc[p] = "returned" => marker[K(p)]
    /\ pc[p] \in {"extract", "extract_rest", "mark"} => Belongs(got[p], K(p))
    /\ pc[p] \in {"extract_rest", "mark"} => files[K(p)][1] = got[p]
    /\ pc[p] = "mark" => files[K(p)][2] = got[p]

\* All of it as long as no two calls for one directory have been under way
\* together, which is recorded when it happens.
CacheInv == ~overlapped => ~Overlap /\ MarkedIsWhole /\ \A p \in Processes : CallInv(p)

IInv == Types /\ CacheInv

-----------------------------------------------------------------------------
(* Lemmas *)

LEMMA KeyTyped == ASSUME NEW s \in Sources PROVE Key(s) \in Keys
BY DEF Keys

LEMMA BelongsTyped == ASSUME NEW c, NEW k, Belongs(c, k) PROVE c \in Content /\ c # Nothing
<1>1. PICK s \in Sources, r \in Revision : c = [of |-> s, revision |-> r]
  BY DEF Belongs
<1>2. r # 0
  BY DEF Revision
<1> QED
  BY <1>1, <1>2 DEF Content, Nothing, Revision

LEMMA NothingTyped == Nothing \in Content
BY DEF Content

LEMMA FilesTyped ==
    ASSUME NEW t \in [Keys -> [File -> Content]], NEW k \in Keys, NEW f \in File, NEW c \in Content
    PROVE  /\ [t EXCEPT ![k][f] = c] \in [Keys -> [File -> Content]]
           /\ \A j \in Keys, g \in File :
                 [t EXCEPT ![k][f] = c][j][g] = IF j = k /\ g = f THEN c ELSE t[j][g]
BY DEF File

LEMMA InitInv == Init => IInv
<1> SUFFICES ASSUME Init PROVE IInv
  OBVIOUS
<1>1. Types
  <2>1. 1 \in Revision
    BY ResolverConstants DEF Revision
  <2>2. files \in [Keys -> [File -> Content]]
    BY NothingTyped DEF Init
  <2> QED
    BY <2>1, <2>2, NothingTyped DEF Init, Types, Labels
<1>2. CacheInv
  BY DEF Init, CacheInv, Overlap, MarkedIsWhole, CallInv, Fetching
<1> QED
  BY <1>1, <1>2 DEF IInv

-----------------------------------------------------------------------------
(* Types *)

LEMMA NextTypes == Types /\ [Next]_vars => Types'
<1> SUFFICES ASSUME Types, [Next]_vars PROVE Types'
  OBVIOUS
<1> USE DEF Types, Labels, Fetching, Goto, K, cache, Outcome
<1>0. Next => overlapped' \in BOOLEAN
  BY DEF Next
<1>1. ASSUME NEW p \in Processes, NEW s \in Sources, LookUp(p, s), Next PROVE Types'
  BY <1>0, <1>1 DEF LookUp
<1>2. ASSUME NEW p \in Processes, Remove(p), Next PROVE Types'
  <2>1. Key(source[p]) \in Keys
    BY KeyTyped
  <2>2. ASSUME NEW f \in File, files' = [files EXCEPT ![Key(source[p])][f] = Nothing]
        PROVE  files' \in [Keys -> [File -> Content]]
    BY <2>1, <2>2, FilesTyped, NothingTyped
  <2>3. files' \in [Keys -> [File -> Content]]
    BY <1>2, <2>2 DEF Remove
  <2> QED
    BY <1>0, <1>2, <2>1, <2>3 DEF Remove
<1>3. ASSUME NEW p \in Processes, RemoveFails(p) \/ Crash(p), Next PROVE Types'
  BY <1>0, <1>3 DEF RemoveFails, Crash
<1>4. ASSUME NEW p \in Processes, Fetch(p), Next PROVE Types'
  <2>1. [of |-> source[p], revision |-> serves[source[p]]] \in Content
    BY DEF Content, Revision
  <2> QED
    BY <1>0, <1>4, <2>1 DEF Fetch
<1>5. ASSUME NEW p \in Processes, Extract(p) \/ ExtractRest(p), Next PROVE Types'
  <2>1. Key(source[p]) \in Keys /\ 1 \in File /\ 2 \in File
    BY KeyTyped DEF File
  <2>2. ASSUME NEW f \in File, files' = [files EXCEPT ![Key(source[p])][f] = got[p]]
        PROVE  files' \in [Keys -> [File -> Content]]
    BY <2>1, <2>2, FilesTyped
  <2>3. files' \in [Keys -> [File -> Content]]
    BY <1>5, <2>1, <2>2 DEF Extract, ExtractRest
  <2> QED
    BY <1>0, <1>5, <2>3 DEF Extract, ExtractRest
<1>6. ASSUME NEW p \in Processes, Mark(p) \/ Copied(p), Next PROVE Types'
  BY <1>0, <1>6 DEF Mark, Copied
<1>7. ASSUME NEW s \in Sources, Update(s), Next PROVE Types'
  BY <1>0, <1>7, ResolverConstants DEF Update, Revision
<1>8. CASE UNCHANGED vars
  BY <1>8 DEF vars, cache
<1> QED
  BY <1>1, <1>2, <1>3, <1>4, <1>5, <1>6, <1>7, <1>8 DEF Next, Resolve

-----------------------------------------------------------------------------
(* The cache *)

\* Two calls under way are for different directories.
LEMMA Apart ==
    ASSUME ~Overlap, NEW p \in Processes, NEW q \in Processes, p # q,
           pc[p] # "idle", pc[q] # "idle"
    PROVE  K(p) # K(q)
BY DEF Overlap

\* A step that writes to the directory of one call, which is not marked yet,
\* leaves the others' directories and every marked one alone.
LEMMA OwnDirectory ==
    ASSUME Types, CacheInv, ~overlapped, NEW p \in Processes, pc[p] \in Fetching,
           \A k \in Keys : k # K(p) => files'[k] = files[k] /\ marker'[k] = marker[k]
    PROVE  /\ \A k \in Keys : marker[k] => files'[k] = files[k] /\ marker'[k] = marker[k]
           /\ \A q \in Processes : q # p /\ pc[q] # "idle" =>
                 files'[K(q)] = files[K(q)] /\ marker'[K(q)] = marker[K(q)]
<1>1. ~marker[K(p)]
  BY DEF CacheInv, CallInv
<1>2. \A q \in Processes : K(q) \in Keys
  BY KeyTyped DEF Types, K
<1>3. \A q \in Processes : q # p /\ pc[q] # "idle" => K(q) # K(p)
  BY Apart DEF CacheInv, Fetching
<1> QED
  BY <1>1, <1>2, <1>3

\* A step of p that changes no other call, nor the directory of any, keeps what
\* is true of the others.
LEMMA OthersKeep ==
    ASSUME Types, CacheInv, ~overlapped, NEW p \in Processes,
           \A q \in Processes \ {p} : pc'[q] = pc[q] /\ source'[q] = source[q] /\ got'[q] = got[q],
           \A q \in Processes \ {p} : pc[q] # "idle" =>
               files'[K(q)] = files[K(q)] /\ marker'[K(q)] = marker[K(q)]
    PROVE  \A q \in Processes \ {p} : CallInv(q)'
<1> SUFFICES ASSUME NEW q \in Processes, q # p PROVE CallInv(q)'
  OBVIOUS
<1>1. CallInv(q) /\ pc'[q] = pc[q] /\ source'[q] = source[q] /\ got'[q] = got[q]
  BY DEF CacheInv
<1>2. K(q)' = K(q)
  BY <1>1 DEF K
<1>3. CASE pc[q] = "idle"
  BY <1>1, <1>3 DEF CallInv, Fetching
<1>4. CASE pc[q] # "idle"
  <2>1. files'[K(q)] = files[K(q)] /\ marker'[K(q)] = marker[K(q)]
    BY <1>4
  <2> QED
    BY <1>1, <1>2, <2>1 DEF CallInv, Belongs
<1> QED
  BY <1>3, <1>4

\* A step that leaves the cache alone keeps the marked directories whole.
LEMMA CacheKept ==
    ASSUME MarkedIsWhole, UNCHANGED cache
    PROVE  MarkedIsWhole'
BY DEF MarkedIsWhole, cache, Belongs

\* Who removes or extracts does so in its own directory, which is not marked.
LEMMA WritesOwn ==
    ASSUME Types, CacheInv, ~overlapped, NEW p \in Processes,
           Remove(p) \/ Extract(p) \/ ExtractRest(p)
    PROVE  /\ pc[p] \in Fetching /\ ~marker[K(p)]
           /\ \A k \in Keys : k # K(p) => files'[k] = files[k]
           /\ marker' = marker /\ source' = source /\ got' = got
           /\ \A q \in Processes \ {p} : pc'[q] = pc[q]
<1>1. pc[p] \in Fetching /\ ~marker[K(p)]
  BY DEF Remove, Extract, ExtractRest, Fetching, CacheInv, CallInv
<1>2. K(p) \in Keys
  BY KeyTyped DEF Types, K
<1>3. CASE Remove(p)
  BY <1>1, <1>2, <1>3 DEF Remove, Types, Goto, cache
<1>4. CASE Extract(p) \/ ExtractRest(p)
  BY <1>1, <1>2, <1>4 DEF Extract, ExtractRest, Types, Goto
<1> QED
  BY <1>3, <1>4

\* As long as no calls overlap, every step keeps the invariant.
LEMMA NextCache == IInv /\ [Next]_vars => CacheInv'
<1> SUFFICES ASSUME Types, CacheInv, [Next]_vars, ~overlapped' PROVE CacheInv'
  BY DEF IInv, CacheInv
<1>t. Types'
  BY NextTypes
<1>o. ~overlapped /\ ~Overlap'
  <2>1. CASE UNCHANGED vars
    BY <2>1 DEF vars, CacheInv, Overlap, K
  <2>2. CASE Next
    BY <2>2, <1>t DEF Next, Types
  <2> QED
    BY <2>1, <2>2
<1>i. MarkedIsWhole /\ \A p \in Processes : CallInv(p)
  BY <1>o DEF CacheInv
<1>k. \A p \in Processes : K(p) \in Keys /\ source[p] \in Sources
  BY KeyTyped DEF Types, K
<1>g. ASSUME NEW p \in Processes, \A q \in Processes \ {p} : CallInv(q)', CallInv(p)', MarkedIsWhole'
      PROVE  CacheInv'
  BY <1>o, <1>g DEF CacheInv
<1>1. ASSUME NEW p \in Processes, NEW s \in Sources, LookUp(p, s) PROVE CacheInv'
  <2>1. \A q \in Processes \ {p} : CallInv(q)'
    BY <1>1, <1>o, OthersKeep DEF LookUp, Goto, Types, cache
  <2>2. CallInv(p)'
    BY <1>1 DEF LookUp, Goto, Types, cache, CallInv, K, Fetching, Outcome
  <2>3. MarkedIsWhole'
    BY <1>1, <1>i, CacheKept DEF LookUp
  <2> QED
    BY <1>g, <2>1, <2>2, <2>3
<1>2. ASSUME NEW p \in Processes, Remove(p) PROVE CacheInv'
  <2>1. pc[p] \in Fetching /\ ~marker[K(p)]
    BY <1>2, <1>o, WritesOwn
  <2>2. /\ \A k \in Keys : k # K(p) => files'[k] = files[k]
        /\ marker' = marker /\ source' = source /\ got' = got
        /\ \A q \in Processes \ {p} : pc'[q] = pc[q]
    BY <1>2, <1>o, WritesOwn
  <2>3. /\ \A k \in Keys : marker[k] => files'[k] = files[k] /\ marker'[k] = marker[k]
        /\ \A q \in Processes \ {p} : pc[q] # "idle" =>
              files'[K(q)] = files[K(q)] /\ marker'[K(q)] = marker[K(q)]
    BY <1>o, <2>1, <2>2, OwnDirectory
  <2>4. \A q \in Processes \ {p} : CallInv(q)'
    BY <1>o, <2>2, <2>3, OthersKeep
  <2>5. CallInv(p)'
    <3>1. pc'[p] \in {"remove", "cleanup", "fetch", "idle"}
      BY <1>2 DEF Remove, Types, Goto
    <3> QED
      BY <2>1, <2>2, <3>1 DEF CallInv, K
  <2>6. MarkedIsWhole'
    BY <1>i, <2>2, <2>3 DEF MarkedIsWhole
  <2> QED
    BY <1>g, <2>4, <2>5, <2>6
<1>3. ASSUME NEW p \in Processes, RemoveFails(p) \/ Crash(p) \/ Copied(p) PROVE CacheInv'
  <2>1. /\ UNCHANGED <<cache, source, got>> /\ pc'[p] = "idle"
        /\ \A q \in Processes \ {p} : pc'[q] = pc[q]
    BY <1>3 DEF RemoveFails, Crash, Copied, Goto, Types
  <2>2. \A q \in Processes \ {p} : CallInv(q)'
    BY <1>o, <2>1, OthersKeep DEF cache
  <2>3. CallInv(p)'
    BY <2>1 DEF CallInv, Fetching
  <2>4. MarkedIsWhole'
    BY <1>i, <2>1, CacheKept
  <2> QED
    BY <1>g, <2>2, <2>3, <2>4
<1>4. ASSUME NEW p \in Processes, Fetch(p) PROVE CacheInv'
  <2>1. /\ UNCHANGED <<cache, source>>
        /\ \A q \in Processes \ {p} : pc'[q] = pc[q] /\ got'[q] = got[q]
        /\ pc'[p] \in {"extract", "idle", "cleanup"}
        /\ pc'[p] = "extract" =>
             got'[p] = [of |-> source[p], revision |-> serves[source[p]]]
    BY <1>4 DEF Fetch, Goto, Types
  <2>2. \A q \in Processes \ {p} : CallInv(q)'
    BY <1>o, <2>1, OthersKeep DEF cache
  <2>3. ~marker[K(p)]
    BY <1>4, <1>i DEF Fetch, CallInv, Fetching
  <2>4. pc'[p] = "extract" => Belongs(got'[p], K(p))
    BY <2>1, <1>k DEF Belongs, K, Types
  <2>5. CallInv(p)'
    BY <2>1, <2>3, <2>4 DEF CallInv, K, cache, Belongs
  <2>6. MarkedIsWhole'
    BY <1>i, <2>1, CacheKept
  <2> QED
    BY <1>g, <2>2, <2>5, <2>6
<1>5. ASSUME NEW p \in Processes, Extract(p) \/ ExtractRest(p) PROVE CacheInv'
  <2>1. pc[p] \in Fetching /\ ~marker[K(p)] /\ Belongs(got[p], K(p))
    BY <1>5, <1>i DEF Extract, ExtractRest, Fetching, CallInv
  <2>2. /\ \A k \in Keys : k # K(p) => files'[k] = files[k]
        /\ marker' = marker /\ source' = source /\ got' = got
        /\ \A q \in Processes \ {p} : pc'[q] = pc[q]
    BY <1>5, <1>o, WritesOwn
  <2>3. /\ \A k \in Keys : marker[k] => files'[k] = files[k] /\ marker'[k] = marker[k]
        /\ \A q \in Processes \ {p} : pc[q] # "idle" =>
              files'[K(q)] = files[K(q)] /\ marker'[K(q)] = marker[K(q)]
    BY <1>o, <2>1, <2>2, OwnDirectory
  <2>4. \A q \in Processes \ {p} : CallInv(q)'
    BY <1>o, <2>2, <2>3, OthersKeep
  <2>5. /\ pc'[p] \in {"extract_rest", "mark", "cleanup", "idle"}
        /\ pc'[p] \in {"extract_rest", "mark"} => files'[K(p)][1] = got[p]
        /\ pc'[p] = "mark" => files'[K(p)][2] = got[p]
    BY <1>5, <1>k, <1>i DEF Extract, ExtractRest, Types, Goto, File, CallInv
  <2>6. CallInv(p)'
    BY <2>1, <2>2, <2>5 DEF CallInv, K, Belongs
  <2>7. MarkedIsWhole'
    BY <1>i, <2>2, <2>3 DEF MarkedIsWhole
  <2> QED
    BY <1>g, <2>4, <2>6, <2>7
<1>6. ASSUME NEW p \in Processes, Mark(p) PROVE CacheInv'
  <2>1. /\ pc[p] \in Fetching /\ Belongs(got[p], K(p))
        /\ files[K(p)][1] = got[p] /\ files[K(p)][2] = got[p]
    BY <1>6, <1>i DEF Mark, Fetching, CallInv
  <2>2. Exists(K(p))
    BY <2>1, BelongsTyped DEF Exists, File
  <2>3. /\ files' = files /\ source' = source /\ got' = got
        /\ marker' = [marker EXCEPT ![K(p)] = TRUE]
        /\ pc'[p] \in {"returned", "idle"}
        /\ \A q \in Processes \ {p} : pc'[q] = pc[q]
    BY <1>6, <2>2 DEF Mark, Types, Goto, Outcome
  <2>4. /\ marker'[K(p)]
        /\ \A k \in Keys : k # K(p) => files'[k] = files[k] /\ marker'[k] = marker[k]
    BY <1>k, <2>3 DEF Types
  <2>5. \A q \in Processes \ {p} : pc[q] # "idle" =>
            files'[K(q)] = files[K(q)] /\ marker'[K(q)] = marker[K(q)]
    BY <1>o, <2>1, <2>4, OwnDirectory
  <2>6. \A q \in Processes \ {p} : CallInv(q)'
    BY <1>o, <2>3, <2>5, OthersKeep
  <2>7. CallInv(p)'
    BY <2>3, <2>4 DEF CallInv, K, Fetching
  <2>8. MarkedIsWhole'
    BY <1>i, <2>1, <2>3, <2>4 DEF MarkedIsWhole
  <2> QED
    BY <1>g, <2>6, <2>7, <2>8
<1>7. CASE UNCHANGED <<cache, pc, source, got>>
  <2>1. MarkedIsWhole'
    BY <1>7, <1>i, CacheKept
  <2>2. \A p \in Processes : CallInv(p)'
    BY <1>7, <1>i DEF CallInv, K, cache
  <2> QED
    BY <1>o, <2>1, <2>2 DEF CacheInv
<1>8. CASE UNCHANGED vars
  BY <1>7, <1>8 DEF vars, cache
<1>9. ASSUME NEW s \in Sources, Update(s) PROVE CacheInv'
  BY <1>7, <1>9 DEF Update
<1> QED
  BY <1>1, <1>2, <1>3, <1>4, <1>5, <1>6, <1>8, <1>9 DEF Next, Resolve

-----------------------------------------------------------------------------
(* What the cache promises *)

\* For any processes, sources and faults, as long as no calls for one directory
\* overlap: a marked directory holds one revision of one source, whole.
THEOREM InductiveInvariant == Spec => []IInv
<1>1. IInv /\ [Next]_vars => IInv'
  BY NextTypes, NextCache DEF IInv
<1> QED
  BY <1>1, InitInv, PTL DEF Spec

\* No two sources are kept in one directory: neither is a git ref pinned in two
\* repositories for one plugin, nor a version for two slugs.
DistinctKeys == \A s, t \in Sources : Key(s) = Key(t) => s = t

\* What resolve() returns is the source it was asked for, all of it and of one
\* revision, whatever failed before.
THEOREM ReturnsCorrect == ASSUME DistinctKeys PROVE Spec => []ReturnsSource
<1>1. IInv => ReturnsSource
  <2> SUFFICES ASSUME IInv, ~overlapped, NEW p \in Processes, pc[p] = "returned"
               PROVE  \E r \in 1..Revisions :
                         \A f \in File : files[K(p)][f] = [of |-> source[p], revision |-> r]
    BY DEF ReturnsSource
  <2>1. K(p) \in Keys /\ source[p] \in Sources
    BY KeyTyped DEF IInv, Types, K
  <2>2. Belongs(files[K(p)][1], K(p)) /\ files[K(p)][2] = files[K(p)][1]
    BY <2>1 DEF IInv, CacheInv, CallInv, MarkedIsWhole
  <2>3. PICK s \in Sources, r \in Revision :
            files[K(p)][1] = [of |-> s, revision |-> r] /\ Key(s) = K(p)
    BY <2>2 DEF Belongs
  <2>4. s = source[p]
    BY <2>1, <2>3 DEF DistinctKeys, K
  <2> QED
    BY <2>2, <2>3, <2>4 DEF File, Revision
<1> QED
  BY <1>1, InductiveInvariant, PTL

\* A directory with a marker never changes, whoever calls, fails or dies.
THEOREM ResolvedForGoodCorrect == Spec => ResolvedForGood
<1> DEFINE Kept == \A k \in Keys : marker[k] => marker'[k] /\ files'[k] = files[k]
<1>1. ASSUME Types, CacheInv, Next, ~overlapped' PROVE Kept
  <2>1. ~overlapped
    BY <1>1 DEF Next, Types
  <2>2. CASE UNCHANGED cache
    BY <2>2 DEF cache
  <2>3. ASSUME NEW p \in Processes, Remove(p) \/ Extract(p) \/ ExtractRest(p)
        PROVE  Kept
    BY <1>1, <2>1, <2>3, WritesOwn
  <2>4. ASSUME NEW p \in Processes, Mark(p) PROVE Kept
    BY <1>1, <2>4 DEF Mark, Types
  <2>5. ASSUME NEW p \in Processes, NEW s \in Sources, LookUp(p, s) PROVE UNCHANGED cache
    BY <2>5 DEF LookUp
  <2>6. ASSUME NEW s \in Sources, Update(s) PROVE UNCHANGED cache
    BY <2>6 DEF Update
  <2>7. ASSUME NEW p \in Processes, RemoveFails(p) \/ Fetch(p) \/ Copied(p) \/ Crash(p)
        PROVE  UNCHANGED cache
    BY <2>7 DEF RemoveFails, Fetch, Copied, Crash
  <2> QED
    BY <1>1, <2>2, <2>3, <2>4, <2>5, <2>6, <2>7 DEF Next, Resolve
<1>2. IInv /\ [Next]_vars => [~overlapped' => Kept]_vars
  BY <1>1 DEF IInv
<1> QED
  BY <1>2, InductiveInvariant, PTL DEF Spec, ResolvedForGood
=============================================================================
