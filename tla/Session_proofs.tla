--------------------------- MODULE Session_proofs ---------------------------
(***************************************************************************)
(* That caching cannot be seen in a result and every model has one owner,  *)
(* for any requests, files, edits, failures and cancellations, and for     *)
(* sessions of any length.                                                 *)
(***************************************************************************)
EXTENDS Session, FiniteSetTheorems, TLAPS

USE SessionAssumption DEF r, Goto

(***************************************************************************)
(* Keys and what is kept under them.                                       *)
(***************************************************************************)
\* Two requests with one conditioning key encode alike, and saw one version.
LEMMA KeyDetermines ==
  ASSUME NEW q \in Requests, NEW p \in Requests, NEW n, NEW k,
         ConditioningKey(q, n) = ConditioningKey(p, k)
  PROVE  /\ n = k /\ q.ref = p.ref /\ q.media = p.media
         /\ \A s, v : Encoding(q, s, v) = Encoding(p, s, v)
  BY DEF ConditioningKey, Encoding

LEMMA StatTyped == ASSUME TypeOK, NEW q \in Requests PROVE Stat(q.media) \in 0 .. MaxEdits
  BY DEF Stat, TypeOK

\* What is kept under the key of this request is what it would encode itself.
LEMMA BelongsCurrent ==
  ASSUME TypeOK, run.req \in Requests, run.key = ConditioningKey(r, run.looked),
         NEW e, Belongs(e, run.key)
  PROVE  Current(e)
<1>1. PICK q \in Requests, n \in 0 .. MaxEdits :
        run.key = ConditioningKey(q, n) /\ EncodedSince(e, q, n)
  BY DEF Belongs
<1>2. ConditioningKey(q, n) = ConditioningKey(run.req, run.looked)
  BY <1>1
<1>3. /\ n = run.looked /\ q.ref = r.ref /\ q.media = r.media
      /\ \A s, v : Encoding(q, s, v) = Encoding(r, s, v)
  BY <1>2, KeyDetermines
<1> QED
  BY <1>1, <1>3 DEF Current, EncodedSince

LEMMA CurrentBelongs ==
  ASSUME run.req \in Requests, run.key = ConditioningKey(r, run.looked),
         run.looked \in 0 .. MaxEdits, NEW e, Current(e)
  PROVE  Belongs(e, run.key)
  BY DEF Current, Belongs

LEMMA Start == Init => Inv
<1> SUFFICES ASSUME Init PROVE Inv
  OBVIOUS
<1> USE DEF Init, IdleRun, EmptyCache, Absent
<1>1. TypeOK
  BY DEF TypeOK, Phases, HeapStates
<1>2. CacheStage /\ KeyStage /\ RunStage /\ ResultIsExact
  BY DEF CacheStage, KeyStage, RunStage, ResultIsExact, BeforeDit, WithDit, AfterDit
<1>3. /\ HeapStage(dits, cache.dit, run.dit, run.ditCached)
      /\ HeapStage(vaes, cache.vae, run.vae, run.vaeCached)
  BY DEF HeapStage, Numbers
<1> QED
  BY <1>1, <1>2, <1>3 DEF Inv

LEMMA EditKeeps == ASSUME Inv, NEW m \in Media, Edit(m) PROVE Inv'
<1> USE DEF Inv
<1>1. /\ version' \in [Media -> 0 .. MaxEdits]
      /\ UNCHANGED <<cache, dits, vaes, number, pc, run>>
      /\ \A q \in Requests : Stat(q.media) \in Int /\ Stat(q.media)' \in Int
                             /\ Stat(q.media) <= Stat(q.media)'
  BY DEF Edit, TypeOK, Stat
<1>2. TypeOK'
  BY <1>1 DEF TypeOK
<1>3. ASSUME NEW e, NEW q \in Requests, NEW n \in Int, EncodedSince(e, q, n)
      PROVE  EncodedSince(e, q, n)'
  BY <1>1, <1>3 DEF EncodedSince
<1>4. ASSUME NEW e, NEW k, Belongs(e, k)
      PROVE  Belongs(e, k)'
  BY <1>3, <1>4 DEF Belongs
<1>5. CacheStage'
  BY <1>1, <1>4 DEF CacheStage
<1>6. KeyStage'
  BY <1>1 DEF KeyStage, TypeOK, BeforeDit, WithDit, AfterDit
<1>7. ASSUME NEW e, pc # "idle", run.looked \in Int, Current(e)
      PROVE  Current(e)'
  BY <1>1, <1>3, <1>7 DEF Current, TypeOK
<1>8. pc \in BeforeDit \cup WithDit \cup AfterDit => pc # "idle" /\ run.looked \in Int
  BY StatTyped DEF BeforeDit, WithDit, AfterDit, KeyStage, TypeOK
<1>9. RunStage'
  BY <1>1, <1>7, <1>8 DEF RunStage, BeforeDit, WithDit, AfterDit, OwnNoise
<1>10. ResultIsExact'
  BY <1>1, <1>7, <1>8 DEF ResultIsExact, AfterDit, OwnNoise
<1>11. /\ HeapStage(dits, cache.dit, run.dit, run.ditCached)'
       /\ HeapStage(vaes, cache.vae, run.vae, run.vaeCached)'
  BY <1>1 DEF HeapStage
<1> QED
  BY <1>2, <1>5, <1>6, <1>9, <1>10, <1>11

\* free() of a live object, or of NULL.
LEMMA FreedEffect ==
  ASSUME NEW heap, DOMAIN heap = Numbers,
         NEW i \in Numbers \cup {0}, i # 0 => heap[i].state = "live"
  PROVE  /\ DOMAIN Freed(heap, i) = Numbers
         /\ i # 0 => Freed(heap, i)[i].state = "freed"
         /\ \A j \in Numbers \ {i} : Freed(heap, i)[j] = heap[j]
<1>1. CASE i = 0
  BY <1>1 DEF Freed
<1>2. CASE i # 0
  <2>1. Freed(heap, i) = [heap EXCEPT ![i] = [state |-> "freed"]]
    BY <1>2 DEF Freed
  <2> QED
    BY <1>2, <2>1
<1> QED
  BY <1>1, <1>2

\* The heap after what is retained, and not used, is freed.
LEMMA RetainedFreed ==
  ASSUME NEW heap, DOMAIN heap = Numbers, NEW i \in Numbers \cup {0}, NEW b, NEW c,
         HeapStage(heap, i, 0, b)
  PROVE  /\ DOMAIN Freed(heap, i) = Numbers
         /\ HeapStage(Freed(heap, i), 0, 0, c)
         /\ \A j \in Numbers : Freed(heap, i)[j].state \in {heap[j].state, "freed"}
         /\ \A j \in Numbers : Freed(heap, i)[j].state # "live"
<1>1. 0 \notin Numbers
  BY DEF Numbers
<1>2. i # 0 => heap[i].state = "live"
  BY <1>1 DEF HeapStage
<1>3. /\ DOMAIN Freed(heap, i) = Numbers
      /\ i # 0 => Freed(heap, i)[i].state = "freed"
      /\ \A j \in Numbers \ {i} : Freed(heap, i)[j] = heap[j]
  BY <1>2, FreedEffect
<1>4. \A j \in Numbers : Freed(heap, i)[j].state \notin {"live", "corrupt"}
  BY <1>1, <1>3 DEF HeapStage
<1> QED
  BY <1>1, <1>3, <1>4 DEF HeapStage

LEMMA ClearKeeps == ASSUME Inv, CacheClear \/ CacheSetEnabled PROVE Inv'
<1> USE DEF Inv
<1>1. /\ pc = "idle" /\ run.dit = 0 /\ run.vae = 0
      /\ UNCHANGED <<version, number, pc, run>>
  BY DEF CacheClear, CacheSetEnabled, RunStage
<1>2. CASE UNCHANGED <<dits, vaes>> /\ ~cache.enabled /\ cache' = [cache EXCEPT !.enabled = TRUE]
  <2>1. /\ DOMAIN cache' = DOMAIN EmptyCache /\ cache'.enabled = TRUE
        /\ cache'.condKey = cache.condKey /\ cache'.dit = cache.dit
        /\ cache'.vae = cache.vae
    BY <1>2 DEF TypeOK, EmptyCache
  <2>2. cache.condKey = NoKey /\ cache.dit = 0 /\ cache.vae = 0
    BY <1>2 DEF CacheStage
  <2>3. TypeOK' /\ CacheStage' /\ KeyStage' /\ RunStage' /\ ResultIsExact'
    BY <1>1, <1>2, <2>1, <2>2 DEF TypeOK, CacheStage, KeyStage, RunStage, ResultIsExact,
                          BeforeDit, WithDit, AfterDit
  <2>4. /\ HeapStage(dits, cache.dit, run.dit, run.ditCached)'
        /\ HeapStage(vaes, cache.vae, run.vae, run.vaeCached)'
    BY <1>1, <1>2, <2>1 DEF HeapStage
  <2> QED
    BY <2>3, <2>4
<1>3. CASE FreeRetained /\ cache' \in {EmptyCache, Cleared}
  <2>1. /\ DOMAIN cache' = DOMAIN EmptyCache /\ cache'.enabled \in BOOLEAN
        /\ cache'.condKey = NoKey /\ cache'.dit = 0 /\ cache'.vae = 0
    <3>1. CASE cache' = EmptyCache
      BY <3>1 DEF EmptyCache
    <3>2. CASE cache' = [EmptyCache EXCEPT !.enabled = cache.enabled]
      BY <3>2 DEF EmptyCache, TypeOK
    <3> QED
      BY <1>3, <3>1, <3>2 DEF Cleared
  <2>2. cache.dit \in Numbers \cup {0} /\ cache.vae \in Numbers \cup {0}
    BY DEF TypeOK, Numbers
  <2>3. /\ HeapStage(dits, cache.dit, 0, run.ditCached)
        /\ HeapStage(vaes, cache.vae, 0, run.vaeCached)
        /\ DOMAIN dits = Numbers /\ DOMAIN vaes = Numbers
        /\ dits' = Freed(dits, cache.dit) /\ vaes' = Freed(vaes, cache.vae)
    BY <1>1, <1>3 DEF TypeOK, FreeRetained
  <2>4. /\ DOMAIN dits' = Numbers /\ DOMAIN vaes' = Numbers
        /\ HeapStage(dits', 0, 0, run.ditCached) /\ HeapStage(vaes', 0, 0, run.vaeCached)
        /\ \A j \in Numbers : /\ dits'[j].state \in {dits[j].state, "freed"}
                              /\ vaes'[j].state \in {vaes[j].state, "freed"}
                              /\ dits'[j].state # "live"
    BY <2>2, <2>3, RetainedFreed
  <2>5. TypeOK'
    BY <1>1, <2>1, <2>4 DEF TypeOK, HeapStates
  <2>6. CacheStage' /\ KeyStage' /\ RunStage' /\ ResultIsExact'
    BY <1>1, <2>1 DEF CacheStage, KeyStage, RunStage, ResultIsExact,
                      BeforeDit, WithDit, AfterDit
  <2>7. /\ HeapStage(dits, cache.dit, run.dit, run.ditCached)'
        /\ HeapStage(vaes, cache.vae, run.vae, run.vaeCached)'
    BY <1>1, <2>1, <2>4
  <2> QED
    BY <2>5, <2>6, <2>7
<1> QED
  BY <1>2, <1>3 DEF CacheClear, CacheSetEnabled

LEMMA BeginKeeps == ASSUME Inv, Begin PROVE Inv'
<1> USE DEF Inv
<1>1. /\ pc = "idle" /\ pc' = "keys" /\ number' = number + 1 /\ number < MaxRequests
      /\ UNCHANGED <<version, cache, dits, vaes>>
  BY DEF Begin
<1>2. PICK q \in Requests : run' = [IdleRun EXCEPT !.req = q]
  BY DEF Begin
<1>3. /\ DOMAIN run' = DOMAIN IdleRun /\ run'.req \in Requests
      /\ run'.dit = 0 /\ run'.vae = 0 /\ run'.sized = 0
      /\ run'.ditCached = FALSE /\ run'.vaeCached = FALSE
      /\ run'.cancelled = FALSE /\ run'.error = FALSE /\ run'.result = FALSE
  BY <1>2 DEF IdleRun
<1>4. TypeOK'
  <2>1. /\ number' \in 0 .. MaxRequests /\ number' # 0 /\ pc' \in Phases
        /\ cache'.dit \in 0 .. number' /\ cache'.vae \in 0 .. number'
        /\ run'.dit \in 0 .. number' /\ run'.vae \in 0 .. number'
    BY <1>1, <1>3 DEF TypeOK, Phases
  <2> QED
    BY <1>1, <1>3, <2>1 DEF TypeOK
<1>5. CacheStage'
  BY <1>1 DEF CacheStage, Belongs, EncodedSince, Stat
<1>6. KeyStage' /\ RunStage' /\ ResultIsExact'
  BY <1>1, <1>3 DEF KeyStage, RunStage, ResultIsExact, BeforeDit, WithDit, AfterDit
<1>7. run.dit = 0 /\ run.vae = 0
  BY <1>1 DEF RunStage
<1>8. /\ HeapStage(dits, cache.dit, run.dit, run.ditCached)'
      /\ HeapStage(vaes, cache.vae, run.vae, run.vaeCached)'
  BY <1>1, <1>3, <1>7 DEF HeapStage
<1> QED
  BY <1>4, <1>5, <1>6, <1>8

(***************************************************************************)
(* The phases before the DiT.                                              *)
(***************************************************************************)
LEMMA KeysKeeps == ASSUME Inv, Keys PROVE Inv'
<1> USE DEF Inv
<1> DEFINE key == ConditioningKey(r, Stat(r.media))
<1>1. /\ pc = "keys" /\ run.dit = 0 /\ run.vae = 0 /\ run.sized = 0
      /\ run.req \in Requests /\ number # 0
      /\ run' = [run EXCEPT !.key = key, !.looked = Stat(r.media)]
      /\ Evict(key) /\ UNCHANGED <<version, number>>
      /\ pc' = IF cache.enabled /\ cache.condKey = key THEN "restore"
               ELSE IF r.ref THEN "probe" ELSE "encode"
  BY DEF Keys, RunStage, KeyStage, TypeOK
<1>2. /\ DOMAIN run' = DOMAIN IdleRun
      /\ run'.key = key /\ run'.looked = Stat(r.media) /\ run'.req = run.req
      /\ run'.dit = 0 /\ run'.vae = 0 /\ run'.sized = 0
      /\ run'.ditCached = run.ditCached /\ run'.vaeCached = run.vaeCached
      /\ run'.cancelled = run.cancelled /\ run'.error = run.error
      /\ run'.result = run.result
  BY <1>1 DEF TypeOK, IdleRun
<1> HIDE DEF key
<1> DEFINE vaeOut == cache.vae # 0 /\ cache.vaeKey # DecoderKey(r)
           ditOut == cache.dit # 0 /\ cache.ditKey # PreparedKey(r, key)
<1>3. /\ vaes' = IF vaeOut THEN Freed(vaes, cache.vae) ELSE vaes
      /\ dits' = IF ditOut THEN Freed(dits, cache.dit) ELSE dits
      /\ DOMAIN cache' = DOMAIN EmptyCache
      /\ cache'.enabled = cache.enabled
      /\ cache'.condKey = cache.condKey /\ cache'.cond = cache.cond
      /\ cache'.vae = IF vaeOut THEN 0 ELSE cache.vae
      /\ cache'.vaeKey = IF vaeOut THEN NoKey ELSE cache.vaeKey
      /\ cache'.dit = IF ditOut THEN 0 ELSE cache.dit
      /\ cache'.ditKey = IF ditOut THEN NoKey ELSE cache.ditKey
  BY <1>1 DEF Evict, TypeOK, EmptyCache
<1>4. /\ DOMAIN dits' = Numbers
      /\ HeapStage(dits', cache'.dit, 0, run.ditCached)
      /\ \A j \in Numbers : dits'[j].state \in {dits[j].state, "freed"}
      /\ \A j \in Numbers : dits'[j].state = "live" => dits'[j] = dits[j]
      /\ cache'.dit # 0 => /\ dits' = dits /\ cache'.dit = cache.dit
                           /\ cache.ditKey = PreparedKey(r, key)
                           /\ cache'.ditKey = cache.ditKey
  <2>1. /\ cache.dit \in Numbers \cup {0} /\ DOMAIN dits = Numbers
        /\ HeapStage(dits, cache.dit, 0, run.ditCached)
    BY <1>1 DEF TypeOK, Numbers
  <2>2. CASE ditOut
    BY <1>3, <2>1, <2>2, RetainedFreed
  <2>3. CASE ~ditOut
    BY <1>3, <2>1, <2>3
  <2> QED
    BY <2>2, <2>3
<1>5. /\ DOMAIN vaes' = Numbers
      /\ HeapStage(vaes', cache'.vae, 0, run.vaeCached)
      /\ \A j \in Numbers : vaes'[j].state \in {vaes[j].state, "freed"}
      /\ cache'.vae # 0 => /\ vaes' = vaes /\ cache'.vae = cache.vae
                           /\ cache'.vaeKey = cache.vaeKey
  <2>1. /\ cache.vae \in Numbers \cup {0} /\ DOMAIN vaes = Numbers
        /\ HeapStage(vaes, cache.vae, 0, run.vaeCached)
    BY <1>1 DEF TypeOK, Numbers
  <2>2. CASE vaeOut
    BY <1>3, <2>1, <2>2, RetainedFreed
  <2>3. CASE ~vaeOut
    BY <1>3, <2>1, <2>3
  <2> QED
    BY <2>2, <2>3
<1> HIDE DEF vaeOut, ditOut
<1>6. TypeOK'
  <2>1. /\ cache'.dit \in 0 .. number' /\ cache'.vae \in 0 .. number'
        /\ pc' \in Phases /\ run'.dit \in 0 .. number' /\ run'.vae \in 0 .. number'
    BY <1>1, <1>2, <1>3 DEF TypeOK, Phases
  <2> QED
    BY <1>1, <1>2, <1>3, <1>4, <1>5, <2>1 DEF TypeOK, HeapStates
<1>7. CacheStage'
  <2>1. \A e, k : Belongs(e, k) => Belongs(e, k)'
    BY <1>1 DEF Belongs, EncodedSince, Stat
  <2> QED
    BY <1>3, <1>4, <1>5, <2>1 DEF CacheStage
<1>8. KeyStage'
  <2>1. Stat(r.media) \in 0 .. MaxEdits
    BY <1>1, StatTyped
  <2>2. run'.looked \in 0 .. Stat(r.media)'
    BY <1>1, <1>2, <2>1 DEF Stat
  <2>3. run'.key = ConditioningKey(r, run.looked)'
    BY <1>2 DEF key
  <2>4. pc' = "restore" => cache'.condKey = run'.key
    BY <1>1, <1>2, <1>3
  <2>5. /\ pc' = "probe" => run'.req.ref
        /\ pc' = "encode" => ~run'.req.ref
        /\ pc' \in {"restore", "probe", "encode"}
    BY <1>1, <1>2
  <2>6. cache'.dit # 0 => cache'.ditKey = PreparedKey(r, run.key)'
    BY <1>2, <1>4
  <2> QED
    BY <1>2, <2>2, <2>3, <2>4, <2>5, <2>6 DEF KeyStage
<1>9. RunStage' /\ ResultIsExact'
  BY <1>1, <1>2 DEF RunStage, ResultIsExact, BeforeDit, WithDit, AfterDit
<1> QED
  BY <1>2, <1>4, <1>5, <1>6, <1>7, <1>8, <1>9

\* The callback may set the error and the mark of a cancellation, nothing else.
LEMMA ReportsEffect ==
  ASSUME NEW change, DOMAIN change = DOMAIN IdleRun,
         change.error \in BOOLEAN, run.cancelled \in BOOLEAN, Reports(change)
  PROVE  /\ DOMAIN run' = DOMAIN IdleRun
         /\ run'.cancelled \in BOOLEAN /\ run'.error \in BOOLEAN
         /\ run'.req = change.req /\ run'.key = change.key /\ run'.looked = change.looked
         /\ run'.sized = change.sized /\ run'.value = change.value
         /\ run'.dit = change.dit /\ run'.ditCached = change.ditCached
         /\ run'.vae = change.vae /\ run'.vaeCached = change.vaeCached
         /\ run'.latent = change.latent /\ run'.result = change.result
<1>1. PICK c \in {run.cancelled, run.cancelled \/ Faults} :
        run' = [change EXCEPT !.cancelled = c, !.error = @ \/ c]
  BY DEF Reports
<1>2. c \in BOOLEAN
  BY <1>1
<1>3. (change.error \/ c) \in BOOLEAN
  BY <1>2
<1> QED
  BY <1>1, <1>2, <1>3 DEF IdleRun

\* What a key of this request that is not NULL is good for.
LEMMA OwnKey ==
  ASSUME Inv, pc \in BeforeDit \cup WithDit \cup AfterDit
  PROVE  /\ run.req \in Requests /\ run.looked \in 0 .. MaxEdits
         /\ run.looked \in 0 .. Stat(r.media) /\ Stat(r.media) \in 0 .. MaxEdits
         /\ run.key = ConditioningKey(r, run.looked)
         /\ run.key # NoKey /\ PreparedKey(r, run.key) # NoKey
<1>1. /\ run.req \in Requests /\ run.looked \in 0 .. Stat(r.media)
      /\ run.key = ConditioningKey(r, run.looked)
  BY DEF Inv, KeyStage, TypeOK, BeforeDit, WithDit, AfterDit
<1>2. Stat(r.media) \in 0 .. MaxEdits
  BY <1>1, StatTyped DEF Inv
<1>3. run.looked \in 0 .. MaxEdits
  BY <1>1, <1>2
<1> QED
  BY <1>1, <1>2, <1>3, KeyAssumption

LEMMA RestoreKeeps == ASSUME Inv, Restore PROVE Inv'
<1> USE DEF Inv
<1>1. /\ pc = "restore" /\ pc' = "augment" /\ UNCHANGED <<version, cache, dits, vaes, number>>
      /\ run' = [run EXCEPT !.value = cache.cond]
  BY DEF Restore
<1>2. /\ DOMAIN run' = DOMAIN IdleRun /\ run'.value = cache.cond
      /\ run'.req = run.req /\ run'.key = run.key /\ run'.looked = run.looked
      /\ run'.dit = run.dit /\ run'.ditCached = run.ditCached
      /\ run'.vae = run.vae /\ run'.vaeCached = run.vaeCached
      /\ run'.cancelled = run.cancelled /\ run'.error = run.error
      /\ run'.result = run.result
  BY <1>1 DEF TypeOK, IdleRun
<1>3. /\ Current(cache.cond.encoding) /\ cache.cond.noise = <<>>
      /\ DOMAIN cache.cond = {"encoding", "noise"}
  <2>1. /\ run.req \in Requests /\ run.key # NoKey
        /\ run.key = ConditioningKey(r, run.looked) /\ cache.condKey = run.key
    BY <1>1, OwnKey DEF KeyStage, BeforeDit
  <2>2. /\ Belongs(cache.cond.encoding, run.key) /\ cache.cond.noise = <<>>
        /\ DOMAIN cache.cond = {"encoding", "noise"}
    BY <2>1 DEF CacheStage
  <2> QED
    BY <2>1, <2>2, BelongsCurrent
<1>4. Current(cache.cond.encoding)'
  BY <1>1, <1>2, <1>3 DEF Current, EncodedSince, Stat
<1>5. TypeOK'
  BY <1>1, <1>2 DEF TypeOK, Phases
<1>6. CacheStage'
  BY <1>1 DEF CacheStage, Belongs, EncodedSince, Stat
<1>7. KeyStage'
  BY <1>1, <1>2 DEF KeyStage, BeforeDit, WithDit, AfterDit, Stat
<1>8. RunStage' /\ ResultIsExact'
  BY <1>1, <1>2, <1>3, <1>4 DEF RunStage, ResultIsExact, BeforeDit, WithDit, AfterDit
<1>9. /\ HeapStage(dits, cache.dit, run.dit, run.ditCached)'
      /\ HeapStage(vaes, cache.vae, run.vae, run.vaeCached)'
  BY <1>1, <1>2 DEF HeapStage
<1> QED
  BY <1>5, <1>6, <1>7, <1>8, <1>9

LEMMA ProbeKeeps == ASSUME Inv, Probe PROVE Inv'
<1> USE DEF Inv
<1>1. /\ pc = "probe" /\ pc' = "encode" /\ UNCHANGED <<version, cache, dits, vaes, number>>
      /\ run' = [run EXCEPT !.sized = Stat(r.media)]
  BY DEF Probe
<1>2. /\ DOMAIN run' = DOMAIN IdleRun /\ run'.sized = Stat(r.media)
      /\ run'.req = run.req /\ run'.key = run.key /\ run'.looked = run.looked
      /\ run'.dit = run.dit /\ run'.ditCached = run.ditCached
      /\ run'.vae = run.vae /\ run'.vaeCached = run.vaeCached
      /\ run'.cancelled = run.cancelled /\ run'.error = run.error
      /\ run'.result = run.result
  BY <1>1 DEF TypeOK, IdleRun
<1>3. TypeOK'
  BY <1>1, <1>2 DEF TypeOK, Phases
<1>4. CacheStage'
  BY <1>1 DEF CacheStage, Belongs, EncodedSince, Stat
<1>5. KeyStage'
  <2>1. run'.req.ref /\ run'.sized \in run'.looked .. Stat(r.media)'
    BY <1>1, <1>2, OwnKey DEF KeyStage, BeforeDit, Stat
  <2> QED
    BY <1>1, <1>2, <2>1 DEF KeyStage, BeforeDit, WithDit, AfterDit, Stat
<1>6. RunStage' /\ ResultIsExact'
  BY <1>1, <1>2 DEF RunStage, ResultIsExact, BeforeDit, WithDit, AfterDit
<1>7. /\ HeapStage(dits, cache.dit, run.dit, run.ditCached)'
      /\ HeapStage(vaes, cache.vae, run.vae, run.vaeCached)'
  BY <1>1, <1>2 DEF HeapStage
<1> QED
  BY <1>3, <1>4, <1>5, <1>6, <1>7

LEMMA EncodeKeeps == ASSUME Inv, Encode PROVE Inv'
<1> USE DEF Inv
<1> DEFINE e == Encoding(r, run.sized, Stat(r.media))
           fresh == [encoding |-> e, noise |-> <<>>]
<1>1. /\ pc = "encode" /\ pc' = "augment" /\ UNCHANGED <<version, dits, vaes, number>>
      /\ Reports([run EXCEPT !.value = fresh])
      /\ \/ /\ cache.enabled
            /\ cache' = [cache EXCEPT !.condKey = run.key, !.cond = fresh]
         \/ UNCHANGED cache
  BY DEF Encode
<1>2. /\ DOMAIN run' = DOMAIN IdleRun /\ run'.value = fresh
      /\ run'.cancelled \in BOOLEAN /\ run'.error \in BOOLEAN
      /\ run'.req = run.req /\ run'.key = run.key /\ run'.looked = run.looked
      /\ run'.dit = run.dit /\ run'.ditCached = run.ditCached
      /\ run'.vae = run.vae /\ run'.vaeCached = run.vaeCached
      /\ run'.result = run.result
  <2> DEFINE change == [run EXCEPT !.value = fresh]
  <2>1. /\ DOMAIN change = DOMAIN IdleRun /\ change.value = fresh
        /\ change.error \in BOOLEAN /\ run.cancelled \in BOOLEAN
        /\ change.req = run.req /\ change.key = run.key /\ change.looked = run.looked
        /\ change.dit = run.dit /\ change.ditCached = run.ditCached
        /\ change.vae = run.vae /\ change.vaeCached = run.vaeCached
        /\ change.result = run.result
    BY DEF TypeOK, IdleRun
  <2> HIDE DEF change
  <2> QED
    BY <1>1, <2>1, ReportsEffect DEF change
<1>3. /\ cache'.enabled = cache.enabled /\ DOMAIN cache' = DOMAIN EmptyCache
      /\ cache'.dit = cache.dit /\ cache'.ditKey = cache.ditKey
      /\ cache'.vae = cache.vae /\ cache'.vaeKey = cache.vaeKey
      /\ \/ cache'.condKey = cache.condKey /\ cache'.cond = cache.cond
         \/ cache.enabled /\ cache'.condKey = run.key /\ cache'.cond = fresh
  BY <1>1 DEF TypeOK, EmptyCache
<1>4. Current(e) /\ e.version \in Int
  <2>1. e.version = Stat(r.media) /\ e.sized = run.sized
    BY DEF Encoding
  <2>2. /\ run.looked \in 0 .. Stat(r.media) /\ Stat(r.media) \in 0 .. MaxEdits
        /\ run.sized \in IF r.ref THEN run.looked .. Stat(r.media) ELSE {0}
    BY <1>1, OwnKey DEF KeyStage, BeforeDit
  <2> QED
    BY <2>1, <2>2 DEF Current, EncodedSince
<1>5. Belongs(e, run.key)
  BY <1>1, <1>4, OwnKey, CurrentBelongs DEF BeforeDit
<1> HIDE DEF e
<1>6. fresh.encoding = e /\ fresh.noise = <<>> /\ DOMAIN fresh = {"encoding", "noise"}
  OBVIOUS
<1> HIDE DEF fresh
<1>7. \A x, k : Belongs(x, k) => Belongs(x, k)'
  BY <1>1 DEF Belongs, EncodedSince, Stat
<1>8. ASSUME NEW x, Current(x) PROVE Current(x)'
  BY <1>1, <1>2, <1>8 DEF Current, EncodedSince, Stat
<1>9. TypeOK'
  BY <1>1, <1>2, <1>3 DEF TypeOK, Phases
<1>10. CacheStage'
  BY <1>1, <1>3, <1>5, <1>6, <1>7 DEF CacheStage
<1>11. KeyStage'
  BY <1>1, <1>2, <1>3 DEF KeyStage, BeforeDit, WithDit, AfterDit, Stat
<1>12. Current(run.value.encoding)'
  BY <1>2, <1>4, <1>6, <1>8
<1>13. RunStage' /\ ResultIsExact'
  BY <1>1, <1>2, <1>6, <1>12 DEF RunStage, ResultIsExact, BeforeDit, WithDit, AfterDit
<1>14. /\ HeapStage(dits, cache.dit, run.dit, run.ditCached)'
       /\ HeapStage(vaes, cache.vae, run.vae, run.vaeCached)'
  BY <1>1, <1>2, <1>3 DEF HeapStage
<1> QED
  BY <1>9, <1>10, <1>11, <1>13, <1>14

LEMMA AugmentKeeps == ASSUME Inv, Augment PROVE Inv'
<1> USE DEF Inv
<1> DEFINE noise == IF r.media = NoMedia THEN run.value.noise
                    ELSE Append(run.value.noise, r.seed)
<1>1. /\ pc = "augment" /\ pc' \in {"cleanup", "dit"}
      /\ UNCHANGED <<version, cache, dits, vaes, number>>
      /\ run' = [run EXCEPT !.value.noise = noise]
  BY DEF Augment, GotoUnlessCancelled
<1>2. /\ Current(run.value.encoding) /\ run.value.noise = <<>>
      /\ DOMAIN run.value = {"encoding", "noise"}
  BY <1>1 DEF RunStage
<1>3. noise = OwnNoise
  <2>1. Append(<<>>, r.seed) = <<r.seed>>
    OBVIOUS
  <2> QED
    BY <1>2, <2>1 DEF OwnNoise
<1>4. /\ DOMAIN run' = DOMAIN IdleRun
      /\ run'.value = [run.value EXCEPT !.noise = noise]
      /\ run'.req = run.req /\ run'.key = run.key /\ run'.looked = run.looked
      /\ run'.dit = run.dit /\ run'.ditCached = run.ditCached
      /\ run'.vae = run.vae /\ run'.vaeCached = run.vaeCached
      /\ run'.cancelled = run.cancelled /\ run'.error = run.error
      /\ run'.result = run.result
  BY <1>1 DEF TypeOK, IdleRun
<1> HIDE DEF noise
<1>5. /\ run'.value.encoding = run.value.encoding /\ run'.value.noise = OwnNoise
      /\ DOMAIN run'.value = {"encoding", "noise"}
  BY <1>2, <1>3, <1>4
<1>6. OwnNoise' = OwnNoise
  BY <1>4 DEF OwnNoise
<1>7. Current(run.value.encoding)'
  BY <1>1, <1>2, <1>4, <1>5 DEF Current, EncodedSince, Stat
<1>8. TypeOK'
  BY <1>1, <1>4 DEF TypeOK, Phases
<1>9. CacheStage'
  BY <1>1 DEF CacheStage, Belongs, EncodedSince, Stat
<1>10. KeyStage'
  BY <1>1, <1>4 DEF KeyStage, BeforeDit, WithDit, AfterDit, Stat
<1>11. RunStage' /\ ResultIsExact'
  BY <1>1, <1>4, <1>5, <1>6, <1>7 DEF RunStage, ResultIsExact, BeforeDit, WithDit, AfterDit
<1>12. /\ HeapStage(dits, cache.dit, run.dit, run.ditCached)'
       /\ HeapStage(vaes, cache.vae, run.vae, run.vaeCached)'
  BY <1>1, <1>4 DEF HeapStage
<1> QED
  BY <1>8, <1>9, <1>10, <1>11, <1>12

(***************************************************************************)
(* The DiT.                                                                *)
(***************************************************************************)
\* A retained DiT is found under the request's key, or there is none.
LEMMA HitOrNone ==
  ASSUME Inv, pc = "dit"
  PROVE  /\ DitHit <=> cache.dit # 0
         /\ DitHit => /\ Current(dits[cache.dit].encoding)
                      /\ dits[cache.dit].shape = r.shape
                      /\ dits[cache.dit].tuning = r.tuning
                      /\ ~dits[cache.dit].failed
<1> USE DEF Inv
<1>1. cache.dit # 0 => cache.ditKey = PreparedKey(r, run.key) /\ cache.enabled
  BY DEF KeyStage, CacheStage, TypeOK, BeforeDit
<1>2. DitHit <=> cache.dit # 0
  BY <1>1 DEF DitHit, TypeOK
<1>3. ASSUME DitHit
      PROVE  /\ Current(dits[cache.dit].encoding)
             /\ dits[cache.dit].shape = r.shape /\ dits[cache.dit].tuning = r.tuning
             /\ ~dits[cache.dit].failed
  <2>1. /\ Belongs(dits[cache.dit].encoding, cache.ditKey[1])
        /\ cache.ditKey = <<cache.ditKey[1], dits[cache.dit].shape, dits[cache.dit].tuning>>
        /\ ~dits[cache.dit].failed
    BY <1>2, <1>3 DEF CacheStage
  <2>2. cache.ditKey = <<run.key, r.shape, r.tuning>>
    BY <1>1, <1>2, <1>3 DEF PreparedKey
  <2>3. /\ cache.ditKey[1] = run.key
        /\ dits[cache.dit].shape = r.shape /\ dits[cache.dit].tuning = r.tuning
    BY <2>1, <2>2
  <2>4. Belongs(dits[cache.dit].encoding, run.key)
    BY <2>1, <2>3
  <2> QED
    BY <2>1, <2>3, <2>4, OwnKey, BelongsCurrent DEF BeforeDit
<1> QED
  BY <1>2, <1>3

\* The retained DiT takes the noise of the run, on success and on failure.
LEMMA ResetKeeps == ASSUME Inv, ResetDit \/ ResetDitFails PROVE Inv'
<1> USE DEF Inv
<1> DEFINE d == cache.dit
<1>1. /\ pc = "dit" /\ DitHit /\ UNCHANGED <<version, cache, vaes, number>>
      /\ pc' \in {"cleanup", "preview"}
      /\ dits' = dits \/ dits' = [dits EXCEPT ![d].noise = run.value.noise]
      /\ pc' = "preview" => dits' = [dits EXCEPT ![d].noise = run.value.noise]
      /\ \/ run' = [run EXCEPT !.dit = d, !.ditCached = TRUE]
         \/ run' = [run EXCEPT !.dit = d, !.ditCached = TRUE, !.error = TRUE]
  BY DEF ResetDit, ResetDitFails, GotoUnlessCancelled
<1>2. /\ DOMAIN run' = DOMAIN IdleRun /\ run'.dit = d /\ run'.ditCached = TRUE
      /\ run'.req = run.req /\ run'.key = run.key /\ run'.looked = run.looked
      /\ run'.vae = run.vae /\ run'.vaeCached = run.vaeCached
      /\ run'.cancelled = run.cancelled /\ run'.error \in BOOLEAN
      /\ run'.result = run.result
  BY <1>1 DEF TypeOK, IdleRun
<1>3. /\ d # 0 /\ d \in Numbers /\ run.dit = 0 /\ dits[d].state = "live"
      /\ DOMAIN dits[d] = DitFields /\ run.value.noise = OwnNoise
      /\ Current(dits[d].encoding)
      /\ dits[d].shape = r.shape /\ dits[d].tuning = r.tuning /\ ~dits[d].failed
  <2>1. d # 0 /\ d \in Numbers /\ run.dit = 0 /\ run.value.noise = OwnNoise
    BY <1>1, HitOrNone DEF TypeOK, Numbers, RunStage, BeforeDit
  <2>2. dits[d].state = "live"
    BY <2>1 DEF HeapStage
  <2> QED
    BY <1>1, <2>1, <2>2, HitOrNone DEF TypeOK
<1>4. /\ DOMAIN dits' = Numbers
      /\ \A i \in Numbers \ {d} : dits'[i] = dits[i]
      /\ dits'[d].state = "live" /\ DOMAIN dits'[d] = DitFields
      /\ dits'[d].encoding = dits[d].encoding /\ dits'[d].shape = dits[d].shape
      /\ dits'[d].tuning = dits[d].tuning /\ dits'[d].failed = dits[d].failed
      /\ pc' = "preview" => dits'[d].noise = OwnNoise
  <2>1. CASE dits' = dits /\ pc' # "preview"
    BY <1>3, <2>1 DEF TypeOK
  <2>2. CASE dits' = [dits EXCEPT ![d] = [@ EXCEPT !.noise = run.value.noise]]
    <3>1. dits'[d] = [dits[d] EXCEPT !.noise = run.value.noise]
      BY <1>3, <2>2 DEF TypeOK
    <3> QED
      BY <1>3, <2>2, <3>1 DEF TypeOK, DitFields
  <2> QED
    BY <1>1, <2>1, <2>2
<1> HIDE DEF d
<1>5. OwnNoise' = OwnNoise
  BY <1>2 DEF OwnNoise
<1>6. Current(dits[d].encoding)'
  BY <1>1, <1>2, <1>3, <1>4 DEF Current, EncodedSince, Stat, d
<1>7. TypeOK'
  <2>1. \A i \in Numbers : /\ dits'[i].state \in HeapStates
                           /\ dits'[i].state = "live" => DOMAIN dits'[i] = DitFields
    BY <1>4 DEF TypeOK, HeapStates
  <2>2. run'.dit \in 0 .. number'
    BY <1>1, <1>2 DEF TypeOK, d
  <2>3. pc' \in Phases /\ (pc' # "idle" => number' # 0 /\ run'.req \in Requests)
    BY <1>1, <1>2 DEF TypeOK, Phases
  <2> QED
    BY <1>1, <1>2, <1>4, <2>1, <2>2, <2>3 DEF TypeOK
<1>8. CacheStage'
  <2>1. \A x, k : Belongs(x, k) => Belongs(x, k)'
    BY <1>1 DEF Belongs, EncodedSince, Stat
  <2> QED
    BY <1>1, <1>4, <2>1 DEF CacheStage, d
<1>9. KeyStage'
  BY <1>1, <1>2 DEF KeyStage, BeforeDit, WithDit, AfterDit, Stat
<1>10. RunStage' /\ ResultIsExact'
  <2>1. run.vae = 0
    BY <1>1 DEF RunStage, BeforeDit
  <2> QED
    BY <1>1, <1>2, <1>3, <1>4, <1>5, <1>6, <2>1
       DEF RunStage, ResultIsExact, BeforeDit, WithDit, AfterDit, d
<1>11. HeapStage(dits, cache.dit, run.dit, run.ditCached)'
  <2>1. 0 \notin Numbers
    BY DEF Numbers
  <2>2. \A i \in Numbers : dits'[i].state = dits[i].state
    BY <1>3, <1>4 DEF d
  <2>3. \A i \in Numbers : dits[i].state # "corrupt" /\ (dits[i].state = "live" <=> i = d)
    BY <1>3, <2>1 DEF HeapStage, d
  <2>4. cache'.dit = d /\ run'.dit = d /\ run'.ditCached = TRUE
    BY <1>1, <1>2 DEF d
  <2> QED
    BY <2>2, <2>3, <2>4 DEF HeapStage
<1>12. HeapStage(vaes, cache.vae, run.vae, run.vaeCached)'
  BY <1>1, <1>2 DEF HeapStage
<1> QED
  BY <1>7, <1>8, <1>9, <1>10, <1>11, <1>12

LEMMA LoadDitKeeps == ASSUME Inv, LoadDit PROVE Inv'
<1> USE DEF Inv
<1>1. /\ pc = "dit" /\ ~DitHit /\ UNCHANGED <<version, vaes, number>>
      /\ dits' = [dits EXCEPT ![number] = DitOf(r, run.value)]
      /\ pc' \in {"cleanup", "preview"}
  BY DEF LoadDit, GotoUnlessCancelled
<1>2. /\ cache.dit = 0 /\ run.dit = 0 /\ run.vae = 0 /\ number \in Numbers
      /\ run.ditCached = FALSE
      /\ Current(run.value.encoding) /\ run.value.noise = OwnNoise
  BY <1>1, HitOrNone DEF TypeOK, Numbers, RunStage, BeforeDit
<1>3. /\ DOMAIN run' = DOMAIN IdleRun
      /\ run'.cancelled \in BOOLEAN /\ run'.error \in BOOLEAN
      /\ run'.req = run.req /\ run'.key = run.key /\ run'.looked = run.looked
      /\ run'.dit = number /\ run'.ditCached \in BOOLEAN
      /\ run'.vae = run.vae /\ run'.vaeCached = run.vaeCached
      /\ run'.result = run.result
      /\ DOMAIN cache' = DOMAIN EmptyCache /\ cache'.enabled = cache.enabled
      /\ cache'.condKey = cache.condKey /\ cache'.cond = cache.cond
      /\ cache'.vae = cache.vae /\ cache'.vaeKey = cache.vaeKey
      /\ \/ /\ run'.ditCached = TRUE /\ cache.enabled
            /\ cache'.dit = number /\ cache'.ditKey = PreparedKey(r, run.key)
         \/ run'.ditCached = FALSE /\ cache'.dit = 0
  <2>1. CASE /\ cache.enabled
             /\ cache' = [cache EXCEPT !.dit = number, !.ditKey = PreparedKey(r, run.key)]
             /\ Reports([run EXCEPT !.dit = number, !.ditCached = TRUE])
    <3> DEFINE change == [run EXCEPT !.dit = number, !.ditCached = TRUE]
    <3>1. /\ DOMAIN change = DOMAIN IdleRun
          /\ change.error \in BOOLEAN /\ run.cancelled \in BOOLEAN
          /\ change.req = run.req /\ change.key = run.key /\ change.looked = run.looked
          /\ change.dit = number /\ change.ditCached = TRUE
          /\ change.vae = run.vae /\ change.vaeCached = run.vaeCached
          /\ change.result = run.result
      BY DEF TypeOK, IdleRun
    <3> HIDE DEF change
    <3>2. /\ DOMAIN run' = DOMAIN IdleRun
          /\ run'.cancelled \in BOOLEAN /\ run'.error \in BOOLEAN
          /\ run'.req = run.req /\ run'.key = run.key /\ run'.looked = run.looked
          /\ run'.dit = number /\ run'.ditCached = TRUE
          /\ run'.vae = run.vae /\ run'.vaeCached = run.vaeCached
          /\ run'.result = run.result
      BY <2>1, <3>1, ReportsEffect DEF change
    <3>3. /\ DOMAIN cache' = DOMAIN EmptyCache /\ cache'.enabled = cache.enabled
          /\ cache'.condKey = cache.condKey /\ cache'.cond = cache.cond
          /\ cache'.vae = cache.vae /\ cache'.vaeKey = cache.vaeKey
          /\ cache'.dit = number /\ cache'.ditKey = PreparedKey(r, run.key)
      BY <2>1 DEF TypeOK, EmptyCache
    <3> QED
      BY <2>1, <3>2, <3>3
  <2>2. CASE UNCHANGED cache /\ Reports([run EXCEPT !.dit = number])
    <3> DEFINE change == [run EXCEPT !.dit = number]
    <3>1. /\ DOMAIN change = DOMAIN IdleRun
          /\ change.error \in BOOLEAN /\ run.cancelled \in BOOLEAN
          /\ change.req = run.req /\ change.key = run.key /\ change.looked = run.looked
          /\ change.dit = number /\ change.ditCached = run.ditCached
          /\ change.vae = run.vae /\ change.vaeCached = run.vaeCached
          /\ change.result = run.result
      BY DEF TypeOK, IdleRun
    <3> HIDE DEF change
    <3>2. /\ DOMAIN run' = DOMAIN IdleRun
          /\ run'.cancelled \in BOOLEAN /\ run'.error \in BOOLEAN
          /\ run'.req = run.req /\ run'.key = run.key /\ run'.looked = run.looked
          /\ run'.dit = number /\ run'.ditCached = run.ditCached
          /\ run'.vae = run.vae /\ run'.vaeCached = run.vaeCached
          /\ run'.result = run.result
      BY <2>2, <3>1, ReportsEffect DEF change
    <3> QED
      BY <1>2, <2>2, <3>2 DEF TypeOK
  <2> QED
    BY <2>1, <2>2 DEF LoadDit
<1>4. /\ DOMAIN dits' = Numbers
      /\ \A i \in Numbers \ {number} : dits'[i] = dits[i]
      /\ dits'[number].state = "live" /\ DOMAIN dits'[number] = DitFields
      /\ dits'[number].encoding = run.value.encoding
      /\ dits'[number].noise = OwnNoise /\ ~dits'[number].failed
      /\ dits'[number].shape = r.shape /\ dits'[number].tuning = r.tuning
  <2>1. dits'[number] = DitOf(r, run.value)
    BY <1>1, <1>2 DEF TypeOK
  <2> QED
    BY <1>1, <1>2, <2>1 DEF TypeOK, DitOf, DitFields
<1>5. OwnNoise' = OwnNoise
  BY <1>3 DEF OwnNoise
<1>6. Current(run.value.encoding) /\ Current(dits[number].encoding)'
  BY <1>1, <1>2, <1>3, <1>4 DEF Current, EncodedSince, Stat
<1>7. TypeOK'
  <2>1. \A i \in Numbers : /\ dits'[i].state \in HeapStates
                           /\ dits'[i].state = "live" => DOMAIN dits'[i] = DitFields
    BY <1>4 DEF TypeOK, HeapStates
  <2>2. run'.dit \in 0 .. number' /\ cache'.dit \in 0 .. number'
    BY <1>1, <1>3 DEF TypeOK
  <2>3. pc' \in Phases /\ (pc' # "idle" => number' # 0 /\ run'.req \in Requests)
    BY <1>1, <1>3 DEF TypeOK, Phases
  <2> QED
    BY <1>1, <1>3, <1>4, <2>1, <2>2, <2>3 DEF TypeOK
<1>8. CacheStage'
  <2>1. \A x, k : Belongs(x, k) => Belongs(x, k)'
    BY <1>1 DEF Belongs, EncodedSince, Stat
  <2>2. Belongs(run.value.encoding, run.key)
    BY <1>1, <1>2, OwnKey, CurrentBelongs DEF BeforeDit
  <2>3. cache'.dit # 0 => /\ cache'.dit = number /\ cache.enabled
                          /\ cache'.ditKey = <<run.key, r.shape, r.tuning>>
    BY <1>3 DEF PreparedKey
  <2>4. cache'.dit # 0 => cache'.ditKey[1] = run.key
    BY <2>3
  <2>5. cache'.dit # 0 =>
          /\ Belongs(dits[cache.dit].encoding, cache.ditKey[1])'
          /\ cache'.ditKey = <<cache'.ditKey[1], dits'[cache'.dit].shape,
                              dits'[cache'.dit].tuning>>
          /\ ~dits'[cache'.dit].failed /\ cache'.enabled
    BY <1>3, <1>4, <2>1, <2>2, <2>3, <2>4
  <2> QED
    BY <1>1, <1>3, <2>1, <2>5 DEF CacheStage
<1>9. KeyStage'
  BY <1>1, <1>3 DEF KeyStage, BeforeDit, WithDit, AfterDit, Stat
<1>10. RunStage' /\ ResultIsExact'
  <2>1. number # 0
    BY <1>2 DEF Numbers
  <2> QED
    BY <1>1, <1>2, <1>3, <1>4, <1>5, <1>6, <2>1
       DEF RunStage, ResultIsExact, BeforeDit, WithDit, AfterDit
<1>11. HeapStage(dits, cache.dit, run.dit, run.ditCached)'
  <2>1. number # 0 /\ \A i \in Numbers : dits[i].state \notin {"live", "corrupt"}
    BY <1>2 DEF Numbers, HeapStage
  <2>2. /\ run'.dit = number /\ cache'.dit \in {0, number}
        /\ run'.ditCached <=> cache'.dit = number
    BY <1>3, <2>1
  <2>3. \A i \in Numbers : /\ dits'[i].state # "corrupt"
                           /\ dits'[i].state = "live" <=> i = number
    BY <1>4, <2>1
  <2>4. \A i \in Numbers : i \in {cache'.dit, run'.dit} <=> i = number
    BY <2>2 DEF Numbers
  <2> QED
    BY <2>2, <2>3, <2>4 DEF HeapStage
<1>12. HeapStage(vaes, cache.vae, run.vae, run.vaeCached)'
  BY <1>1, <1>3 DEF HeapStage
<1> QED
  BY <1>7, <1>8, <1>9, <1>10, <1>11, <1>12

\* A phase that fails goes to the cleanup with what it has.
LEMMA FailKeeps == ASSUME Inv, PhaseFails \/ LoadDitFails PROVE Inv'
<1> USE DEF Inv
<1>1. /\ pc' = "cleanup" /\ UNCHANGED <<version, cache, dits, vaes, number>>
      /\ run' = [run EXCEPT !.error = TRUE] /\ pc # "idle"
  BY DEF PhaseFails, LoadDitFails, Fail
<1>2. /\ DOMAIN run' = DOMAIN IdleRun
      /\ run'.dit = run.dit /\ run'.ditCached = run.ditCached
      /\ run'.vae = run.vae /\ run'.vaeCached = run.vaeCached
      /\ run'.cancelled = run.cancelled /\ run'.error = TRUE
      /\ run'.result = run.result /\ run'.req = run.req
  BY <1>1 DEF TypeOK, IdleRun
<1>3. TypeOK'
  BY <1>1, <1>2 DEF TypeOK, Phases
<1>4. CacheStage'
  BY <1>1 DEF CacheStage, Belongs, EncodedSince, Stat
<1>5. KeyStage' /\ RunStage' /\ ResultIsExact'
  BY <1>1, <1>2 DEF KeyStage, RunStage, ResultIsExact, BeforeDit, WithDit, AfterDit
<1>6. /\ HeapStage(dits, cache.dit, run.dit, run.ditCached)'
      /\ HeapStage(vaes, cache.vae, run.vae, run.vaeCached)'
  BY <1>1, <1>2 DEF HeapStage
<1> QED
  BY <1>3, <1>4, <1>5, <1>6

(***************************************************************************)
(* The decoder.                                                            *)
(***************************************************************************)
\* The decoder that is acquired is this request's, and the old one is freed.
LEMMA AcquireEffect ==
  ASSUME Inv, pc \in WithDit \cup AfterDit, run.vae = 0, AcquireDecoder
  PROVE  /\ DOMAIN run' = DOMAIN IdleRun
         /\ run'.cancelled \in BOOLEAN /\ run'.error \in BOOLEAN
         /\ run'.req = run.req /\ run'.key = run.key /\ run'.looked = run.looked
         /\ run'.dit = run.dit /\ run'.ditCached = run.ditCached
         /\ run'.latent = run.latent /\ run'.result = run.result
         /\ run'.vae \in Numbers /\ run'.vae \in 0 .. number /\ run'.vaeCached \in BOOLEAN
         /\ cache'.vae \in {0, run'.vae} /\ (run'.vaeCached <=> cache'.vae = run'.vae)
         /\ DOMAIN cache' = DOMAIN EmptyCache /\ cache'.enabled = cache.enabled
         /\ cache'.condKey = cache.condKey /\ cache'.cond = cache.cond
         /\ cache'.dit = cache.dit /\ cache'.ditKey = cache.ditKey
         /\ DOMAIN vaes' = Numbers /\ vaes'[run'.vae] = VaeOf(r)
         /\ cache'.vae # 0 => cache.enabled /\ cache'.vaeKey = DecoderKey(r)
         /\ \A i \in Numbers : vaes'[i].state \in HeapStates \ {"corrupt"}
         /\ \A i \in Numbers : vaes'[i].state = "live" <=> i = run'.vae
<1> USE DEF Inv
<1>1. /\ number \in Numbers /\ number # 0 /\ run.vaeCached = FALSE
      /\ run.req \in Requests /\ DOMAIN vaes = Numbers
      /\ cache.vae \in Numbers \cup {0} /\ 0 \notin Numbers
      /\ HeapStage(vaes, cache.vae, 0, run.vaeCached)
  BY DEF TypeOK, Numbers, RunStage, WithDit, AfterDit
<1>2. CASE cache.enabled /\ cache.vae # 0 /\ cache.vaeKey = DecoderKey(r)
  <2>1. run' = [run EXCEPT !.vae = cache.vae, !.vaeCached = TRUE] /\ UNCHANGED <<cache, vaes>>
    BY <1>2 DEF AcquireDecoder
  <2>2. /\ DOMAIN run' = DOMAIN IdleRun
        /\ run'.cancelled \in BOOLEAN /\ run'.error \in BOOLEAN
        /\ run'.req = run.req /\ run'.key = run.key /\ run'.looked = run.looked
        /\ run'.dit = run.dit /\ run'.ditCached = run.ditCached
        /\ run'.latent = run.latent /\ run'.result = run.result
        /\ run'.vae = cache.vae /\ run'.vaeCached = TRUE
    BY <2>1 DEF TypeOK, IdleRun
  <2>3. vaes[cache.vae] = VaeOf(r)
    <3>1. PICK q \in Requests : vaes[cache.vae] = VaeOf(q) /\ cache.vaeKey = DecoderKey(q)
      BY <1>2 DEF CacheStage
    <3>2. <<q.ref, q.shape.canvas>> = <<run.req.ref, run.req.shape.canvas>>
      BY <1>2, <3>1 DEF DecoderKey
    <3>3. q.ref = run.req.ref /\ q.shape.canvas = run.req.shape.canvas
      BY <3>2
    <3> QED
      BY <3>1, <3>3 DEF VaeOf
  <2>4. \A i \in Numbers : /\ vaes[i].state \in HeapStates \ {"corrupt"}
                           /\ vaes[i].state = "live" <=> i = cache.vae
    BY <1>1 DEF HeapStage, TypeOK
  <2> QED
    BY <1>1, <1>2, <2>1, <2>2, <2>3, <2>4 DEF TypeOK
<1>3. CASE ~(cache.enabled /\ cache.vae # 0 /\ cache.vaeKey = DecoderKey(r))
  <2> DEFINE clean == Freed(vaes, cache.vae)
  <2>1. /\ vaes' = [clean EXCEPT ![number] = VaeOf(r)]
        /\ \/ /\ cache.enabled
              /\ cache' = [cache EXCEPT !.vae = number, !.vaeKey = DecoderKey(r)]
              /\ Reports([run EXCEPT !.vae = number, !.vaeCached = TRUE])
           \/ /\ cache' = [cache EXCEPT !.vae = 0, !.vaeKey = NoKey]
              /\ Reports([run EXCEPT !.vae = number])
    BY <1>3 DEF AcquireDecoder
  <2>2. /\ DOMAIN clean = Numbers
        /\ \A j \in Numbers : clean[j].state \in {vaes[j].state, "freed"}
        /\ \A j \in Numbers : clean[j].state # "live"
    BY <1>1, RetainedFreed
  <2> HIDE DEF clean
  <2>3. /\ DOMAIN vaes' = Numbers /\ vaes'[number] = VaeOf(r)
        /\ \A j \in Numbers \ {number} : vaes'[j] = clean[j]
    BY <1>1, <2>1, <2>2
  <2>4. \A i \in Numbers : /\ vaes'[i].state \in HeapStates \ {"corrupt"}
                           /\ vaes'[i].state = "live" <=> i = number
    <3>1. \A i \in Numbers : vaes[i].state \in HeapStates \ {"corrupt"}
      BY <1>1 DEF HeapStage, TypeOK
    <3>2. vaes'[number].state = "live"
      BY <2>3 DEF VaeOf
    <3> QED
      BY <2>2, <2>3, <3>1, <3>2 DEF HeapStates
  <2>5. /\ DOMAIN run' = DOMAIN IdleRun
        /\ run'.cancelled \in BOOLEAN /\ run'.error \in BOOLEAN
        /\ run'.req = run.req /\ run'.key = run.key /\ run'.looked = run.looked
        /\ run'.dit = run.dit /\ run'.ditCached = run.ditCached
        /\ run'.latent = run.latent /\ run'.result = run.result
        /\ run'.vae = number
        /\ \/ /\ run'.vaeCached = TRUE /\ cache.enabled
              /\ cache' = [cache EXCEPT !.vae = number, !.vaeKey = DecoderKey(r)]
           \/ /\ run'.vaeCached = FALSE
              /\ cache' = [cache EXCEPT !.vae = 0, !.vaeKey = NoKey]
    <3>1. CASE /\ cache.enabled
               /\ cache' = [cache EXCEPT !.vae = number, !.vaeKey = DecoderKey(r)]
               /\ Reports([run EXCEPT !.vae = number, !.vaeCached = TRUE])
      <4> DEFINE change == [run EXCEPT !.vae = number, !.vaeCached = TRUE]
      <4>1. /\ DOMAIN change = DOMAIN IdleRun
            /\ change.error \in BOOLEAN /\ run.cancelled \in BOOLEAN
            /\ change.req = run.req /\ change.key = run.key /\ change.looked = run.looked
            /\ change.dit = run.dit /\ change.ditCached = run.ditCached
            /\ change.vae = number /\ change.vaeCached = TRUE
            /\ change.latent = run.latent /\ change.result = run.result
        BY DEF TypeOK, IdleRun
      <4> HIDE DEF change
      <4> QED
        BY <3>1, <4>1, ReportsEffect DEF change
    <3>2. CASE /\ cache' = [cache EXCEPT !.vae = 0, !.vaeKey = NoKey]
               /\ Reports([run EXCEPT !.vae = number])
      <4> DEFINE change == [run EXCEPT !.vae = number]
      <4>1. /\ DOMAIN change = DOMAIN IdleRun
            /\ change.error \in BOOLEAN /\ run.cancelled \in BOOLEAN
            /\ change.req = run.req /\ change.key = run.key /\ change.looked = run.looked
            /\ change.dit = run.dit /\ change.ditCached = run.ditCached
            /\ change.vae = number /\ change.vaeCached = FALSE
            /\ change.latent = run.latent /\ change.result = run.result
        BY <1>1 DEF TypeOK, IdleRun
      <4> HIDE DEF change
      <4> QED
        BY <3>2, <4>1, ReportsEffect DEF change
    <3> QED
      BY <2>1, <3>1, <3>2
  <2>6. /\ DOMAIN cache' = DOMAIN EmptyCache /\ cache'.enabled = cache.enabled
        /\ cache'.condKey = cache.condKey /\ cache'.cond = cache.cond
        /\ cache'.dit = cache.dit /\ cache'.ditKey = cache.ditKey
        /\ \/ /\ run'.vaeCached = TRUE /\ cache.enabled
              /\ cache'.vae = number /\ cache'.vaeKey = DecoderKey(r)
           \/ run'.vaeCached = FALSE /\ cache'.vae = 0
    BY <2>5 DEF TypeOK, EmptyCache
  <2>7. number \in 0 .. number
    BY <1>1 DEF Numbers
  <2> QED
    BY <1>1, <2>3, <2>4, <2>5, <2>6, <2>7
<1> QED
  BY <1>2, <1>3

\* A step that acquires the decoder, wherever it goes on.
LEMMA AcquireKeeps ==
  ASSUME Inv, run.vae = 0, AcquireDecoder, UNCHANGED <<version, dits, number>>,
         \/ pc = "preview" /\ pc' \in {"denoise", "cleanup"}
         \/ pc = "decoder" /\ pc' = "decode"
  PROVE  Inv'
<1> USE DEF Inv
<1>1. pc \in WithDit \cup AfterDit
  BY DEF WithDit, AfterDit
<1>2. /\ DOMAIN run' = DOMAIN IdleRun
      /\ run'.cancelled \in BOOLEAN /\ run'.error \in BOOLEAN
      /\ run'.req = run.req /\ run'.key = run.key /\ run'.looked = run.looked
      /\ run'.dit = run.dit /\ run'.ditCached = run.ditCached
      /\ run'.latent = run.latent /\ run'.result = run.result
      /\ run'.vae \in Numbers /\ run'.vae \in 0 .. number /\ run'.vaeCached \in BOOLEAN
      /\ cache'.vae \in {0, run'.vae} /\ (run'.vaeCached <=> cache'.vae = run'.vae)
      /\ DOMAIN cache' = DOMAIN EmptyCache /\ cache'.enabled = cache.enabled
      /\ cache'.condKey = cache.condKey /\ cache'.cond = cache.cond
      /\ cache'.dit = cache.dit /\ cache'.ditKey = cache.ditKey
      /\ DOMAIN vaes' = Numbers /\ vaes'[run'.vae] = VaeOf(r)
      /\ cache'.vae # 0 => cache.enabled /\ cache'.vaeKey = DecoderKey(r)
      /\ \A i \in Numbers : vaes'[i].state \in HeapStates \ {"corrupt"}
      /\ \A i \in Numbers : vaes'[i].state = "live" <=> i = run'.vae
  BY <1>1, AcquireEffect
<1>3. 0 \notin Numbers /\ run.req \in Requests
  BY <1>1 DEF Numbers, TypeOK, WithDit, AfterDit
<1>4. OwnNoise' = OwnNoise /\ VaeOf(r)' = VaeOf(r)
  BY <1>2 DEF OwnNoise, VaeOf
<1>5. ASSUME NEW e, Current(e) PROVE Current(e)'
  BY <1>2, <1>5 DEF Current, EncodedSince, Stat
<1>6. TypeOK'
  <2>1. cache'.vae \in 0 .. number /\ cache'.dit \in 0 .. number
    BY <1>2 DEF TypeOK
  <2>2. pc' \in Phases /\ (pc' # "idle" => number' # 0 /\ run'.req \in Requests)
    BY <1>2, <1>3 DEF TypeOK, Phases
  <2> QED
    BY <1>2, <2>1, <2>2 DEF TypeOK
<1>7. CacheStage'
  <2>1. \A x, k : Belongs(x, k) => Belongs(x, k)'
    BY DEF Belongs, EncodedSince, Stat
  <2>2. cache'.vae # 0 => \E q \in Requests : /\ vaes'[cache'.vae] = VaeOf(q)
                                             /\ cache'.vaeKey = DecoderKey(q)
    BY <1>2, <1>3
  <2> QED
    BY <1>2, <2>1, <2>2 DEF CacheStage
<1>8. KeyStage'
  BY <1>1, <1>2 DEF KeyStage, BeforeDit, WithDit, AfterDit, Stat
<1>9. RunStage' /\ ResultIsExact'
  BY <1>2, <1>3, <1>4, <1>5 DEF RunStage, ResultIsExact, BeforeDit, WithDit, AfterDit
<1>10. HeapStage(dits, cache.dit, run.dit, run.ditCached)'
  BY <1>2 DEF HeapStage
<1>11. HeapStage(vaes, cache.vae, run.vae, run.vaeCached)'
  <2>1. \A i \in Numbers : i \in {cache'.vae, run'.vae} <=> i = run'.vae
    BY <1>2, <1>3
  <2>2. /\ \A i \in Numbers : /\ vaes'[i].state # "corrupt"
                              /\ vaes'[i].state = "live" <=> i \in {cache'.vae, run'.vae}
        /\ run'.vae # 0 => (run'.vaeCached <=> cache'.vae = run'.vae)
                           /\ cache'.vae \in {0, run'.vae}
    BY <1>2, <2>1
  <2> QED
    BY <2>2 DEF HeapStage
<1> QED
  BY <1>6, <1>7, <1>8, <1>9, <1>10, <1>11

LEMMA DecoderFailsKeeps ==
  ASSUME Inv, pc \in WithDit \cup AfterDit, run.vae = 0, DecoderFails,
         UNCHANGED <<version, dits, number>>
  PROVE  Inv'
<1> USE DEF Inv
<1>1. /\ vaes' = Freed(vaes, cache.vae) /\ pc' = "cleanup"
      /\ cache' = [cache EXCEPT !.vae = 0, !.vaeKey = NoKey]
      /\ run' = [run EXCEPT !.error = TRUE]
  BY DEF DecoderFails
<1>2. /\ DOMAIN run' = DOMAIN IdleRun
      /\ run'.dit = run.dit /\ run'.ditCached = run.ditCached
      /\ run'.vae = 0 /\ run'.vaeCached = run.vaeCached
      /\ run'.cancelled = run.cancelled /\ run'.error = TRUE
      /\ run'.result = run.result /\ run'.req = run.req
  BY <1>1 DEF TypeOK, IdleRun
<1>3. /\ DOMAIN cache' = DOMAIN EmptyCache /\ cache'.enabled = cache.enabled
      /\ cache'.condKey = cache.condKey /\ cache'.cond = cache.cond
      /\ cache'.dit = cache.dit /\ cache'.ditKey = cache.ditKey /\ cache'.vae = 0
  BY <1>1 DEF TypeOK, EmptyCache
<1>4. /\ run.req \in Requests /\ number # 0 /\ DOMAIN vaes = Numbers
      /\ cache.vae \in Numbers \cup {0}
      /\ HeapStage(vaes, cache.vae, 0, run.vaeCached) /\ run.vaeCached = FALSE
  BY DEF TypeOK, Numbers, WithDit, AfterDit, RunStage
<1>5. /\ DOMAIN vaes' = Numbers /\ HeapStage(vaes', 0, 0, run.vaeCached)
      /\ \A j \in Numbers : vaes'[j].state \in {vaes[j].state, "freed"}
  BY <1>1, <1>4, RetainedFreed
<1>6. TypeOK'
  <2>1. \A j \in Numbers : vaes'[j].state \in HeapStates
    BY <1>5 DEF TypeOK, HeapStates
  <2>2. pc' \in Phases /\ 0 \in 0 .. number
    BY <1>1 DEF Phases, TypeOK
  <2> QED
    BY <1>1, <1>2, <1>3, <1>4, <1>5, <2>1, <2>2 DEF TypeOK
<1>7. CacheStage'
  <2>1. \A x, k : Belongs(x, k) => Belongs(x, k)'
    BY DEF Belongs, EncodedSince, Stat
  <2> QED
    BY <1>3, <2>1 DEF CacheStage
<1>8. KeyStage' /\ RunStage' /\ ResultIsExact'
  BY <1>1, <1>2, <1>4 DEF KeyStage, RunStage, ResultIsExact, BeforeDit, WithDit, AfterDit
<1>9. HeapStage(dits, cache.dit, run.dit, run.ditCached)'
  BY <1>2, <1>3 DEF HeapStage
<1>10. HeapStage(vaes, cache.vae, run.vae, run.vaeCached)'
  BY <1>2, <1>3, <1>5
<1> QED
  BY <1>6, <1>7, <1>8, <1>9, <1>10

\* A step that changes the phase alone, or also what the callback may.
LEMMA ReportKeeps ==
  ASSUME Inv, UNCHANGED <<version, cache, dits, vaes, number>>,
         \/ UNCHANGED run
         \/ Reports(run)
         \/ Reports([run EXCEPT !.result = TRUE]),
         \/ pc = "preview" /\ pc' \in {"denoise"}
         \/ pc \in AfterDit /\ pc' \in AfterDit \cup {"cleanup"}
  PROVE  Inv'
<1> USE DEF Inv
<1>1. /\ DOMAIN run' = DOMAIN IdleRun
      /\ run'.cancelled \in BOOLEAN /\ run'.error \in BOOLEAN /\ run'.result \in BOOLEAN
      /\ run'.req = run.req /\ run'.key = run.key /\ run'.looked = run.looked
      /\ run'.dit = run.dit /\ run'.ditCached = run.ditCached
      /\ run'.vae = run.vae /\ run'.vaeCached = run.vaeCached
      /\ run'.latent = run.latent
  <2>1. CASE UNCHANGED run
    BY <2>1 DEF TypeOK
  <2>2. CASE Reports(run)
    BY <2>2, ReportsEffect DEF TypeOK
  <2>3. CASE Reports([run EXCEPT !.result = TRUE])
    <3> DEFINE change == [run EXCEPT !.result = TRUE]
    <3>1. /\ DOMAIN change = DOMAIN IdleRun
          /\ change.error \in BOOLEAN /\ run.cancelled \in BOOLEAN
          /\ change.req = run.req /\ change.key = run.key /\ change.looked = run.looked
          /\ change.dit = run.dit /\ change.ditCached = run.ditCached
          /\ change.vae = run.vae /\ change.vaeCached = run.vaeCached
          /\ change.latent = run.latent /\ change.result = TRUE
      BY DEF TypeOK, IdleRun
    <3> HIDE DEF change
    <3> QED
      BY <2>3, <3>1, ReportsEffect DEF change
  <2> QED
    BY <2>1, <2>2, <2>3
<1>2. OwnNoise' = OwnNoise /\ VaeOf(r)' = VaeOf(r)
  BY <1>1 DEF OwnNoise, VaeOf
<1>3. ASSUME NEW e, Current(e) PROVE Current(e)'
  BY <1>1, <1>3 DEF Current, EncodedSince, Stat
<1>4. TypeOK'
  BY <1>1 DEF TypeOK, Phases, AfterDit
<1>5. CacheStage'
  BY DEF CacheStage, Belongs, EncodedSince, Stat
<1>6. KeyStage'
  BY <1>1 DEF KeyStage, BeforeDit, WithDit, AfterDit, Stat
<1>7. RunStage' /\ ResultIsExact'
  BY <1>1, <1>2, <1>3 DEF RunStage, ResultIsExact, BeforeDit, WithDit, AfterDit
<1>8. /\ HeapStage(dits, cache.dit, run.dit, run.ditCached)'
      /\ HeapStage(vaes, cache.vae, run.vae, run.vaeCached)'
  BY <1>1 DEF HeapStage
<1> QED
  BY <1>4, <1>5, <1>6, <1>7, <1>8

LEMMA DecoderPhasesKeep ==
  ASSUME Inv, Preview \/ Decoder \/ AudioVae \/ Decode \/ Output
  PROVE  Inv'
<1>1. CASE Preview
  <2>1. pc = "preview" /\ run.vae = 0 /\ pc \in WithDit /\ UNCHANGED <<version, dits, number>>
    BY <1>1 DEF Preview, Inv, RunStage, WithDit
  <2>2. CASE AcquireDecoder /\ GotoUnlessCancelled("denoise")
    <3>1. pc' \in {"denoise", "cleanup"}
      BY <2>2 DEF GotoUnlessCancelled
    <3> QED
      BY <2>1, <2>2, <3>1, AcquireKeeps
  <2>3. CASE DecoderFails
    BY <2>1, <2>3, DecoderFailsKeeps
  <2>4. CASE pc' = "denoise" /\ UNCHANGED <<cache, vaes, run>>
    BY <2>1, <2>4, ReportKeeps
  <2> QED
    BY <1>1, <2>2, <2>3, <2>4 DEF Preview
<1>2. CASE Decoder
  <2>1. pc = "decoder" /\ pc \in AfterDit /\ UNCHANGED <<version, dits, number>>
    BY <1>2 DEF Decoder, AfterDit
  <2>2. CASE run.vae = 0 /\ AcquireDecoder /\ pc' = "decode"
    BY <2>1, <2>2, AcquireKeeps
  <2>3. CASE run.vae = 0 /\ DecoderFails
    BY <2>1, <2>3, DecoderFailsKeeps
  <2>4. CASE pc' = "decode" /\ UNCHANGED <<cache, vaes, run>>
    <3>1. pc' \in AfterDit
      BY <2>4 DEF AfterDit
    <3> QED
      BY <2>1, <2>4, <3>1, ReportKeeps
  <2> QED
    BY <1>2, <2>2, <2>3, <2>4 DEF Decoder
<1>3. CASE AudioVae \/ Decode \/ Output
  <2>1. /\ pc \in AfterDit /\ pc' \in AfterDit \cup {"cleanup"}
        /\ UNCHANGED <<version, cache, dits, vaes, number>>
        /\ Reports(run) \/ Reports([run EXCEPT !.result = TRUE])
    BY <1>3 DEF AudioVae, Decode, Output, AfterDit, GotoUnlessCancelled
  <2> QED
    BY <2>1, ReportKeeps
<1> QED
  BY <1>1, <1>2, <1>3

(***************************************************************************)
(* Denoising and the cleanup.                                              *)
(***************************************************************************)
\* Who frees an object that the run still uses: the run, if it is not retained.
AfterUse(heap, i, isCached) == IF isCached THEN heap ELSE Freed(heap, i)

Released(heap, after, retained) ==
  /\ DOMAIN after = Numbers
  /\ \A j \in Numbers : after[j].state \in {heap[j].state, "freed"}
  /\ \A j \in Numbers : after[j].state = "live" => after[j] = heap[j]
  /\ retained # 0 => after[retained] = heap[retained]

LEMMA UsedFreed ==
  ASSUME NEW heap, DOMAIN heap = Numbers, NEW i \in Numbers \cup {0},
         NEW retained \in Numbers \cup {0}, NEW b, NEW c,
         HeapStage(heap, retained, i, b)
  PROVE  Released(heap, AfterUse(heap, i, b), retained)
         /\ HeapStage(AfterUse(heap, i, b), retained, 0, c)
<1> DEFINE after == AfterUse(heap, i, b)
<1>1. 0 \notin Numbers
  BY DEF Numbers
<1>2. \A j \in Numbers : /\ heap[j].state # "corrupt"
                         /\ heap[j].state = "live" <=> j \in {retained, i}
  BY DEF HeapStage
<1>3. CASE i = 0
  <2>1. after = heap
    BY <1>3 DEF AfterUse, Freed
  <2> QED
    BY <1>1, <1>2, <1>3, <2>1 DEF HeapStage, Released
<1>4. CASE i # 0 /\ b
  <2>1. after = heap /\ retained = i
    BY <1>4 DEF AfterUse, HeapStage
  <2> QED
    BY <1>1, <1>2, <1>4, <2>1 DEF HeapStage, Released
<1>5. CASE i # 0 /\ ~b
  <2>1. retained = 0 /\ heap[i].state = "live"
    BY <1>2, <1>5 DEF HeapStage
  <2>2. /\ DOMAIN after = Numbers /\ after[i].state = "freed"
        /\ \A j \in Numbers \ {i} : after[j] = heap[j]
    BY <1>5, <2>1, FreedEffect DEF AfterUse
  <2>3. \A j \in Numbers : /\ after[j].state \notin {"live", "corrupt"}
                           /\ after[j].state \in {heap[j].state, "freed"}
    BY <1>1, <1>2, <2>1, <2>2
  <2> QED
    BY <1>1, <2>1, <2>2, <2>3 DEF HeapStage, Released
<1> QED
  BY <1>3, <1>4, <1>5

LEMMA DenoiseKeeps == ASSUME Inv, Denoise PROVE Inv'
<1> USE DEF Inv
<1> DEFINE d == dits[run.dit]
           latent == [encoding |-> d.encoding, noise |-> d.noise,
                      shape |-> d.shape, tuning |-> d.tuning]
<1>1. /\ pc = "denoise" /\ pc' \in {"audio", "cleanup"}
      /\ UNCHANGED <<version, cache, vaes, number>>
      /\ dits' = IF run.ditCached THEN dits ELSE Freed(dits, run.dit)
      /\ Reports([run EXCEPT !.dit = 0, !.latent = latent])
  BY DEF Denoise, ReleaseDit, GotoUnlessCancelled
<1>2. /\ DOMAIN run' = DOMAIN IdleRun
      /\ run'.cancelled \in BOOLEAN /\ run'.error \in BOOLEAN
      /\ run'.req = run.req /\ run'.key = run.key /\ run'.looked = run.looked
      /\ run'.dit = 0 /\ run'.ditCached = run.ditCached
      /\ run'.vae = run.vae /\ run'.vaeCached = run.vaeCached
      /\ run'.latent = latent /\ run'.result = run.result
  <2> DEFINE change == [run EXCEPT !.dit = 0, !.latent = latent]
  <2>1. /\ DOMAIN change = DOMAIN IdleRun
        /\ change.error \in BOOLEAN /\ run.cancelled \in BOOLEAN
        /\ change.req = run.req /\ change.key = run.key /\ change.looked = run.looked
        /\ change.dit = 0 /\ change.ditCached = run.ditCached
        /\ change.vae = run.vae /\ change.vaeCached = run.vaeCached
        /\ change.latent = latent /\ change.result = run.result
    BY DEF TypeOK, IdleRun
  <2> HIDE DEF change, latent
  <2> QED
    BY <1>1, <2>1, ReportsEffect DEF change
<1>3. /\ Current(d.encoding) /\ d.noise = OwnNoise
      /\ d.shape = r.shape /\ d.tuning = r.tuning
  BY <1>1 DEF RunStage, WithDit
<1>4. /\ run'.latent.encoding = d.encoding /\ run'.latent.noise = OwnNoise
      /\ run'.latent.shape = r.shape /\ run'.latent.tuning = r.tuning
  BY <1>2, <1>3
<1> HIDE DEF latent, d
<1>5. OwnNoise' = OwnNoise /\ VaeOf(r)' = VaeOf(r)
  BY <1>2 DEF OwnNoise, VaeOf
<1>6. Current(run.latent.encoding)'
  BY <1>1, <1>2, <1>3, <1>4 DEF Current, EncodedSince, Stat
<1>7. /\ DOMAIN dits' = Numbers
      /\ HeapStage(dits', cache.dit, 0, run.ditCached)
      /\ \A j \in Numbers : dits'[j].state \in {dits[j].state, "freed"}
      /\ \A j \in Numbers : dits'[j].state = "live" => dits'[j] = dits[j]
      /\ cache.dit # 0 => dits'[cache.dit] = dits[cache.dit]
  <2>1. /\ run.dit \in Numbers \cup {0} /\ cache.dit \in Numbers \cup {0}
        /\ DOMAIN dits = Numbers /\ HeapStage(dits, cache.dit, run.dit, run.ditCached)
    BY DEF TypeOK, Numbers
  <2>2. dits' = AfterUse(dits, run.dit, run.ditCached)
    BY <1>1 DEF AfterUse
  <2>3. Released(dits, dits', cache.dit) /\ HeapStage(dits', cache.dit, 0, run.ditCached)
    BY <2>1, <2>2, UsedFreed
  <2> QED
    BY <2>3 DEF Released
<1>8. TypeOK'
  <2>1. \A i \in Numbers : /\ dits'[i].state \in HeapStates
                           /\ dits'[i].state = "live" => DOMAIN dits'[i] = DitFields
    BY <1>7 DEF TypeOK, HeapStates
  <2>2. /\ pc' \in Phases /\ (pc' # "idle" => number' # 0 /\ run'.req \in Requests)
        /\ run'.dit \in 0 .. number'
    BY <1>1, <1>2 DEF TypeOK, Phases
  <2> QED
    BY <1>1, <1>2, <1>7, <2>1, <2>2 DEF TypeOK
<1>9. CacheStage'
  <2>1. \A x, k : Belongs(x, k) => Belongs(x, k)'
    BY <1>1 DEF Belongs, EncodedSince, Stat
  <2> QED
    BY <1>1, <1>7, <2>1 DEF CacheStage
<1>10. KeyStage'
  BY <1>1, <1>2 DEF KeyStage, BeforeDit, WithDit, AfterDit, Stat
<1>11. run.vae # 0 => vaes[run.vae] = VaeOf(r)
  BY <1>1 DEF RunStage, WithDit
<1>12. run.vae = 0 => ~run.vaeCached
  BY DEF RunStage
<1>13. RunStage' /\ ResultIsExact'
  BY <1>1, <1>2, <1>4, <1>5, <1>6, <1>11, <1>12
     DEF RunStage, ResultIsExact, BeforeDit, WithDit, AfterDit
<1>14. HeapStage(dits, cache.dit, run.dit, run.ditCached)'
  BY <1>1, <1>2, <1>7
<1>15. HeapStage(vaes, cache.vae, run.vae, run.vaeCached)'
  BY <1>1, <1>2 DEF HeapStage
<1> QED
  BY <1>8, <1>9, <1>10, <1>13, <1>14, <1>15

\* A DiT that failed leaves the context before the cleanup frees it.
LEMMA DenoiseFailsKeeps == ASSUME Inv, DenoiseFails PROVE Inv'
<1> USE DEF Inv
<1> DEFINE d == run.dit
<1>1. /\ pc = "denoise" /\ pc' = "cleanup" /\ UNCHANGED <<version, vaes, number>>
      /\ dits' = [dits EXCEPT ![d].failed = TRUE]
      /\ cache' = IF run.ditCached THEN [cache EXCEPT !.dit = 0, !.ditKey = NoKey] ELSE cache
      /\ run' = [run EXCEPT !.error = TRUE, !.ditCached = FALSE]
  BY DEF DenoiseFails, DropFailed
<1>2. /\ d # 0 /\ d \in Numbers /\ 0 \notin Numbers
  BY <1>1 DEF TypeOK, Numbers, RunStage, WithDit
<1>3. /\ dits[d].state = "live" /\ DOMAIN dits[d] = DitFields
      /\ cache.dit \in {0, d} /\ (run.ditCached <=> cache.dit = d)
  BY <1>2 DEF HeapStage, TypeOK
<1>4. /\ DOMAIN run' = DOMAIN IdleRun
      /\ run'.dit = d /\ run'.ditCached = FALSE
      /\ run'.vae = run.vae /\ run'.vaeCached = run.vaeCached
      /\ run'.cancelled = run.cancelled /\ run'.error = TRUE
      /\ run'.result = run.result /\ run'.req = run.req
  BY <1>1 DEF TypeOK, IdleRun
<1>5. /\ DOMAIN cache' = DOMAIN EmptyCache /\ cache'.enabled = cache.enabled
      /\ cache'.condKey = cache.condKey /\ cache'.cond = cache.cond
      /\ cache'.vae = cache.vae /\ cache'.vaeKey = cache.vaeKey /\ cache'.dit = 0
  <2>1. CASE run.ditCached
    BY <1>1, <2>1 DEF TypeOK, EmptyCache
  <2>2. CASE ~run.ditCached
    BY <1>1, <1>3, <2>2 DEF TypeOK
  <2> QED
    BY <2>1, <2>2
<1>6. /\ DOMAIN dits' = Numbers
      /\ \A i \in Numbers \ {d} : dits'[i] = dits[i]
      /\ dits'[d].state = "live" /\ DOMAIN dits'[d] = DitFields
  <2>1. dits'[d] = [dits[d] EXCEPT !.failed = TRUE]
    BY <1>1, <1>2 DEF TypeOK
  <2> QED
    BY <1>1, <1>2, <1>3, <2>1 DEF TypeOK, DitFields
<1>7. \A i \in Numbers : dits'[i].state = dits[i].state
  BY <1>3, <1>6
<1>8. TypeOK'
  <2>1. \A i \in Numbers : /\ dits'[i].state \in HeapStates
                           /\ dits'[i].state = "live" => DOMAIN dits'[i] = DitFields
    BY <1>6, <1>7 DEF TypeOK, HeapStates
  <2>2. /\ pc' \in Phases /\ (pc' # "idle" => number' # 0 /\ run'.req \in Requests)
        /\ run'.dit \in 0 .. number' /\ cache'.dit \in 0 .. number'
    BY <1>1, <1>4, <1>5 DEF TypeOK, Phases
  <2> QED
    BY <1>1, <1>4, <1>5, <1>6, <2>1, <2>2 DEF TypeOK
<1>9. CacheStage'
  <2>1. \A x, k : Belongs(x, k) => Belongs(x, k)'
    BY <1>1 DEF Belongs, EncodedSince, Stat
  <2> QED
    BY <1>1, <1>5, <2>1 DEF CacheStage
<1>10. run.vae = 0 => ~run.vaeCached
  BY DEF RunStage
<1>11. KeyStage' /\ RunStage' /\ ResultIsExact'
  BY <1>1, <1>4, <1>10 DEF KeyStage, RunStage, ResultIsExact, BeforeDit, WithDit, AfterDit
<1>12. HeapStage(dits, cache.dit, run.dit, run.ditCached)'
  <2>1. \A i \in Numbers : dits[i].state # "corrupt" /\ (dits[i].state = "live" <=> i = d)
    BY <1>2, <1>3 DEF HeapStage
  <2> QED
    BY <1>2, <1>4, <1>5, <1>7, <2>1 DEF HeapStage
<1>13. HeapStage(vaes, cache.vae, run.vae, run.vaeCached)'
  BY <1>1, <1>4, <1>5 DEF HeapStage
<1> QED
  BY <1>8, <1>9, <1>11, <1>12, <1>13

LEMMA CleanupKeeps == ASSUME Inv, Cleanup PROVE Inv'
<1> USE DEF Inv
<1>1. /\ pc = "cleanup" /\ pc' = "idle" /\ UNCHANGED <<version, cache, number>>
      /\ dits' = IF run.ditCached THEN dits ELSE Freed(dits, run.dit)
      /\ vaes' = IF run.vaeCached THEN vaes ELSE Freed(vaes, run.vae)
      /\ run' = [IdleRun EXCEPT !.error = run.error, !.result = run.result]
  BY DEF Cleanup
<1>2. /\ DOMAIN run' = DOMAIN IdleRun
      /\ run'.dit = 0 /\ run'.ditCached = FALSE /\ run'.vae = 0 /\ run'.vaeCached = FALSE
      /\ run'.cancelled = FALSE /\ run'.error = run.error /\ run'.result = run.result
  BY <1>1 DEF IdleRun
<1>3. /\ run.dit \in Numbers \cup {0} /\ cache.dit \in Numbers \cup {0}
      /\ run.vae \in Numbers \cup {0} /\ cache.vae \in Numbers \cup {0}
      /\ DOMAIN dits = Numbers /\ HeapStage(dits, cache.dit, run.dit, run.ditCached)
      /\ DOMAIN vaes = Numbers /\ HeapStage(vaes, cache.vae, run.vae, run.vaeCached)
  BY DEF TypeOK, Numbers
<1>3a. /\ dits' = AfterUse(dits, run.dit, run.ditCached)
       /\ vaes' = AfterUse(vaes, run.vae, run.vaeCached)
  BY <1>1 DEF AfterUse
<1>4. /\ DOMAIN dits' = Numbers /\ HeapStage(dits', cache.dit, 0, FALSE)
      /\ \A j \in Numbers : dits'[j].state \in {dits[j].state, "freed"}
      /\ \A j \in Numbers : dits'[j].state = "live" => dits'[j] = dits[j]
      /\ cache.dit # 0 => dits'[cache.dit] = dits[cache.dit]
  <2>1. Released(dits, dits', cache.dit) /\ HeapStage(dits', cache.dit, 0, FALSE)
    BY <1>3, <1>3a, UsedFreed
  <2> QED
    BY <2>1 DEF Released
<1>5. /\ DOMAIN vaes' = Numbers /\ HeapStage(vaes', cache.vae, 0, FALSE)
      /\ \A j \in Numbers : vaes'[j].state \in {vaes[j].state, "freed"}
      /\ cache.vae # 0 => vaes'[cache.vae] = vaes[cache.vae]
  <2>1. Released(vaes, vaes', cache.vae) /\ HeapStage(vaes', cache.vae, 0, FALSE)
    BY <1>3, <1>3a, UsedFreed
  <2> QED
    BY <2>1 DEF Released
<1>6. TypeOK'
  <2>1. \A i \in Numbers : /\ dits'[i].state \in HeapStates /\ vaes'[i].state \in HeapStates
                           /\ dits'[i].state = "live" => DOMAIN dits'[i] = DitFields
    BY <1>4, <1>5 DEF TypeOK, HeapStates
  <2>2. pc' \in Phases /\ run'.dit \in 0 .. number' /\ run'.vae \in 0 .. number'
    BY <1>1, <1>2 DEF TypeOK, Phases
  <2> QED
    BY <1>1, <1>2, <1>4, <1>5, <2>1, <2>2 DEF TypeOK
<1>7. CacheStage'
  <2>1. \A x, k : Belongs(x, k) => Belongs(x, k)'
    BY <1>1 DEF Belongs, EncodedSince, Stat
  <2> QED
    BY <1>1, <1>4, <1>5, <2>1 DEF CacheStage
<1>8. KeyStage' /\ RunStage' /\ ResultIsExact'
  BY <1>1, <1>2 DEF KeyStage, RunStage, ResultIsExact, BeforeDit, WithDit, AfterDit
<1>9. /\ HeapStage(dits, cache.dit, run.dit, run.ditCached)'
      /\ HeapStage(vaes, cache.vae, run.vae, run.vaeCached)'
  BY <1>1, <1>2, <1>4, <1>5
<1> QED
  BY <1>6, <1>7, <1>8, <1>9

LEMMA StutterKeeps == ASSUME Inv, UNCHANGED vars PROVE Inv'
<1> USE DEF Inv, vars
<1>1. TypeOK' /\ CacheStage' /\ KeyStage'
  <2>1. TypeOK'
    BY DEF TypeOK
  <2>2. CacheStage'
    BY DEF CacheStage, Belongs, EncodedSince, Stat
  <2>3. KeyStage'
    BY DEF KeyStage, Stat
  <2> QED
    BY <2>1, <2>2, <2>3
<1>2. RunStage' /\ ResultIsExact'
  BY DEF RunStage, ResultIsExact, Current, EncodedSince, Stat, OwnNoise, VaeOf
<1>3. /\ HeapStage(dits, cache.dit, run.dit, run.ditCached)'
      /\ HeapStage(vaes, cache.vae, run.vae, run.vaeCached)'
  BY DEF HeapStage
<1> QED
  BY <1>1, <1>2, <1>3

(***************************************************************************)
(* The theorems.                                                           *)
(***************************************************************************)
\* The context's keys describe what it retains, the run computes its own, and every
\* object has one owner, in every reachable state.
THEOREM Invariance == Spec => []Inv
<1>1. Init => Inv
  BY Start
<1>2. Inv /\ [Next]_vars => Inv'
  <2> SUFFICES ASSUME Inv, [Next]_vars PROVE Inv'
    OBVIOUS
  <2>1. CASE Keys \/ Restore \/ Probe \/ Encode \/ Augment
    BY <2>1, KeysKeeps, RestoreKeeps, ProbeKeeps, EncodeKeeps, AugmentKeeps
  <2>2. CASE ResetDit \/ ResetDitFails \/ LoadDit \/ LoadDitFails \/ PhaseFails
    BY <2>2, ResetKeeps, LoadDitKeeps, FailKeeps
  <2>3. CASE Preview \/ AudioVae \/ Decoder \/ Decode \/ Output
    BY <2>3, DecoderPhasesKeep
  <2>4. CASE Denoise \/ DenoiseFails \/ Cleanup
    BY <2>4, DenoiseKeeps, DenoiseFailsKeeps, CleanupKeeps
  <2>5. CASE Begin \/ CacheClear \/ CacheSetEnabled
    BY <2>5, BeginKeeps, ClearKeeps
  <2>6. CASE \E m \in Media : Edit(m)
    BY <2>6, EditKeeps
  <2>7. CASE UNCHANGED vars
    BY <2>7, StutterKeeps
  <2> QED
    BY <2>1, <2>2, <2>3, <2>4, <2>5, <2>6, <2>7 DEF Next, Generate
<1> QED
  BY <1>1, <1>2, PTL DEF Spec

\* Every variable stays in its type.
THEOREM TypeCorrect == Spec => []TypeOK
<1>1. Inv => TypeOK
  BY DEF Inv
<1> QED
  BY <1>1, Invariance, PTL

\* What is decoded is computed from this request's inputs alone, for every history of
\* the context.
THEOREM ResultExact == Spec => []ResultIsExact
<1>1. Inv => ResultIsExact
  BY DEF Inv
<1> QED
  BY <1>1, Invariance, PTL

\* No DiT and no decoder is freed twice, used after it is freed, or leaked.
THEOREM OneOwner == Spec => []OwnedOnce
<1>1. ASSUME Inv PROVE OwnedOnce
  <2> USE <1>1 DEF Inv
  <2>1. /\ cache.dit \in Numbers \cup {0} /\ run.dit \in Numbers \cup {0}
        /\ cache.vae \in Numbers \cup {0} /\ run.vae \in Numbers \cup {0}
        /\ 0 \notin Numbers
    BY DEF TypeOK, Numbers
  <2>2. /\ \A i \in Numbers : dits[i].state # "corrupt" /\ vaes[i].state # "corrupt"
        /\ \A i \in Numbers : /\ dits[i].state = "live" <=> i \in {cache.dit, run.dit}
                              /\ vaes[i].state = "live" <=> i \in {cache.vae, run.vae}
    BY DEF HeapStage
  <2>3. pc = "idle" => run.dit = 0 /\ run.vae = 0
    BY DEF RunStage
  <2> QED
    BY <2>1, <2>2, <2>3 DEF OwnedOnce, Live
<1> QED
  BY <1>1, Invariance, PTL

\* No more than one DiT and one decoder are in memory at any time.
THEOREM OneInMemory == Spec => []OneModel
<1>1. ASSUME Inv PROVE OneModel
  <2> USE <1>1 DEF Inv
  <2>1. ASSUME NEW heap, NEW retained, NEW used, NEW b, HeapStage(heap, retained, used, b)
        PROVE  Cardinality(Live(heap)) <= 1
    <3> DEFINE x == IF used = 0 THEN retained ELSE used
    <3>1. Live(heap) \subseteq {x}
      <4>1. 0 \notin Numbers
        BY DEF Numbers
      <4> QED
        BY <2>1, <4>1 DEF HeapStage, Live
    <3>2. IsFiniteSet({x}) /\ Cardinality({x}) = 1
      BY FS_Singleton
    <3> HIDE DEF x
    <3> QED
      BY <3>1, <3>2, FS_Subset
  <2> QED
    BY <2>1 DEF OneModel
<1> QED
  BY <1>1, Invariance, PTL

\* A DiT whose denoising failed serves no later request.
THEOREM FailedIsDropped == Spec => []FailedDitGone
<1>1. Inv => FailedDitGone
  BY DEF Inv, CacheStage, FailedDitGone
<1> QED
  BY <1>1, Invariance, PTL

\* Without the cache the DiT is freed before the VAEs run.
THEOREM OneShot == Spec => []OneShotLifetime
<1>1. ASSUME Inv PROVE OneShotLifetime
  <2>1. 0 \notin Numbers
    BY DEF Numbers
  <2> QED
    BY <1>1, <2>1 DEF Inv, CacheStage, RunStage, HeapStage, OneShotLifetime, Live, AfterDit
<1> QED
  BY <1>1, Invariance, PTL

\* Every DiT and decoder has one owner and is alone of its kind, whatever the requests.
THEOREM ModelsAreAccounted == Spec => []ModelsAccounted
<1>1. OwnedOnce /\ OneModel => ModelsAccounted
  BY DEF ModelsAccounted
<1> QED
  BY <1>1, OneOwner, OneInMemory, PTL
=============================================================================
