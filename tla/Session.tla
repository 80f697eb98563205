------------------------------ MODULE Session ------------------------------
(***************************************************************************)
(* h3_generate (h3.c) over the requests of a session, and what a context   *)
(* keeps from one to the next: the encoded conditioning, the prepared DiT  *)
(* and the video decoder, each under a key.  Files may be edited at any    *)
(* moment; every phase may fail; the progress callback may cancel.         *)
(*                                                                         *)
(* A DiT or a decoder is an object of the heap, named by the request that  *)
(* loaded it.  What it computes is the record of the inputs it was made    *)
(* from.  The requests are those that h3_valid_params accepts: it reads    *)
(* the parameters alone.  A definition named X_Fault is X with a plausible *)
(* mistake; nothing uses it.                                               *)
(***************************************************************************)
EXTENDS Integers, Sequences, FiniteSets

CONSTANTS
  Media,       \* anchor and reference files
  NoMedia,     \* the request has no file
  NoShape,     \* the conditioning does not depend on the shape
  NoKey,       \* a NULL key
  Requests,    \* the parameters of a request, see RequestType
  MaxRequests, \* bound: requests of the session
  MaxEdits,    \* bound: edits of each file
  Faults       \* TRUE: phases and allocations may fail, callbacks may cancel

ASSUME SessionAssumption ==
  /\ NoMedia \notin Media
  /\ MaxRequests \in Nat /\ MaxEdits \in Nat
  /\ Faults \in BOOLEAN
  /\ \A q \in Requests :
       /\ q.media \in Media \cup {NoMedia}
       /\ q.ref \in BOOLEAN /\ q.preview \in BOOLEAN
       /\ q.ref => q.media # NoMedia

VARIABLES
  version,  \* what stat() tells of each file: size and modification time
  cache,    \* h3_ctx
  dits,     \* heap: the DiT loaded by each request
  vaes,     \* heap: the video decoder loaded by each request
  number,   \* bound: requests begun
  pc,       \* the phase of h3_generate, "idle" between requests
  run       \* its locals; looked, a history, is the version of the file under the key

vars == <<version, cache, dits, vaes, number, pc, run>>

Numbers == 1 .. MaxRequests
Stat(m) == IF m = NoMedia THEN 0 ELSE version[m]

(***************************************************************************)
(* What is computed from what, and the keys.                               *)
(***************************************************************************)
\* The text and vision embedding and the condition latents of a request, read when
\* its file had version n.  shape is the render size, the frames and the sizing
\* policy of references; a reference is sized by a probe that found version sized.
Encoding(q, sized, n) ==
  [prompt |-> q.prompt, ref |-> q.ref, media |-> q.media, sized |-> sized, version |-> n,
   shape  |-> IF q.media = NoMedia THEN NoShape ELSE q.shape]

\* the key has the path of the file and not its size and modification time.
ConditioningKey_PathOnly(q, n) ==
  <<q.prompt, q.ref, q.media, IF q.media = NoMedia THEN NoShape ELSE q.shape, 0>>

\* h3_conditioning_key: a prompt alone is the whole key; a file counts by its path,
\* size and modification time.
ConditioningKey(q, n) ==
  <<q.prompt, q.ref, q.media, IF q.media = NoMedia THEN NoShape ELSE q.shape, n>>

\* tuning: steps, layers, core reuse, streaming and the other options of the load.
PreparedKey(q, key) == <<key, q.shape, q.tuning>>

DecoderKey(q) == <<q.ref, q.shape.canvas>>

\* A key that is made is not the NULL that stands for none.
ASSUME KeyAssumption ==
  \A q \in Requests, n \in 0 .. MaxEdits :
    /\ ConditioningKey(q, n) # NoKey
    /\ PreparedKey(q, ConditioningKey(q, n)) # NoKey
    /\ DecoderKey(q) # NoKey

Absent == [state |-> "absent"]
DitOf(q, conditioning) ==
  [state |-> "live", failed |-> FALSE, encoding |-> conditioning.encoding,
   noise |-> conditioning.noise, shape |-> q.shape, tuning |-> q.tuning]
VaeOf(q) == [state |-> "live", ref |-> q.ref, canvas |-> q.shape.canvas]

\* free() of an object that is live; of one that is not, the heap is corrupt.
Freed(heap, i) ==
  IF i = 0 THEN heap
  ELSE [heap EXCEPT ![i] = [state |-> IF @.state = "live" THEN "freed" ELSE "corrupt"]]

Nothing == [encoding |-> NoKey, noise |-> <<>>]

EmptyCache ==
  [enabled |-> FALSE, condKey |-> NoKey, cond |-> Nothing,
   ditKey |-> NoKey, dit |-> 0, vaeKey |-> NoKey, vae |-> 0]

IdleRun ==
  [req |-> NoKey, key |-> NoKey, looked |-> 0, sized |-> 0, value |-> Nothing,
   dit |-> 0, ditCached |-> FALSE, vae |-> 0, vaeCached |-> FALSE,
   cancelled |-> FALSE, error |-> FALSE, latent |-> NoKey, result |-> FALSE]

Init ==
  /\ version = [m \in Media |-> 0]
  /\ cache = EmptyCache
  /\ dits = [i \in Numbers |-> Absent] /\ vaes = [i \in Numbers |-> Absent]
  /\ number = 0 /\ pc = "idle" /\ run = IdleRun

(***************************************************************************)
(* Between requests, and around them.                                      *)
(***************************************************************************)
Edit(m) ==
  /\ version[m] < MaxEdits
  /\ version' = [version EXCEPT ![m] = @ + 1]
  /\ UNCHANGED <<cache, dits, vaes, number, pc, run>>

\* h3_cache_clear; the interactive commands that change anchors or references
\* call it too.
Cleared == [EmptyCache EXCEPT !.enabled = cache.enabled]

FreeRetained == dits' = Freed(dits, cache.dit) /\ vaes' = Freed(vaes, cache.vae)

CacheClear ==
  /\ pc = "idle" /\ cache # Cleared
  /\ cache' = Cleared /\ FreeRetained
  /\ UNCHANGED <<version, number, pc, run>>

CacheSetEnabled ==
  /\ pc = "idle"
  /\ \/ ~cache.enabled /\ cache' = [cache EXCEPT !.enabled = TRUE] /\ UNCHANGED <<dits, vaes>>
     \/ cache.enabled /\ cache' = EmptyCache /\ FreeRetained
  /\ UNCHANGED <<version, number, pc, run>>

(***************************************************************************)
(* h3_generate, phase by phase.                                            *)
(***************************************************************************)
r == run.req

Goto(next) == pc' = next

\* goto cleanup, with the error set.
Fail ==
  /\ Faults /\ Goto("cleanup")
  /\ run' = [run EXCEPT !.error = TRUE]
  /\ UNCHANGED <<version, cache, dits, vaes, number>>

\* A phase that reports its progress: the callback may cancel, which sets the error
\* and is found at the next check.
Reports(change) ==
  \E c \in {run.cancelled, run.cancelled \/ Faults} :
    run' = [change EXCEPT !.cancelled = c, !.error = @ \/ c]

\* if (progress.cancelled) goto cleanup.
GotoUnlessCancelled(next) == Goto(IF run'.cancelled THEN "cleanup" ELSE next)

Begin ==
  /\ pc = "idle" /\ number < MaxRequests /\ Goto("keys")
  /\ number' = number + 1
  /\ \E q \in Requests : run' = [IdleRun EXCEPT !.req = q]
  /\ UNCHANGED <<version, cache, dits, vaes>>

\* What is retained under another key than the request's is freed first.
Evict(key) ==
  LET vaeOut == cache.vae # 0 /\ cache.vaeKey # DecoderKey(r)
      ditOut == cache.dit # 0 /\ cache.ditKey # PreparedKey(r, key)
  IN  /\ vaes' = IF vaeOut THEN Freed(vaes, cache.vae) ELSE vaes
      /\ dits' = IF ditOut THEN Freed(dits, cache.dit) ELSE dits
      /\ cache' = [cache EXCEPT !.vae    = IF vaeOut THEN 0 ELSE @,
                                !.vaeKey = IF vaeOut THEN NoKey ELSE @,
                                !.dit    = IF ditOut THEN 0 ELSE @,
                                !.ditKey = IF ditOut THEN NoKey ELSE @]

\* The keys of the request; its file is looked at here and read later.
Keys ==
  /\ pc = "keys"
  /\ LET key == ConditioningKey(r, Stat(r.media))
     IN  /\ run' = [run EXCEPT !.key = key, !.looked = Stat(r.media)]
         /\ Evict(key)
         /\ Goto(IF cache.enabled /\ cache.condKey = key THEN "restore"
                 ELSE IF r.ref THEN "probe" ELSE "encode")
  /\ UNCHANGED <<version, number>>

\* h3_conditioning_cache_load: a copy, not the cached values.
Restore ==
  /\ pc = "restore" /\ Goto("augment")
  /\ run' = [run EXCEPT !.value = cache.cond]
  /\ UNCHANGED <<version, cache, dits, vaes, number>>

\* h3_ffprobe_visual_size of a reference, before h3_ffmpeg_read_* reads its pixels.
Probe ==
  /\ pc = "probe" /\ Goto("encode")
  /\ run' = [run EXCEPT !.sized = Stat(r.media)]
  /\ UNCHANGED <<version, cache, dits, vaes, number>>

\* Tokenizer, media, condition latents, vision and text encoder; then
\* h3_conditioning_cache_store, which may run out of memory and store nothing.
Encode ==
  /\ pc = "encode" /\ Goto("augment")
  /\ LET fresh == [encoding |-> Encoding(r, run.sized, Stat(r.media)), noise |-> <<>>]
     IN  /\ Reports([run EXCEPT !.value = fresh])
         /\ \/ /\ cache.enabled
               /\ cache' = [cache EXCEPT !.condKey = run.key, !.cond = fresh]
            \/ (~cache.enabled \/ Faults) /\ UNCHANGED cache
  /\ UNCHANGED <<version, dits, vaes, number>>

\* Conditions get noise of the request's own seed, after the cache has its copy.
Augment ==
  /\ pc = "augment"
  /\ run' = [run EXCEPT !.value.noise = IF r.media = NoMedia THEN @ ELSE Append(@, r.seed)]
  /\ GotoUnlessCancelled("dit")
  /\ UNCHANGED <<version, cache, dits, vaes, number>>

DitHit == cache.enabled /\ cache.dit # 0 /\ cache.ditKey = PreparedKey(r, run.key)

\* h3_dit_reset_run writes the new conditions into the retained DiT.
ResetDit ==
  /\ pc = "dit" /\ DitHit
  /\ run' = [run EXCEPT !.dit = cache.dit, !.ditCached = TRUE]
  /\ dits' = [dits EXCEPT ![cache.dit].noise = run.value.noise]
  /\ GotoUnlessCancelled("preview")
  /\ UNCHANGED <<version, cache, vaes, number>>

ResetDitFails ==
  /\ pc = "dit" /\ DitHit /\ Faults /\ Goto("cleanup")
  /\ run' = [run EXCEPT !.dit = cache.dit, !.ditCached = TRUE, !.error = TRUE]
  /\ dits' \in {dits, [dits EXCEPT ![cache.dit].noise = run.value.noise]}
  /\ UNCHANGED <<version, cache, vaes, number>>

\* The DiT is loaded, and retained unless its key cannot be copied.
LoadDit ==
  /\ pc = "dit" /\ ~DitHit
  /\ dits' = [dits EXCEPT ![number] = DitOf(r, run.value)]
  /\ \/ /\ cache.enabled
        /\ cache' = [cache EXCEPT !.dit = number, !.ditKey = PreparedKey(r, run.key)]
        /\ Reports([run EXCEPT !.dit = number, !.ditCached = TRUE])
     \/ /\ ~cache.enabled \/ Faults
        /\ UNCHANGED cache
        /\ Reports([run EXCEPT !.dit = number])
  /\ GotoUnlessCancelled("preview")
  /\ UNCHANGED <<version, vaes, number>>

LoadDitFails == pc = "dit" /\ ~DitHit /\ Fail

\* h3_acquire_video_decoder: the retained decoder, or a new one in its place.
AcquireDecoder ==
  IF cache.enabled /\ cache.vae # 0 /\ cache.vaeKey = DecoderKey(r) THEN
    /\ run' = [run EXCEPT !.vae = cache.vae, !.vaeCached = TRUE]
    /\ UNCHANGED <<cache, vaes>>
  ELSE
    /\ vaes' = [Freed(vaes, cache.vae) EXCEPT ![number] = VaeOf(r)]
    /\ \/ /\ cache.enabled
          /\ cache' = [cache EXCEPT !.vae = number, !.vaeKey = DecoderKey(r)]
          /\ Reports([run EXCEPT !.vae = number, !.vaeCached = TRUE])
       \/ /\ ~cache.enabled \/ Faults
          /\ cache' = [cache EXCEPT !.vae = 0, !.vaeKey = NoKey]
          /\ Reports([run EXCEPT !.vae = number])

\* The load fails after the decoder it was to replace was freed.
DecoderFails ==
  /\ Faults /\ ~(cache.enabled /\ cache.vae # 0 /\ cache.vaeKey = DecoderKey(r))
  /\ vaes' = Freed(vaes, cache.vae)
  /\ cache' = [cache EXCEPT !.vae = 0, !.vaeKey = NoKey]
  /\ run' = [run EXCEPT !.error = TRUE] /\ Goto("cleanup")

Preview ==
  /\ pc = "preview"
  /\ \/ r.preview /\ AcquireDecoder /\ GotoUnlessCancelled("denoise")
     \/ r.preview /\ DecoderFails
     \/ ~r.preview /\ Goto("denoise") /\ UNCHANGED <<cache, vaes, run>>
  /\ UNCHANGED <<version, dits, number>>

\* a one-shot DiT stays until the cleanup.
ReleaseDit_Late == UNCHANGED dits

\* if (!dit_is_cached) h3_dit_free(dit).
ReleaseDit == dits' = IF run.ditCached THEN dits ELSE Freed(dits, run.dit)

\* The latents are what this DiT computes from these conditions.
Denoise ==
  /\ pc = "denoise"
  /\ LET d == dits[run.dit]
     IN  Reports([run EXCEPT !.dit = 0,
                             !.latent = [encoding |-> d.encoding, noise |-> d.noise,
                                         shape |-> d.shape, tuning |-> d.tuning]])
  /\ ReleaseDit
  /\ GotoUnlessCancelled("audio")
  /\ UNCHANGED <<version, cache, vaes, number>>

\* the failed DiT stays retained.
DropFailed_Retains == UNCHANGED cache /\ run' = [run EXCEPT !.error = TRUE]

\* the failed DiT is freed by the cleanup and stays in the context.
DropFailed_Dangles ==
  UNCHANGED cache /\ run' = [run EXCEPT !.error = TRUE, !.ditCached = FALSE]

\* A DiT that failed is no longer retained; the cleanup frees it.
DropFailed ==
  /\ cache' = IF run.ditCached THEN [cache EXCEPT !.dit = 0, !.ditKey = NoKey] ELSE cache
  /\ run' = [run EXCEPT !.error = TRUE, !.ditCached = FALSE]

DenoiseFails ==
  /\ pc = "denoise" /\ Faults /\ Goto("cleanup")
  /\ dits' = [dits EXCEPT ![run.dit].failed = TRUE]
  /\ DropFailed
  /\ UNCHANGED <<version, vaes, number>>

AudioVae ==
  /\ pc = "audio"
  /\ Reports(run) /\ GotoUnlessCancelled("decoder")
  /\ UNCHANGED <<version, cache, dits, vaes, number>>

\* With the cache the decoder is acquired unless the preview has; without it a
\* decoder lives for the call that decodes.
Decoder ==
  /\ pc = "decoder"
  /\ IF run.vae = 0 /\ cache.enabled
     THEN (AcquireDecoder /\ Goto("decode")) \/ DecoderFails
     ELSE Goto("decode") /\ UNCHANGED <<cache, vaes, run>>
  /\ UNCHANGED <<version, dits, number>>

Decode ==
  /\ pc = "decode"
  /\ Reports(run) /\ GotoUnlessCancelled("output")
  /\ UNCHANGED <<version, cache, dits, vaes, number>>

\* Frames are delivered and the file is written.  The progress of FFmpeg may still
\* cancel; nothing checks it.
Output ==
  /\ pc = "output" /\ Goto("cleanup")
  /\ Reports([run EXCEPT !.result = TRUE])
  /\ UNCHANGED <<version, cache, dits, vaes, number>>

\* A phase fails, or a check inside it finds the cancellation.
PhaseFails ==
  pc \in {"keys", "restore", "probe", "encode", "augment", "preview", "audio", "decode",
         "output"}
    /\ Fail

Cleanup ==
  /\ pc = "cleanup" /\ Goto("idle")
  /\ dits' = IF run.ditCached THEN dits ELSE Freed(dits, run.dit)
  /\ vaes' = IF run.vaeCached THEN vaes ELSE Freed(vaes, run.vae)
  /\ run' = [IdleRun EXCEPT !.error = run.error, !.result = run.result]
  /\ UNCHANGED <<version, cache, number>>

Generate ==
  \/ Keys \/ Restore \/ Probe \/ Encode \/ Augment \/ ResetDit \/ ResetDitFails
  \/ LoadDit \/ LoadDitFails \/ Preview \/ Denoise \/ DenoiseFails \/ AudioVae
  \/ Decoder \/ Decode \/ Output \/ PhaseFails \/ Cleanup

Next ==
  \/ Begin \/ Generate \/ CacheClear \/ CacheSetEnabled
  \/ \E m \in Media : Edit(m)

Spec == Init /\ [][Next]_vars

(***************************************************************************)
(* Properties.                                                             *)
(***************************************************************************)
Phases == {"idle", "keys", "restore", "probe", "encode", "augment", "dit", "preview", "denoise",
           "audio", "decoder", "decode", "output", "cleanup"}
HeapStates == {"absent", "live", "freed", "corrupt"}

DitFields == {"state", "failed", "encoding", "noise", "shape", "tuning"}

TypeOK ==
  /\ version \in [Media -> 0 .. MaxEdits]
  /\ number \in 0 .. MaxRequests /\ pc \in Phases /\ (pc # "idle" => number # 0)
  /\ DOMAIN dits = Numbers /\ DOMAIN vaes = Numbers
  /\ \A i \in Numbers : /\ dits[i].state \in HeapStates /\ vaes[i].state \in HeapStates
                        /\ dits[i].state = "live" => DOMAIN dits[i] = DitFields
  /\ DOMAIN cache = DOMAIN EmptyCache /\ cache.enabled \in BOOLEAN
  /\ cache.dit \in 0 .. number /\ cache.vae \in 0 .. number
  /\ DOMAIN run = DOMAIN IdleRun
  /\ run.dit \in 0 .. number /\ run.vae \in 0 .. number
  /\ run.ditCached \in BOOLEAN /\ run.vaeCached \in BOOLEAN
  /\ run.cancelled \in BOOLEAN /\ run.error \in BOOLEAN /\ run.result \in BOOLEAN
  /\ pc # "idle" => run.req \in Requests

\* What request q encodes from its file as it was at version n or later.
EncodedSince(e, q, n) ==
  /\ e = Encoding(q, e.sized, e.version)
  /\ e.version \in n .. Stat(q.media)
  /\ e.sized \in IF q.ref THEN n .. e.version ELSE {0}

\* The encoding is the request's own, of its file as it was when the request looked
\* at it or later.
Current(e) == EncodedSince(e, r, run.looked)

OwnNoise == IF r.media = NoMedia THEN <<>> ELSE <<r.seed>>

\* Caching cannot be seen: the latents that are decoded come from this request's
\* prompt, files, shape, options and seed, whatever the context had retained, what
\* failed before, and however the files were edited meanwhile.
ResultIsExact ==
  pc \in {"audio", "decoder", "decode", "output"} =>
    /\ Current(run.latent.encoding)
    /\ run.latent.noise = OwnNoise
    /\ run.latent.shape = r.shape /\ run.latent.tuning = r.tuning
    /\ run.vae # 0 => vaes[run.vae] = VaeOf(r)

Live(heap) == {i \in Numbers : heap[i].state = "live"}

\* Nothing is freed twice, no pointer of the context or of a run dangles, and between
\* requests what is live is what the context retains: the six ways by which a DiT or
\* a decoder can leave h3_generate neither leak nor share it.
OwnedOnce ==
  /\ \A i \in Numbers : dits[i].state # "corrupt" /\ vaes[i].state # "corrupt"
  /\ {cache.dit, run.dit} \ {0} \subseteq Live(dits)
  /\ {cache.vae, run.vae} \ {0} \subseteq Live(vaes)
  /\ pc = "idle" => Live(dits) \subseteq {cache.dit} /\ Live(vaes) \subseteq {cache.vae}

\* At no moment are two DiTs, or two decoders, in memory: the one that is retained
\* is freed before another is loaded.
OneModel == Cardinality(Live(dits)) <= 1 /\ Cardinality(Live(vaes)) <= 1

\* Every DiT and decoder in memory has one owner and is alone of its kind (the cache of
\* h3_ctx and the pointers of h3_generate).
ModelsAccounted == OwnedOnce /\ OneModel

\* A DiT whose denoising failed, with commands half encoded and the residual of a
\* broken pass, is never retained for another request.
FailedDitGone == cache.dit # 0 => ~dits[cache.dit].failed

\* h3.h: "Disabled by default so one-shot callers retain the original phase-by-phase
\* memory lifetime": without the cache no DiT is in memory when the VAEs run, and
\* nothing stays after a request.
OneShotLifetime ==
  ~cache.enabled =>
    /\ cache.dit = 0 /\ cache.vae = 0 /\ cache.condKey = NoKey
    /\ pc \in {"audio", "decoder", "decode", "output"} => Live(dits) = {}

(***************************************************************************)
(* The inductive invariant behind them, in parts.                          *)
(***************************************************************************)
\* What is kept under a conditioning key was encoded for some request from its file
\* as it was when the key was made or later: another request with that key, which
\* has just looked at the file, would encode the same.
Belongs(e, key) ==
  \E q \in Requests, n \in 0 .. MaxEdits :
    key = ConditioningKey(q, n) /\ EncodedSince(e, q, n)

\* The keys of the context describe what it retains.
CacheStage ==
  /\ cache.condKey # NoKey => /\ Belongs(cache.cond.encoding, cache.condKey)
                              /\ cache.cond.noise = <<>>
                              /\ DOMAIN cache.cond = {"encoding", "noise"}
  /\ cache.dit # 0 => /\ Belongs(dits[cache.dit].encoding, cache.ditKey[1])
                      /\ cache.ditKey = <<cache.ditKey[1], dits[cache.dit].shape,
                                          dits[cache.dit].tuning>>
                      /\ ~dits[cache.dit].failed
  /\ cache.vae # 0 => \E q \in Requests : /\ vaes[cache.vae] = VaeOf(q)
                                          /\ cache.vaeKey = DecoderKey(q)
  /\ ~cache.enabled => cache.condKey = NoKey /\ cache.dit = 0 /\ cache.vae = 0

BeforeDit == {"restore", "probe", "encode", "augment", "dit"}
WithDit   == {"preview", "denoise"}
AfterDit  == {"audio", "decoder", "decode", "output"}

\* The keys of the request that runs, and what they have left in the context.
KeyStage ==
  /\ pc \in BeforeDit \cup WithDit \cup AfterDit =>
       /\ run.looked \in 0 .. Stat(r.media)
       /\ run.key = ConditioningKey(r, run.looked)
  /\ pc = "restore" => cache.condKey = run.key
  /\ pc = "encode" => run.sized \in IF r.ref THEN run.looked .. Stat(r.media) ELSE {0}
  /\ pc \in {"keys", "probe"} => run.sized = 0
  /\ pc = "probe" => r.ref
  /\ pc \in BeforeDit /\ cache.dit # 0 => cache.ditKey = PreparedKey(r, run.key)

\* What the request has computed so far is its own.
RunStage ==
  /\ pc \in {"augment", "dit"} =>
       /\ Current(run.value.encoding)
       /\ run.value.noise = IF pc = "dit" THEN OwnNoise ELSE <<>>
       /\ DOMAIN run.value = {"encoding", "noise"}
  /\ pc \in WithDit =>
       /\ run.dit # 0 /\ ~dits[run.dit].failed
       /\ Current(dits[run.dit].encoding) /\ dits[run.dit].noise = OwnNoise
       /\ dits[run.dit].shape = r.shape /\ dits[run.dit].tuning = r.tuning
  /\ pc \in {"idle", "keys"} \cup BeforeDit \cup AfterDit => run.dit = 0
  /\ pc \in {"idle", "keys", "preview"} \cup BeforeDit => run.vae = 0
  /\ pc \in {"keys"} \cup BeforeDit => ~run.ditCached
  /\ run.vae = 0 => ~run.vaeCached
  /\ pc \in WithDit \cup AfterDit /\ run.vae # 0 => vaes[run.vae] = VaeOf(r)

\* One owner: the context, or the run if it could not or need not be retained.
HeapStage(heap, retained, used, isCached) ==
  /\ \A i \in Numbers : /\ heap[i].state # "corrupt"
                        /\ heap[i].state = "live" <=> i \in {retained, used}
  /\ used # 0 => (isCached <=> retained = used) /\ retained \in {0, used}

Inv ==
  /\ TypeOK /\ CacheStage /\ KeyStage /\ RunStage
  /\ HeapStage(dits, cache.dit, run.dit, run.ditCached)
  /\ HeapStage(vaes, cache.vae, run.vae, run.vaeCached)
  /\ ResultIsExact
=============================================================================
