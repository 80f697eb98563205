---------------------------- MODULE TextPrefetch ----------------------------
(***************************************************************************)
(* The ring of prefetched layers of the text encoder                       *)
(* (text_encode_bf16_impl in h3_text_encoder.c): while the GPU runs one    *)
(* layer, the weights of the next ones are read into slots, each by a few  *)
(* threads ("lanes") that read a part each.  The main thread takes a slot, *)
(* runs its layer, frees the weights and starts the slot on a new layer.   *)
(*                                                                         *)
(* The weights of a layer are named by the layer: a call allocates them    *)
(* once.  A lane finds its destination through its slot, so it writes into *)
(* whatever the slot holds when it does.                                   *)
(***************************************************************************)
EXTENDS Integers, Sequences, FiniteSets

CONSTANTS
  Layers,    \* layer_count
  MaxDepth,  \* the largest H3_QWEN_PREFETCH_DEPTH
  Lanes,     \* the reading threads of a slot
  Faults     \* TRUE: reads, allocations, threads and layers may fail

ASSUME TextPrefetchAssumption ==
  /\ Layers \in Nat \ {0} /\ MaxDepth \in Nat \ {0}
  /\ Faults \in BOOLEAN

VARIABLES
  depth,    \* prefetch_depth; 0 when layers are read one by one
  pc,       \* of the main thread
  layer,    \* of the loop
  next,     \* next_prefetch_layer
  slot,     \* the layer each slot is occupied by, or Free
  lane,     \* the thread of each lane of each slot, and how it ended
  mem,      \* the weights of each layer: "none", "live", "freed", "corrupt"
  read,     \* which lanes' part of each layer's weights has been read
  weights,  \* the layer whose weights the main thread holds, or Free
  hidden    \* the layers that were run, and what the GPU found in their weights

vars == <<depth, pc, layer, next, slot, lane, mem, read, weights, hidden>>

Free == -1
AllLayers == 0 .. Layers - 1
Slots == 1 .. MaxDepth
InUse == 1 .. depth

Idle == [l \in Lanes |-> "none"]
Ended(s) == \A l \in Lanes : lane[s][l] # "reading"

\* The ring has slots when there is a layer after the first, and unless the
\* prefetch is switched off.
Init ==
  /\ depth \in IF Layers > 1 THEN 0 .. MaxDepth ELSE {0}
  /\ pc = "load" /\ layer = 0 /\ next = 1
  /\ slot = [s \in Slots |-> Free] /\ lane = [s \in Slots |-> Idle]
  /\ mem = [k \in AllLayers |-> "none"] /\ read = [k \in AllLayers |-> {}]
  /\ weights = Free /\ hidden = <<>>

\* h3_gpu_tensor_free of all the tensors of a layer.
Freed(k) == [mem EXCEPT ![k] = IF @ = "live" THEN "freed" ELSE "corrupt"]

\* memset of a slot: its record is gone, a thread of it that still runs is not.
ClearSlot(s) ==
  /\ slot' = [slot EXCEPT ![s] = Free]
  /\ lane' = [lane EXCEPT ![s] = [l \in Lanes |-> IF @[l] = "reading" THEN @[l] ELSE "none"]]

(***************************************************************************)
(* The lanes.                                                              *)
(***************************************************************************)
LaneReads(s, l) ==
  /\ lane[s][l] = "reading"
  /\ lane' = [lane EXCEPT ![s][l] = "ok"]
  /\ read' = IF slot[s] = Free THEN read ELSE [read EXCEPT ![slot[s]] = @ \cup {l}]
  /\ UNCHANGED <<depth, pc, layer, next, slot, mem, weights, hidden>>

LaneFails(s, l) ==
  /\ Faults /\ lane[s][l] = "reading"
  /\ lane' = [lane EXCEPT ![s][l] = "failed"]
  /\ UNCHANGED <<depth, pc, layer, next, slot, read, mem, weights, hidden>>

(***************************************************************************)
(* The main thread.                                                        *)
(***************************************************************************)
\* prefetch_slot_start: a lane whose thread cannot be created is read at once.
Launched(s, k) ==
  /\ slot' = [slot EXCEPT ![s] = k]
  /\ mem' = [mem EXCEPT ![k] = "live"]
  /\ \E inline \in IF Faults THEN SUBSET Lanes ELSE {{}} :
     \E good \in IF Faults THEN SUBSET inline ELSE {{}} :
       /\ lane' = [lane EXCEPT ![s] = [l \in Lanes |->
                     IF l \notin inline THEN "reading" ELSE IF l \in good THEN "ok" ELSE "failed"]]
       /\ read' = [read EXCEPT ![k] = good]

\* layer_weights_load, of the first layer and, without a ring, of every other.
Load ==
  /\ pc = "load"
  /\ weights' = layer
  /\ mem' = [mem EXCEPT ![layer] = "live"]
  /\ read' = [read EXCEPT ![layer] = Lanes]
  /\ pc' = IF layer = 0 THEN "fill" ELSE "encode"
  /\ UNCHANGED <<depth, layer, next, slot, lane, hidden>>

LoadFails ==
  /\ Faults /\ pc = "load" /\ pc' = "cleanup"
  /\ UNCHANGED <<depth, layer, next, slot, lane, mem, read, weights, hidden>>

Remains == next < Layers

\* Slot after slot until the ring is full or the layers are used up.
Fill ==
  /\ pc = "fill"
  /\ IF next <= depth /\ Remains
     THEN Launched(next, next) /\ next' = next + 1 /\ UNCHANGED pc
     ELSE pc' = "encode" /\ UNCHANGED <<next, slot, lane, mem, read>>
  /\ UNCHANGED <<depth, layer, weights, hidden>>

\* A slot whose tensors cannot be allocated is retired by prefetch_slot_start, and
\* the others by its caller.
StartFails ==
  /\ Faults
  /\ pc = "fill" /\ next <= depth /\ Remains
  /\ pc' = "retire"
  /\ UNCHANGED <<depth, layer, next, slot, lane, mem, read, weights, hidden>>

\* What the GPU finds in the weights it is given.
Run == [weights |-> weights, read |-> read[weights], memory |-> mem[weights]]

Consumed == Freed(weights)

\* The command stream of a layer: submit waits for the GPU, then the weights of
\* the layer are freed.
Encode ==
  /\ pc = "encode"
  /\ hidden' = Append(hidden, Run)
  /\ mem' = Consumed /\ weights' = Free
  /\ IF layer + 1 >= Layers THEN pc' = "cleanup" /\ UNCHANGED layer
     ELSE IF depth = 0 THEN pc' = "load" /\ layer' = layer + 1
     ELSE pc' = "take" /\ UNCHANGED layer
  /\ UNCHANGED <<depth, next, slot, lane, read>>

EncodeFails ==
  /\ Faults /\ pc = "encode"
  /\ mem' = Freed(weights) /\ weights' = Free /\ pc' = "retire"
  /\ UNCHANGED <<depth, layer, next, slot, lane, read, hidden>>

Holding(k) == {s \in InUse : slot[s] = k}

\* the slot is taken while its lanes may still read.
Joined_NoWait(s) == TRUE

\* a lane that failed is waited for like one that reads.
Joined_OnlyGood(s) == \A l \in Lanes : lane[s][l] = "ok"

Joined(s) == Ended(s)

\* next_prefetch_layer.
Following == next

\* prefetch_slot_take: the lanes are joined and the weights go to the main thread.
Taken(s) ==
  /\ Joined(s) /\ \A l \in Lanes : lane[s][l] # "failed"
  /\ weights' = slot[s]
  /\ layer' = layer + 1

\* The slot starts on the next layer no slot has had, if there is one.
Take ==
  /\ pc = "take" /\ pc' = "encode"
  /\ \E s \in Holding(layer + 1) :
       /\ Taken(s)
       /\ IF Remains
          THEN Launched(s, Following) /\ next' = next + 1
          ELSE /\ ClearSlot(s)
               /\ UNCHANGED <<next, mem, read>>
  /\ UNCHANGED <<depth, hidden>>

\* The layer is taken, and the tensors of the next one cannot be allocated.
TakeStartFails ==
  /\ Faults /\ pc = "take" /\ Remains /\ pc' = "retire"
  /\ \E s \in Holding(layer + 1) :
       /\ Taken(s)
       /\ ClearSlot(s)
  /\ UNCHANGED <<depth, next, mem, read, hidden>>

\* A lane failed, or no slot holds the layer; the slot is retired with the others.
TakeFails ==
  /\ pc = "take"
  /\ \/ Holding(layer + 1) = {}
     \/ \E s \in Holding(layer + 1) :
          Joined(s) /\ \E l \in Lanes : lane[s][l] = "failed"
  /\ pc' = "retire"
  /\ UNCHANGED <<depth, layer, next, slot, lane, mem, read, weights, hidden>>

\* the lanes of a slot are left running.
Retired_NoJoin(s) == slot[s] # Free

Retired(s) == slot[s] # Free /\ Ended(s)

\* prefetch_slots_retire, slot after slot: joined, freed, cleared.
Retire(s) ==
  /\ pc = "retire" /\ s \in InUse
  /\ Retired(s) /\ \A t \in InUse : t < s => slot[t] = Free
  /\ mem' = Freed(slot[s])
  /\ ClearSlot(s)
  /\ UNCHANGED <<depth, pc, layer, next, read, weights, hidden>>

AllRetired ==
  /\ pc = "retire" /\ \A s \in InUse : slot[s] = Free
  /\ pc' = "cleanup"
  /\ UNCHANGED <<depth, layer, next, slot, lane, mem, read, weights, hidden>>

\* retire_deferred of the main thread's own weights, and return.
Cleanup ==
  /\ pc = "cleanup" /\ pc' = "done"
  /\ IF weights = Free THEN UNCHANGED mem ELSE mem' = Freed(weights)
  /\ weights' = Free
  /\ UNCHANGED <<depth, layer, next, slot, lane, read, hidden>>

Main ==
  \/ Load \/ LoadFails \/ Fill \/ StartFails \/ Encode \/ EncodeFails
  \/ Take \/ TakeStartFails \/ TakeFails \/ AllRetired \/ Cleanup
  \/ \E s \in Slots : Retire(s)

Lane == \E s \in Slots, l \in Lanes : LaneReads(s, l) \/ LaneFails(s, l)

Next == Main \/ Lane

\* The threads run, and a read ends, well or not.
Spec == Init /\ [][Next]_vars
FairSpec == Spec /\ WF_vars(Main) /\ \A s \in Slots, l \in Lanes :
                                       WF_vars(LaneReads(s, l) \/ LaneFails(s, l))

(***************************************************************************)
(* Properties.                                                             *)
(***************************************************************************)
TypeOK ==
  /\ depth \in 0 .. MaxDepth
  /\ pc \in {"load", "fill", "encode", "take", "retire", "cleanup", "done"}
  /\ layer \in AllLayers /\ next \in 1 .. Layers
  /\ slot \in [Slots -> AllLayers \cup {Free}]
  /\ lane \in [Slots -> [Lanes -> {"none", "reading", "ok", "failed"}]]
  /\ mem \in [AllLayers -> {"none", "live", "freed", "corrupt"}]
  /\ read \in [AllLayers -> SUBSET Lanes]
  /\ weights \in AllLayers \cup {Free}
  /\ hidden \in Seq([weights : AllLayers, read : SUBSET Lanes,
                     memory : {"none", "live", "freed", "corrupt"}])

\* Whatever the depth of the ring and however the reads overlap, the GPU runs the
\* layers in order and finds in each layer's weights that layer, whole and not freed.
RunsOwnWeights ==
  \A i \in 1 .. Len(hidden) :
    hidden[i] = [weights |-> i - 1, read |-> Lanes, memory |-> "live"]

\* "Qwen layer %d is absent from the prefetch ring" is an error that cannot happen:
\* while a layer runs the slots hold exactly the depth layers after it, each once.
NeverAbsent ==
  pc \in {"encode", "take"} /\ depth > 0 =>
    \A k \in AllLayers :
      Cardinality(Holding(k)) = (IF layer < k /\ k <= layer + depth THEN 1 ELSE 0)

\* Each layer runs with its own weights and the ring never lacks the one that is next
\* (text_encode_bf16_impl, prefetch_slot_take).
RightLayer == RunsOwnWeights /\ NeverAbsent

\* A thread that reads has a slot that is occupied and weights that are live: no way
\* out of the call frees, clears or returns under a running thread.
ReadersScoped ==
  \A s \in Slots : ~Ended(s) => slot[s] # Free /\ mem[slot[s]] = "live" /\ pc # "done"

\* No tensor is freed twice; when the call returns, after any failure, every one that
\* was allocated has been freed.
FreedOnce ==
  \A k \in AllLayers : mem[k] # "corrupt" /\ (pc = "done" => mem[k] # "live")

\* The memory of the ring is bounded: the layer that runs and the slots.
Bounded == Cardinality({k \in AllLayers : mem[k] = "live"}) <= depth + 1

\* The weights have an owner at all times: the threads that fill them, the ring or the
\* encoder; they are freed once, and never more than the ring and one are in memory
\* (prefetch_slot_start to retire_deferred).
WeightsAccounted == ReadersScoped /\ FreedOnce /\ Bounded

(***************************************************************************)
(* The inductive invariant behind them, in parts.                          *)
(***************************************************************************)
\* How far the loop has got, and the weights it holds.
LoopStage ==
  /\ pc \in {"load", "encode"} => Len(hidden) = layer
  /\ pc = "fill" => layer = 0 /\ Len(hidden) = 0
  /\ pc = "take" => Len(hidden) = layer + 1 /\ layer + 1 < Layers /\ depth > 0
  /\ pc \in {"fill", "encode"} => weights = layer /\ read[layer] = Lanes
  /\ pc \in {"load", "take", "done"} => weights = Free
  /\ weights # Free => mem[weights] = "live" /\ \A s \in Slots : slot[s] # weights

\* A slot outside the ring is free; no layer is in two slots; an occupied slot has
\* live weights, lanes that were all started, and the parts they have read.
SlotStage ==
  /\ \A s \in Slots : slot[s] # Free =>
       /\ s \in InUse /\ mem[slot[s]] = "live"
       /\ \A l \in Lanes : /\ lane[s][l] # "none"
                           /\ lane[s][l] = "ok" => l \in read[slot[s]]
       /\ \A t \in Slots : slot[t] = slot[s] => t = s
  /\ \A s \in Slots : slot[s] = Free => lane[s] = Idle

\* What the ring holds by where the loop is.
RingStage ==
  /\ pc = "load" \/ depth = 0 => \A s \in Slots : slot[s] = Free
  /\ pc = "load" => IF layer = 0 THEN next = 1 ELSE depth = 0
  /\ pc = "fill" => /\ next <= depth + 1
                    /\ \A s \in Slots : slot[s] = IF s < next THEN s ELSE Free
  /\ pc \in {"encode", "take"} /\ depth > 0 =>
       /\ next <= layer + 1 + depth
       /\ next = layer + 1 + depth \/ next = Layers
       /\ \A s \in Slots : slot[s] # Free => layer < slot[s] /\ slot[s] < next
       /\ \A k \in AllLayers : layer < k /\ k < next => \E s \in InUse : slot[s] = k
  /\ pc \in {"cleanup", "done"} => \A s \in Slots : slot[s] = Free

\* Whatever is allocated can be reached, and nothing was freed twice.
MemStage ==
  \A k \in AllLayers :
    /\ mem[k] # "corrupt"
    /\ mem[k] = "live" => weights = k \/ \E s \in InUse : slot[s] = k

Inv == TypeOK /\ RunsOwnWeights /\ LoopStage /\ SlotStage /\ RingStage /\ MemStage

\* The call returns, whatever fails.
Returns == <>(pc = "done")
=============================================================================
