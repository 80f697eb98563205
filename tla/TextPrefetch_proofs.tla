------------------------ MODULE TextPrefetch_proofs ------------------------
(***************************************************************************)
(* What the prefetch ring of the text encoder keeps, proved for every      *)
(* number of layers, depth of the ring and set of lanes.                   *)
(***************************************************************************)
EXTENDS TextPrefetch, FiniteSetTheorems, TLAPS

USE TextPrefetchAssumption DEF Free, AllLayers, Slots, InUse

LEMMA Start == Init => Inv
<1> SUFFICES ASSUME Init PROVE Inv
  OBVIOUS
<1>1. TypeOK
  BY DEF Init, TypeOK, Idle
<1>2. RunsOwnWeights /\ LoopStage
  BY DEF Init, RunsOwnWeights, LoopStage
<1>3. SlotStage /\ RingStage /\ MemStage
  BY DEF Init, SlotStage, RingStage, MemStage, Idle
<1> QED
  BY <1>1, <1>2, <1>3 DEF Inv

LEMMA Stutter == Inv /\ UNCHANGED vars => Inv'
  BY DEF Inv, TypeOK, RunsOwnWeights, LoopStage, SlotStage, RingStage, MemStage,
         vars

\* What the end of a lane does: it says how it ended, and its part is read if well.
LaneEnds(s, l) ==
  /\ slot[s] # Free /\ slot[s] \in AllLayers
  /\ lane' \in [Slots -> [Lanes -> {"none", "reading", "ok", "failed"}]]
  /\ read' \in [AllLayers -> SUBSET Lanes]
  /\ \A t \in Slots \ {s} : lane'[t] = lane[t]
  /\ \A m \in Lanes \ {l} : lane'[s][m] = lane[s][m]
  /\ lane'[s][l] \in {"ok", "failed"}
  /\ lane'[s][l] = "ok" => l \in read'[slot[s]]
  /\ \A k \in AllLayers : read[k] \subseteq read'[k]
  /\ UNCHANGED <<depth, pc, layer, next, slot, mem, weights, hidden>>

LEMMA LaneEffect ==
  ASSUME Inv, NEW s \in Slots, NEW l \in Lanes, LaneReads(s, l) \/ LaneFails(s, l)
  PROVE  LaneEnds(s, l)
<1>1. lane[s][l] = "reading"
  BY DEF LaneReads, LaneFails
<1>2. slot[s] # Free /\ slot[s] \in AllLayers
  BY <1>1 DEF Inv, SlotStage, Idle, TypeOK
<1>3. CASE LaneReads(s, l)
  <2>1. /\ lane' = [lane EXCEPT ![s] = [lane[s] EXCEPT ![l] = "ok"]]
        /\ read' = [read EXCEPT ![slot[s]] = read[slot[s]] \cup {l}]
        /\ UNCHANGED <<depth, pc, layer, next, slot, mem, weights, hidden>>
    BY <1>2, <1>3 DEF LaneReads
  <2>2. lane \in [Slots -> [Lanes -> {"none", "reading", "ok", "failed"}]]
        /\ read \in [AllLayers -> SUBSET Lanes]
    BY DEF Inv, TypeOK
  <2> QED
    BY <1>2, <2>1, <2>2 DEF LaneEnds
<1>4. CASE LaneFails(s, l)
  <2>1. /\ lane' = [lane EXCEPT ![s] = [lane[s] EXCEPT ![l] = "failed"]]
        /\ UNCHANGED <<depth, pc, layer, next, slot, mem, weights, hidden, read>>
    BY <1>4 DEF LaneFails
  <2>2. lane \in [Slots -> [Lanes -> {"none", "reading", "ok", "failed"}]]
        /\ read \in [AllLayers -> SUBSET Lanes]
    BY DEF Inv, TypeOK
  <2>3. /\ lane' \in [Slots -> [Lanes -> {"none", "reading", "ok", "failed"}]]
        /\ \A t \in Slots \ {s} : lane'[t] = lane[t]
        /\ \A m \in Lanes \ {l} : lane'[s][m] = lane[s][m]
        /\ lane'[s][l] = "failed"
    BY <2>1, <2>2
  <2>4. read' \in [AllLayers -> SUBSET Lanes]
        /\ \A k \in AllLayers : read[k] \subseteq read'[k]
    BY <2>1, <2>2
  <2>5. UNCHANGED <<depth, pc, layer, next, slot, mem, weights, hidden>>
    BY <2>1
  <2> QED
    BY ONLY <1>2, <2>3, <2>4, <2>5 DEF LaneEnds
<1> QED
  BY <1>3, <1>4

LEMMA LaneKeeps ==
  ASSUME Inv, NEW s \in Slots, NEW l \in Lanes, LaneReads(s, l) \/ LaneFails(s, l)
  PROVE  Inv'
<1> LaneEnds(s, l)
  BY LaneEffect
<1> USE DEF Inv, LaneEnds
<1>1. TypeOK'
  BY DEF TypeOK
<1>2. RunsOwnWeights' /\ MemStage' /\ RingStage'
  BY DEF RunsOwnWeights, MemStage, RingStage
<1>3. LoopStage'
  BY DEF LoopStage, TypeOK
<1>4. SlotStage'
  <2>1. \A t \in Slots : slot'[t] = Free => lane'[t] = Idle
    BY DEF SlotStage, Idle
  <2>2. ASSUME NEW t \in Slots, slot'[t] # Free
        PROVE  /\ t \in InUse' /\ mem'[slot'[t]] = "live"
               /\ \A u \in Slots : slot'[u] = slot'[t] => u = t
    BY <2>2 DEF SlotStage
  <2>3. ASSUME NEW t \in Slots, slot'[t] # Free, NEW m \in Lanes
        PROVE  lane'[t][m] # "none" /\ (lane'[t][m] = "ok" => m \in read'[slot'[t]])
    <3>1. slot'[t] = slot[t] /\ slot[t] \in AllLayers
      BY <2>3 DEF TypeOK
    <3>2. lane[t][m] # "none" /\ (lane[t][m] = "ok" => m \in read[slot[t]])
      BY <2>3, <3>1 DEF SlotStage
    <3>3. CASE t = s /\ m = l
      BY <3>1, <3>3
    <3>4. CASE ~(t = s /\ m = l)
      BY <3>1, <3>2, <3>4
    <3> QED
      BY <3>3, <3>4
  <2> QED
    BY <2>1, <2>2, <2>3 DEF SlotStage
<1> QED
  BY <1>1, <1>2, <1>3, <1>4

LEMMA LoadKeeps == ASSUME Inv, Load \/ LoadFails PROVE Inv'
<1> USE DEF Inv
<1>1. CASE Load
  <2>1. /\ pc = "load" /\ layer \in AllLayers
        /\ mem' = [mem EXCEPT ![layer] = "live"]
        /\ read' = [read EXCEPT ![layer] = Lanes]
        /\ weights' = layer
        /\ pc' = IF layer = 0 THEN "fill" ELSE "encode"
        /\ UNCHANGED <<depth, layer, next, slot, lane, hidden>>
    BY <1>1 DEF Load, TypeOK
  <2>2. \A s \in Slots : slot[s] = Free
    BY <2>1 DEF RingStage
  <2>3. TypeOK' /\ RunsOwnWeights' /\ SlotStage'
    BY <2>1, <2>2 DEF TypeOK, RunsOwnWeights, SlotStage
  <2>4. LoopStage'
    BY <2>1, <2>2 DEF LoopStage, TypeOK
  <2>5. RingStage'
    <3>1. CASE layer = 0
      BY <2>1, <2>2, <3>1 DEF RingStage, TypeOK
    <3>2. CASE layer # 0
      BY <2>1, <2>2, <3>2 DEF RingStage, TypeOK
    <3> QED
      BY <3>1, <3>2
  <2>6. MemStage'
    <3>1. ASSUME NEW k \in AllLayers
          PROVE  /\ mem'[k] # "corrupt"
                 /\ mem'[k] = "live" => weights' = k \/ \E t \in InUse' : slot'[t] = k
      <4>1. CASE k = layer
        BY <2>1, <4>1 DEF TypeOK
      <4>2. CASE k # layer
        <5>1. mem'[k] = mem[k] /\ weights = Free
          BY <2>1, <4>2 DEF TypeOK, LoopStage
        <5> QED
          BY <2>1, <5>1 DEF MemStage
      <4> QED
        BY <4>1, <4>2
    <3> QED
      BY <3>1 DEF MemStage
  <2> QED
    BY <2>3, <2>4, <2>5, <2>6
<1>2. CASE LoadFails
  BY <1>2 DEF LoadFails, TypeOK, RunsOwnWeights, LoopStage, SlotStage, RingStage,
              MemStage
<1> QED
  BY <1>1, <1>2

\* What starting a slot of the ring on a layer does, and what it leaves alone.
Starts(s, k) ==
  /\ slot' \in [Slots -> AllLayers \cup {Free}]
  /\ lane' \in [Slots -> [Lanes -> {"none", "reading", "ok", "failed"}]]
  /\ mem' \in [AllLayers -> {"none", "live", "freed", "corrupt"}]
  /\ read' \in [AllLayers -> SUBSET Lanes]
  /\ slot'[s] = k /\ mem'[k] = "live"
  /\ \A l \in Lanes : /\ lane'[s][l] # "none"
                      /\ lane'[s][l] = "ok" => l \in read'[k]
  /\ \A t \in Slots \ {s} : slot'[t] = slot[t] /\ lane'[t] = lane[t]
  /\ \A j \in AllLayers \ {k} : mem'[j] = mem[j] /\ read'[j] = read[j]

LEMMA LaunchStarts ==
  ASSUME TypeOK, NEW s \in InUse, NEW k \in AllLayers, Launched(s, k)
  PROVE  Starts(s, k)
<1> s \in Slots
  BY DEF TypeOK
<1>1. PICK inline \in SUBSET Lanes, good \in SUBSET Lanes :
        /\ good \in SUBSET inline
        /\ lane' = [lane EXCEPT ![s] = [l \in Lanes |->
                     IF l \notin inline THEN "reading"
                     ELSE IF l \in good THEN "ok" ELSE "failed"]]
        /\ read' = [read EXCEPT ![k] = good]
  BY DEF Launched
<1>2. /\ read' \in [AllLayers -> SUBSET Lanes] /\ read'[k] = good
      /\ \A j \in AllLayers \ {k} : read'[j] = read[j]
  BY <1>1 DEF TypeOK
<1>3. /\ lane' \in [Slots -> [Lanes -> {"none", "reading", "ok", "failed"}]]
      /\ \A t \in Slots \ {s} : lane'[t] = lane[t]
      /\ \A l \in Lanes : lane'[s][l] = IF l \notin inline THEN "reading"
                                        ELSE IF l \in good THEN "ok" ELSE "failed"
  BY <1>1 DEF TypeOK
<1>4. /\ slot' \in [Slots -> AllLayers \cup {Free}] /\ slot'[s] = k
      /\ mem' \in [AllLayers -> {"none", "live", "freed", "corrupt"}]
      /\ mem'[k] = "live"
      /\ \A t \in Slots \ {s} : slot'[t] = slot[t]
      /\ \A j \in AllLayers \ {k} : mem'[j] = mem[j]
  BY DEF Launched, TypeOK
<1> QED
  BY <1>2, <1>3, <1>4 DEF Starts

LEMMA FillKeeps == ASSUME Inv, Fill \/ StartFails PROVE Inv'
<1> USE DEF Inv
<1>1. CASE Fill /\ next <= depth /\ Remains
  <2>1. /\ Launched(next, next) /\ next' = next + 1 /\ pc = "fill" /\ pc' = "fill"
        /\ UNCHANGED <<depth, layer, weights, hidden>>
    BY <1>1 DEF Fill
  <2>2. next \in InUse /\ next \in Slots /\ next \in AllLayers
    BY <1>1 DEF TypeOK, Remains
  <2>3. Starts(next, next)
    BY <2>1, <2>2, LaunchStarts
  <2> USE DEF Starts
  <2>4. TypeOK'
    <3>1. next' \in 1 .. Layers
      BY <1>1, <2>1 DEF TypeOK, Remains
    <3>2. UNCHANGED <<depth, layer, weights, hidden>> /\ pc' = pc
      BY <2>1
    <3> QED
      BY <2>3, <3>1, <3>2 DEF TypeOK
  <2>5. RunsOwnWeights'
    BY <2>1 DEF RunsOwnWeights
  <2>6. \A t \in Slots : slot[t] = IF t < next THEN t ELSE Free
    BY <2>1 DEF RingStage
  <2>7. \A t \in Slots : slot'[t] = IF t < next' THEN t ELSE Free
    <3>1. next' = next + 1 /\ next \in Nat
      BY <2>1 DEF TypeOK
    <3>2. slot'[next] = next /\ \A t \in Slots \ {next} : slot'[t] = slot[t]
      BY <2>3
    <3> QED
      BY <2>6, <3>1, <3>2
  <2>8. LoopStage'
    <3>1. weights = 0 /\ next # 0 /\ 0 \in AllLayers
      BY <2>1, <2>2 DEF LoopStage, TypeOK
    <3>2. read'[0] = read[0] /\ mem'[0] = mem[0]
      BY <2>3, <3>1
    <3> QED
      BY <2>1, <2>2, <3>1, <3>2, <2>7 DEF LoopStage
  <2>9. SlotStage'
    BY <2>1, <2>2, <2>3, <2>6, <2>7 DEF SlotStage, TypeOK
  <2>10. RingStage'
    BY <1>1, <2>1, <2>7 DEF RingStage, LoopStage, TypeOK
  <2>11. MemStage'
    <3>1. ASSUME NEW k \in AllLayers
          PROVE  /\ mem'[k] # "corrupt"
                 /\ mem'[k] = "live" => weights' = k \/ \E t \in InUse' : slot'[t] = k
      <4>1. CASE k = next
        BY <2>1, <2>2, <2>3, <4>1
      <4>2. CASE k # next
        <5>1. mem'[k] = mem[k]
          BY <2>3, <4>2
        <5>2. weights' = weights /\ depth' = depth
          BY <2>1
        <5>3. \A t \in InUse : slot[t] = k => slot'[t] = k
          BY <2>1, <2>2, <2>6, <2>7, <4>2 DEF TypeOK
        <5> QED
          BY <5>1, <5>2, <5>3 DEF MemStage
      <4> QED
        BY <4>1, <4>2
    <3> QED
      BY <3>1 DEF MemStage
  <2> QED
    BY <2>4, <2>5, <2>8, <2>9, <2>10, <2>11
<1>2. CASE Fill /\ ~(next <= depth /\ Remains)
  <2>1. /\ pc = "fill" /\ pc' = "encode"
        /\ UNCHANGED <<next, slot, lane, mem, read, depth, layer, weights, hidden>>
    BY <1>2 DEF Fill
  <2>2. TypeOK' /\ RunsOwnWeights' /\ SlotStage' /\ MemStage'
    <3>1. TypeOK' /\ RunsOwnWeights'
      BY <2>1 DEF TypeOK, RunsOwnWeights
    <3>2. SlotStage'
      BY <2>1 DEF SlotStage, InUse
    <3>3. MemStage'
      BY <2>1 DEF MemStage, InUse
    <3> QED
      BY <3>1, <3>2, <3>3
  <2>3. LoopStage'
    BY <2>1 DEF LoopStage
  <2>4. RingStage'
    BY <1>2, <2>1 DEF RingStage, LoopStage, TypeOK, Remains
  <2> QED
    BY <2>2, <2>3, <2>4
<1>3. CASE StartFails
  BY <1>3 DEF StartFails, TypeOK, RunsOwnWeights, LoopStage, SlotStage, RingStage,
              MemStage
<1> QED
  BY <1>1, <1>2, <1>3

\* Freeing the live weights of a layer once.
LEMMA FreedWell ==
  ASSUME TypeOK, NEW k \in AllLayers, mem[k] = "live"
  PROVE  /\ Freed(k) \in [AllLayers -> {"none", "live", "freed", "corrupt"}]
         /\ Freed(k)[k] = "freed"
         /\ \A j \in AllLayers \ {k} : Freed(k)[j] = mem[j]
  BY DEF Freed, TypeOK

\* Clearing the record of a slot none of whose threads runs.
Clears(s) ==
  /\ slot' \in [Slots -> AllLayers \cup {Free}]
  /\ lane' \in [Slots -> [Lanes -> {"none", "reading", "ok", "failed"}]]
  /\ slot'[s] = Free /\ lane'[s] = Idle
  /\ \A t \in Slots \ {s} : slot'[t] = slot[t] /\ lane'[t] = lane[t]

LEMMA ClearSlotClears ==
  ASSUME TypeOK, NEW s \in Slots, Ended(s), ClearSlot(s)
  PROVE  Clears(s)
<1>1. [l \in Lanes |-> IF lane[s][l] = "reading" THEN lane[s][l] ELSE "none"] = Idle
  BY DEF Ended, Idle
<1>2. lane' = [lane EXCEPT ![s] = Idle]
  BY <1>1 DEF ClearSlot
<1>3. Idle \in [Lanes -> {"none", "reading", "ok", "failed"}]
  BY DEF Idle
<1> QED
  BY <1>2, <1>3 DEF Clears, ClearSlot, TypeOK

LEMMA EncodeKeeps == ASSUME Inv, Encode \/ EncodeFails PROVE Inv'
<1> USE DEF Inv
<1>1. /\ pc = "encode" /\ weights = layer /\ layer \in AllLayers
      /\ mem[layer] = "live" /\ read[layer] = Lanes /\ Len(hidden) = layer
      /\ \A s \in Slots : slot[s] # layer
      /\ mem' = Freed(layer) /\ weights' = Free
      /\ UNCHANGED <<depth, next, slot, lane, read>>
  BY DEF Encode, EncodeFails, Consumed, LoopStage, TypeOK
<1>2. /\ mem' \in [AllLayers -> {"none", "live", "freed", "corrupt"}]
      /\ mem'[layer] = "freed"
      /\ \A j \in AllLayers \ {layer} : mem'[j] = mem[j]
  BY <1>1, FreedWell
<1>3. SlotStage'
  <2>1. \A s \in Slots : slot[s] # Free => mem'[slot[s]] = mem[slot[s]]
    BY <1>1, <1>2 DEF TypeOK
  <2> QED
    BY <1>1, <2>1 DEF SlotStage
<1>4. MemStage'
  <2>1. ASSUME NEW k \in AllLayers
        PROVE  /\ mem'[k] # "corrupt"
               /\ mem'[k] = "live" => weights' = k \/ \E s \in InUse' : slot'[s] = k
    <3>1. CASE k = layer
      BY <1>2, <3>1
    <3>2. CASE k # layer
      BY <1>1, <1>2, <3>2 DEF MemStage
    <3> QED
      BY <3>1, <3>2
  <2> QED
    BY <2>1 DEF MemStage
<1>5. CASE Encode
  <2>1. /\ hidden' = Append(hidden, [weights |-> layer, read |-> Lanes, memory |-> "live"])
        /\ \/ layer + 1 >= Layers /\ pc' = "cleanup" /\ layer' = layer
           \/ layer + 1 < Layers /\ depth = 0 /\ pc' = "load" /\ layer' = layer + 1
           \/ layer + 1 < Layers /\ depth # 0 /\ pc' = "take" /\ layer' = layer
    BY <1>1, <1>5 DEF Encode, Run, TypeOK
  <2>2. [weights |-> layer, read |-> Lanes, memory |-> "live"]
          \in [weights : AllLayers, read : SUBSET Lanes,
              memory : {"none", "live", "freed", "corrupt"}]
    BY <1>1
  <2>3. /\ hidden' \in Seq([weights : AllLayers, read : SUBSET Lanes,
                            memory : {"none", "live", "freed", "corrupt"}])
        /\ Len(hidden') = layer + 1
        /\ hidden'[layer + 1] = [weights |-> layer, read |-> Lanes, memory |-> "live"]
        /\ \A i \in 1 .. layer : hidden'[i] = hidden[i]
    BY <1>1, <2>1, <2>2 DEF TypeOK
  <2>4. RunsOwnWeights'
    <3>1. ASSUME NEW i \in 1 .. Len(hidden')
          PROVE  hidden'[i] = [weights |-> i - 1, read |-> Lanes, memory |-> "live"]
      <4>1. CASE i = layer + 1
        BY <1>1, <2>3, <4>1
      <4>2. CASE i # layer + 1
        BY <1>1, <2>3, <4>2 DEF RunsOwnWeights
      <4> QED
        BY <4>1, <4>2
    <3> QED
      BY <3>1 DEF RunsOwnWeights
  <2>5. TypeOK'
    <3>1. layer' \in AllLayers
          /\ pc' \in {"load", "fill", "encode", "take", "retire", "cleanup", "done"}
      BY <1>1, <2>1
    <3> QED
      BY <1>1, <1>2, <2>3, <3>1 DEF TypeOK
  <2>6. LoopStage'
    BY <1>1, <2>1, <2>3 DEF LoopStage, TypeOK
  <2>7. RingStage'
    <3>1. CASE pc' = "cleanup"
      <4>1. \A s \in Slots : slot[s] = Free
        BY <1>1, <2>1, <3>1 DEF RingStage, TypeOK
      <4> QED
        BY <1>1, <3>1, <4>1 DEF RingStage
    <3>2. CASE pc' = "load"
      BY <1>1, <2>1, <3>2 DEF RingStage
    <3>3. CASE pc' = "take"
      BY <1>1, <2>1, <3>3 DEF RingStage
    <3> QED
      BY <2>1, <3>1, <3>2, <3>3
  <2> QED
    BY <1>3, <1>4, <2>4, <2>5, <2>6, <2>7
<1>6. CASE EncodeFails
  <2>1. pc' = "retire" /\ layer' = layer /\ hidden' = hidden
    BY <1>6 DEF EncodeFails
  <2>2. TypeOK' /\ RunsOwnWeights' /\ LoopStage' /\ RingStage'
    BY <1>1, <1>2, <2>1 DEF TypeOK, RunsOwnWeights, LoopStage, RingStage
  <2> QED
    BY <1>3, <1>4, <2>2
<1> QED
  BY <1>5, <1>6

LEMMA TakeKeeps == ASSUME Inv, Take PROVE Inv'
<1> USE DEF Inv
<1>1. PICK s \in Holding(layer + 1) :
        /\ Taken(s)
        /\ IF Remains
           THEN Launched(s, Following) /\ next' = next + 1
           ELSE /\ ClearSlot(s)
                /\ UNCHANGED <<next, mem, read>>
  BY DEF Take
<1>2. /\ pc = "take" /\ pc' = "encode" /\ UNCHANGED <<depth, hidden>>
      /\ s \in InUse /\ s \in Slots /\ slot[s] = layer + 1
      /\ layer' = layer + 1 /\ weights' = layer + 1
  BY <1>1 DEF Take, Taken, Holding, TypeOK
<1>3. /\ depth > 0 /\ weights = Free /\ Len(hidden) = layer + 1
      /\ layer + 1 \in AllLayers
      /\ mem[layer + 1] = "live" /\ layer + 1 < next
      /\ \A t \in Slots \ {s} : slot[t] # layer + 1
  <2>1. /\ depth > 0 /\ weights = Free /\ Len(hidden) = layer + 1
        /\ layer + 1 \in AllLayers /\ layer + 1 # Free
    BY <1>2 DEF LoopStage, TypeOK, AllLayers, Free
  <2>2. mem[layer + 1] = "live" /\ \A t \in Slots \ {s} : slot[t] # layer + 1
    BY <1>2, <2>1 DEF SlotStage
  <2>3. layer + 1 < next
    BY <1>2, <2>1 DEF RingStage
  <2> QED
    BY <2>1, <2>2, <2>3
<1>4. read[layer + 1] = Lanes
  <2>1. \A l \in Lanes : lane[s][l] = "ok"
    <3>1. \A l \in Lanes : lane[s][l] # "reading" /\ lane[s][l] # "failed"
      BY <1>1 DEF Taken, Joined, Ended
    <3>2. \A l \in Lanes : lane[s][l] # "none"
      BY <1>2, <1>3 DEF SlotStage, AllLayers, Free
    <3>3. \A l \in Lanes : lane[s][l] \in {"none", "reading", "ok", "failed"}
      BY <1>2 DEF TypeOK
    <3> QED
      BY <3>1, <3>2, <3>3
  <2>2. \A l \in Lanes : l \in read[layer + 1]
    BY <1>2, <1>3, <2>1 DEF SlotStage
  <2>3. read[layer + 1] \subseteq Lanes
    BY <1>3 DEF TypeOK
  <2> QED
    BY <2>2, <2>3
<1>5. RunsOwnWeights'
  BY <1>2 DEF RunsOwnWeights
<1>6. /\ layer \in Int /\ next \in Int /\ depth \in Int
      /\ \A t \in Slots : slot[t] \in Int
  BY DEF TypeOK
<1>7. /\ \A t \in Slots : slot[t] # Free => layer < slot[t] /\ slot[t] < next
      /\ \A k \in AllLayers : layer < k /\ k < next => \E t \in InUse : slot[t] = k
      /\ next <= layer + 1 + depth
      /\ next = layer + 1 + depth \/ next = Layers
  BY <1>2, <1>3 DEF RingStage
<1>8. CASE Remains
  <2>1. /\ next \in AllLayers /\ next' = next + 1 /\ next' \in 1 .. Layers
        /\ next # layer + 1
    BY <1>1, <1>3, <1>8 DEF Remains, TypeOK
  <2>2. Starts(s, next)
    BY <1>1, <1>2, <1>8, <2>1, LaunchStarts DEF Following
  <2>3. \A t \in Slots : slot[t] # next
    BY <1>2, <1>3, <2>1 DEF RingStage, TypeOK
  <2>4. TypeOK'
    BY <1>2, <1>3, <2>1, <2>2 DEF TypeOK, Starts
  <2>5. LoopStage'
    <3>1. mem'[layer + 1] = "live" /\ read'[layer + 1] = Lanes
      BY <1>3, <1>4, <2>1, <2>2 DEF Starts
    <3>2. \A t \in Slots : slot'[t] # layer + 1
      BY <1>3, <2>1, <2>2 DEF Starts
    <3> QED
      BY <1>2, <1>3, <3>1, <3>2 DEF LoopStage
  <2>6. SlotStage'
    <3>1. \A t \in Slots : slot'[t] = Free => lane'[t] = Idle
      <4>1. slot'[s] # Free
        BY <2>1, <2>2 DEF Starts
      <4> QED
        BY <2>2, <4>1 DEF SlotStage, Starts
    <3>2. \A t \in Slots : slot'[t] # Free =>
             t \in InUse' /\ \A u \in Slots : slot'[u] = slot'[t] => u = t
      <4>1. slot'[s] = next /\ \A t \in Slots \ {s} : slot'[t] = slot[t]
        BY <2>2 DEF Starts
      <4>2. InUse' = InUse
        BY <1>2 DEF InUse
      <4>3. \A t \in Slots : slot[t] # Free =>
              t \in InUse /\ \A u \in Slots : slot[u] = slot[t] => u = t
        BY DEF SlotStage
      <4> HIDE DEF Inv
      <4> QED
        BY <1>2, <2>3, <4>1, <4>2, <4>3
    <3>3. ASSUME NEW t \in Slots, slot'[t] # Free
          PROVE  /\ mem'[slot'[t]] = "live"
                 /\ \A l \in Lanes : /\ lane'[t][l] # "none"
                                     /\ lane'[t][l] = "ok" => l \in read'[slot'[t]]
      <4>1. CASE t = s
        BY <2>2, <4>1 DEF Starts
      <4>2. CASE t # s
        <5>1. slot'[t] = slot[t] /\ lane'[t] = lane[t] /\ slot[t] \in AllLayers \ {next}
          BY <2>2, <2>3, <3>3, <4>2 DEF Starts, TypeOK
        <5>2. mem'[slot[t]] = mem[slot[t]] /\ read'[slot[t]] = read[slot[t]]
          BY <2>2, <5>1 DEF Starts
        <5> QED
          BY <3>3, <5>1, <5>2 DEF SlotStage
      <4> QED
        BY <4>1, <4>2
    <3> QED
      BY <3>1, <3>2, <3>3 DEF SlotStage
  <2>7. RingStage'
    <3>1. \A t \in Slots : slot'[t] # Free => layer' < slot'[t] /\ slot'[t] < next'
      <4>1. slot'[s] = next /\ \A t \in Slots \ {s} : slot'[t] = slot[t]
        BY <2>2 DEF Starts
      <4>2. \A t \in Slots \ {s} : slot[t] # Free => layer + 1 < slot[t] /\ slot[t] < next
        BY <1>3, <1>6, <1>7
      <4> QED
        BY <1>2, <1>3, <1>6, <2>1, <4>1, <4>2
    <3>2. ASSUME NEW k \in AllLayers, layer' < k, k < next'
          PROVE  \E t \in InUse' : slot'[t] = k
      <4>1. CASE k = next
        BY <1>2, <2>2, <4>1 DEF Starts
      <4>2. CASE k # next
        <5>1. PICK t \in InUse : slot[t] = k
          BY <1>2, <1>6, <1>7, <2>1, <3>2, <4>2
        <5>2. t # s /\ t \in Slots
          BY <1>2, <3>2, <5>1 DEF TypeOK
        <5> QED
          BY <1>2, <2>2, <5>1, <5>2 DEF Starts
      <4> QED
        BY <4>1, <4>2
    <3>3. next' = layer' + 1 + depth' /\ next' <= layer' + 1 + depth'
      BY <1>2, <1>8, <1>6, <1>7, <2>1 DEF Remains
    <3> QED
      BY <1>2, <1>3, <3>1, <3>2, <3>3 DEF RingStage
  <2>8. MemStage'
    <3>1. ASSUME NEW k \in AllLayers
          PROVE  /\ mem'[k] # "corrupt"
                 /\ mem'[k] = "live" => weights' = k \/ \E t \in InUse' : slot'[t] = k
      <4>1. CASE k = next
        BY <1>2, <2>2, <4>1 DEF Starts
      <4>2. CASE k = layer + 1
        BY <1>2, <1>3, <2>1, <2>2, <4>2 DEF Starts
      <4>3. CASE k # next /\ k # layer + 1
        <5>1. mem'[k] = mem[k]
          BY <2>2, <4>3 DEF Starts
        <5>2. \A t \in InUse : slot[t] = k => slot'[t] = k
          BY <1>2, <2>2, <4>3 DEF Starts, TypeOK
        <5> QED
          BY <1>2, <1>3, <5>1, <5>2 DEF MemStage
      <4> QED
        BY <4>1, <4>2, <4>3
    <3> QED
      BY <3>1 DEF MemStage
  <2> QED
    BY <1>5, <2>4, <2>5, <2>6, <2>7, <2>8
<1>9. CASE ~Remains
  <2>1. Clears(s) /\ UNCHANGED <<next, mem, read>>
    BY <1>1, <1>2, <1>9, ClearSlotClears DEF Taken, Joined
  <2>2. TypeOK'
    BY <1>2, <1>3, <2>1 DEF TypeOK, Clears
  <2>3. LoopStage'
    BY <1>2, <1>3, <1>4, <2>1 DEF LoopStage, Clears
  <2>4. SlotStage'
    <3>1. \A t \in Slots \ {s} : slot'[t] = slot[t] /\ lane'[t] = lane[t]
      BY <2>1 DEF Clears
    <3>2. slot'[s] = Free /\ lane'[s] = Idle /\ UNCHANGED <<mem, read, depth>>
      BY <1>2, <2>1 DEF Clears
    <3>3. \A t \in Slots : slot'[t] = Free => lane'[t] = Idle
      BY <3>1, <3>2 DEF SlotStage
    <3>4. ASSUME NEW t \in Slots, slot'[t] # Free
          PROVE  /\ t \in InUse' /\ mem'[slot'[t]] = "live"
                 /\ \A l \in Lanes : /\ lane'[t][l] # "none"
                                     /\ lane'[t][l] = "ok" => l \in read'[slot'[t]]
                 /\ \A u \in Slots : slot'[u] = slot'[t] => u = t
      <4>1. t # s /\ slot'[t] = slot[t] /\ lane'[t] = lane[t] /\ slot[t] # Free
        BY <3>1, <3>2, <3>4
      <4> QED
        BY <3>1, <3>2, <3>4, <4>1 DEF SlotStage
    <3> QED
      BY <3>3, <3>4 DEF SlotStage
  <2>5. RingStage'
    <3>1. ASSUME NEW k \in AllLayers, layer' < k, k < next'
          PROVE  \E t \in InUse' : slot'[t] = k
      <4>1. PICK t \in InUse : slot[t] = k
        BY <1>2, <1>6, <1>7, <2>1, <3>1
      <4>2. t # s /\ t \in Slots
        BY <1>2, <3>1, <4>1 DEF TypeOK
      <4> QED
        BY <1>2, <2>1, <4>1, <4>2 DEF Clears
    <3>2. \A t \in Slots : slot'[t] # Free => layer' < slot'[t] /\ slot'[t] < next'
      <4>1. \A t \in Slots \ {s} : slot[t] # Free => layer + 1 < slot[t] /\ slot[t] < next
        BY <1>3, <1>6, <1>7
      <4>2. slot'[s] = Free /\ \A t \in Slots \ {s} : slot'[t] = slot[t]
        BY <2>1 DEF Clears
      <4> QED
        BY <1>2, <2>1, <4>1, <4>2
    <3>3. next' <= layer' + 1 + depth' /\ next' = Layers
      BY <1>2, <1>9, <1>6, <1>7, <2>1 DEF Remains, TypeOK
    <3> QED
      BY <1>2, <1>3, <3>1, <3>2, <3>3 DEF RingStage
  <2>6. MemStage'
    <3>1. ASSUME NEW k \in AllLayers
          PROVE  /\ mem'[k] # "corrupt"
                 /\ mem'[k] = "live" => weights' = k \/ \E t \in InUse' : slot'[t] = k
      <4>1. CASE k = layer + 1
        BY <1>2, <1>3, <2>1, <4>1
      <4>2. CASE k # layer + 1
        <5>1. \A t \in InUse : slot[t] = k => slot'[t] = k
          BY <1>2, <2>1, <4>2 DEF Clears, TypeOK
        <5> QED
          BY <1>2, <1>3, <2>1, <5>1 DEF MemStage
      <4> QED
        BY <4>1, <4>2
    <3> QED
      BY <3>1 DEF MemStage
  <2> QED
    BY <1>5, <2>2, <2>3, <2>4, <2>5, <2>6
<1> QED
  BY <1>8, <1>9

\* A slot that is cleared takes its layer out of the ring: what stays true of the rest.
LEMMA ClearKeeps ==
  ASSUME TypeOK, SlotStage, NEW s \in Slots, Clears(s), depth' = depth,
         UNCHANGED read,
         \A k \in AllLayers : k # slot[s] => mem'[k] = mem[k]
  PROVE  SlotStage'
<1>1. slot'[s] = Free /\ lane'[s] = Idle
      /\ \A t \in Slots \ {s} : slot'[t] = slot[t] /\ lane'[t] = lane[t]
  BY DEF Clears
<1>2. \A t \in Slots : slot'[t] = Free => lane'[t] = Idle
  BY <1>1 DEF SlotStage
<1>3. ASSUME NEW t \in Slots, slot'[t] # Free
      PROVE  /\ t \in InUse' /\ mem'[slot'[t]] = "live"
             /\ \A l \in Lanes : /\ lane'[t][l] # "none"
                                 /\ lane'[t][l] = "ok" => l \in read'[slot'[t]]
             /\ \A u \in Slots : slot'[u] = slot'[t] => u = t
  <2>1. t # s /\ slot'[t] = slot[t] /\ lane'[t] = lane[t] /\ slot[t] # Free
    BY <1>1, <1>3
  <2>2. slot[t] \in AllLayers /\ slot[t] # slot[s]
    BY <2>1 DEF SlotStage, TypeOK
  <2> QED
    BY <1>1, <1>3, <2>1, <2>2 DEF SlotStage
<1> QED
  BY <1>2, <1>3 DEF SlotStage

LEMMA TakeFailsKeeps == ASSUME Inv, TakeStartFails \/ TakeFails PROVE Inv'
<1> USE DEF Inv
<1>1. CASE TakeStartFails
  <2>1. PICK s \in Holding(layer + 1) : Taken(s) /\ ClearSlot(s)
    BY <1>1 DEF TakeStartFails
  <2>2. /\ pc = "take" /\ pc' = "retire"
        /\ UNCHANGED <<depth, next, mem, read, hidden>>
        /\ s \in InUse /\ s \in Slots /\ slot[s] = layer + 1
        /\ layer' = layer + 1 /\ weights' = layer + 1
    BY <1>1, <2>1 DEF TakeStartFails, Taken, Holding, TypeOK
  <2>3. /\ weights = Free /\ layer + 1 \in AllLayers /\ mem[layer + 1] = "live"
        /\ \A t \in Slots \ {s} : slot[t] # layer + 1
    BY <2>2 DEF LoopStage, SlotStage, TypeOK
  <2>4. Clears(s)
    BY <2>1, <2>2, ClearSlotClears DEF Taken, Joined
  <2>5. TypeOK' /\ RunsOwnWeights'
    BY <2>2, <2>3, <2>4 DEF TypeOK, RunsOwnWeights, Clears
  <2>6. LoopStage'
    BY <2>2, <2>3, <2>4 DEF LoopStage, Clears
  <2>7. SlotStage'
    BY <2>2, <2>4, ClearKeeps
  <2>8. RingStage'
    <3>1. depth # 0
      BY <2>2 DEF LoopStage, TypeOK
    <3> QED
      BY <2>2, <3>1 DEF RingStage
  <2>9. MemStage'
    <3>1. ASSUME NEW k \in AllLayers
          PROVE  /\ mem'[k] # "corrupt"
                 /\ mem'[k] = "live" => weights' = k \/ \E t \in InUse' : slot'[t] = k
      <4>1. CASE k = layer + 1
        BY <2>2, <2>3, <4>1
      <4>2. CASE k # layer + 1
        <5>1. \A t \in InUse : slot[t] = k => slot'[t] = k
          BY <2>2, <2>4, <4>2 DEF Clears, TypeOK
        <5> QED
          BY <2>2, <2>3, <5>1 DEF MemStage
      <4> QED
        BY <4>1, <4>2
    <3> QED
      BY <3>1 DEF MemStage
  <2> QED
    BY <2>5, <2>6, <2>7, <2>8, <2>9
<1>2. CASE TakeFails
  <2>1. /\ pc = "take" /\ pc' = "retire"
        /\ UNCHANGED <<depth, layer, next, slot, lane, mem, read, weights, hidden>>
    BY <1>2 DEF TakeFails
  <2> QED
    BY <2>1 DEF TypeOK, RunsOwnWeights, LoopStage, SlotStage, RingStage, MemStage
<1> QED
  BY <1>1, <1>2

LEMMA RetireKeeps == ASSUME Inv, NEW s \in Slots, Retire(s) PROVE Inv'
<1> USE DEF Inv
<1>1. /\ pc = "retire" /\ s \in InUse /\ slot[s] # Free /\ Ended(s)
      /\ mem' = Freed(slot[s])
      /\ UNCHANGED <<depth, pc, layer, next, read, weights, hidden>>
  BY DEF Retire, Retired
<1>2. Clears(s)
  BY <1>1, ClearSlotClears DEF Retire
<1>3. /\ slot[s] \in AllLayers /\ mem[slot[s]] = "live" /\ weights # slot[s]
      /\ \A t \in Slots \ {s} : slot[t] # slot[s]
  BY <1>1 DEF SlotStage, LoopStage, TypeOK
<1>4. /\ mem' \in [AllLayers -> {"none", "live", "freed", "corrupt"}]
      /\ mem'[slot[s]] = "freed"
      /\ \A j \in AllLayers \ {slot[s]} : mem'[j] = mem[j]
  BY <1>1, <1>3, FreedWell
<1>5. TypeOK' /\ RunsOwnWeights'
  BY <1>1, <1>2, <1>4 DEF TypeOK, RunsOwnWeights, Clears
<1>6. LoopStage'
  <2>1. weights # Free => mem'[weights] = "live" /\ \A t \in Slots : slot'[t] # weights
    BY <1>2, <1>3, <1>4 DEF LoopStage, Clears, TypeOK
  <2> QED
    BY <1>1, <2>1 DEF LoopStage
<1>7. SlotStage'
  BY <1>1, <1>2, <1>4, ClearKeeps
<1>8. RingStage'
  BY <1>1, <1>2 DEF RingStage, Clears
<1>9. MemStage'
  <2>1. ASSUME NEW k \in AllLayers
        PROVE  /\ mem'[k] # "corrupt"
               /\ mem'[k] = "live" => weights' = k \/ \E t \in InUse' : slot'[t] = k
    <3>1. CASE k = slot[s]
      BY <1>4, <3>1
    <3>2. CASE k # slot[s]
      <4>1. \A t \in InUse : slot[t] = k => slot'[t] = k
        BY <1>2, <3>2 DEF Clears, TypeOK
      <4> QED
        BY <1>1, <1>4, <3>2, <4>1 DEF MemStage
    <3> QED
      BY <3>1, <3>2
  <2> QED
    BY <2>1 DEF MemStage
<1> QED
  BY <1>5, <1>6, <1>7, <1>8, <1>9

LEMMA EndKeeps == ASSUME Inv, AllRetired \/ Cleanup PROVE Inv'
<1> USE DEF Inv
<1>1. CASE AllRetired
  <2>1. /\ pc = "retire" /\ pc' = "cleanup"
        /\ UNCHANGED <<depth, layer, next, slot, lane, mem, read, weights, hidden>>
    BY <1>1 DEF AllRetired
  <2>2. \A s \in Slots : slot[s] = Free
    BY <1>1 DEF AllRetired, SlotStage
  <2> QED
    BY <2>1, <2>2 DEF TypeOK, RunsOwnWeights, LoopStage, SlotStage, RingStage, MemStage
<1>2. CASE Cleanup
  <2>1. /\ pc = "cleanup" /\ pc' = "done" /\ weights' = Free
        /\ UNCHANGED <<depth, layer, next, slot, lane, read, hidden>>
    BY <1>2 DEF Cleanup
  <2>2. \A s \in Slots : slot[s] = Free
    BY <2>1 DEF RingStage
  <2>3. /\ mem' \in [AllLayers -> {"none", "live", "freed", "corrupt"}]
        /\ \A k \in AllLayers : mem'[k] \notin {"corrupt", "live"}
    <3>1. CASE weights = Free
      BY <1>2, <2>2, <3>1 DEF Cleanup, MemStage, TypeOK
    <3>2. CASE weights # Free
      <4>1. weights \in AllLayers /\ mem[weights] = "live" /\ mem' = Freed(weights)
        BY <1>2, <3>2 DEF Cleanup, LoopStage, TypeOK
      <4>2. /\ mem' \in [AllLayers -> {"none", "live", "freed", "corrupt"}]
            /\ mem'[weights] = "freed"
            /\ \A j \in AllLayers \ {weights} : mem'[j] = mem[j]
        BY <4>1, FreedWell
      <4>3. \A j \in AllLayers \ {weights} : mem[j] \notin {"corrupt", "live"}
        BY <2>2, <4>1 DEF MemStage, TypeOK
      <4>4. \A j \in AllLayers : mem'[j] \notin {"corrupt", "live"}
        <5> SUFFICES ASSUME NEW j \in AllLayers PROVE mem'[j] \notin {"corrupt", "live"}
          OBVIOUS
        <5> HIDE DEF Inv
        <5>1. CASE j = weights BY <4>2, <5>1
        <5>2. CASE j # weights BY <4>2, <4>3, <5>2
        <5> QED BY <5>1, <5>2
      <4> QED
        BY <4>2, <4>4
    <3> QED
      BY <3>1, <3>2
  <2>4. TypeOK' /\ RunsOwnWeights' /\ LoopStage'
    BY <2>1, <2>3 DEF TypeOK, RunsOwnWeights, LoopStage
  <2>5. SlotStage' /\ RingStage' /\ MemStage'
    BY <2>1, <2>2, <2>3 DEF SlotStage, RingStage, MemStage
  <2> QED
    BY <2>4, <2>5
<1> QED
  BY <1>1, <1>2

(***************************************************************************)
(* The theorems.                                                           *)
(***************************************************************************)
\* The parts of Inv hold together in every reachable state.
THEOREM Invariance == Spec => []Inv
<1>1. Inv /\ [Next]_vars => Inv'
  <2> SUFFICES ASSUME Inv, [Next]_vars PROVE Inv'
    OBVIOUS
  <2>1. CASE Load \/ LoadFails
    BY <2>1, LoadKeeps
  <2>2. CASE Fill \/ StartFails
    BY <2>2, FillKeeps
  <2>3. CASE Encode \/ EncodeFails
    BY <2>3, EncodeKeeps
  <2>4. CASE Take
    BY <2>4, TakeKeeps
  <2>5. CASE TakeStartFails \/ TakeFails
    BY <2>5, TakeFailsKeeps
  <2>6. CASE \E s \in Slots : Retire(s)
    BY <2>6, RetireKeeps
  <2>7. CASE AllRetired \/ Cleanup
    BY <2>7, EndKeeps
  <2>8. CASE Lane
    BY <2>8, LaneKeeps DEF Lane
  <2>9. CASE UNCHANGED vars
    BY <2>9, Stutter
  <2> QED
    BY <2>1, <2>2, <2>3, <2>4, <2>5, <2>6, <2>7, <2>8, <2>9 DEF Next, Main
<1> QED
  BY Start, <1>1, PTL DEF Spec

\* Every variable keeps its type.
THEOREM TypeCorrect == Spec => []TypeOK
<1>1. Inv => TypeOK
  BY DEF Inv
<1> QED
  BY Invariance, <1>1, PTL

\* The GPU runs the layers in order, each with its own whole live weights.
THEOREM LayersRunOwnWeights == Spec => []RunsOwnWeights
<1>1. Inv => RunsOwnWeights
  BY DEF Inv
<1> QED
  BY Invariance, <1>1, PTL

\* The ring holds exactly the depth layers after the one that runs.
THEOREM RingIsExact == Spec => []NeverAbsent
<1>1. Inv => NeverAbsent
  <2> SUFFICES ASSUME Inv, pc \in {"encode", "take"}, depth > 0, NEW k \in AllLayers
               PROVE  Cardinality(Holding(k))
                        = IF layer < k /\ k <= layer + depth THEN 1 ELSE 0
    BY DEF NeverAbsent
  <2>1. /\ layer \in Int /\ next \in Int /\ depth \in Int
        /\ \A s \in Slots : slot[s] \in Int
        /\ \A s \in InUse : s \in Slots
    BY DEF Inv, TypeOK
  <2>2. /\ next <= layer + 1 + depth
        /\ next = layer + 1 + depth \/ next = Layers
        /\ \A s \in Slots : slot[s] # Free => layer < slot[s] /\ slot[s] < next
        /\ \A j \in AllLayers : layer < j /\ j < next => \E s \in InUse : slot[s] = j
    BY DEF Inv, RingStage
  <2>3. CASE layer < k /\ k <= layer + depth
    <3>1. k < next
      BY <2>1, <2>2, <2>3
    <3>2. PICK s \in InUse : slot[s] = k
      BY <2>2, <2>3, <3>1
    <3>3. \A t \in InUse : slot[t] = k => t = s
      BY <2>1, <3>2 DEF Inv, SlotStage
    <3>4. Holding(k) = {s}
      BY <3>2, <3>3 DEF Holding
    <3> QED
      BY <2>3, <3>4, FS_Singleton
  <2>4. CASE ~(layer < k /\ k <= layer + depth)
    <3>1. Holding(k) = {}
      BY <2>1, <2>2, <2>4 DEF Holding
    <3> QED
      BY <2>4, <3>1, FS_EmptySet
  <2> QED
    BY <2>3, <2>4
<1> QED
  BY Invariance, <1>1, PTL

\* No thread outlives its slot, its weights or the call.
THEOREM ThreadsScoped == Spec => []ReadersScoped
<1>1. Inv => ReadersScoped
  <2> SUFFICES ASSUME Inv, NEW s \in Slots, ~Ended(s)
               PROVE  slot[s] # Free /\ mem[slot[s]] = "live" /\ pc # "done"
    BY DEF ReadersScoped
  <2>1. slot[s] # Free
    BY DEF Inv, SlotStage, Ended, Idle
  <2> QED
    BY <2>1 DEF Inv, SlotStage, RingStage
<1> QED
  BY Invariance, <1>1, PTL

\* No tensor is freed twice, and none is left when the call returns.
THEOREM NothingLeaks == Spec => []FreedOnce
<1>1. Inv => FreedOnce
  <2> SUFFICES ASSUME Inv, NEW k \in AllLayers
               PROVE  mem[k] # "corrupt" /\ (pc = "done" => mem[k] # "live")
    BY DEF FreedOnce
  <2>1. mem[k] # "corrupt"
    BY DEF Inv, MemStage
  <2>2. ASSUME pc = "done" PROVE mem[k] # "live"
    <3>1. weights # k
      BY <2>2 DEF Inv, LoopStage
    <3>2. \A s \in InUse : slot[s] # k
      BY <2>2 DEF Inv, RingStage, TypeOK
    <3> QED
      BY <3>1, <3>2 DEF Inv, MemStage
  <2> QED
    BY <2>1, <2>2
<1> QED
  BY Invariance, <1>1, PTL

\* At most depth + 1 layers are in memory, whatever the number of layers.
THEOREM MemoryBounded == Spec => []Bounded
<1>1. Inv => Bounded
  <2> SUFFICES ASSUME Inv PROVE Bounded
    OBVIOUS
  <2> DEFINE Live == {k \in AllLayers : mem[k] = "live"}
             Held == {slot[s] : s \in InUse}
  <2>1. Live \subseteq Held \cup {weights}
    BY DEF Inv, MemStage
  <2>2. depth \in Nat /\ IsFiniteSet(InUse) /\ Cardinality(InUse) = depth
    <3>1. depth \in Nat
      BY DEF Inv, TypeOK
    <3>2. IsFiniteSet(1 .. depth)
      BY <3>1, FS_Interval
    <3>3. Cardinality(1 .. depth) = IF 1 > depth THEN 0 ELSE depth - 1 + 1
      BY <3>1, FS_Interval
    <3> QED
      BY <3>1, <3>2, <3>3
  <2>3. IsFiniteSet(Held) /\ Cardinality(Held) <= depth
    <3> DEFINE f == [s \in InUse |-> slot[s]]
    <3>1. f \in Surjection(InUse, Held)
      BY DEF Surjection
    <3> QED
      BY <2>2, <3>1, FS_Surjection
  <2>4. IsFiniteSet(Held \cup {weights}) /\ Cardinality(Held \cup {weights}) <= depth + 1
    <3>1. IsFiniteSet(Held \cup {weights})
      BY <2>3, FS_AddElement
    <3>2. Cardinality(Held \cup {weights})
            = IF weights \in Held THEN Cardinality(Held) ELSE Cardinality(Held) + 1
      BY <2>3, FS_AddElement
    <3>3. Cardinality(Held) \in Nat
      BY <2>3, FS_CardinalityType
    <3> QED
      BY ONLY <2>2, <2>3, <3>1, <3>2, <3>3
  <2>5. Cardinality(Live) <= Cardinality(Held \cup {weights})
    BY <2>1, <2>4, FS_Subset
  <2>6. IsFiniteSet(Live)
    BY <2>1, <2>4, FS_Subset
  <2> QED
    BY <2>2, <2>4, <2>5, <2>6, FS_CardinalityType DEF Bounded
<1> QED
  BY Invariance, <1>1, PTL

\* The ring hands the encoder the layer it needs, with its own weights.
THEOREM LayerIsRight == Spec => []RightLayer
<1>1. RunsOwnWeights /\ NeverAbsent => RightLayer
  BY DEF RightLayer
<1> QED
  BY <1>1, LayersRunOwnWeights, RingIsExact, PTL

\* No weights are leaked, freed twice or written after the call, and few are in memory.
THEOREM WeightsAreAccounted == Spec => []WeightsAccounted
<1>1. ReadersScoped /\ FreedOnce /\ Bounded => WeightsAccounted
  BY DEF WeightsAccounted
<1> QED
  BY <1>1, ThreadsScoped, NothingLeaks, MemoryBounded, PTL
=============================================================================
