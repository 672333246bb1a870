------------------------- MODULE StreamPreviewProofs -------------------------
(***************************************************************************)
(* Safety of StreamPreview, for every size of the ring.                    *)
(***************************************************************************)
EXTENDS StreamPreview, SequenceTheorems, TLAPS

-----------------------------------------------------------------------------
(* Type correctness, one part of TypeOK at a time *)

(* The flags of the pipeline. *)
LEMMA PipelineStep == PipelineTypeOK /\ [Next]_vars => PipelineTypeOK'
<1> SUFFICES ASSUME PipelineTypeOK, [Next]_vars
           PROVE  PipelineTypeOK'
  OBVIOUS
<1> USE DEF PipelineTypeOK, pipeline, flags, decoders, audio, past
<1>1. CASE Attach
  BY <1>1 DEF Attach
<1>2. CASE Activate
  BY <1>2 DEF Activate
<1>3. CASE Arm
  BY <1>3 DEF Arm, Armed
<1>4. CASE Await
  BY <1>4 DEF Await, OpenAudioOutput
<1>5. CASE Detach
  BY <1>5 DEF Detach
<1>6. CASE Deactivate
  BY <1>6 DEF Deactivate, CloseAudioOutput, ClearRing
<1>7. CASE ToggleMute
  BY <1>7 DEF ToggleMute
<1>8. CASE ApplyMute
  BY <1>8 DEF ApplyMute, OpenAudioOutput, CloseAudioOutput, ClearRing
<1>9. CASE Shutdown
  BY <1>9 DEF Shutdown, CloseDecoders, CloseAudioOutput, ClearRing
<1>10. CASE Gone
  BY <1>10 DEF Gone, vars
<1>11. ASSUME NEW a \in BOOLEAN, NEW b \in BOOLEAN, VideoUnit(a, b)  PROVE PipelineTypeOK'
  BY <1>11 DEF VideoUnit, Popped, Gate, TearDown, CloseDecoders
<1>12. ASSUME NEW a \in BOOLEAN, NEW b \in BOOLEAN, Decode(a, b)  PROVE PipelineTypeOK'
  BY <1>12 DEF Decode, Meets, AfterReset, Gated, Feed, Skip
<1>13. ASSUME NEW a \in BOOLEAN, NEW b \in BOOLEAN, FilterFrame(a, b)  PROVE PipelineTypeOK'
  BY <1>13 DEF FilterFrame
<1>14. ASSUME NEW a \in BOOLEAN, NEW b \in BOOLEAN, AudioUnit(a, b)  PROVE PipelineTypeOK'
  BY <1>14 DEF AudioUnit, Popped
<1>15. CASE Restart
  BY <1>15 DEF Restart, Armed
<1>16. CASE CheckFrame
  BY <1>16 DEF CheckFrame
<1>17. CASE PublishFrame
  BY <1>17 DEF PublishFrame
<1>18. CASE DeliverFrame
  BY <1>18 DEF DeliverFrame
<1>19. CASE CheckBlock
  BY <1>19 DEF CheckBlock
<1>20. CASE PushBlock
  BY <1>20 DEF PushBlock
<1>21. CASE ReadFromRing
  BY <1>21 DEF ReadFromRing
<1>22. CASE UNCHANGED vars
  BY <1>22 DEF vars
<1>23. CASE ResetFrame
  BY <1>23 DEF ResetFrame
<1>24. CASE ResetRing
  BY <1>24 DEF ResetRing, ClearRing
<1>25. CASE LoadSink
  BY <1>25 DEF LoadSink
<1> QED
  BY <1>1, <1>2, <1>3, <1>4, <1>5, <1>6, <1>7, <1>8, <1>9,
     <1>10, <1>11, <1>12, <1>13, <1>14, <1>15, <1>16, <1>17, <1>18,
     <1>19, <1>20, <1>21, <1>22, <1>23, <1>24, <1>25 DEF Next, Gui, Worker

(* The flags, and where the user interface is. *)
LEMMA FlagsStep == PipelineTypeOK /\ FlagsTypeOK /\ [Next]_vars => FlagsTypeOK'
<1> SUFFICES ASSUME PipelineTypeOK, FlagsTypeOK, [Next]_vars
           PROVE  FlagsTypeOK'
  OBVIOUS
<1> USE DEF FlagsTypeOK, pipeline, flags, decoders, audio, past
<1>1. CASE Attach
  BY <1>1 DEF Attach
<1>2. CASE Activate
  BY <1>2 DEF Activate
<1>3. CASE Arm
  BY <1>3 DEF Arm, Armed
<1>4. CASE Await
  BY <1>4 DEF Await, OpenAudioOutput, PipelineTypeOK
<1>5. CASE Detach
  BY <1>5 DEF Detach
<1>6. CASE Deactivate
  BY <1>6 DEF Deactivate, CloseAudioOutput, ClearRing
<1>7. CASE ToggleMute
  BY <1>7 DEF ToggleMute
<1>8. CASE ApplyMute
  BY <1>8 DEF ApplyMute, OpenAudioOutput, CloseAudioOutput, ClearRing, PipelineTypeOK
<1>9. CASE Shutdown
  BY <1>9 DEF Shutdown, CloseDecoders, CloseAudioOutput, ClearRing
<1>10. CASE Gone
  BY <1>10 DEF Gone, vars
<1>11. ASSUME NEW a \in BOOLEAN, NEW b \in BOOLEAN, VideoUnit(a, b)  PROVE FlagsTypeOK'
  BY <1>11 DEF VideoUnit, Popped, Gate, TearDown, CloseDecoders
<1>12. ASSUME NEW a \in BOOLEAN, NEW b \in BOOLEAN, Decode(a, b)  PROVE FlagsTypeOK'
  BY <1>12 DEF Decode, Meets, AfterReset, Gated, Feed, Skip
<1>13. ASSUME NEW a \in BOOLEAN, NEW b \in BOOLEAN, FilterFrame(a, b)  PROVE FlagsTypeOK'
  BY <1>13 DEF FilterFrame
<1>14. ASSUME NEW a \in BOOLEAN, NEW b \in BOOLEAN, AudioUnit(a, b)  PROVE FlagsTypeOK'
  BY <1>14 DEF AudioUnit, Popped
<1>15. CASE Restart
  BY <1>15 DEF Restart, Armed
<1>16. CASE CheckFrame
  BY <1>16 DEF CheckFrame
<1>17. CASE PublishFrame
  BY <1>17 DEF PublishFrame
<1>18. CASE DeliverFrame
  BY <1>18 DEF DeliverFrame
<1>19. CASE CheckBlock
  BY <1>19 DEF CheckBlock
<1>20. CASE PushBlock
  BY <1>20 DEF PushBlock
<1>21. CASE ReadFromRing
  BY <1>21 DEF ReadFromRing
<1>22. CASE UNCHANGED vars
  BY <1>22 DEF vars
<1>23. CASE ResetFrame
  BY <1>23 DEF ResetFrame
<1>24. CASE ResetRing
  BY <1>24 DEF ResetRing, ClearRing
<1>25. CASE LoadSink
  BY <1>25 DEF LoadSink
<1> QED
  BY <1>1, <1>2, <1>3, <1>4, <1>5, <1>6, <1>7, <1>8, <1>9,
     <1>10, <1>11, <1>12, <1>13, <1>14, <1>15, <1>16, <1>17, <1>18,
     <1>19, <1>20, <1>21, <1>22, <1>23, <1>24, <1>25 DEF Next, Gui, Worker

(* The decoders and the filter. *)
LEMMA DecodersStep == DecodersTypeOK /\ [Next]_vars => DecodersTypeOK'
<1> SUFFICES ASSUME DecodersTypeOK, [Next]_vars
           PROVE  DecodersTypeOK'
  OBVIOUS
<1> USE DEF DecodersTypeOK, pipeline, flags, decoders, audio, past
<1>1. CASE Attach
  BY <1>1 DEF Attach
<1>2. CASE Activate
  BY <1>2 DEF Activate
<1>3. CASE Arm
  BY <1>3 DEF Arm, Armed
<1>4. CASE Await
  BY <1>4 DEF Await, OpenAudioOutput
<1>5. CASE Detach
  BY <1>5 DEF Detach
<1>6. CASE Deactivate
  BY <1>6 DEF Deactivate, CloseAudioOutput, ClearRing
<1>7. CASE ToggleMute
  BY <1>7 DEF ToggleMute
<1>8. CASE ApplyMute
  BY <1>8 DEF ApplyMute, OpenAudioOutput, CloseAudioOutput, ClearRing
<1>9. CASE Shutdown
  BY <1>9 DEF Shutdown, CloseDecoders, CloseAudioOutput, ClearRing
<1>10. CASE Gone
  BY <1>10 DEF Gone, vars
<1>11. ASSUME NEW a \in BOOLEAN, NEW b \in BOOLEAN, VideoUnit(a, b)  PROVE DecodersTypeOK'
  BY <1>11 DEF VideoUnit, Popped, Gate, TearDown, CloseDecoders
<1>12. ASSUME NEW a \in BOOLEAN, NEW b \in BOOLEAN, Decode(a, b)  PROVE DecodersTypeOK'
  BY <1>12 DEF Decode, Meets, AfterReset, Gated, Feed, Skip
<1>13. ASSUME NEW a \in BOOLEAN, NEW b \in BOOLEAN, FilterFrame(a, b)  PROVE DecodersTypeOK'
  BY <1>13 DEF FilterFrame
<1>14. ASSUME NEW a \in BOOLEAN, NEW b \in BOOLEAN, AudioUnit(a, b)  PROVE DecodersTypeOK'
  BY <1>14 DEF AudioUnit, Popped
<1>15. CASE Restart
  BY <1>15 DEF Restart, Armed
<1>16. CASE CheckFrame
  BY <1>16 DEF CheckFrame
<1>17. CASE PublishFrame
  BY <1>17 DEF PublishFrame
<1>18. CASE DeliverFrame
  BY <1>18 DEF DeliverFrame
<1>19. CASE CheckBlock
  BY <1>19 DEF CheckBlock
<1>20. CASE PushBlock
  BY <1>20 DEF PushBlock
<1>21. CASE ReadFromRing
  BY <1>21 DEF ReadFromRing
<1>22. CASE UNCHANGED vars
  BY <1>22 DEF vars
<1>23. CASE ResetFrame
  BY <1>23 DEF ResetFrame
<1>24. CASE ResetRing
  BY <1>24 DEF ResetRing, ClearRing
<1>25. CASE LoadSink
  BY <1>25 DEF LoadSink
<1> QED
  BY <1>1, <1>2, <1>3, <1>4, <1>5, <1>6, <1>7, <1>8, <1>9,
     <1>10, <1>11, <1>12, <1>13, <1>14, <1>15, <1>16, <1>17, <1>18,
     <1>19, <1>20, <1>21, <1>22, <1>23, <1>24, <1>25 DEF Next, Gui, Worker

(* Where the worker is, and the history. *)
LEMMA WorkStep == FlagsTypeOK /\ WorkTypeOK /\ [Next]_vars => WorkTypeOK'
<1> SUFFICES ASSUME FlagsTypeOK, WorkTypeOK, [Next]_vars
           PROVE  WorkTypeOK'
  OBVIOUS
<1> USE DEF WorkTypeOK, Shown, pipeline, flags, decoders, audio, past
<1>1. CASE Attach
  BY <1>1 DEF Attach
<1>2. CASE Activate
  BY <1>2 DEF Activate
<1>3. CASE Arm
  BY <1>3 DEF Arm, Armed
<1>4. CASE Await
  BY <1>4 DEF Await, OpenAudioOutput
<1>5. CASE Detach
  BY <1>5 DEF Detach
<1>6. CASE Deactivate
  BY <1>6 DEF Deactivate, CloseAudioOutput, ClearRing
<1>7. CASE ToggleMute
  BY <1>7 DEF ToggleMute
<1>8. CASE ApplyMute
  BY <1>8 DEF ApplyMute, OpenAudioOutput, CloseAudioOutput, ClearRing
<1>9. CASE Shutdown
  BY <1>9 DEF Shutdown, CloseDecoders, CloseAudioOutput, ClearRing
<1>10. CASE Gone
  BY <1>10 DEF Gone, vars
<1>11. ASSUME NEW a \in BOOLEAN, NEW b \in BOOLEAN, VideoUnit(a, b)  PROVE WorkTypeOK'
  <2>1. work' \in {"video", "idle"} /\ UNCHANGED << old, carried, shown, whole, seen >>
    BY <1>11 DEF VideoUnit
  <2>2. fed' \in BOOLEAN
    BY <1>11 DEF VideoUnit
  <2>3. unit' = unit \/ unit' = Unit(a)
    BY <1>11 DEF VideoUnit
  <2>4. unit' \in [key : BOOLEAN, stale : BOOLEAN, early : BOOLEAN]
    <3>1. Unit(a) \in [key : BOOLEAN, stale : BOOLEAN, early : BOOLEAN]
      BY DEF Unit
    <3>2. unit \in [key : BOOLEAN, stale : BOOLEAN, early : BOOLEAN]
      BY DEF WorkTypeOK
    <3> QED
      BY <2>3, <3>1, <3>2
  <2> QED
    BY <2>1, <2>2, <2>4
<1>12. ASSUME NEW a \in BOOLEAN, NEW b \in BOOLEAN, Decode(a, b)  PROVE WorkTypeOK'
  BY <1>12 DEF Decode, Meets, AfterReset, Gated, Feed, Skip
<1>13. ASSUME NEW a \in BOOLEAN, NEW b \in BOOLEAN, FilterFrame(a, b)  PROVE WorkTypeOK'
  BY <1>13 DEF FilterFrame
<1>14. ASSUME NEW a \in BOOLEAN, NEW b \in BOOLEAN, AudioUnit(a, b)  PROVE WorkTypeOK'
  BY <1>14 DEF AudioUnit, Popped
<1>15. CASE Restart
  BY <1>15 DEF Restart, Armed
<1>16. CASE CheckFrame
  BY <1>16 DEF CheckFrame
<1>17. CASE PublishFrame
  BY <1>17 DEF PublishFrame
<1>18. CASE DeliverFrame
  BY <1>18 DEF DeliverFrame, FlagsTypeOK
<1>19. CASE CheckBlock
  BY <1>19 DEF CheckBlock
<1>20. CASE PushBlock
  BY <1>20 DEF PushBlock
<1>21. CASE ReadFromRing
  BY <1>21 DEF ReadFromRing
<1>22. CASE UNCHANGED vars
  BY <1>22 DEF vars
<1>23. CASE ResetFrame
  BY <1>23 DEF ResetFrame
<1>24. CASE ResetRing
  BY <1>24 DEF ResetRing, ClearRing
<1>25. CASE LoadSink
  BY <1>25 DEF LoadSink
<1> QED
  BY <1>1, <1>2, <1>3, <1>4, <1>5, <1>6, <1>7, <1>8, <1>9,
     <1>10, <1>11, <1>12, <1>13, <1>14, <1>15, <1>16, <1>17, <1>18,
     <1>19, <1>20, <1>21, <1>22, <1>23, <1>24, <1>25 DEF Next, Gui, Worker

LEMMA EmptyRing ==
    /\ Emptied([i \in 1..Len(ring) |-> TRUE]) = << >>
    /\ << >> \in Seq(BOOLEAN) /\ Len(<< >>) = 0
BY DEF Emptied

LEMMA ClearedTyped ==
  ASSUME RingTypeOK, ClearRing
  PROVE  RingTypeOK'
<1>1. ring' = << >>
  BY EmptyRing DEF ClearRing
<1>2. late' \in BOOLEAN
  BY DEF ClearRing, Decoding, RingTypeOK
<1> QED
  BY <1>1, <1>2, EmptyRing, StreamPreviewAssumption DEF RingTypeOK, StreamPreviewAssumption

LEMMA ShedTyped ==
  ASSUME RingTypeOK
  PROVE  /\ Shed(ring) \in Seq(BOOLEAN)
         /\ Len(Shed(ring)) < RingSize
         /\ ring = << >> => Shed(ring) = << >>
         /\ \A i \in 2..Len(Shed(ring)) : \E j \in 2..Len(ring) : Shed(ring)[i] = ring[j]
<1> USE StreamPreviewAssumption DEF StreamPreviewAssumption, RingTypeOK, Shed
<1>1. CASE Len(ring) = RingSize
  <2>1. ring # << >>
    BY <1>1
  <2>2. /\ Tail(ring) \in Seq(BOOLEAN)
        /\ Len(Tail(ring)) = Len(ring) - 1
        /\ \A i \in 1..Len(Tail(ring)) : Tail(ring)[i] = ring[i + 1]
    BY <2>1
  <2> QED
    BY <1>1, <2>1, <2>2
<1>2. CASE Len(ring) # RingSize
  BY <1>2
<1> QED
  BY <1>1, <1>2

(* The ring keeps to its size. *)
LEMMA RingStep == RingTypeOK /\ [Next]_vars => RingTypeOK'
<1> SUFFICES ASSUME RingTypeOK, [Next]_vars
           PROVE  RingTypeOK'
  OBVIOUS
<1> USE DEF RingTypeOK, pipeline, flags, decoders, audio, past
<1>1. CASE Attach
  BY <1>1 DEF Attach
<1>2. CASE Activate
  BY <1>2 DEF Activate
<1>3. CASE Arm
  BY <1>3 DEF Arm, Armed
<1>4. CASE Await
  BY <1>4 DEF Await, OpenAudioOutput
<1>5. CASE Detach
  BY <1>5 DEF Detach
<1>6. CASE Deactivate
  <2>1. UNCHANGED << ring, late >> \/ ClearRing
    BY <1>6 DEF Deactivate, CloseAudioOutput
  <2> QED
    BY <2>1, ClearedTyped
<1>7. CASE ToggleMute
  BY <1>7 DEF ToggleMute
<1>8. CASE ApplyMute
  <2>1. UNCHANGED << ring, late >> \/ ClearRing
    BY <1>8 DEF ApplyMute, CloseAudioOutput
  <2> QED
    BY <2>1, ClearedTyped
<1>9. CASE Shutdown
  BY <1>9, ClearedTyped DEF Shutdown, CloseAudioOutput
<1>10. CASE Gone
  BY <1>10 DEF Gone, vars
<1>11. ASSUME NEW a \in BOOLEAN, NEW b \in BOOLEAN, VideoUnit(a, b)  PROVE RingTypeOK'
  BY <1>11 DEF VideoUnit, Popped, Gate, TearDown, CloseDecoders
<1>12. ASSUME NEW a \in BOOLEAN, NEW b \in BOOLEAN, Decode(a, b)  PROVE RingTypeOK'
  BY <1>12 DEF Decode, Meets, AfterReset, Gated, Feed, Skip
<1>13. ASSUME NEW a \in BOOLEAN, NEW b \in BOOLEAN, FilterFrame(a, b)  PROVE RingTypeOK'
  BY <1>13 DEF FilterFrame
<1>14. ASSUME NEW a \in BOOLEAN, NEW b \in BOOLEAN, AudioUnit(a, b)  PROVE RingTypeOK'
  BY <1>14 DEF AudioUnit, Popped
<1>15. CASE Restart
  BY <1>15 DEF Restart, Armed
<1>16. CASE CheckFrame
  BY <1>16 DEF CheckFrame
<1>17. CASE PublishFrame
  BY <1>17 DEF PublishFrame
<1>18. CASE DeliverFrame
  BY <1>18 DEF DeliverFrame
<1>19. CASE CheckBlock
  BY <1>19 DEF CheckBlock
<1>20. CASE PushBlock
  <2>1. late \in BOOLEAN /\ Len(Shed(ring)) \in Nat
    BY ShedTyped DEF RingTypeOK
  <2>2. Append(Shed(ring), late) \in Seq(BOOLEAN)
    BY ShedTyped, <2>1
  <2>3. Len(Append(Shed(ring), late)) = Len(Shed(ring)) + 1
    BY ShedTyped
  <2>4. Len(Append(Shed(ring), late)) <= RingSize
    BY ShedTyped, <2>1, <2>3, StreamPreviewAssumption DEF StreamPreviewAssumption
  <2> QED
    BY <1>20, <2>2, <2>4 DEF PushBlock
<1>21. CASE ReadFromRing
  <2>1. ring # << >> /\ ring' = Tail(ring) /\ late' = late
    BY <1>21 DEF ReadFromRing
  <2>2. Tail(ring) \in Seq(BOOLEAN) /\ Len(Tail(ring)) = Len(ring) - 1
    BY <2>1
  <2> QED
    BY <2>1, <2>2, StreamPreviewAssumption DEF StreamPreviewAssumption
<1>22. CASE UNCHANGED vars
  BY <1>22 DEF vars
<1>23. CASE ResetFrame
  BY <1>23 DEF ResetFrame
<1>24. CASE ResetRing
  BY <1>24, ClearedTyped DEF ResetRing
<1>25. CASE LoadSink
  BY <1>25 DEF LoadSink
<1> QED
  BY <1>1, <1>2, <1>3, <1>4, <1>5, <1>6, <1>7, <1>8, <1>9,
     <1>10, <1>11, <1>12, <1>13, <1>14, <1>15, <1>16, <1>17, <1>18,
     <1>19, <1>20, <1>21, <1>22, <1>23, <1>24, <1>25 DEF Next, Gui, Worker

(* Every field has its type, and the ring its bound.                       *)
THEOREM TypeCorrect == Spec => []TypeOK
<1>1. Init => TypeOK
  <2> SUFFICES ASSUME Init PROVE TypeOK
    OBVIOUS
  <2>1. << >> \in Seq(BOOLEAN) /\ Len(<< >>) = 0
    OBVIOUS
  <2>2. RingTypeOK
    <3>1. ring = << >> /\ late \in BOOLEAN
      BY DEF Init
    <3> QED
      BY <2>1, <3>1, StreamPreviewAssumption DEF RingTypeOK, StreamPreviewAssumption
  <2>3. PipelineTypeOK /\ FlagsTypeOK /\ DecodersTypeOK /\ WorkTypeOK
    BY DEF Init, Unit, Shown, PipelineTypeOK, FlagsTypeOK, DecodersTypeOK, WorkTypeOK
  <2> QED
    BY <2>2, <2>3 DEF TypeOK
<1>2. TypeOK /\ [Next]_vars => TypeOK'
  BY PipelineStep, FlagsStep, DecodersStep, WorkStep, RingStep DEF TypeOK
<1> QED
  BY <1>1, <1>2, PTL DEF Spec

-----------------------------------------------------------------------------
(* What the decoder is given *)

(* A decoder that missed a unit meets a gate, or a reset, before another   *)
(* one; a shut gate of the pipeline leaves one of these behind too.        *)
GateHolds ==
    /\ whole
    /\ fed \/ decoder # "open" \/ waiting \/ resetPending
    /\ ~sawKeyframe => decoder # "open" \/ waiting \/ resetPending
    /\ work = "video" => sawKeyframe

(* The gate holds. *)
LEMMA GateStep == TypeOK /\ GateHolds /\ [Next]_vars => GateHolds'
<1> SUFFICES ASSUME TypeOK, GateHolds, [Next]_vars
           PROVE  GateHolds'
  OBVIOUS
<1> USE DEF GateHolds, TypeOK, PipelineTypeOK, FlagsTypeOK, DecodersTypeOK, WorkTypeOK,
            pipeline, flags, decoders, audio, past
<1>1. CASE Attach
  BY <1>1 DEF Attach
<1>2. CASE Activate
  BY <1>2 DEF Activate
<1>3. CASE Arm
  BY <1>3 DEF Arm, Armed
<1>4. CASE Await
  BY <1>4 DEF Await, OpenAudioOutput
<1>5. CASE Detach
  BY <1>5 DEF Detach
<1>6. CASE Deactivate
  BY <1>6 DEF Deactivate, CloseAudioOutput, ClearRing
<1>7. CASE ToggleMute
  BY <1>7 DEF ToggleMute
<1>8. CASE ApplyMute
  BY <1>8 DEF ApplyMute, OpenAudioOutput, CloseAudioOutput, ClearRing
<1>9. CASE Shutdown
  BY <1>9 DEF Shutdown, CloseDecoders, CloseAudioOutput, ClearRing
<1>10. CASE Gone
  BY <1>10 DEF Gone, vars
<1>11. ASSUME NEW a \in BOOLEAN, NEW b \in BOOLEAN, VideoUnit(a, b)  PROVE GateHolds'
  <2>1. whole' = whole /\ resetPending' = resetPending
    BY <1>11 DEF VideoUnit
  <2>2. CASE UNCHANGED << decoders, fed >> /\ work' = "video"
    <3>1. sawKeyframe \/ (a /\ b)
      BY <1>11, <2>2 DEF VideoUnit
    <3>2. sawKeyframe'
      BY <1>11, <3>1 DEF VideoUnit, Gate
    <3> QED
      BY <2>1, <2>2, <3>2
  <2>3. CASE TearDown /\ fed' = FALSE /\ work' = "idle"
    <3>1. decoder' # "open"
      BY <2>3 DEF TearDown, Opened, CloseDecoders
    <3> QED
      BY <2>1, <2>3, <3>1
  <2>4. CASE ~sawKeyframe /\ UNCHANGED decoders /\ fed' = FALSE /\ work' = "idle"
    BY <2>1, <2>4
  <2> QED
    BY <1>11, <2>2, <2>3, <2>4 DEF VideoUnit
<1>12. ASSUME NEW a \in BOOLEAN, NEW b \in BOOLEAN, Decode(a, b)  PROVE GateHolds'
  BY <1>12 DEF Decode, Meets, AfterReset, Gated, Feed, Skip
<1>13. ASSUME NEW a \in BOOLEAN, NEW b \in BOOLEAN, FilterFrame(a, b)  PROVE GateHolds'
  BY <1>13 DEF FilterFrame
<1>14. ASSUME NEW a \in BOOLEAN, NEW b \in BOOLEAN, AudioUnit(a, b)  PROVE GateHolds'
  BY <1>14 DEF AudioUnit, Popped
<1>15. CASE Restart
  BY <1>15 DEF Restart, Armed
<1>16. CASE CheckFrame
  BY <1>16 DEF CheckFrame
<1>17. CASE PublishFrame
  BY <1>17 DEF PublishFrame
<1>18. CASE DeliverFrame
  BY <1>18 DEF DeliverFrame
<1>19. CASE CheckBlock
  BY <1>19 DEF CheckBlock
<1>20. CASE PushBlock
  BY <1>20 DEF PushBlock
<1>21. CASE ReadFromRing
  BY <1>21 DEF ReadFromRing
<1>22. CASE UNCHANGED vars
  BY <1>22 DEF vars
<1>23. CASE ResetFrame
  BY <1>23 DEF ResetFrame
<1>24. CASE ResetRing
  BY <1>24 DEF ResetRing, ClearRing
<1>25. CASE LoadSink
  BY <1>25 DEF LoadSink
<1> QED
  BY <1>1, <1>2, <1>3, <1>4, <1>5, <1>6, <1>7, <1>8, <1>9,
     <1>10, <1>11, <1>12, <1>13, <1>14, <1>15, <1>16, <1>17, <1>18,
     <1>19, <1>20, <1>21, <1>22, <1>23, <1>24, <1>25 DEF Next, Gui, Worker

(* A decoder never sees the middle of a run of units it did not see begin. *)
THEOREM WholeRuns == Spec => []DecoderSeesWholeRuns
<1>1. Init => GateHolds
  BY DEF Init, GateHolds
<1>2. GateHolds => DecoderSeesWholeRuns
  BY DEF GateHolds, DecoderSeesWholeRuns
<1> QED
  BY <1>1, <1>2, TypeCorrect, GateStep, PTL DEF Spec

OnItsWay == work \in {"decoded", "filtered", "ready", "published", "loaded"}

(* What was armed and not yet answered by a keyframe is still pending, or  *)
(* the gate is up; a frame from before the arming is on its way only while *)
(* nothing was shown since.                                                *)
ArmingHolds ==
    /\ old => decoder # "open" \/ waiting \/ resetPending
    /\ OnItsWay /\ unit.stale => shown = "nothing"
    /\ shown # "mixed"

(* An arming is not forgotten. *)
LEMMA ArmingStep == TypeOK /\ ArmingHolds /\ [Next]_vars => ArmingHolds'
<1> SUFFICES ASSUME TypeOK, ArmingHolds, [Next]_vars
           PROVE  ArmingHolds'
  OBVIOUS
<1> USE DEF ArmingHolds, OnItsWay, TypeOK, PipelineTypeOK, FlagsTypeOK, DecodersTypeOK, WorkTypeOK,
            pipeline, flags, decoders, audio, past
<1>1. CASE Attach
  BY <1>1 DEF Attach
<1>2. CASE Activate
  BY <1>2 DEF Activate
<1>3. CASE Arm
  BY <1>3 DEF Arm, Armed
<1>4. CASE Await
  BY <1>4 DEF Await, OpenAudioOutput
<1>5. CASE Detach
  BY <1>5 DEF Detach
<1>6. CASE Deactivate
  BY <1>6 DEF Deactivate, CloseAudioOutput, ClearRing
<1>7. CASE ToggleMute
  BY <1>7 DEF ToggleMute
<1>8. CASE ApplyMute
  BY <1>8 DEF ApplyMute, OpenAudioOutput, CloseAudioOutput, ClearRing
<1>9. CASE Shutdown
  BY <1>9 DEF Shutdown, CloseDecoders, CloseAudioOutput, ClearRing
<1>10. CASE Gone
  BY <1>10 DEF Gone, vars
<1>11. ASSUME NEW a \in BOOLEAN, NEW b \in BOOLEAN, VideoUnit(a, b)  PROVE ArmingHolds'
  BY <1>11 DEF VideoUnit, Popped, Gate, TearDown, CloseDecoders
<1>12. ASSUME NEW a \in BOOLEAN, NEW b \in BOOLEAN, Decode(a, b)  PROVE ArmingHolds'
  BY <1>12 DEF Decode, Meets, AfterReset, Gated, Feed, Skip
<1>13. ASSUME NEW a \in BOOLEAN, NEW b \in BOOLEAN, FilterFrame(a, b)  PROVE ArmingHolds'
  BY <1>13 DEF FilterFrame
<1>14. ASSUME NEW a \in BOOLEAN, NEW b \in BOOLEAN, AudioUnit(a, b)  PROVE ArmingHolds'
  BY <1>14 DEF AudioUnit, Popped
<1>15. CASE Restart
  BY <1>15 DEF Restart, Armed
<1>16. CASE CheckFrame
  BY <1>16 DEF CheckFrame
<1>17. CASE PublishFrame
  BY <1>17 DEF PublishFrame
<1>18. CASE DeliverFrame
  BY <1>18 DEF DeliverFrame
<1>19. CASE CheckBlock
  BY <1>19 DEF CheckBlock
<1>20. CASE PushBlock
  BY <1>20 DEF PushBlock
<1>21. CASE ReadFromRing
  BY <1>21 DEF ReadFromRing
<1>22. CASE UNCHANGED vars
  BY <1>22 DEF vars
<1>23. CASE ResetFrame
  BY <1>23 DEF ResetFrame
<1>24. CASE ResetRing
  BY <1>24 DEF ResetRing, ClearRing
<1>25. CASE LoadSink
  BY <1>25 DEF LoadSink
<1> QED
  BY <1>1, <1>2, <1>3, <1>4, <1>5, <1>6, <1>7, <1>8, <1>9,
     <1>10, <1>11, <1>12, <1>13, <1>14, <1>15, <1>16, <1>17, <1>18,
     <1>19, <1>20, <1>21, <1>22, <1>23, <1>24, <1>25 DEF Next, Gui, Worker

(* Of the picture from before the last arming one frame is shown after it  *)
(* at most, and no frame of the new picture before it.                     *)
THEOREM OldPicture == Spec => []OldPictureIsOneFrame
<1>1. Init => ArmingHolds
  BY DEF Init, Unit, OnItsWay, ArmingHolds
<1>2. ArmingHolds => OldPictureIsOneFrame
  BY DEF ArmingHolds, OldPictureIsOneFrame
<1> QED
  BY <1>1, <1>2, TypeCorrect, ArmingStep, PTL DEF Spec

-----------------------------------------------------------------------------
(* What is seen and heard *)

(* While an old block is on its way, it is the only one there is.          *)
RingFollows ==
    /\ OldAudioIsOneBlock
    /\ late /\ Decoding => ring = << >>

(* Only the worker adds to the ring, one block at a time. *)
LEMMA RingFollowsStep == TypeOK /\ RingFollows /\ [Next]_vars => RingFollows'
<1> SUFFICES ASSUME TypeOK, RingFollows, [Next]_vars
           PROVE  RingFollows'
  OBVIOUS
<1> USE DEF RingFollows, OldAudioIsOneBlock, Decoding, pipeline, flags, decoders, audio, past
<1>1. CASE Attach
  BY <1>1 DEF Attach
<1>2. CASE Activate
  BY <1>2 DEF Activate
<1>3. CASE Arm
  BY <1>3 DEF Arm, Armed
<1>4. CASE Await
  BY <1>4 DEF Await, OpenAudioOutput
<1>5. CASE Detach
  BY <1>5 DEF Detach
<1>6. CASE Deactivate
  BY <1>6, EmptyRing DEF Deactivate, CloseAudioOutput, ClearRing
<1>7. CASE ToggleMute
  BY <1>7 DEF ToggleMute
<1>8. CASE ApplyMute
  BY <1>8, EmptyRing DEF ApplyMute, CloseAudioOutput, ClearRing
<1>9. CASE Shutdown
  BY <1>9, EmptyRing DEF Shutdown, CloseAudioOutput, ClearRing
<1>10. CASE Gone
  BY <1>10 DEF Gone, vars
<1>11. ASSUME NEW a \in BOOLEAN, NEW b \in BOOLEAN, VideoUnit(a, b)  PROVE RingFollows'
  BY <1>11 DEF VideoUnit, Popped, Gate, TearDown, CloseDecoders
<1>12. ASSUME NEW a \in BOOLEAN, NEW b \in BOOLEAN, Decode(a, b)  PROVE RingFollows'
  BY <1>12 DEF Decode, Meets, AfterReset, Gated, Feed, Skip
<1>13. ASSUME NEW a \in BOOLEAN, NEW b \in BOOLEAN, FilterFrame(a, b)  PROVE RingFollows'
  BY <1>13 DEF FilterFrame
<1>14. ASSUME NEW a \in BOOLEAN, NEW b \in BOOLEAN, AudioUnit(a, b)  PROVE RingFollows'
  BY <1>14 DEF AudioUnit, Popped
<1>15. CASE Restart
  BY <1>15 DEF Restart, Armed
<1>16. CASE CheckFrame
  BY <1>16 DEF CheckFrame
<1>17. CASE PublishFrame
  BY <1>17 DEF PublishFrame
<1>18. CASE DeliverFrame
  BY <1>18 DEF DeliverFrame
<1>19. CASE CheckBlock
  BY <1>19 DEF CheckBlock
<1>20. CASE PushBlock
  <2>1. RingTypeOK /\ ring' = Append(Shed(ring), late) /\ work' = "idle"
    BY <1>20 DEF PushBlock, TypeOK
  <2>2. Shed(ring) \in Seq(BOOLEAN) /\ late \in BOOLEAN /\ Len(Shed(ring)) \in Nat
    BY <2>1, ShedTyped DEF RingTypeOK
  <2>3. ASSUME NEW i \in 2..Len(ring')  PROVE ~ring'[i]
    <3>1. Len(ring') = Len(Shed(ring)) + 1
      BY <2>1, <2>2
    <3>2. CASE i = Len(ring')
      <4>1. ring # << >>
        BY <2>1, <2>2, <3>1, <3>2, ShedTyped
      <4>2. ~late
        BY <1>20, <4>1 DEF PushBlock
      <4> QED
        BY <2>1, <2>2, <3>1, <3>2, <4>2
    <3>3. CASE i # Len(ring')
      <4>1. i \in 2..Len(Shed(ring)) /\ ring'[i] = Shed(ring)[i]
        BY <2>1, <2>2, <3>1, <3>3
      <4> QED
        BY <2>1, <4>1, ShedTyped
    <3> QED
      BY <3>2, <3>3
  <2> QED
    BY <2>1, <2>3
<1>21. CASE ReadFromRing
  <2>1. ring \in Seq(BOOLEAN) /\ ring # << >> /\ ring' = Tail(ring) /\ late' = late /\ work' = work
    BY <1>21 DEF ReadFromRing, TypeOK, RingTypeOK
  <2>2. /\ Len(ring') = Len(ring) - 1
        /\ \A i \in 1..Len(ring') : ring'[i] = ring[i + 1]
    BY <2>1
  <2>3. \A i \in 2..Len(ring') : i + 1 \in 2..Len(ring)
    BY <2>1, <2>2
  <2> QED
    BY <2>1, <2>2, <2>3
<1>22. CASE UNCHANGED vars
  BY <1>22 DEF vars
<1>23. CASE ResetFrame
  BY <1>23 DEF ResetFrame
<1>24. CASE ResetRing
  BY <1>24, EmptyRing DEF ResetRing, ClearRing
<1>25. CASE LoadSink
  BY <1>25 DEF LoadSink
<1> QED
  BY <1>1, <1>2, <1>3, <1>4, <1>5, <1>6, <1>7, <1>8, <1>9,
     <1>10, <1>11, <1>12, <1>13, <1>14, <1>15, <1>16, <1>17, <1>18,
     <1>19, <1>20, <1>21, <1>22, <1>23, <1>24, <1>25 DEF Next, Gui, Worker

(* Of the audio from before a detach, a mute or a reset, one block is      *)
(* heard after it at most.                                                 *)
THEOREM OldAudio == Spec => []OldAudioIsOneBlock
<1>1. Init => RingFollows
  BY DEF Init, RingFollows, OldAudioIsOneBlock, Decoding
<1>2. RingFollows => OldAudioIsOneBlock
  BY DEF RingFollows
<1> QED
  BY <1>1, <1>2, TypeCorrect, RingFollowsStep, PTL DEF Spec

(* A window that is attached is where the frames go, and is told of one    *)
(* only when it has it.                                                    *)
WindowFollows ==
    /\ active /\ gui # "detaching" => targetSink
    /\ gui \in {"attaching", "activated", "armed"} => targetSink
    /\ hasFrame /\ active /\ gui \in {"idle", "attaching", "muting"}
         /\ work \notin {"published", "loaded"} => seen

(* The window and its frame. *)
LEMMA WindowStep == TypeOK /\ WindowFollows /\ [Next]_vars => WindowFollows'
<1> SUFFICES ASSUME TypeOK, WindowFollows, [Next]_vars
           PROVE  WindowFollows'
  OBVIOUS
<1> USE DEF WindowFollows, TypeOK, FlagsTypeOK, WorkTypeOK, pipeline, flags, decoders, audio, past
<1>1. CASE Attach
  BY <1>1 DEF Attach
<1>2. CASE Activate
  BY <1>2 DEF Activate
<1>3. CASE Arm
  BY <1>3 DEF Arm, Armed
<1>4. CASE Await
  BY <1>4 DEF Await, OpenAudioOutput
<1>5. CASE Detach
  BY <1>5 DEF Detach
<1>6. CASE Deactivate
  BY <1>6 DEF Deactivate, CloseAudioOutput, ClearRing
<1>7. CASE ToggleMute
  BY <1>7 DEF ToggleMute
<1>8. CASE ApplyMute
  BY <1>8 DEF ApplyMute, OpenAudioOutput, CloseAudioOutput, ClearRing
<1>9. CASE Shutdown
  BY <1>9 DEF Shutdown, CloseDecoders, CloseAudioOutput, ClearRing
<1>10. CASE Gone
  BY <1>10 DEF Gone, vars
<1>11. ASSUME NEW a \in BOOLEAN, NEW b \in BOOLEAN, VideoUnit(a, b)  PROVE WindowFollows'
  BY <1>11 DEF VideoUnit, Popped, Gate, TearDown, CloseDecoders
<1>12. ASSUME NEW a \in BOOLEAN, NEW b \in BOOLEAN, Decode(a, b)  PROVE WindowFollows'
  BY <1>12 DEF Decode, Meets, AfterReset, Gated, Feed, Skip
<1>13. ASSUME NEW a \in BOOLEAN, NEW b \in BOOLEAN, FilterFrame(a, b)  PROVE WindowFollows'
  BY <1>13 DEF FilterFrame
<1>14. ASSUME NEW a \in BOOLEAN, NEW b \in BOOLEAN, AudioUnit(a, b)  PROVE WindowFollows'
  BY <1>14 DEF AudioUnit, Popped
<1>15. CASE Restart
  BY <1>15 DEF Restart, Armed
<1>16. CASE CheckFrame
  BY <1>16 DEF CheckFrame
<1>17. CASE PublishFrame
  BY <1>17 DEF PublishFrame
<1>18. CASE DeliverFrame
  BY <1>18 DEF DeliverFrame
<1>19. CASE CheckBlock
  BY <1>19 DEF CheckBlock
<1>20. CASE PushBlock
  BY <1>20 DEF PushBlock
<1>21. CASE ReadFromRing
  BY <1>21 DEF ReadFromRing
<1>22. CASE UNCHANGED vars
  BY <1>22 DEF vars
<1>23. CASE ResetFrame
  BY <1>23 DEF ResetFrame
<1>24. CASE ResetRing
  BY <1>24 DEF ResetRing, ClearRing
<1>25. CASE LoadSink
  BY <1>25 DEF LoadSink
<1> QED
  BY <1>1, <1>2, <1>3, <1>4, <1>5, <1>6, <1>7, <1>8, <1>9,
     <1>10, <1>11, <1>12, <1>13, <1>14, <1>15, <1>16, <1>17, <1>18,
     <1>19, <1>20, <1>21, <1>22, <1>23, <1>24, <1>25 DEF Next, Gui, Worker

(* A window that is told it has a frame has been given one.                *)
THEOREM FramesSeen == Spec => []HasFrameIsSeen
<1>1. Init => WindowFollows
  BY DEF Init, WindowFollows
<1>2. WindowFollows => HasFrameIsSeen
  BY DEF WindowFollows, HasFrameIsSeen
<1> QED
  BY <1>1, <1>2, TypeCorrect, WindowStep, PTL DEF Spec
=============================================================================
