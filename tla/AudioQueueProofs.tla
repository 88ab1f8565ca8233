-------------------------- MODULE AudioQueueProofs --------------------------
(***************************************************************************)
(* Proofs about the audio path: its types, that a device that ran dry in   *)
(* time is counted in the telemetry, and that no sound goes missing without*)
(* an error or a change of rate, whatever the rates, the sizes of the      *)
(* blocks and the number of failing calls; and how much is buffered at     *)
(* most.                                                                   *)
(***************************************************************************)
EXTENDS AudioQueue, TLAPS, FiniteSetTheorems, FunctionTheorems, SequenceTheorems

\* A device that ran dry has an empty queue until queue_samples adds to it.
DryIsEmpty == dry => queue = <<>>

\* While a block is converted the device plays at most one tick for each that
\* passes, so a queue it emptied within 5 ms of the read held less than 5 ms then.
CallKnowsQueue ==
  Converting => /\ prequeue <= Len(queue) + inCall
                /\ dry => prequeue < FiveMs

\* The callback being drained is not counted yet; the one being queued is.
CountIsAhead ==
  /\ dryCallbacks <= window.under5ms
  /\ (call = "queue" /\ prequeue < FiveMs) => dryCallbacks + 1 <= window.under5ms

UnderrunInv == TypeOK /\ DryIsEmpty /\ CallKnowsQueue /\ CountIsAhead

-----------------------------------------------------------------------------
\* Run yields a sequence of integers, n long (queue_samples' block).
LEMMA RunIsSequence ==
  ASSUME NEW l \in Int, NEW n \in Nat
  PROVE  Run(l, n) \in Seq(Int)
<1>1. Labels \in Nat \ {0}
  BY SizesAssumption
<1>2. \A i \in 1..n : (l + i - 1) % Labels \in Int
  BY <1>1
<1> QED
  BY <1>2 DEF Run

\* The counters of the telemetry are numbers, the cleared one's are 0.
LEMMA CounterTypes ==
  ASSUME NEW c \in Telemetry
  PROVE  /\ NoCallbacks \in Telemetry /\ NoCallbacks.under5ms = 0
         /\ c.callbacks \in Nat /\ c.under5ms \in Nat
         /\ c.conversionErrors \in Nat /\ c.queueErrors \in Nat
  BY DEF Telemetry, NoCallbacks

\* The errors of a call.
LEMMA ErrorCounts ==
  ASSUME NEW c \in Telemetry
  PROVE  /\ [c EXCEPT !.conversionErrors = @ + 1] \in Telemetry
         /\ [c EXCEPT !.conversionErrors = @ + 1].under5ms = c.under5ms
         /\ [c EXCEPT !.queueErrors = @ + 1] \in Telemetry
         /\ [c EXCEPT !.queueErrors = @ + 1].under5ms = c.under5ms
  BY DEF Telemetry

\* The counts of a callback.
LEMMA CallbackCounts ==
  ASSUME NEW c \in Telemetry, NEW n \in Nat, NEW m \in Nat
  PROVE  /\ [c EXCEPT !.callbacks = n, !.under5ms = m] \in Telemetry
         /\ [c EXCEPT !.callbacks = n, !.under5ms = m].under5ms = m
  BY DEF Telemetry

\* A drained callback keeps the telemetry's type and counts a queue of under 5 ms.
LEMMA DrainCounts ==
  ASSUME TypeOK, Drain
  PROVE  /\ window' \in Telemetry
         /\ window'.under5ms =
              IF prequeue < FiveMs THEN window.under5ms + 1 ELSE window.under5ms
<1> DEFINE n == window.callbacks + 1
           m == IF prequeue < FiveMs THEN window.under5ms + 1 ELSE window.under5ms
<1>1. window \in Telemetry /\ window' = [window EXCEPT !.callbacks = n, !.under5ms = m]
  BY DEF Drain, CountCallback, TypeOK
<1>2. n \in Nat /\ m \in Nat
  BY <1>1, CounterTypes
<1> HIDE DEF n, m
<1>3. /\ [window EXCEPT !.callbacks = n, !.under5ms = m] \in Telemetry
      /\ [window EXCEPT !.callbacks = n, !.under5ms = m].under5ms = m
  BY <1>1, <1>2, CallbackCounts
<1>4. window' \in Telemetry /\ window'.under5ms = m
  BY <1>1, <1>3
<1> QED
  BY <1>4 DEF n, m

\* The telemetry keeps its type when a report is due and when it is not.
LEMMA ReportTypes ==
  ASSUME TypeOK, NEW c \in Telemetry, Report(c)
  PROVE  /\ window' \in Telemetry
         /\ armed' \in BOOLEAN /\ dryCallbacks' \in Nat /\ reported' \in Nat
<1>1. /\ NoCallbacks \in Telemetry
      /\ c.conversionErrors \in Nat /\ c.queueErrors \in Nat
  BY CounterTypes
<1>2. dryCallbacks \in Nat /\ reported \in Nat
  BY DEF TypeOK
<1>3. dryCallbacks + (IF dry THEN 1 ELSE 0) \in Nat
  BY <1>2
<1>4. reported + c.conversionErrors + c.queueErrors \in Nat
  BY <1>1, <1>2
<1> QED
  BY <1>1, <1>2, <1>3, <1>4 DEF Report

\* The report that ends a call takes the dry device into account: its callback
\* has been counted when the call reaches it.
LEMMA ReportCounts ==
  ASSUME UnderrunInv, call = "queue",
         NEW c \in Telemetry,
         c.under5ms = window.under5ms,
         Report(c)
  PROVE  dryCallbacks' <= window'.under5ms
<1>1. dryCallbacks + (IF dry THEN 1 ELSE 0) <= c.under5ms
  BY CounterTypes DEF UnderrunInv, TypeOK, CallKnowsQueue, CountIsAhead, Converting
<1>2. NoCallbacks.under5ms = 0
  BY DEF NoCallbacks
<1> QED
  BY <1>1, <1>2 DEF Report

-----------------------------------------------------------------------------
\* The state main starts from.
LEMMA InitUnderrun == Init => UnderrunInv
<1> SUFFICES ASSUME Init PROVE UnderrunInv
  OBVIOUS
<1>1. NoCallbacks \in Telemetry
  BY DEF Telemetry, NoCallbacks
<1>2. <<>> \in Seq(Int)
  OBVIOUS
<1>3. TypeOK
  <2>1. /\ elapsed \in 0..VI /\ inCall \in 0..MaxInCall
        /\ faults \in 0..MaxFaults /\ changes \in 0..MaxChanges
    BY SizesAssumption, BoundsAssumption DEF Init
  <2>2. stream \in Seq(Int) /\ queue \in Seq(Int) /\ converted \in Seq(Int)
    BY <1>2 DEF Init
  <2>3. /\ device \in BOOLEAN /\ primed \in BOOLEAN /\ armed \in BOOLEAN
        /\ dry \in BOOLEAN
    BY Zenon DEF Init
  <2>4. /\ rate \in Rates \cup {OutRate}
        /\ call \in {"idle", "put", "drain", "queue"}
        /\ next \in Int /\ heard \in Int \cup {None} /\ block \in Nat
        /\ prequeue \in Nat /\ dryCallbacks \in Nat /\ reported \in Nat
    BY DEF Init
  <2>5. window \in Telemetry
    BY <1>1 DEF Init
  <2> QED
    BY <2>1, <2>2, <2>3, <2>4, <2>5 DEF TypeOK
<1>4. DryIsEmpty /\ CallKnowsQueue /\ CountIsAhead
  BY DEF Init, DryIsEmpty, CallKnowsQueue, CountIsAhead, Converting, NoCallbacks
<1> QED
  BY <1>3, <1>4 DEF UnderrunInv

\* Every call of the game's thread and every tick of the device keeps the types.
LEMMA TypeStep == TypeOK /\ [Next]_vars => TypeOK'
<1> SUFFICES ASSUME TypeOK, [Next]_vars PROVE TypeOK'
  OBVIOUS
<1> USE SizesAssumption, BoundsAssumption, RatesAssumption
<1>1. CASE Tick
  <2>1. queue = <<>> \/ (Head(queue) \in Int /\ Tail(queue) \in Seq(Int))
    BY DEF TypeOK
  <2>2. elapsed' \in 0..VI /\ inCall' \in 0..MaxInCall
    BY <1>1 DEF Tick, TypeOK
  <2>3. queue' \in Seq(Int) /\ heard' \in Int \cup {None} /\ dry' \in BOOLEAN
    BY <1>1, <2>1 DEF Tick, TypeOK
  <2> QED
    BY <1>1, <2>2, <2>3 DEF Tick, TypeOK, telemetry
<1>2. CASE \E r \in Rates : SetFrequency(r)
  BY <1>2 DEF SetFrequency, TypeOK, telemetry, clock
<1>3. CASE Render
  BY <1>3 DEF Render, TypeOK, buffers, telemetry, Fault, NoFault
<1>4. CASE QueueNothing
  <2>1. next' \in Int
    BY <1>4 DEF QueueNothing, TypeOK
  <2> QED
    BY <1>4, <2>1 DEF QueueNothing, Done, TypeOK, telemetry
<1>5. CASE PutFails
  <2>1. next' \in Int
    BY <1>5 DEF PutFails, TypeOK
  <2>2. window' \in Telemetry
    BY <1>5, ErrorCounts DEF PutFails, CountConversionError, TypeOK
  <2> QED
    BY <1>5, <2>1, <2>2 DEF PutFails, Done, Fault, TypeOK
<1>6. CASE Put
  <2>1. stream' \in Seq(Int)
    BY <1>6, RunIsSequence DEF Put, TypeOK
  <2>2. next' \in Int /\ prequeue' \in Nat
    BY <1>6 DEF Put, TypeOK
  <2> QED
    BY <1>6, <2>1, <2>2 DEF Put, TypeOK, telemetry, clock
<1>7. CASE DrainFails
  <2>1. window' \in Telemetry
    BY <1>7, ErrorCounts DEF DrainFails, CountConversionError, TypeOK
  <2> QED
    BY <1>7, <2>1 DEF DrainFails, Done, Fault, TypeOK, buffers
<1>8. CASE Drain
  <2>1. Available \in 0..Len(stream)
    BY DEF Available, Held, TypeOK
  <2>2. converted' \in Seq(Int) /\ stream' \in Seq(Int)
    BY <1>8, <2>1 DEF Drain, TypeOK
  <2>3. window' \in Telemetry
    BY <1>8, DrainCounts
  <2> QED
    BY <1>8, <2>2, <2>3 DEF Drain, TypeOK, clock
<1>9. CASE QueueAudio
  <2>1. queue' \in Seq(Int)
    BY <1>9 DEF QueueAudio, TypeOK
  <2>2. Report(window)
    BY <1>9 DEF QueueAudio
  <2>3. /\ window' \in Telemetry
        /\ armed' \in BOOLEAN /\ dryCallbacks' \in Nat /\ reported' \in Nat
    BY <2>2, ReportTypes DEF TypeOK
  <2>4. /\ call' = "idle" /\ block' \in Nat /\ prequeue' \in Nat
        /\ converted' \in Seq(Int) /\ inCall' \in 0..MaxInCall
    BY <1>9 DEF QueueAudio, Done, TypeOK
  <2>5. primed' \in BOOLEAN /\ dry' \in BOOLEAN
    BY <1>9, Zenon DEF QueueAudio, TypeOK
  <2> QED
    BY <1>9, <2>1, <2>3, <2>4, <2>5 DEF QueueAudio, Done, TypeOK
<1>10. CASE QueueAudioFails
  <2>0. Done /\ Fault
    BY <1>10 DEF QueueAudioFails
  <2> DEFINE c == [window EXCEPT !.queueErrors = @ + 1]
  <2>1. c \in Telemetry
    BY ErrorCounts DEF TypeOK
  <2>2. Report(c)
    BY <1>10 DEF QueueAudioFails
  <2> HIDE DEF c
  <2>3. /\ window' \in Telemetry
        /\ armed' \in BOOLEAN /\ dryCallbacks' \in Nat /\ reported' \in Nat
    BY <2>1, <2>2, ReportTypes
  <2>4. /\ call' = "idle" /\ block' \in Nat /\ prequeue' \in Nat
        /\ converted' \in Seq(Int) /\ inCall' \in 0..MaxInCall
    BY <2>0 DEF Done, TypeOK
  <2>6. faults' \in 0..MaxFaults
    BY <2>0 DEF Fault, TypeOK
  <2>5. primed' \in BOOLEAN /\ dry' \in BOOLEAN
    BY <1>10, Zenon DEF QueueAudioFails, TypeOK
  <2> QED
    BY <1>10, <2>3, <2>4, <2>5, <2>6 DEF QueueAudioFails, Done, Fault, TypeOK, buffers
<1>11. CASE UNCHANGED vars
  BY <1>11 DEF vars, buffers, telemetry, clock, TypeOK
<1> QED
  BY <1>1, <1>2, <1>3, <1>4, <1>5, <1>6, <1>7, <1>8, <1>9, <1>10, <1>11
  DEF Next, QueueSamples

\* A tick that finds the queue empty within 5 ms of the call's read of it finds that
\* it held less than 5 ms at the read; a later one is not recorded.
LEMMA TickUnderrun == UnderrunInv /\ Tick =>
  DryIsEmpty' /\ CallKnowsQueue' /\ CountIsAhead'
<1> SUFFICES ASSUME UnderrunInv, Tick
             PROVE  DryIsEmpty' /\ CallKnowsQueue' /\ CountIsAhead'
  OBVIOUS
<1>1. DryIsEmpty'
  BY DEF UnderrunInv, TypeOK, DryIsEmpty, Tick
<1>2. CallKnowsQueue'
  <2> SUFFICES ASSUME Converting
               PROVE  /\ prequeue <= Len(queue') + inCall'
                      /\ dry' => prequeue < FiveMs
    BY DEF CallKnowsQueue, Converting, Tick
  <2>1. /\ prequeue \in Nat /\ inCall \in Nat /\ queue \in Seq(Int)
        /\ inCall' = inCall + 1
    BY BoundsAssumption DEF UnderrunInv, TypeOK, Tick
  <2>2. prequeue <= Len(queue) + inCall /\ (dry => prequeue < FiveMs)
    BY DEF UnderrunInv, CallKnowsQueue
  <2>3. CASE queue = <<>>
    <3>1. Len(queue) = 0 /\ queue' = queue
      BY <2>3 DEF Tick
    <3>2. dry' => dry \/ inCall < FiveMs
      BY <2>3, Zenon DEF Tick
    <3>3. prequeue <= inCall
      BY <2>1, <2>2, <3>1
    <3>4. dry' => prequeue < FiveMs
      BY <2>1, <2>2, <3>2, <3>3 DEF FiveMs
    <3> QED
      BY <2>1, <3>1, <3>3, <3>4
  <2>4. CASE queue # <<>>
    <3>1. queue' = Tail(queue) /\ dry' = dry
      BY <2>4 DEF Tick
    <3>2. Len(Tail(queue)) = Len(queue) - 1 /\ Len(queue) \in Nat
      BY <2>1, <2>4
    <3>3. Len(queue') = Len(queue) - 1
      BY <3>1, <3>2
    <3>4. prequeue <= Len(queue') + inCall'
      BY <2>1, <2>2, <3>2, <3>3
    <3> QED
      BY <2>2, <3>1, <3>4
  <2> QED
    BY <2>3, <2>4
<1>3. CountIsAhead'
  BY DEF UnderrunInv, CountIsAhead, Tick, telemetry
<1> QED
  BY <1>1, <1>2, <1>3

\* Every step keeps the invariant.
LEMMA StepUnderrun == UnderrunInv /\ [Next]_vars => UnderrunInv'
<1> SUFFICES ASSUME UnderrunInv, [Next]_vars PROVE UnderrunInv'
  OBVIOUS
<1>0. TypeOK'
  BY TypeStep DEF UnderrunInv
<1> SUFFICES DryIsEmpty' /\ CallKnowsQueue' /\ CountIsAhead'
  BY <1>0 DEF UnderrunInv
<1>1. CASE Tick
  BY <1>1, TickUnderrun
<1>2. CASE \E r \in Rates : SetFrequency(r)
  BY <1>2 DEF UnderrunInv, SetFrequency, telemetry, clock, DryIsEmpty,
              CallKnowsQueue, CountIsAhead, Converting
<1>3. CASE Render
  BY <1>3 DEF UnderrunInv, Render, buffers, telemetry, DryIsEmpty, CallKnowsQueue,
              CountIsAhead, Converting
<1>4. CASE QueueNothing
  BY <1>4 DEF UnderrunInv, QueueNothing, Done, telemetry, DryIsEmpty, CallKnowsQueue,
              CountIsAhead, Converting
<1>5. CASE PutFails
  BY <1>5, ErrorCounts DEF UnderrunInv, TypeOK, PutFails, Done, CountConversionError,
                           DryIsEmpty, CallKnowsQueue, CountIsAhead, Converting
<1>6. CASE Put
  <2>1. prequeue' = Len(queue) /\ queue' = queue /\ inCall' = inCall /\ dry' = dry
    BY <1>6 DEF Put, clock
  <2>2. dry => Len(queue) = 0
    BY DEF UnderrunInv, DryIsEmpty
  <2>3. CallKnowsQueue'
    BY <2>1, <2>2 DEF UnderrunInv, TypeOK, CallKnowsQueue, FiveMs
  <2> QED
    BY <1>6, <2>1, <2>3 DEF UnderrunInv, Put, telemetry, DryIsEmpty, CountIsAhead
<1>7. CASE DrainFails
  BY <1>7, ErrorCounts DEF UnderrunInv, TypeOK, DrainFails, Done, CountConversionError,
                           buffers, DryIsEmpty, CallKnowsQueue, CountIsAhead, Converting
<1>8. CASE Drain
  <2>1. /\ prequeue' = prequeue /\ dryCallbacks' = dryCallbacks
        /\ dryCallbacks \in Nat /\ window.under5ms \in Nat
        /\ dryCallbacks <= window.under5ms
    BY <1>8, CounterTypes DEF UnderrunInv, TypeOK, Drain, CountIsAhead
  <2>2. window'.under5ms =
          IF prequeue < FiveMs THEN window.under5ms + 1 ELSE window.under5ms
    BY <1>8, DrainCounts DEF UnderrunInv
  <2>3. CountIsAhead'
    BY <2>1, <2>2 DEF CountIsAhead
  <2> QED
    BY <1>8, <2>3 DEF UnderrunInv, Drain, clock, DryIsEmpty, CallKnowsQueue, Converting
<1>9. CASE QueueAudio
  <2>1. dryCallbacks' <= window'.under5ms
    BY <1>9, ReportCounts DEF UnderrunInv, TypeOK, QueueAudio
  <2> QED
    BY <1>9, <2>1 DEF QueueAudio, Done, DryIsEmpty, CallKnowsQueue, CountIsAhead,
                      Converting
<1>10. CASE QueueAudioFails
  <2> DEFINE c == [window EXCEPT !.queueErrors = @ + 1]
  <2>1. c \in Telemetry
        /\ c.under5ms = window.under5ms
    BY ErrorCounts DEF UnderrunInv, TypeOK
  <2>2. Report(c) /\ call = "queue"
    BY <1>10 DEF QueueAudioFails
  <2> HIDE DEF c
  <2>3. dryCallbacks' <= window'.under5ms
    BY <2>1, <2>2, ReportCounts
  <2> QED
    BY <1>10, <2>3 DEF QueueAudioFails, Done, DryIsEmpty, CallKnowsQueue, CountIsAhead,
                       Converting
<1>11. CASE UNCHANGED vars
  BY <1>11 DEF UnderrunInv, vars, buffers, telemetry, clock, DryIsEmpty, CallKnowsQueue,
               CountIsAhead, Converting
<1> QED
  BY <1>1, <1>2, <1>3, <1>4, <1>5, <1>6, <1>7, <1>8, <1>9, <1>10, <1>11
  DEF Next, QueueSamples

\* Every reachable state of the audio path satisfies the inductive invariant.
THEOREM AudioInvariant == Spec => []UnderrunInv
<1> QED
  BY InitUnderrun, StepUnderrun, PTL DEF Spec

\* A device that ran dry between two full callbacks of queue_samples, or within 5 ms of
\* the second's read of its queue, is counted under 5 ms in the telemetry of that window,
\* for every rate, every block size, any number of failing SDL calls and a conversion
\* that takes as long as it likes.
THEOREM DryDeviceIsCounted == Spec => []PromptUnderrunsAreCounted
<1>1. UnderrunInv => PromptUnderrunsAreCounted
  BY DEF UnderrunInv, CountIsAhead, PromptUnderrunsAreCounted
<1> QED
  BY <1>1, AudioInvariant, PTL

-----------------------------------------------------------------------------
(* Gaps in a sequence of labels *)

GapsOf(s) == {i \in 1..(Len(s) - 1) : s[i + 1] # (s[i] + 1) % Labels}
GapCount(s) == Cardinality(GapsOf(s))

\* The quotient and the remainder are the only ones.
LEMMA Remainder ==
  ASSUME NEW n \in Nat \ {0}, NEW q \in Int, NEW r \in 0..(n - 1)
  PROVE  (n * q + r) % n = r
OBVIOUS

\* The label after the one of x is the one of x + 1.
LEMMA NextLabel ==
  ASSUME NEW n \in Nat \ {0}, NEW x \in Int
  PROVE  ((x % n) + 1) % n = (x + 1) % n
<1> DEFINE q == x \div n
           r == x % n
<1>1. q \in Int /\ r \in 0..(n - 1) /\ x = n * q + r
  OBVIOUS
<1> HIDE DEF q, r
<1>2. CASE r + 1 < n
  <2>1. x + 1 = n * q + (r + 1) /\ r + 1 \in 0..(n - 1)
    BY <1>1, <1>2
  <2>2. (x + 1) % n = r + 1
    BY <1>1, <2>1, Remainder
  <2>3. (r + 1) % n = r + 1
    BY <1>1, <1>2
  <2> QED
    BY <2>2, <2>3 DEF r
<1>3. CASE r + 1 = n
  <2>1. x + 1 = n * (q + 1) + 0 /\ q + 1 \in Int /\ 0 \in 0..(n - 1)
    BY <1>1, <1>3
  <2>2. (x + 1) % n = 0
    BY <2>1, Remainder
  <2>3. (r + 1) % n = 0
    BY <1>1, <1>3
  <2> QED
    BY <2>2, <2>3 DEF r
<1> QED
  BY <1>1, <1>2, <1>3

\* The gaps of a sequence can be counted.
LEMMA GapsAreFinite ==
  ASSUME NEW s \in Seq(Int)
  PROVE  IsFiniteSet(GapsOf(s)) /\ GapCount(s) \in Nat
<1>1. Len(s) - 1 \in Int
  OBVIOUS
<1>2. IsFiniteSet(1..(Len(s) - 1))
  BY <1>1, FS_Interval
<1>3. GapsOf(s) \in SUBSET (1..(Len(s) - 1))
  BY DEF GapsOf
<1>4. IsFiniteSet(GapsOf(s))
  BY <1>2, <1>3, FS_Subset
<1> QED
  BY <1>4, FS_CardinalityType DEF GapCount

\* Joining two sequences keeps the gaps of both and makes at most one more, where they
\* meet.
LEMMA GapsOfConcat ==
  ASSUME NEW a \in Seq(Int), NEW b \in Seq(Int)
  PROVE  /\ a \o b \in Seq(Int)
         /\ GapCount(a) \in Nat /\ GapCount(b) \in Nat /\ GapCount(a \o b) \in Nat
         /\ GapCount(a) + GapCount(b) <= GapCount(a \o b)
         /\ GapCount(a \o b) <= GapCount(a) + GapCount(b) + 1
<1> DEFINE c == a \o b
           n == Len(a)
           A == GapsOf(a)
           B == GapsOf(b)
           S == {i + n : i \in B}
           J == GapsOf(c) \cap {n}
<1>1. /\ c \in Seq(Int) /\ n \in Nat /\ Len(b) \in Nat /\ Len(c) = n + Len(b)
      /\ \A i \in 1..(n + Len(b)) : c[i] = IF i <= n THEN a[i] ELSE b[i - n]
  BY ConcatProperties, LenProperties
<1>2. /\ IsFiniteSet(A) /\ IsFiniteSet(B) /\ IsFiniteSet(GapsOf(c))
      /\ GapCount(a) \in Nat /\ GapCount(b) \in Nat /\ GapCount(c) \in Nat
  BY <1>1, GapsAreFinite
<1>3. A \subseteq 1..(n - 1) /\ B \subseteq 1..(Len(b) - 1) /\ GapsOf(c) \subseteq 1..(n + Len(b) - 1)
  BY <1>1 DEF GapsOf
<1> HIDE DEF c, n
<1>4. \A i \in 1..(n - 1) : i \in GapsOf(c) <=> i \in A
  <2>1. ASSUME NEW i \in 1..(n - 1) PROVE c[i] = a[i] /\ c[i + 1] = a[i + 1] /\ i \in 1..(n + Len(b) - 1)
    BY <1>1
  <2> QED
    BY <1>1, <2>1, SMTT(30) DEF GapsOf, n
<1>5. \A i \in 1..(Len(b) - 1) : i + n \in GapsOf(c) <=> i \in B
  <2>1. ASSUME NEW i \in 1..(Len(b) - 1)
        PROVE  /\ c[i + n] = b[i] /\ c[(i + n) + 1] = b[i + 1]
               /\ i + n \in 1..(n + Len(b) - 1)
    <3>1. /\ i + n \in 1..(n + Len(b)) /\ (i + n) + 1 \in 1..(n + Len(b))
          /\ ~(i + n <= n) /\ ~((i + n) + 1 <= n)
          /\ (i + n) - n = i /\ ((i + n) + 1) - n = i + 1
          /\ i + n \in 1..(n + Len(b) - 1)
      BY <1>1
    <3>2. c[i + n] = IF i + n <= n THEN a[i + n] ELSE b[(i + n) - n]
      BY <1>1, <3>1
    <3>3. c[(i + n) + 1] = IF (i + n) + 1 <= n THEN a[(i + n) + 1] ELSE b[((i + n) + 1) - n]
      BY <1>1, <3>1
    <3> QED
      BY <3>1, <3>2, <3>3
  <2>2. Len(c) - 1 = n + Len(b) - 1
    BY <1>1
  <2> QED
    BY <2>1, <2>2 DEF GapsOf
<1>6. GapsOf(c) = (A \cup S) \cup J
  <2>1. ASSUME NEW i \in GapsOf(c) PROVE i \in (A \cup S) \cup J
    <3>1. i \in 1..(n + Len(b) - 1)
      BY <1>3
    <3>2. CASE i < n
      BY <1>1, <1>4, <3>1, <3>2
    <3>3. CASE i = n
      BY <3>3
    <3>4. CASE i > n
      <4>1. i - n \in 1..(Len(b) - 1) /\ (i - n) + n = i
        BY <1>1, <3>1, <3>4
      <4> QED
        BY <1>5, <4>1
    <3> QED
      BY <1>1, <3>1, <3>2, <3>3, <3>4
  <2>2. (A \cup S) \cup J \subseteq GapsOf(c)
    BY <1>3, <1>4, <1>5
  <2> QED
    BY <2>1, <2>2
<1>7. A \cap S = {} /\ (A \cup S) \cap J = {}
  <2>1. ASSUME NEW i \in S PROVE i \in Int /\ i > n
    <3>1. PICK j \in B : i = j + n
      OBVIOUS
    <3>2. j \in 1..(Len(b) - 1)
      BY <1>3, <3>1
    <3> HIDE DEF B
    <3> QED
      BY <1>1, <3>1, <3>2
  <2>2. \A i \in A : i \in Int /\ i < n
    BY <1>1, <1>3
  <2>3. J \subseteq {n}
    OBVIOUS
  <2> HIDE DEF A, S, J
  <2>4. A \cap S = {}
    <3>1. \A i \in A \cap S : FALSE
      BY <1>1, <2>1, <2>2
    <3> QED
      BY <3>1
  <2>5. (A \cup S) \cap J = {}
    <3>1. \A i \in (A \cup S) \cap J : FALSE
      BY <1>1, <2>1, <2>2, <2>3
    <3> QED
      BY <3>1
  <2> QED
    BY <2>4, <2>5
<1> HIDE DEF A, B
<1>8. IsFiniteSet(S) /\ Cardinality(S) = Cardinality(B)
  <2> DEFINE f == [i \in B |-> i + n]
  <2>1. f \in [B -> S] /\ \A i, j \in B : f[i] = f[j] => i = j
    BY <1>1, <1>3
  <2>2. \A t \in S : \E i \in B : f[i] = t
    OBVIOUS
  <2>3. f \in Bijection(B, S)
    BY <2>1, <2>2, Fun_IsBij
  <2> HIDE DEF f, S
  <2>4. ExistsBijection(B, S)
    BY <2>3 DEF ExistsBijection
  <2> QED
    BY <1>2, <2>4, FS_Bijection
<1> HIDE DEF S
<1>9. IsFiniteSet(J) /\ Cardinality(J) \in Nat /\ Cardinality(J) <= 1
  <2>1. IsFiniteSet({n}) /\ Cardinality({n}) = 1
    BY FS_Singleton
  <2>2. J \in SUBSET {n}
    OBVIOUS
  <2> HIDE DEF J
  <2>3. IsFiniteSet(J) /\ Cardinality(J) <= 1
    BY <2>1, <2>2, FS_Subset
  <2> QED
    BY <2>3, FS_CardinalityType
<1> HIDE DEF J
<1>10. IsFiniteSet(A \cup S) /\ Cardinality(A \cup S) = Cardinality(A) + Cardinality(B)
  <2>1. /\ IsFiniteSet(A \cup S)
        /\ Cardinality(A \cup S) = Cardinality(A) + Cardinality(S) - Cardinality(A \cap S)
    BY <1>2, <1>8, FS_Union
  <2>2. Cardinality(A \cap S) = 0 /\ Cardinality(A) \in Nat /\ Cardinality(S) \in Nat
    BY <1>2, <1>7, <1>8, FS_EmptySet, FS_CardinalityType
  <2> QED
    BY <1>8, <2>1, <2>2
<1>11. Cardinality(GapsOf(c)) = Cardinality(A) + Cardinality(B) + Cardinality(J)
  <2>1. Cardinality(GapsOf(c)) = Cardinality(A \cup S) + Cardinality(J) - Cardinality((A \cup S) \cap J)
    BY <1>6, <1>9, <1>10, FS_Union
  <2>2. /\ Cardinality((A \cup S) \cap J) = 0
        /\ Cardinality(A) \in Nat /\ Cardinality(B) \in Nat
    BY <1>2, <1>7, FS_EmptySet, FS_CardinalityType
  <2> QED
    BY <1>9, <1>10, <2>1, <2>2
<1>12. GapCount(a) = Cardinality(A) /\ GapCount(b) = Cardinality(B) /\ GapCount(c) = Cardinality(GapsOf(c))
  BY DEF GapCount, A, B
<1> QED
  BY <1>1, <1>2, <1>9, <1>11, <1>12 DEF c

\* Sequences of labels are joined in any order.
LEMMA Joined ==
  \A a, b, c \in Seq(Int) : a \o b \in Seq(Int) /\ (a \o b) \o c = a \o (b \o c)
BY ConcatAssociative, ConcatProperties, SMTT(30)

\* Dropping sound from the middle makes at most one gap.
LEMMA CutMakesOneGap ==
  ASSUME NEW a \in Seq(Int), NEW b \in Seq(Int), NEW c \in Seq(Int)
  PROVE  GapCount(a \o c) <= GapCount((a \o b) \o c) + 1
<1>1. (a \o b) \o c = a \o (b \o c)
  BY ConcatAssociative, SMTT(30)
<1>2. b \o c \in Seq(Int)
  BY ConcatProperties
<1>3. /\ GapCount(a) + GapCount(b \o c) <= GapCount(a \o (b \o c))
      /\ GapCount(a) \in Nat /\ GapCount(b \o c) \in Nat /\ GapCount(a \o (b \o c)) \in Nat
  BY <1>2, GapsOfConcat
<1>4. GapCount(b) + GapCount(c) <= GapCount(b \o c) /\ GapCount(b) \in Nat /\ GapCount(c) \in Nat
  BY GapsOfConcat
<1>5. GapCount(a \o c) <= GapCount(a) + GapCount(c) + 1 /\ GapCount(a \o c) \in Nat
  BY GapsOfConcat
<1> QED
  BY <1>1, <1>3, <1>4, <1>5

\* Replacing the last label makes at most one gap.
LEMMA OtherLastLabel ==
  ASSUME NEW a \in Seq(Int), NEW m \in Int, NEW n \in Int
  PROVE  GapCount(a \o <<m>>) <= GapCount(a \o <<n>>) + 1
<1>1. <<m>> \in Seq(Int) /\ <<n>> \in Seq(Int)
  OBVIOUS
<1>2. GapCount(<<m>>) = 0
  <2>1. GapsOf(<<m>>) = {}
    BY DEF GapsOf
  <2> QED
    BY <2>1, FS_EmptySet DEF GapCount
<1>3. GapCount(a \o <<m>>) <= GapCount(a) + 0 + 1 /\ GapCount(a) \in Nat /\ GapCount(a \o <<m>>) \in Nat
  BY <1>1, <1>2, GapsOfConcat
<1>4. /\ GapCount(a) + GapCount(<<n>>) <= GapCount(a \o <<n>>)
      /\ GapCount(<<n>>) \in Nat /\ GapCount(a \o <<n>>) \in Nat
  BY <1>1, GapsOfConcat
<1> QED
  BY <1>3, <1>4

\* A block continues where the one before it ended.
LEMMA BlockMakesNoGap ==
  ASSUME NEW a \in Seq(Int), NEW n \in 0..(Labels - 1), NEW k \in Nat \ {0}
  PROVE  GapCount((a \o Run(n, k)) \o <<(n + k) % Labels>>) = GapCount(a \o <<n>>)
<1> DEFINE m == (n + k) % Labels
           r == Run(n, k)
           s == a \o <<n>>
           t == (a \o r) \o <<m>>
<1>1. Labels \in Nat \ {0} /\ m \in Int /\ n \in Int
  BY SizesAssumption
<1>2. r \in Seq(Int) /\ Len(r) = k /\ \A i \in 1..k : r[i] = (n + i - 1) % Labels
  <2>1. r \in Seq(Int)
    BY <1>1, RunIsSequence
  <2> QED
    BY <2>1 DEF Run
<1> HIDE DEF r, m
<1>3. /\ Len(s) = Len(a) + 1 /\ \A i \in 1..Len(a) : s[i] = a[i]
      /\ s[Len(a) + 1] = n /\ Len(a) \in Nat
  BY <1>1
<1>4. /\ a \o r \in Seq(Int) /\ Len(a \o r) = Len(a) + k
      /\ \A i \in 1..(Len(a) + k) : (a \o r)[i] = IF i <= Len(a) THEN a[i] ELSE r[i - Len(a)]
  BY <1>2, ConcatProperties
<1>5. /\ Len(t) = Len(a) + k + 1
      /\ \A i \in 1..(Len(a) + k) : t[i] = (a \o r)[i]
      /\ t[Len(a) + k + 1] = m
  <2>1. <<m>> \in Seq(Int) /\ Len(<<m>>) = 1 /\ <<m>>[1] = m
    BY <1>1
  <2> DEFINE u == a \o r
             v == <<m>>
  <2>2. u \in Seq(Int) /\ v \in Seq(Int) /\ Len(u) = Len(a) + k /\ Len(v) = 1 /\ v[1] = m
    BY <1>4, <2>1
  <2> HIDE DEF t, u, v
  <2>3. /\ Len(u \o v) = Len(u) + Len(v)
        /\ \A i \in 1..(Len(u) + Len(v)) : (u \o v)[i] = IF i <= Len(u) THEN u[i] ELSE v[i - Len(u)]
    BY <2>2, ConcatProperties
  <2>4. t = u \o v
    BY DEF t, u, v
  <2>5. Len(u) + Len(v) = Len(a) + k + 1
    BY <1>3, <2>2
  <2>6. \A i \in 1..(Len(a) + k) : t[i] = u[i]
    <3>1. ASSUME NEW i \in 1..(Len(a) + k) PROVE i \in 1..(Len(u) + Len(v)) /\ i <= Len(u)
      BY <1>3, <2>2
    <3> QED
      BY <2>3, <2>4, <3>1
  <2>7. t[Len(a) + k + 1] = m
    <3>1. /\ Len(a) + k + 1 \in 1..(Len(u) + Len(v)) /\ ~(Len(a) + k + 1 <= Len(u))
          /\ Len(a) + k + 1 - Len(u) = 1
      BY <1>3, <2>2
    <3>2. (u \o v)[Len(a) + k + 1] = v[Len(a) + k + 1 - Len(u)]
      BY <2>3, <3>1
    <3> QED
      BY <2>2, <2>4, <3>1, <3>2
  <2> QED
    BY <2>3, <2>4, <2>5, <2>6, <2>7 DEF u
<1> HIDE DEF s, t
<1>6. \A i \in 1..Len(a) : t[i] = s[i]
  <2> SUFFICES ASSUME NEW i \in 1..Len(a) PROVE t[i] = s[i]
    OBVIOUS
  <2>1. i \in 1..(Len(a) + k) /\ i <= Len(a)
    BY <1>3
  <2> QED
    BY <1>3, <1>4, <1>5, <2>1
<1>7. \A j \in 1..(k + 1) : t[Len(a) + j] = (n + j - 1) % Labels
  <2> SUFFICES ASSUME NEW j \in 1..(k + 1) PROVE t[Len(a) + j] = (n + j - 1) % Labels
    OBVIOUS
  <2>1. CASE j <= k
    <3>1. /\ Len(a) + j \in 1..(Len(a) + k) /\ ~(Len(a) + j <= Len(a))
          /\ (Len(a) + j) - Len(a) = j /\ j \in 1..k
      BY <1>3, <2>1
    <3> QED
      BY <1>2, <1>4, <1>5, <3>1
  <2>2. CASE j = k + 1
    <3>1. n + j - 1 = n + k /\ Len(a) + j = Len(a) + k + 1
      BY <1>1, <1>3, <2>2
    <3> QED
      BY <1>5, <3>1 DEF m
  <2> QED
    BY <2>1, <2>2
<1>8. t[Len(a) + 1] = n
  <2>1. t[Len(a) + 1] = (n + 1 - 1) % Labels
    BY <1>7
  <2>2. n % Labels = n /\ n + 1 - 1 = n
    BY <1>1
  <2> QED
    BY <2>1, <2>2
<1>9. GapsOf(t) = GapsOf(s)
  <2>1. ASSUME NEW i \in 1..Len(a) PROVE t[i] = s[i] /\ t[i + 1] = s[i + 1]
    <3>1. CASE i = Len(a)
      BY <1>3, <1>6, <1>8, <3>1
    <3>2. CASE i # Len(a)
      BY <1>3, <1>6, <3>2
    <3> QED
      BY <3>1, <3>2
  <2>2. ASSUME NEW i \in (Len(a) + 1)..(Len(a) + k) PROVE t[i + 1] = (t[i] + 1) % Labels
    <3> DEFINE j == i - Len(a)
    <3>1. /\ j \in 1..k /\ j + 1 \in 1..(k + 1) /\ j \in 1..(k + 1)
          /\ i = Len(a) + j /\ i + 1 = Len(a) + (j + 1)
      BY <1>3
    <3> HIDE DEF j
    <3>2. t[i] = (n + j - 1) % Labels /\ t[i + 1] = (n + (j + 1) - 1) % Labels
      BY <1>7, <3>1
    <3>3. n + j - 1 \in Int /\ n + (j + 1) - 1 = (n + j - 1) + 1
      BY <1>1, <3>1
    <3>4. (((n + j - 1) % Labels) + 1) % Labels = ((n + j - 1) + 1) % Labels
      BY <1>1, <3>3, NextLabel
    <3> QED
      BY <3>2, <3>3, <3>4
  <2>3. \A i \in 1..(Len(a) + k) : i \in 1..Len(a) \/ i \in (Len(a) + 1)..(Len(a) + k)
    BY <1>3
  <2>4. Len(s) - 1 = Len(a) /\ Len(t) - 1 = Len(a) + k
    BY <1>3, <1>5
  <2>5. \A i \in 1..Len(a) : i \in 1..(Len(a) + k)
    BY <1>3
  <2> QED
    BY <2>1, <2>2, <2>3, <2>4, <2>5 DEF GapsOf
<1> QED
  BY <1>9 DEF GapCount, s, t, r, m

-----------------------------------------------------------------------------
(* The sound as the listener hears it *)

\* What is played before the device opens is nothing, and a block is converted only
\* between the drain and the device.
PathIsEmpty ==
  /\ next \in 0..(Labels - 1)
  /\ call # "queue" => converted = <<>>
  /\ ~device => /\ heard = None /\ queue = <<>> /\ stream = <<>>
                /\ call \in {"idle", "put"}

SoundInv == TypeOK /\ PathIsEmpty /\ SoundIsContinuous

\* What has been played last and what the device has queued.
Played == IF heard = None THEN <<>> ELSE <<heard>>

\* The parts of the sound are sequences of labels, and the errors and changes numbers.
LEMMA SoundTypes ==
  ASSUME TypeOK
  PROVE  /\ Played \in Seq(Int) /\ queue \in Seq(Int) /\ converted \in Seq(Int)
         /\ stream \in Seq(Int) /\ <<next>> \in Seq(Int) /\ Sound \in Seq(Int)
         /\ Played \o queue \in Seq(Int)
         /\ (Played \o queue) \o converted \in Seq(Int)
         /\ ((Played \o queue) \o converted) \o stream \in Seq(Int)
         /\ Sound = (((Played \o queue) \o converted) \o stream) \o <<next>>
         /\ Gaps = GapsOf(Sound) /\ GapCount(Sound) \in Nat
         /\ Errors \in Nat /\ changes \in Nat
<1>1. Played \in Seq(Int) /\ <<next>> \in Seq(Int)
  BY DEF Played, TypeOK
<1>2. queue \in Seq(Int) /\ converted \in Seq(Int) /\ stream \in Seq(Int)
  BY DEF TypeOK
<1>3. Played \o queue \in Seq(Int)
  BY <1>1, <1>2, ConcatProperties
<1>4. (Played \o queue) \o converted \in Seq(Int)
  BY <1>2, <1>3, ConcatProperties
<1>5. ((Played \o queue) \o converted) \o stream \in Seq(Int)
  BY <1>2, <1>4, ConcatProperties
<1>6. Sound = (((Played \o queue) \o converted) \o stream) \o <<next>>
  BY DEF Sound, Played
<1>7. Sound \in Seq(Int)
  BY <1>1, <1>5, <1>6, ConcatProperties
<1>8. Gaps = GapsOf(Sound)
  BY DEF Gaps, GapsOf
<1>9. GapCount(Sound) \in Nat
  BY <1>7, GapsAreFinite
<1>10. Errors \in Nat /\ changes \in Nat
  BY CounterTypes, BoundsAssumption DEF TypeOK, Errors
<1> QED
  BY <1>1, <1>2, <1>3, <1>4, <1>5, <1>6, <1>7, <1>8, <1>9, <1>10

\* The gaps, the errors and the changes can be compared.
LEMMA SoundCounts == TypeOK => GapCount(Sound) \in Int /\ Errors \in Int /\ changes \in Int
BY SoundTypes

\* What a step may do to the sound: a new gap has its error or its change of rate.
LEMMA SoundStep ==
  ASSUME TypeOK, SoundIsContinuous,
         GapCount(Sound') \in Int,
         \/ GapCount(Sound') <= GapCount(Sound) /\ Errors' = Errors /\ changes' = changes
         \/ GapCount(Sound') <= GapCount(Sound) + 1 /\ Errors' = Errors + 1 /\ changes' = changes
         \/ GapCount(Sound') <= GapCount(Sound) + 1 /\ Errors' = Errors /\ changes' = changes + 1
  PROVE  SoundIsContinuous'
<1>1. PICK g \in Int, e \in Int, c \in Int :
        g = GapCount(Sound) /\ e = Errors /\ c = changes
  BY SoundCounts, Zenon
<1>2. PICK h \in Int : h = GapCount(Sound')
  OBVIOUS
<1>3. g <= e + c
  <2>1. GapCount(Sound) <= Errors + changes
    BY SoundTypes DEF SoundIsContinuous, GapCount
  <2> QED
    BY <1>1, <2>1, Zenon
<1>4. \/ h <= g /\ Errors' = e /\ changes' = c
      \/ h <= g + 1 /\ Errors' = e + 1 /\ changes' = c
      \/ h <= g + 1 /\ Errors' = e /\ changes' = c + 1
  BY <1>1, <1>2, Zenon
<1>5. h <= Errors' + changes'
  BY <1>3, <1>4
<1>6. Gaps' = GapsOf(Sound')
  BY DEF Gaps, GapsOf
<1>7. GapCount(Sound') <= Errors' + changes'
  BY <1>2, <1>5, Zenon
<1> QED
  BY <1>6, <1>7 DEF SoundIsContinuous, GapCount

\* The errors of a window are counted or reported, whether a line is due or not.
LEMMA ReportKeepsErrors ==
  ASSUME TypeOK, NEW c \in Telemetry, Report(c)
  PROVE  Errors' = reported + c.conversionErrors + c.queueErrors
<1>1. /\ NoCallbacks.conversionErrors = 0 /\ NoCallbacks.queueErrors = 0
      /\ c.conversionErrors \in Nat /\ c.queueErrors \in Nat /\ reported \in Nat
  BY CounterTypes DEF NoCallbacks, TypeOK
<1>2. \/ window' = c /\ reported' = reported
      \/ window' = NoCallbacks /\ reported' = reported + c.conversionErrors + c.queueErrors
  BY DEF Report
<1> QED
  BY <1>1, <1>2 DEF Errors

\* A conversion error is one error more, a queue error too.
LEMMA OneErrorMore ==
  ASSUME TypeOK
  PROVE  /\ CountConversionError /\ reported' = reported => Errors' = Errors + 1
         /\ Report([window EXCEPT !.queueErrors = @ + 1]) => Errors' = Errors + 1
<1>1. /\ window \in Telemetry /\ reported \in Nat
      /\ window.conversionErrors \in Nat /\ window.queueErrors \in Nat
  BY CounterTypes DEF TypeOK
<1>2. /\ [window EXCEPT !.conversionErrors = @ + 1].conversionErrors = window.conversionErrors + 1
      /\ [window EXCEPT !.conversionErrors = @ + 1].queueErrors = window.queueErrors
      /\ [window EXCEPT !.queueErrors = @ + 1].conversionErrors = window.conversionErrors
      /\ [window EXCEPT !.queueErrors = @ + 1].queueErrors = window.queueErrors + 1
      /\ [window EXCEPT !.queueErrors = @ + 1] \in Telemetry
  BY <1>1 DEF Telemetry
<1>3. ASSUME CountConversionError, reported' = reported PROVE Errors' = Errors + 1
  BY <1>1, <1>2, <1>3 DEF CountConversionError, Errors
<1>4. ASSUME Report([window EXCEPT !.queueErrors = @ + 1]) PROVE Errors' = Errors + 1
  <2> DEFINE c == [window EXCEPT !.queueErrors = @ + 1]
  <2>1. c \in Telemetry /\ Report(c)
    BY <1>2, <1>4
  <2>2. c.conversionErrors = window.conversionErrors /\ c.queueErrors = window.queueErrors + 1
    BY <1>2
  <2> HIDE DEF c
  <2>3. Errors' = reported + c.conversionErrors + c.queueErrors
    BY <2>1, ReportKeepsErrors
  <2> QED
    BY <1>1, <2>2, <2>3 DEF Errors
<1> QED
  BY <1>3, <1>4

\* What the sound is after a step that leaves the labels in these places.
LEMMA SoundAfter ==
  /\ Played' = IF heard' = None THEN <<>> ELSE <<heard'>>
  /\ Sound' = (((Played' \o queue') \o converted') \o stream') \o <<next'>>
BY DEF Played, Sound

\* The device plays the queued sound from its head.
LEMMA TickSound == SoundInv /\ TypeOK' /\ Tick => SoundIsContinuous'
<1> SUFFICES ASSUME SoundInv, TypeOK', Tick PROVE SoundIsContinuous'
  OBVIOUS
<1>1. TypeOK /\ SoundIsContinuous
  BY DEF SoundInv
<1>2. /\ UNCHANGED <<converted, stream, next, reported, window, changes>>
      /\ \/ queue = <<>> /\ queue' = queue /\ heard' = heard
         \/ queue # <<>> /\ queue' = Tail(queue) /\ heard' = Head(queue)
  BY DEF Tick, telemetry
<1>3. Errors' = Errors /\ changes' = changes
  BY <1>2 DEF Errors
<1> DEFINE rest == (converted \o stream) \o <<next>>
<1>4. /\ rest \in Seq(Int) /\ Sound = (Played \o queue) \o rest
      /\ Sound' = (Played' \o queue') \o rest
  <2>0. converted \in Seq(Int) /\ stream \in Seq(Int) /\ <<next>> \in Seq(Int)
    BY <1>1, SoundTypes
  <2>1. rest \in Seq(Int) /\ converted \o stream \in Seq(Int)
    BY <2>0, Joined
  <2>2. ASSUME NEW a \in Seq(Int)
        PROVE  ((a \o converted) \o stream) \o <<next>> = a \o rest
    <3>1. (a \o converted) \o stream = a \o (converted \o stream)
      BY <2>0, Joined, ZenonT(40)
    <3>2. (a \o (converted \o stream)) \o <<next>> = a \o rest
      BY <2>0, <2>1, Joined, ZenonT(40)
    <3> QED
      BY <3>1, <3>2
  <2>3. Sound = (Played \o queue) \o rest
    BY <1>1, <2>2, SoundTypes
  <2>4. Played' \o queue' \in Seq(Int)
    <3>1. Played' \in Seq(Int) /\ queue' \in Seq(Int)
      BY SoundAfter DEF TypeOK
    <3> QED
      BY <3>1, ConcatProperties
  <2>5. Sound' = (Played' \o queue') \o rest
    BY <1>2, <2>2, <2>4, SoundAfter
  <2> QED
    BY <2>1, <2>3, <2>5
<1> HIDE DEF rest
<1>5. \E a \in Seq(Int) : Played \o queue = a \o (Played' \o queue') /\ Played' \o queue' \in Seq(Int)
  <2>1. CASE queue = <<>>
    <3>1. Played' = Played /\ queue' = queue
      BY <1>2, <2>1 DEF Played
    <3>2. <<>> \in Seq(Int) /\ Played \o queue = <<>> \o (Played \o queue)
      BY <1>1, SoundTypes, ConcatEmptySeq, EmptySeq
    <3> QED
      BY <1>1, <3>1, <3>2, SoundTypes
  <2>2. CASE queue # <<>>
    <3>1. queue' = Tail(queue) /\ heard' = Head(queue)
      BY <1>2, <2>2
    <3>2. /\ Head(queue) \in Int /\ Tail(queue) \in Seq(Int) /\ <<Head(queue)>> \in Seq(Int)
          /\ queue = <<Head(queue)>> \o Tail(queue)
      <4>1. queue \in Seq(Int)
        BY <1>1 DEF TypeOK
      <4>2. Head(queue) \in Int /\ Tail(queue) \in Seq(Int) /\ <<Head(queue)>> \in Seq(Int)
        BY <2>2, <4>1
      <4>3. queue = <<Head(queue)>> \o Tail(queue)
        BY <2>2, <4>1, SMTT(30)
      <4> QED
        BY <4>2, <4>3
    <3>3. CASE heard' = None
      <4>1. Played' = <<>>
        BY <3>3, SoundAfter
      <4>2. Played' \o queue' = Tail(queue)
        BY <3>1, <3>2, <4>1, ConcatEmptySeq
      <4>3. Played \o queue = (Played \o <<Head(queue)>>) \o Tail(queue)
        <5>1. Played \in Seq(Int)
          BY <1>1, SoundTypes
        <5>2. (Played \o <<Head(queue)>>) \o Tail(queue) = Played \o (<<Head(queue)>> \o Tail(queue))
          BY <3>2, <5>1, Joined, ZenonT(40)
        <5> QED
          BY <3>2, <5>2
      <4>4. Played \o <<Head(queue)>> \in Seq(Int)
        BY <1>1, <3>2, SoundTypes, ConcatProperties
      <4> QED
        BY <3>2, <4>2, <4>3, <4>4, Zenon
    <3>4. CASE heard' # None
      <4>1. Played' \o queue' = queue
        BY <3>1, <3>2, <3>4, SoundAfter
      <4> QED
        BY <1>1, <4>1, SoundTypes
    <3> QED
      BY <3>3, <3>4
  <2> QED
    BY <2>1, <2>2
<1>6. PICK a \in Seq(Int) : Played \o queue = a \o (Played' \o queue')
  BY <1>5
<1>7. Sound = a \o Sound' /\ Sound' \in Seq(Int)
  <2>1. PICK x \in Seq(Int) : x = Played' \o queue'
    BY <1>5, Zenon
  <2>2. (a \o x) \o rest = a \o (x \o rest) /\ x \o rest \in Seq(Int)
    BY <1>4, Joined, ZenonT(40)
  <2>3. Sound = (a \o x) \o rest
    BY <1>4, <1>6, <2>1
  <2>4. Sound' = x \o rest
    BY <1>4, <2>1
  <2> QED
    BY <2>2, <2>3, <2>4
<1>8. GapCount(Sound') <= GapCount(Sound) /\ GapCount(Sound') \in Int
  <2>1. PICK s \in Seq(Int) : s = Sound'
    BY <1>7, Zenon
  <2>2. GapCount(a) + GapCount(s) <= GapCount(a \o s) /\ GapCount(a) \in Nat
        /\ GapCount(s) \in Nat /\ GapCount(a \o s) \in Nat
    BY GapsOfConcat
  <2>3. GapCount(s) <= GapCount(a \o s) /\ GapCount(s) \in Int
    BY <2>2
  <2> QED
    BY <1>7, <2>1, <2>3, Zenon
<1> QED
  BY <1>1, <1>3, <1>8, SoundStep

\* A step that leaves the sound, the errors and the changes alone.
LEMMA SameSound ==
  ASSUME TypeOK, SoundIsContinuous, Sound' = Sound,
         Errors' = Errors \/ Errors' = Errors + 1, changes' = changes
  PROVE  SoundIsContinuous'
<1>1. GapCount(Sound') = GapCount(Sound) /\ GapCount(Sound) \in Int
  BY SoundCounts
<1>2. PICK g \in Int : g = GapCount(Sound)
  BY <1>1, Zenon
<1>3. g <= g /\ g <= g + 1
  OBVIOUS
<1>4. GapCount(Sound') \in Int /\ GapCount(Sound') <= GapCount(Sound) /\ GapCount(Sound') <= GapCount(Sound) + 1
  BY <1>1, <1>2, <1>3, Zenon
<1> QED
  BY <1>4, SoundStep

\* A step that drops b from the middle of the sound, with its error or its change.
LEMMA CutSound ==
  ASSUME TypeOK, SoundIsContinuous,
         NEW a \in Seq(Int), NEW b \in Seq(Int), NEW c \in Seq(Int),
         Sound = (a \o b) \o c, Sound' = a \o c,
         \/ Errors' = Errors + 1 /\ changes' = changes
         \/ Errors' = Errors /\ changes' = changes + 1
  PROVE  SoundIsContinuous'
<1>1. GapCount(a \o c) <= GapCount((a \o b) \o c) + 1
  BY CutMakesOneGap
<1>2. GapCount(a \o c) \in Int
  BY GapsOfConcat
<1>3. GapCount(Sound') \in Int /\ GapCount(Sound') <= GapCount(Sound) + 1
  BY <1>1, <1>2, Zenon
<1> QED
  BY <1>3, SoundStep

\* A block that never reaches the stream is missed once: its call counts an error,
\* unless nothing has been played yet or there is nothing in the block.
LEMMA LostBlock ==
  ASSUME SoundInv, TypeOK', QueueNothing \/ PutFails
  PROVE  SoundIsContinuous'
<1>1. TypeOK /\ SoundIsContinuous /\ PathIsEmpty
  BY DEF SoundInv
<1>2. /\ heard' = heard /\ queue' = queue /\ stream' = stream /\ converted = <<>> /\ converted' = <<>>
      /\ next' = (next + block) % Labels /\ changes' = changes
  BY <1>1 DEF QueueNothing, PutFails, Done, PathIsEmpty
<1> DEFINE a == ((Played \o queue) \o converted) \o stream
<1>3. /\ a \in Seq(Int) /\ Sound = a \o <<next>> /\ Sound' = a \o <<next'>>
      /\ next \in Int /\ next' \in Int
  <2>1. a \in Seq(Int) /\ Sound = a \o <<next>>
    BY <1>1, SoundTypes
  <2>2. Played' = Played
    BY <1>2 DEF Played
  <2>3. Sound' = a \o <<next'>>
    BY <1>2, <2>2, SoundAfter
  <2> QED
    BY <1>1, <2>1, <2>3 DEF TypeOK
<1>4. CASE PutFails
  <2>1. Errors' = Errors + 1
    BY <1>1, <1>4, OneErrorMore DEF PutFails
  <2> HIDE DEF a
  <2>2. PICK m \in Int : m = next'
    BY <1>3, Zenon
  <2>3. GapCount(a \o <<m>>) <= GapCount(a \o <<next>>) + 1
    BY <1>3, OtherLastLabel
  <2>4. <<m>> \in Seq(Int)
    OBVIOUS
  <2>5. GapCount(a \o <<m>>) \in Int
    <3>1. PICK v \in Seq(Int) : v = <<m>>
      BY <2>4, Zenon
    <3>2. GapCount(a \o v) \in Nat
      BY <1>3, GapsOfConcat
    <3> QED
      BY <3>1, <3>2
  <2>6. GapCount(Sound') \in Int /\ GapCount(Sound') <= GapCount(Sound) + 1
    BY <1>3, <2>2, <2>3, <2>5, Zenon
  <2> QED
    BY <1>1, <1>2, <2>1, <2>6, SoundStep
<1>5. CASE QueueNothing /\ block = 0
  <2>1. next' = next
    BY <1>1, <1>2, <1>5, SizesAssumption DEF PathIsEmpty
  <2>2. Sound' = Sound
    BY <1>3, <2>1
  <2>3. Errors' = Errors
    BY <1>5 DEF QueueNothing, telemetry, Errors
  <2> QED
    BY <1>1, <1>2, <2>2, <2>3, SameSound
<1>6. CASE QueueNothing /\ block # 0
  <2>1. heard = None /\ queue = <<>> /\ stream = <<>>
    BY <1>1, <1>6 DEF QueueNothing, PathIsEmpty
  <2>2. a = <<>>
    <3>1. Played = <<>>
      BY <2>1 DEF Played
    <3>2. <<>> \o <<>> = <<>>
      BY EmptySeq, ConcatEmptySeq
    <3> QED
      BY <1>2, <2>1, <3>1, <3>2
  <2> HIDE DEF a
  <2>3. PICK m \in Int : m = next'
    BY <1>3, Zenon
  <2>4. <<m>> \in Seq(Int) /\ Sound' = <<m>>
    <3>1. <<m>> \in Seq(Int) /\ <<>> \o <<m>> = <<m>>
      BY ConcatEmptySeq
    <3> QED
      BY <1>3, <2>2, <2>3, <3>1
  <2>5. GapCount(<<m>>) = 0
    <3>1. GapsOf(<<m>>) = {}
      BY DEF GapsOf
    <3> QED
      BY <3>1, FS_EmptySet DEF GapCount
  <2>6. GapCount(Sound) \in Nat
    BY <1>1, SoundTypes
  <2>7. GapCount(Sound') = 0
    BY <2>4, <2>5
  <2>8. GapCount(Sound') \in Int /\ GapCount(Sound') <= GapCount(Sound)
    BY <2>6, <2>7
  <2>9. Errors' = Errors
    BY <1>6 DEF QueueNothing, telemetry, Errors
  <2> QED
    BY <1>1, <1>2, <2>8, <2>9, SoundStep
<1> QED
  BY <1>4, <1>5, <1>6

\* A block put into the stream continues the sound, and is converted in order.
LEMMA ConvertedBlock ==
  ASSUME SoundInv, TypeOK', Put \/ DrainFails \/ Drain
  PROVE  SoundIsContinuous'
<1>1. TypeOK /\ SoundIsContinuous /\ PathIsEmpty
  BY DEF SoundInv
<1>2. CASE Put
  <2>1. /\ heard' = heard /\ queue' = queue /\ converted' = converted
        /\ stream' = stream \o Run(next, block) /\ next' = (next + block) % Labels
        /\ block \in Nat \ {0} /\ next \in 0..(Labels - 1)
    BY <1>1, <1>2 DEF Put, PathIsEmpty, TypeOK
  <2>2. Errors' = Errors /\ changes' = changes
    BY <1>2 DEF Put, telemetry, Errors
  <2> DEFINE a == (Played \o queue) \o converted
             r == Run(next, block)
  <2>3. /\ a \in Seq(Int) /\ stream \in Seq(Int) /\ r \in Seq(Int)
        /\ Sound = (a \o stream) \o <<next>>
    <3>1. a \in Seq(Int) /\ stream \in Seq(Int) /\ Sound = (a \o stream) \o <<next>>
      BY <1>1, SoundTypes
    <3>2. next \in Int /\ block \in Nat
      BY <2>1, SizesAssumption
    <3> QED
      BY <3>1, <3>2, RunIsSequence
  <2>4. Sound' = (a \o (stream \o r)) \o <<(next + block) % Labels>>
    <3>1. Played' = Played
      BY <2>1 DEF Played
    <3> QED
      BY <2>1, <3>1, SoundAfter
  <2> HIDE DEF a, r
  <2>5. a \o (stream \o r) = (a \o stream) \o r /\ a \o stream \in Seq(Int)
    BY <2>3, Joined, ZenonT(40)
  <2>6. GapCount(((a \o stream) \o r) \o <<(next + block) % Labels>>) = GapCount((a \o stream) \o <<next>>)
    BY <2>1, <2>5, BlockMakesNoGap DEF r
  <2>7. GapCount(Sound') = GapCount(Sound)
    BY <2>3, <2>4, <2>5, <2>6, Zenon
  <2>8. PICK g \in Int : g = GapCount(Sound)
    BY <1>1, SoundCounts, Zenon
  <2>9. g <= g
    OBVIOUS
  <2>10. GapCount(Sound') \in Int /\ GapCount(Sound') <= GapCount(Sound)
    BY <2>7, <2>8, <2>9, Zenon
  <2> QED
    BY <1>1, <2>2, <2>10, SoundStep
<1>3. CASE DrainFails
  <2>1. /\ heard' = heard /\ queue' = queue /\ converted' = converted /\ stream' = stream
        /\ next' = next /\ changes' = changes
    BY <1>1, <1>3 DEF DrainFails, buffers, Done, PathIsEmpty
  <2>2. Sound' = Sound
    BY <2>1 DEF Sound
  <2>3. Errors' = Errors + 1
    BY <1>1, <1>3, OneErrorMore DEF DrainFails
  <2> QED
    BY <1>1, <2>1, <2>2, <2>3, SameSound
<1>4. CASE Drain
  <2>1. /\ heard' = heard /\ queue' = queue /\ converted = <<>> /\ next' = next
        /\ converted' = SubSeq(stream, 1, Available)
        /\ stream' = SubSeq(stream, Available + 1, Len(stream))
        /\ changes' = changes /\ reported' = reported
        /\ window' = [window EXCEPT !.callbacks = @ + 1,
                                    !.under5ms = IF prequeue < FiveMs THEN @ + 1 ELSE @]
    BY <1>1, <1>4 DEF Drain, PathIsEmpty, CountCallback
  <2>2. Errors' = Errors
    BY <1>1, <2>1 DEF Errors, TypeOK, Telemetry
  <2>3. /\ converted' \in Seq(Int) /\ stream' \in Seq(Int)
        /\ converted' \o stream' = stream
    <3>1. stream \in Seq(Int) /\ Len(stream) \in Nat
      BY <1>1 DEF TypeOK
    <3>2. Available \in 0..Len(stream)
      BY <3>1 DEF Available, Held
    <3>3. SubSeq(stream, 1, Available) \o SubSeq(stream, Available + 1, Len(stream)) = SubSeq(stream, 1, Len(stream))
      <4>1. /\ 1 \in 1..(Len(stream) + 1) /\ Available \in (1 - 1)..Len(stream)
            /\ Len(stream) \in Available..Len(stream)
        BY <3>1, <3>2
      <4> QED
        BY <3>1, <4>1, ConcatAdjacentSubSeq
    <3> QED
      BY <2>1, <3>1, <3>3, SubSeqFull DEF TypeOK
  <2> DEFINE a == Played \o queue
  <2>4. a \in Seq(Int) /\ Sound = (a \o stream) \o <<next>>
    <3>1. a \in Seq(Int) /\ Sound = ((a \o <<>>) \o stream) \o <<next>>
      BY <1>1, <2>1, SoundTypes
    <3> QED
      BY <3>1, ConcatEmptySeq
  <2>5. Sound' = ((a \o converted') \o stream') \o <<next>>
    <3>1. Played' = Played
      BY <2>1 DEF Played
    <3> QED
      BY <2>1, <3>1, SoundAfter
  <2> HIDE DEF a
  <2>6. (a \o converted') \o stream' = a \o stream
    BY <2>3, <2>4, Joined, ZenonT(40)
  <2>7. Sound' = Sound
    BY <2>4, <2>5, <2>6
  <2> QED
    BY <1>1, <2>1, <2>2, <2>7, SameSound
<1> QED
  BY <1>2, <1>3, <1>4

\* The device takes the converted block after what it has, or the call counts its loss.
LEMMA QueuedBlock ==
  ASSUME SoundInv, QueueAudio \/ QueueAudioFails
  PROVE  SoundIsContinuous'
<1>1. TypeOK /\ SoundIsContinuous
  BY DEF SoundInv
<1>2. heard' = heard /\ stream' = stream /\ next' = next /\ converted' = <<>> /\ changes' = changes
  BY DEF QueueAudio, QueueAudioFails, Done, buffers
<1>3. Played' = Played
  BY <1>2 DEF Played
<1> DEFINE n == <<next>>
<1>4. /\ Played \in Seq(Int) /\ queue \in Seq(Int) /\ converted \in Seq(Int)
      /\ stream \in Seq(Int) /\ n \in Seq(Int)
  BY <1>1, SoundTypes
<1>5. Sound = (((Played \o queue) \o converted) \o stream) \o n
  BY <1>1, SoundTypes
<1> HIDE DEF n
<1>6. CASE QueueAudio
  <2>1. Sound' = (((Played \o (queue \o converted)) \o <<>>) \o stream) \o n
    BY <1>2, <1>3, <1>6, SoundAfter DEF QueueAudio, n
  <2>2. /\ (Played \o queue) \o converted = Played \o (queue \o converted)
        /\ (Played \o queue) \o converted \in Seq(Int)
    <3>1. PICK p \in Seq(Int), q \in Seq(Int), r \in Seq(Int) : p = Played /\ q = queue /\ r = converted
      BY <1>4, Zenon
    <3>2. (p \o q) \o r = p \o (q \o r)
      BY Joined, ZenonT(40)
    <3> QED
      BY <1>1, <3>1, <3>2, SoundTypes
  <2>3. (Played \o (queue \o converted)) \o <<>> = Played \o (queue \o converted)
    BY <2>2, ConcatEmptySeq
  <2>4. Sound' = Sound
    BY <1>5, <2>1, <2>2, <2>3
  <2>5. Errors' = Errors
    <3>1. window \in Telemetry /\ Report(window)
      BY <1>1, <1>6 DEF QueueAudio, TypeOK
    <3> QED
      BY <1>1, <3>1, ReportKeepsErrors DEF Errors
  <2> QED
    BY <1>1, <1>2, <2>4, <2>5, SameSound
<1>7. CASE QueueAudioFails
  <2>1. queue' = queue
    BY <1>7 DEF QueueAudioFails, buffers
  <2>2. Errors' = Errors + 1
    BY <1>1, <1>7, OneErrorMore DEF QueueAudioFails
  <2> DEFINE a == Played \o queue
             c == stream \o n
  <2>3. a \in Seq(Int) /\ c \in Seq(Int) /\ a \o converted \in Seq(Int)
    BY <1>4, Joined, ZenonT(40)
  <2>4. Sound' = ((a \o <<>>) \o stream) \o n
    BY <1>2, <1>3, <2>1, SoundAfter DEF n
  <2>5. a \o <<>> = a
    BY <2>3, ConcatEmptySeq
  <2> HIDE DEF a
  <2>6. ASSUME NEW x \in Seq(Int) PROVE (x \o stream) \o n = x \o (stream \o n)
    <3>1. PICK q \in Seq(Int), r \in Seq(Int) : q = stream /\ r = n
      BY <1>4, Zenon
    <3>2. (x \o q) \o r = x \o (q \o r)
      BY ConcatAssociative, SMTT(30)
    <3> QED
      BY <3>1, <3>2
  <2>7. Sound = (a \o converted) \o (stream \o n)
    <3>1. Sound = ((a \o converted) \o stream) \o n
      BY <1>5 DEF a
    <3> QED
      BY <2>3, <2>6, <3>1
  <2>8. Sound' = a \o (stream \o n)
    BY <2>3, <2>4, <2>5, <2>6
  <2>9. Sound = (a \o converted) \o c /\ Sound' = a \o c
    BY <2>7, <2>8
  <2> HIDE DEF c
  <2> QED
    BY <1>1, <1>2, <1>4, <2>2, <2>3, <2>9, CutSound
<1> QED
  BY <1>6, <1>7

\* A change of rate drops what the stream holds.
LEMMA ChangedRate ==
  ASSUME SoundInv, NEW r \in Rates, SetFrequency(r)
  PROVE  SoundIsContinuous'
<1>1. TypeOK /\ SoundIsContinuous
  BY DEF SoundInv
<1>2. /\ heard' = heard /\ queue' = queue /\ stream' = <<>> /\ next' = next
      /\ converted' = converted /\ changes' = changes + 1 /\ Errors' = Errors
  BY DEF SetFrequency, telemetry, Errors
<1>3. Played' = Played
  BY <1>2 DEF Played
<1> DEFINE a == (Played \o queue) \o converted
<1>4. /\ a \in Seq(Int) /\ stream \in Seq(Int) /\ <<next>> \in Seq(Int)
      /\ Sound = (a \o stream) \o <<next>>
  BY <1>1, SoundTypes
<1>5. Sound' = a \o <<next>>
  <2>1. Sound' = (a \o <<>>) \o <<next>>
    BY <1>2, <1>3, SoundAfter
  <2>2. a \o <<>> = a
    BY <1>4, ConcatEmptySeq
  <2> QED
    BY <2>1, <2>2
<1> HIDE DEF a
<1> QED
  BY <1>1, <1>2, <1>4, <1>5, CutSound

\* Sound reaches the device only through the stream, once it is open.
LEMMA PathStep == TypeOK /\ PathIsEmpty /\ [Next]_vars => PathIsEmpty'
<1> SUFFICES ASSUME TypeOK, PathIsEmpty, [Next]_vars PROVE PathIsEmpty'
  OBVIOUS
<1>1. next' \in 0..(Labels - 1)
  <2>1. next' = next \/ next' = (next + block) % Labels
    BY DEF Next, QueueSamples, Tick, SetFrequency, Render, QueueNothing, PutFails, Put, DrainFails,
           Drain, QueueAudio, QueueAudioFails, buffers, vars
  <2>2. (next + block) % Labels \in 0..(Labels - 1)
    <3>1. next + block \in Int
      BY DEF TypeOK
    <3> QED
      BY <3>1, SizesAssumption
  <2> QED
    BY <2>1, <2>2 DEF PathIsEmpty
<1>2. call' # "queue" => converted' = <<>>
  BY DEF PathIsEmpty, Next, QueueSamples, Tick, SetFrequency, Render, QueueNothing, PutFails, Put,
         DrainFails, Drain, QueueAudio, QueueAudioFails, Done, vars
<1>3. ~device' => heard' = None /\ queue' = <<>> /\ stream' = <<>> /\ call' \in {"idle", "put"}
  <2> SUFFICES ASSUME ~device' PROVE heard' = None /\ queue' = <<>> /\ stream' = <<>> /\ call' \in {"idle", "put"}
    OBVIOUS
  <2>1. ~device
    BY DEF Next, QueueSamples, Tick, SetFrequency, Render, QueueNothing, PutFails, Put, DrainFails,
           Drain, QueueAudio, QueueAudioFails, vars
  <2>2. heard = None /\ queue = <<>> /\ stream = <<>> /\ call \in {"idle", "put"}
    BY <2>1 DEF PathIsEmpty
  <2> QED
    BY <2>1, <2>2 DEF Next, QueueSamples, Tick, SetFrequency, Render, QueueNothing, PutFails, Put,
           DrainFails, Drain, QueueAudio, QueueAudioFails, Done, buffers, vars
<1> QED
  BY <1>1, <1>2, <1>3 DEF PathIsEmpty

\* What is lost on the way to the speaker has its error in the telemetry or its change
\* of rate, for every rate, every block size and any number of failing SDL calls
\* (queue_samples).
THEOREM NothingIsCutSilently == Spec => []SoundIsContinuous
<1>1. Init => SoundInv
  <2> SUFFICES ASSUME Init PROVE SoundInv
    OBVIOUS
  <2>1. TypeOK
    BY InitUnderrun DEF UnderrunInv
  <2>2. PathIsEmpty
    BY SizesAssumption DEF Init, PathIsEmpty
  <2>3. Sound = <<0>>
    <3>1. Played = <<>> /\ <<>> \o <<>> = <<>> /\ <<>> \o <<0>> = <<0>>
      BY ConcatEmptySeq, EmptySeq DEF Init, Played
    <3>2. Sound = (((Played \o queue) \o converted) \o stream) \o <<next>>
      BY <2>1, SoundTypes
    <3>3. queue = <<>> /\ converted = <<>> /\ stream = <<>> /\ next = 0
      BY DEF Init
    <3> QED
      BY <3>1, <3>2, <3>3
  <2>4. Gaps = {}
    BY <2>3 DEF Gaps
  <2>5. Cardinality(Gaps) = 0 /\ Errors + changes \in Nat
    BY <2>1, <2>4, FS_EmptySet, SoundTypes
  <2>6. SoundIsContinuous
    BY <2>5 DEF SoundIsContinuous
  <2> QED
    BY <2>1, <2>2, <2>6 DEF SoundInv
<1>2. SoundInv /\ [Next]_vars => SoundInv'
  <2> SUFFICES ASSUME SoundInv, [Next]_vars PROVE SoundInv'
    OBVIOUS
  <2>1. TypeOK' /\ PathIsEmpty'
    BY TypeStep, PathStep DEF SoundInv
  <2> SUFFICES SoundIsContinuous'
    BY <2>1 DEF SoundInv
  <2>2. CASE Tick
    BY <2>1, <2>2, TickSound
  <2>3. CASE \E r \in Rates : SetFrequency(r)
    BY <2>3, ChangedRate
  <2>4. CASE Render \/ UNCHANGED vars
    BY <2>4 DEF Render, vars, buffers, telemetry, SoundInv, SoundIsContinuous, Gaps, Sound, Errors
  <2>5. CASE QueueNothing \/ PutFails
    BY <2>1, <2>5, LostBlock
  <2>6. CASE Put \/ DrainFails \/ Drain
    BY <2>1, <2>6, ConvertedBlock
  <2>7. CASE QueueAudio \/ QueueAudioFails
    BY <2>7, QueuedBlock
  <2> QED
    BY <2>2, <2>3, <2>4, <2>5, <2>6, <2>7 DEF Next, QueueSamples
<1>3. SoundInv => SoundIsContinuous
  BY DEF SoundInv
<1> QED
  BY <1>1, <1>2, <1>3, PTL DEF Spec

-----------------------------------------------------------------------------
(* How much is buffered *)

\* What BufferIsBounded allows after f failures.
Bound(f) == Target + 2 + Long + f * Short

\* The block the game has rendered and queue_samples has not put in the stream yet.
Pending == IF call = "put" THEN block ELSE 0

\* What is on its way to the device's queue.
OnTheWay == Len(stream) + Len(converted) + Pending

\* What the feedback holds to, with q ticks queued, w on their way, e ticks since the
\* last block was rendered and k the bound: the next short block fits, because as many
\* ticks have been played since the last, or because there is room for it anyway.
\* What a drain left in the stream is one tick, or a failure has made room for it.
Regulated(idle, q, w, e, k) ==
  /\ Target + 2 + Long <= k
  /\ q + w <= k
  /\ q + w + e <= k \/ q + w + Short <= k
  /\ IF idle
     THEN w <= 1 \/ (Target + 2 + Long + Short <= k /\ w + 2 * Short <= k)
     ELSE w <= 1 + Long \/ (Target + 2 + Long + Short <= k /\ w + Short <= k)

BufferIsRegulated == Regulated(call = "idle", Len(queue), OnTheWay, elapsed, Bound(faults))

BlockIsSized ==
  /\ call = "put" => block \in {Short, Long}
  /\ call = "queue" => Len(stream) <= 1

BoundedInv == TypeOK /\ PathIsEmpty /\ BlockIsSized /\ BufferIsRegulated

\* The sizes of the blocks are numbers, and agree with each other.
LEMMA Sizes ==
  /\ VI \in Nat /\ Target \in Nat /\ Short \in Nat /\ Long \in Nat
  /\ Short <= VI /\ Short <= Target /\ Short <= Long /\ Long <= 2 * Short
BY SizesAssumption, RegulationAssumption

\* A failure makes room for a short block.
LEMMA BoundGrows ==
  ASSUME NEW f \in Nat
  PROVE  /\ Bound(f) \in Int /\ Target + 2 + Long <= Bound(f)
         /\ Bound(f + 1) = Bound(f) + Short
<1>1. Short \in Nat /\ Target \in Nat /\ Long \in Nat
  BY Sizes
<1>2. f * Short \in Nat /\ (f + 1) * Short = f * Short + Short
  BY <1>1
<1> DEFINE fs == f * Short
<1>3. fs \in Nat /\ Bound(f) = Target + 2 + Long + fs /\ Bound(f + 1) = Target + 2 + Long + (fs + Short)
  BY <1>2 DEF Bound
<1> HIDE DEF fs
<1> QED
  BY <1>1, <1>3

\* A quotient that is no larger comes of a number less than a divisor larger.
LEMMA QuotientBounds ==
  ASSUME NEW a \in Nat, NEW b \in Nat, NEW o \in Nat \ {0}, a \div o <= b \div o
  PROVE  a < b + o
<1> DEFINE p == a \div o
           q == b \div o
<1>1. /\ p \in Nat /\ q \in Nat /\ p <= q
      /\ a < o * p + o /\ o * q <= b
  OBVIOUS
<1> HIDE DEF p, q
<1>2. PICK d \in Nat : q = p + d
  <2>1. q - p \in Nat /\ q = p + (q - p)
    BY <1>1
  <2> QED
    BY <2>1
<1>3. o * q = o * p + o * d /\ o * p \in Nat /\ o * d \in Nat /\ o * q \in Nat
  BY <1>1, <1>2
<1> QED
  BY <1>1, <1>3

\* A game that is told it is behind has no more than a tick above its target
\* (get_frames_remaining): one tick covers the rounding to the game's rate.
LEMMA BehindIsNearTarget ==
  ASSUME NEW n \in Nat, NEW r \in Rates \cup {OutRate},
         (n * r) \div OutRate <= (Target * r) \div OutRate
  PROVE  n <= Target + 1
<1>1. r \in Nat \ {0} /\ OutRate \in Nat \ {0} /\ Target \in Nat /\ OutRate <= 2 * r
  BY RatesAssumption, RegulationAssumption, Sizes
<1>2. n * r \in Nat /\ Target * r \in Nat
  BY <1>1
<1>3. n * r < Target * r + OutRate
  BY <1>1, <1>2, QuotientBounds
<1>4. (Target + 2) * r = Target * r + 2 * r /\ (Target + 2) * r \in Nat
  BY <1>1
<1>5. n * r < (Target + 2) * r
  BY <1>1, <1>2, <1>3, <1>4
<1> SUFFICES ASSUME n >= Target + 2 PROVE FALSE
  BY <1>1
<1>6. PICK d \in Nat : n = (Target + 2) + d
  <2>1. n - (Target + 2) \in Nat /\ n = (Target + 2) + (n - (Target + 2))
    BY <1>1
  <2> QED
    BY <2>1
<1>7. n * r = (Target + 2) * r + d * r /\ d * r \in Nat
  BY <1>1, <1>6
<1> QED
  BY <1>2, <1>4, <1>5, <1>7

\* A tick that is played leaves room for one that passes; with nothing queued there is
\* room for a short block.
LEMMA TickIsRegulated ==
  ASSUME NEW idle \in BOOLEAN, NEW q \in Nat, NEW w \in Nat, NEW e \in Nat, NEW k \in Int,
         NEW d \in Nat, d <= e + 1, Regulated(idle, q, w, e, k)
  PROVE  IF q = 0 THEN Regulated(idle, 0, w, d, k) ELSE Regulated(idle, q - 1, w, d, k)
<1>1. CASE q = 0
  <2>1. q + w + Short <= k
    BY <1>1, Sizes DEF Regulated
  <2> QED
    BY <1>1, <2>1, Sizes DEF Regulated
<1>2. CASE q # 0
  BY <1>2, Sizes DEF Regulated
<1> QED
  BY <1>1, <1>2

\* A block rendered by a game that knows what is buffered fits (Render).
LEMMA BlockIsRegulated ==
  ASSUME NEW q \in Nat, NEW w \in Nat, NEW e \in Nat, NEW k \in Int,
         VI <= e, Regulated(TRUE, q, w, e, k)
  PROVE  /\ Regulated(FALSE, q, w + Short, 0, k)
         /\ q + w <= Target + 2 => Regulated(FALSE, q, w + Long, 0, k)
<1>1. q + w + Short <= k
  BY Sizes DEF Regulated
<1>2. w + Short <= 1 + Long \/ (Target + 2 + Long + Short <= k /\ w + Short + Short <= k)
  BY Sizes DEF Regulated
<1>3. Regulated(FALSE, q, w + Short, 0, k)
  BY <1>1, <1>2, Sizes DEF Regulated
<1>4. ASSUME q + w <= Target + 2 PROVE Regulated(FALSE, q, w + Long, 0, k)
  <2>1. q + (w + Long) <= k
    BY <1>4, Sizes DEF Regulated
  <2>2. w + Long <= 1 + Long \/ (Target + 2 + Long + Short <= k /\ w + Long + Short <= k)
    BY <1>4, Sizes DEF Regulated
  <2> QED
    BY <2>1, <2>2, Sizes DEF Regulated
<1> QED
  BY <1>3, <1>4

\* So does one rendered by a game that was told of an empty stream: the failure makes
\* room for it, or there was no more than a tick in the stream.
LEMMA MisledBlockIsRegulated ==
  ASSUME NEW q \in Nat, NEW w \in Nat, NEW e \in Nat, NEW k \in Int,
         VI <= e, q <= Target + 1, Regulated(TRUE, q, w, e, k)
  PROVE  Regulated(FALSE, q, w + Long, 0, k + Short)
<1>1. CASE w <= 1
  <2>1. q + (w + Long) <= Target + 2 + Long /\ w + Long <= 1 + Long
    BY <1>1, Sizes
  <2> QED
    BY <2>1, Sizes DEF Regulated
<1>2. CASE ~(w <= 1)
  <2>1. /\ q + w + Short <= k /\ Target + 2 + Long + Short <= k
        /\ w + 2 * Short <= k
    BY <1>2, Sizes DEF Regulated
  <2>2. q + (w + Long) <= k + Short /\ w + Long + Short <= k + Short
    BY <2>1, Sizes
  <2> QED
    BY <2>1, <2>2, Sizes DEF Regulated
<1> QED
  BY <1>1, <1>2, Zenon

\* Room that a failure makes stays.
LEMMA FailureIsRegulated ==
  ASSUME NEW idle \in BOOLEAN, NEW q \in Nat, NEW w \in Nat, NEW e \in Nat, NEW k \in Int,
         Regulated(idle, q, w, e, k)
  PROVE  /\ Regulated(idle, q, w, e, k + Short)
         /\ Regulated(TRUE, q, w, e, k + Short)
<1>1. Target + 2 + Long <= k /\ q + w <= k /\ (q + w + e <= k \/ q + w + Short <= k)
  BY DEF Regulated
<1>2. w <= 1 \/ (Target + 2 + Long + Short <= k + Short /\ w + 2 * Short <= k + Short)
  BY Sizes DEF Regulated
<1>3. ~idle => w <= 1 + Long \/ (Target + 2 + Long + Short <= k + Short /\ w + Short <= k + Short)
  BY Sizes DEF Regulated
<1>4. /\ Target + 2 + Long <= k + Short /\ q + w <= k + Short
      /\ q + w + e <= k + Short \/ q + w + Short <= k + Short
  BY <1>1, Sizes
<1> QED
  BY <1>2, <1>3, <1>4 DEF Regulated

\* What leaves the path makes room: what is lost (b of the queue and its way), and all
\* that was on the way but a tick, once it is queued.
LEMMA LessIsRegulated ==
  ASSUME NEW idle \in BOOLEAN, NEW q \in Nat, NEW w \in Nat, NEW e \in Nat, NEW k \in Int,
         NEW p \in Nat, NEW v \in Nat, p + v <= q + w,
         Regulated(idle, q, w, e, k)
  PROVE  /\ v <= w => Regulated(idle, p, v, e, k)
         /\ v <= 1 => Regulated(TRUE, p, v, e, k)
BY Sizes DEF Regulated

\* The lengths and counts the feedback compares are numbers.
LEMMA WayTypes == TypeOK =>
  /\ Len(queue) \in Nat /\ Len(stream) \in Nat /\ Len(converted) \in Nat
  /\ Pending \in Nat /\ OnTheWay \in Nat /\ elapsed \in Nat
  /\ faults \in Nat /\ Bound(faults) \in Int
  /\ Buffered = Len(queue) + Len(converted) + Len(stream)
<1> SUFFICES ASSUME TypeOK
             PROVE  /\ Len(queue) \in Nat /\ Len(stream) \in Nat /\ Len(converted) \in Nat
                    /\ Pending \in Nat /\ OnTheWay \in Nat /\ elapsed \in Nat
                    /\ faults \in Nat /\ Bound(faults) \in Int
                    /\ Buffered = Len(queue) + Len(converted) + Len(stream)
  OBVIOUS
<1>1. Len(queue) \in Nat /\ Len(stream) \in Nat /\ Len(converted) \in Nat
  BY DEF TypeOK
<1>2. Pending \in Nat
  BY DEF TypeOK, Pending
<1>3. elapsed \in Nat /\ faults \in Nat
  BY SizesAssumption, BoundsAssumption DEF TypeOK
<1>4. OnTheWay \in Nat
  BY <1>1, <1>2 DEF OnTheWay
<1>5. Bound(faults) \in Int
  BY <1>3, BoundGrows
<1> QED
  BY <1>1, <1>2, <1>3, <1>4, <1>5 DEF Buffered

\* The device plays on: what is queued goes down while time passes.
LEMMA TickKeepsRegulated == BoundedInv /\ Tick => BufferIsRegulated'
<1> SUFFICES ASSUME BoundedInv, Tick PROVE BufferIsRegulated'
  OBVIOUS
<1>1. TypeOK /\ Regulated(call = "idle", Len(queue), OnTheWay, elapsed, Bound(faults))
  BY DEF BoundedInv, BufferIsRegulated
<1>2. PICK q \in Nat, w \in Nat, e \in Nat, k \in Int :
        q = Len(queue) /\ w = OnTheWay /\ e = elapsed /\ k = Bound(faults)
  BY <1>1, WayTypes
<1>3. PICK d \in Nat : d = elapsed' /\ d <= e + 1
  BY <1>2 DEF Tick
<1>4. (call = "idle") \in BOOLEAN /\ Regulated(call = "idle", q, w, e, k)
  BY <1>1, <1>2
<1>5. call' = call /\ OnTheWay' = w /\ Bound(faults') = k
  BY <1>2 DEF Tick, OnTheWay, Pending
<1>6. IF q = 0 THEN Regulated(call = "idle", 0, w, d, k)
               ELSE Regulated(call = "idle", q - 1, w, d, k)
  BY <1>3, <1>4, TickIsRegulated
<1>7. Len(queue') = IF q = 0 THEN 0 ELSE q - 1
  BY <1>1, <1>2 DEF Tick, TypeOK
<1>8. Regulated(call' = "idle", Len(queue'), OnTheWay', elapsed', Bound(faults'))
  BY <1>3, <1>5, <1>6, <1>7
<1> QED
  BY <1>8 DEF BufferIsRegulated

\* What the stream has ready is all that is on its way, but a tick.
LEMMA ReadyIsAlmostAll ==
  ASSUME TypeOK
  PROVE  /\ Available \in Nat /\ Available <= Len(stream) /\ Len(stream) <= Available + 1
<1>1. Len(stream) \in Nat /\ Held(rate) \in {0, 1}
  BY DEF TypeOK, Held
<1> QED
  BY <1>1 DEF Available

\* The game renders a block by what get_frames_remaining reports.
LEMMA RenderKeepsRegulated == BoundedInv /\ Render => BufferIsRegulated'
<1> SUFFICES ASSUME BoundedInv, Render PROVE BufferIsRegulated'
  OBVIOUS
<1>1. /\ TypeOK /\ PathIsEmpty /\ call = "idle"
      /\ Regulated(call = "idle", Len(queue), OnTheWay, elapsed, Bound(faults))
  BY DEF BoundedInv, BufferIsRegulated, Render
<1>2. PICK q \in Nat, w \in Nat, e \in Nat, k \in Int :
        q = Len(queue) /\ w = OnTheWay /\ e = elapsed /\ k = Bound(faults)
  BY <1>1, WayTypes
<1>3. VI <= e /\ Regulated(TRUE, q, w, e, k)
  <2>1. VI <= e
    BY <1>2 DEF Render, TypeOK
  <2>2. (call = "idle") <=> TRUE
    BY <1>1
  <2> QED
    BY <1>1, <1>2, <2>1, <2>2
<1>4. w = Len(stream) /\ converted = <<>>
  BY <1>1, <1>2 DEF PathIsEmpty, OnTheWay, Pending, TypeOK
<1>5. PICK available \in {0, Available} :
        /\ IF available # Available THEN Fault ELSE NoFault
        /\ block' = IF FramesRemaining(available) <= (Target * rate) \div OutRate
                    THEN Long ELSE Short
  BY DEF Render
<1>6. /\ call' = "put" /\ elapsed' = 0 /\ queue' = queue /\ stream' = stream
      /\ converted' = converted
  BY DEF Render, buffers
<1>7. available \in Nat /\ available <= w /\ (available = Available => w <= available + 1)
  BY <1>1, <1>4, <1>5, ReadyIsAlmostAll
<1>8. block' = Short \/ (block' = Long /\ q + available <= Target + 1)
  <2>1. CASE ~(FramesRemaining(available) <= (Target * rate) \div OutRate)
    BY <1>5, <2>1, Zenon
  <2>2. CASE FramesRemaining(available) <= (Target * rate) \div OutRate
    <3>1. block' = Long
      BY <1>5, <2>2, Zenon
    <3>2. CASE device
      <4>1. ((q + available) * rate) \div OutRate <= (Target * rate) \div OutRate
        BY <1>2, <2>2, <3>2 DEF FramesRemaining
      <4>2. rate \in Rates \cup {OutRate} /\ q + available \in Nat
        BY <1>1, <1>7 DEF TypeOK
      <4> QED
        BY <3>1, <4>1, <4>2, BehindIsNearTarget
    <3>3. CASE ~device
      <4>1. q = 0 /\ w = 0
        BY <1>1, <1>2, <1>4, <3>3 DEF PathIsEmpty
      <4> QED
        BY <1>7, <3>1, <4>1, Sizes
    <3> QED
      BY <3>2, <3>3
  <2> QED
    BY <2>1, <2>2
<1>9. OnTheWay' = w + block'
  BY <1>4, <1>6 DEF OnTheWay, Pending
<1>10. CASE available = Available
  <2>1. Bound(faults') = k
    BY <1>2, <1>5, <1>10 DEF NoFault
  <2>2. Regulated(FALSE, q, w + block', 0, k)
    <3>1. CASE block' = Short
      BY <1>3, <3>1, BlockIsRegulated
    <3>2. CASE block' = Long /\ q + available <= Target + 1
      <4>1. q + w <= Target + 2
        BY <1>7, <1>10, <3>2, Sizes
      <4> QED
        BY <1>3, <3>2, <4>1, BlockIsRegulated
    <3> QED
      BY <1>8, <3>1, <3>2
  <2> QED
    BY <1>2, <1>6, <1>9, <2>1, <2>2 DEF BufferIsRegulated
<1>11. CASE available # Available
  <2>1. Bound(faults') = k + Short
    <3>1. faults \in Nat /\ faults' = faults + 1
      BY <1>1, <1>5, <1>11, WayTypes DEF Fault
    <3> QED
      BY <1>2, <3>1, BoundGrows
  <2>2. Regulated(FALSE, q, w + block', 0, k + Short)
    <3>1. CASE block' = Short
      <4>1. Regulated(FALSE, q, w + Short, 0, k)
        BY <1>3, BlockIsRegulated
      <4>2. w + Short \in Nat
        BY Sizes
      <4> QED
        BY <3>1, <4>1, <4>2, FailureIsRegulated
    <3>2. CASE block' = Long /\ q + available <= Target + 1
      <4>1. q <= Target + 1
        BY <1>7, <3>2, Sizes
      <4> QED
        BY <1>3, <3>2, <4>1, MisledBlockIsRegulated
    <3> QED
      BY <1>8, <3>1, <3>2
  <2> QED
    BY <1>2, <1>6, <1>9, <2>1, <2>2 DEF BufferIsRegulated
<1> QED
  BY <1>10, <1>11

\* A block that never reaches the stream is no longer on its way.
LEMMA LostKeepsRegulated == BoundedInv /\ (QueueNothing \/ PutFails) => BufferIsRegulated'
<1> SUFFICES ASSUME BoundedInv, QueueNothing \/ PutFails PROVE BufferIsRegulated'
  OBVIOUS
<1>1. /\ TypeOK /\ PathIsEmpty /\ BlockIsSized /\ call = "put"
      /\ Regulated(call = "idle", Len(queue), OnTheWay, elapsed, Bound(faults))
  BY DEF BoundedInv, BufferIsRegulated, QueueNothing, PutFails
<1>2. PICK q \in Nat, w \in Nat, e \in Nat, k \in Int, s \in Nat, b \in Nat :
        /\ q = Len(queue) /\ w = OnTheWay /\ e = elapsed /\ k = Bound(faults)
        /\ s = Len(stream) /\ b = block
  BY <1>1, WayTypes DEF TypeOK
<1>3. Regulated(FALSE, q, w, e, k)
  <2>1. (call = "idle") <=> FALSE
    BY <1>1
  <2> QED
    BY <1>1, <1>2, <2>1
<1>4. /\ call' = "idle" /\ queue' = queue /\ stream' = stream /\ elapsed' = elapsed
      /\ converted = <<>> /\ converted' = <<>>
  BY <1>1 DEF QueueNothing, PutFails, Done, PathIsEmpty
<1>5. w = s + b /\ OnTheWay' = s
  BY <1>1, <1>2, <1>4 DEF OnTheWay, Pending
<1>6. CASE QueueNothing
  <2>1. Regulated(TRUE, q, s, e, k)
    <3>1. CASE ~device
      <4>1. s <= 1 /\ q + s <= q + w
        BY <1>1, <1>2, <1>5, <3>1 DEF PathIsEmpty
      <4> QED
        BY <1>3, <1>5, <4>1, LessIsRegulated
    <3>2. CASE block = 0
      <4>1. b \in {Short, Long} /\ b = 0
        BY <1>1, <1>2, <3>2 DEF BlockIsSized
      <4>2. Short = 0 /\ Long = 0 /\ w = s
        BY <1>5, <4>1, Sizes
      <4> QED
        BY <1>3, <4>2, Sizes DEF Regulated
    <3> QED
      BY <1>6, <3>1, <3>2 DEF QueueNothing
  <2>2. Bound(faults') = k
    BY <1>2, <1>6 DEF QueueNothing
  <2> QED
    BY <1>2, <1>4, <1>5, <2>1, <2>2 DEF BufferIsRegulated
<1>7. CASE PutFails
  <2>1. Bound(faults') = k + Short
    <3>1. faults \in Nat /\ faults' = faults + 1
      BY <1>1, <1>7, WayTypes DEF PutFails, Fault
    <3> QED
      BY <1>2, <3>1, BoundGrows
  <2>2. Regulated(TRUE, q, w, e, k + Short)
    BY <1>3, FailureIsRegulated
  <2>3. q + s <= q + w /\ s <= w
    BY <1>5
  <2>4. k + Short \in Int
    BY Sizes
  <2>5. Regulated(TRUE, q, s, e, k + Short)
    BY <2>2, <2>3, <2>4, LessIsRegulated
  <2> QED
    BY <1>2, <1>4, <1>5, <2>1, <2>5 DEF BufferIsRegulated
<1> QED
  BY <1>6, <1>7

\* A block stays on its way while it is converted; a drain that fails makes room.
LEMMA ConvertedKeepsRegulated == BoundedInv /\ (Put \/ DrainFails \/ Drain) => BufferIsRegulated'
<1> SUFFICES ASSUME BoundedInv, Put \/ DrainFails \/ Drain PROVE BufferIsRegulated'
  OBVIOUS
<1>1. /\ TypeOK /\ PathIsEmpty /\ call \in {"put", "drain"}
      /\ Regulated(call = "idle", Len(queue), OnTheWay, elapsed, Bound(faults))
  BY DEF BoundedInv, BufferIsRegulated, Put, DrainFails, Drain
<1>2. PICK q \in Nat, w \in Nat, e \in Nat, k \in Int :
        q = Len(queue) /\ w = OnTheWay /\ e = elapsed /\ k = Bound(faults)
  BY <1>1, WayTypes
<1>3. Regulated(FALSE, q, w, e, k)
  <2>1. (call = "idle") <=> FALSE
    BY <1>1
  <2> QED
    BY <1>1, <1>2, <2>1
<1>4. queue' = queue /\ elapsed' = elapsed /\ converted = <<>> /\ Len(stream) \in Nat
  BY <1>1, WayTypes DEF Put, DrainFails, Drain, PathIsEmpty, buffers, clock
<1>5. ASSUME call' # "idle", OnTheWay' = w, faults' = faults PROVE BufferIsRegulated'
  <2>1. (call' = "idle") <=> FALSE
    BY <1>5
  <2> QED
    BY <1>2, <1>3, <1>4, <1>5, <2>1 DEF BufferIsRegulated
<1>6. CASE Put
  <2>1. block \in Nat /\ Run(next, block) \in Seq(Int) /\ Len(Run(next, block)) = block
    <3>1. block \in Nat /\ next \in Int
      BY <1>1 DEF TypeOK
    <3>2. Run(next, block) \in Seq(Int)
      BY <3>1, RunIsSequence
    <3>3. Len(Run(next, block)) = block
      BY <3>1, <3>2, LenProperties DEF Run
    <3> QED
      BY <3>1, <3>2, <3>3
  <2>2. Len(stream') = Len(stream) + block
    BY <1>1, <1>6, <2>1, ConcatProperties DEF Put, TypeOK
  <2>3. w = Len(stream) + block
    BY <1>2, <1>4, <1>6, <2>1 DEF Put, OnTheWay, Pending
  <2>4. call' = "drain" /\ converted' = converted /\ faults' = faults
    BY <1>6 DEF Put
  <2>5. OnTheWay' = w
    BY <1>4, <2>1, <2>2, <2>3, <2>4 DEF OnTheWay, Pending
  <2> QED
    BY <1>5, <2>4, <2>5
<1>7. CASE Drain
  <2>1. /\ call = "drain" /\ call' = "queue" /\ faults' = faults
        /\ converted' = SubSeq(stream, 1, Available)
        /\ stream' = SubSeq(stream, Available + 1, Len(stream))
    BY <1>7 DEF Drain
  <2>2. /\ Available \in Nat /\ Available <= Len(stream)
    BY <1>1, ReadyIsAlmostAll
  <2>3. \A i \in 1..Len(stream) : stream[i] \in Int
    BY <1>1 DEF TypeOK
  <2>4. Len(converted') = Available /\ Len(stream') = Len(stream) - Available
    BY <1>4, <2>1, <2>2, <2>3, SubSeqProperties
  <2>5. Pending = 0 /\ Pending' = 0 /\ Len(converted) = 0
    BY <1>4, <2>1 DEF Pending
  <2>6. w = Len(stream)
    BY <1>2, <1>4, <2>5 DEF OnTheWay
  <2>7. OnTheWay' = w
    BY <1>4, <2>2, <2>4, <2>5, <2>6 DEF OnTheWay
  <2> QED
    BY <1>5, <2>1, <2>7
<1>8. CASE DrainFails
  <2>1. Bound(faults') = k + Short
    <3>1. faults \in Nat /\ faults' = faults + 1
      BY <1>1, <1>8, WayTypes DEF DrainFails, Fault
    <3> QED
      BY <1>2, <3>1, BoundGrows
  <2>2. Regulated(TRUE, q, w, e, k + Short)
    BY <1>3, FailureIsRegulated
  <2>3. call' = "idle" /\ OnTheWay' = w
    BY <1>2, <1>4, <1>8 DEF DrainFails, Done, buffers, OnTheWay, Pending
  <2> QED
    BY <1>2, <1>4, <2>1, <2>2, <2>3 DEF BufferIsRegulated
<1> QED
  BY <1>6, <1>7, <1>8

\* What has been drained is queued, or lost; a tick at most stays in the stream.
LEMMA QueuedKeepsRegulated ==
  BoundedInv /\ (QueueAudio \/ QueueAudioFails) => BufferIsRegulated'
<1> SUFFICES ASSUME BoundedInv, QueueAudio \/ QueueAudioFails PROVE BufferIsRegulated'
  OBVIOUS
<1>1. /\ TypeOK /\ call = "queue" /\ Len(stream) <= 1
      /\ Regulated(call = "idle", Len(queue), OnTheWay, elapsed, Bound(faults))
  BY DEF BoundedInv, BlockIsSized, BufferIsRegulated, QueueAudio, QueueAudioFails
<1>2. PICK q \in Nat, w \in Nat, e \in Nat, k \in Int, s \in Nat, c \in Nat :
        /\ q = Len(queue) /\ w = OnTheWay /\ e = elapsed /\ k = Bound(faults)
        /\ s = Len(stream) /\ c = Len(converted)
  BY <1>1, WayTypes
<1>3. Regulated(FALSE, q, w, e, k)
  <2>1. (call = "idle") <=> FALSE
    BY <1>1
  <2> QED
    BY <1>1, <1>2, <2>1
<1>4. /\ call' = "idle" /\ stream' = stream /\ elapsed' = elapsed /\ converted' = <<>>
  BY DEF QueueAudio, QueueAudioFails, Done, buffers
<1>5. w = s + c /\ s <= 1 /\ OnTheWay' = s
  BY <1>1, <1>2, <1>4 DEF OnTheWay, Pending
<1>6. CASE QueueAudio
  <2>1. Len(queue') = q + c /\ Bound(faults') = k
    BY <1>1, <1>2, <1>6, ConcatProperties DEF QueueAudio, TypeOK
  <2>2. q + c \in Nat /\ (q + c) + s <= q + w
    BY <1>5
  <2>3. Regulated(TRUE, q + c, s, e, k)
    BY <1>3, <1>5, <2>2, LessIsRegulated
  <2> QED
    BY <1>2, <1>4, <1>5, <2>1, <2>3 DEF BufferIsRegulated
<1>7. CASE QueueAudioFails
  <2>1. queue' = queue /\ Bound(faults') = k + Short
    <3>1. faults \in Nat /\ faults' = faults + 1 /\ queue' = queue
      BY <1>1, <1>7, WayTypes DEF QueueAudioFails, Fault, buffers
    <3> QED
      BY <1>2, <3>1, BoundGrows
  <2>2. Regulated(TRUE, q, w, e, k + Short)
    BY <1>3, FailureIsRegulated
  <2>3. q + s <= q + w
    BY <1>5
  <2>4. k + Short \in Int
    BY Sizes
  <2>5. Regulated(TRUE, q, s, e, k + Short)
    BY <1>5, <2>2, <2>3, <2>4, LessIsRegulated
  <2> QED
    BY <1>2, <1>4, <1>5, <2>1, <2>5 DEF BufferIsRegulated
<1> QED
  BY <1>6, <1>7

\* A block has one of the two sizes, and its drain leaves a tick at most in the stream.
LEMMA SizeStep == BoundedInv /\ [Next]_vars => BlockIsSized'
<1> SUFFICES ASSUME BoundedInv, [Next]_vars PROVE BlockIsSized'
  OBVIOUS
<1>1. TypeOK /\ BlockIsSized
  BY DEF BoundedInv
<1>2. CASE Render
  BY <1>2 DEF Render, BlockIsSized
<1>3. CASE Drain
  <2>1. call' = "queue" /\ stream' = SubSeq(stream, Available + 1, Len(stream))
    BY <1>3 DEF Drain
  <2>2. /\ Available \in Nat /\ Available <= Len(stream) /\ Len(stream) <= Available + 1
        /\ Len(stream) \in Nat /\ \A i \in 1..Len(stream) : stream[i] \in Int
    BY <1>1, ReadyIsAlmostAll DEF TypeOK
  <2>3. Len(stream') = Len(stream) - Available
    BY <2>1, <2>2, SubSeqProperties
  <2> QED
    BY <2>1, <2>2, <2>3 DEF BlockIsSized
<1>4. CASE ~Render /\ ~Drain
  <2>1. call' = "put" => call = "put" /\ block' = block
    BY <1>4 DEF Next, QueueSamples, Tick, SetFrequency, QueueNothing, PutFails, Put, DrainFails,
                QueueAudio, QueueAudioFails, Done, vars
  <2>2. call' = "queue" => call = "queue" /\ stream' = stream
    BY <1>4 DEF Next, QueueSamples, Tick, SetFrequency, QueueNothing, PutFails, Put, DrainFails,
                QueueAudio, QueueAudioFails, Done, buffers, vars
  <2> QED
    BY <1>1, <2>1, <2>2 DEF BlockIsSized
<1> QED
  BY <1>2, <1>3, <1>4

\* The rate changes only between two blocks, and what the stream held is gone.
LEMMA ChangeKeepsRegulated ==
  ASSUME BoundedInv, NEW r \in Rates, SetFrequency(r)
  PROVE  BufferIsRegulated'
<1>1. /\ TypeOK /\ PathIsEmpty /\ call = "idle"
      /\ Regulated(call = "idle", Len(queue), OnTheWay, elapsed, Bound(faults))
  BY DEF BoundedInv, BufferIsRegulated, SetFrequency
<1>2. PICK q \in Nat, w \in Nat, e \in Nat, k \in Int :
        q = Len(queue) /\ w = OnTheWay /\ e = elapsed /\ k = Bound(faults)
  BY <1>1, WayTypes
<1>3. Regulated(TRUE, q, w, e, k)
  <2>1. (call = "idle") <=> TRUE
    BY <1>1
  <2> QED
    BY <1>1, <1>2, <2>1
<1>4. /\ call' = call /\ queue' = queue /\ stream' = <<>> /\ elapsed' = elapsed
      /\ converted' = converted /\ converted = <<>> /\ faults' = faults
  BY <1>1 DEF SetFrequency, PathIsEmpty, clock
<1>5. OnTheWay' = 0
  BY <1>1, <1>4 DEF OnTheWay, Pending
<1>6. q + 0 <= q + w /\ 0 <= w
  OBVIOUS
<1>7. Regulated(TRUE, q, 0, e, k)
  BY <1>3, <1>6, LessIsRegulated
<1> QED
  BY <1>1, <1>2, <1>4, <1>5, <1>7 DEF BufferIsRegulated

\* There is never more than a long block, the rounding and a held tick above the
\* game's target, with a short block for each SDL call that failed: the report of what
\* is buffered (get_frames_remaining) is enough for the game to regulate itself, for
\* every rate and every size of block that RegulationAssumption allows, however late
\* the game's thread and the device run.
THEOREM BufferStaysBounded == Spec => []BufferIsBounded
<1>1. Init => BoundedInv
  <2> SUFFICES ASSUME Init PROVE BoundedInv
    OBVIOUS
  <2>1. TypeOK
    BY InitUnderrun DEF UnderrunInv
  <2>2. PathIsEmpty /\ BlockIsSized
    BY SizesAssumption DEF Init, PathIsEmpty, BlockIsSized
  <2>3. /\ call = "idle" /\ Len(queue) = 0 /\ OnTheWay = 0 /\ elapsed = 0 /\ faults = 0
    BY DEF Init, OnTheWay, Pending
  <2>4. Bound(0) \in Int /\ Target + 2 + Long <= Bound(0)
    BY BoundGrows
  <2>5. Regulated(TRUE, 0, 0, 0, Bound(0))
    BY <2>4, Sizes DEF Regulated
  <2>6. (call = "idle") <=> TRUE
    BY <2>3
  <2>7. BufferIsRegulated
    BY <2>3, <2>5, <2>6 DEF BufferIsRegulated
  <2> QED
    BY <2>1, <2>2, <2>7 DEF BoundedInv
<1>2. BoundedInv /\ [Next]_vars => BoundedInv'
  <2> SUFFICES ASSUME BoundedInv, [Next]_vars PROVE BoundedInv'
    OBVIOUS
  <2>1. TypeOK' /\ BlockIsSized'
    BY TypeStep, SizeStep DEF BoundedInv
  <2>2. PathIsEmpty'
    BY PathStep DEF BoundedInv
  <2> SUFFICES BufferIsRegulated'
    BY <2>1, <2>2 DEF BoundedInv
  <2>3. CASE Tick
    BY <2>3, TickKeepsRegulated
  <2>4. CASE \E r \in Rates : SetFrequency(r)
    BY <2>4, ChangeKeepsRegulated
  <2>5. CASE Render
    BY <2>5, RenderKeepsRegulated
  <2>6. CASE QueueSamples
    BY <2>6, LostKeepsRegulated, ConvertedKeepsRegulated, QueuedKeepsRegulated DEF QueueSamples
  <2>7. CASE UNCHANGED vars
    BY <2>7 DEF vars, buffers, clock, BoundedInv, BufferIsRegulated, OnTheWay, Pending
  <2> QED
    BY <2>3, <2>4, <2>5, <2>6, <2>7 DEF Next
<1>3. BoundedInv => BufferIsBounded
  <2> SUFFICES ASSUME BoundedInv PROVE BufferIsBounded
    OBVIOUS
  <2>1. TypeOK /\ Regulated(call = "idle", Len(queue), OnTheWay, elapsed, Bound(faults))
    BY DEF BoundedInv, BufferIsRegulated
  <2>2. PICK q \in Nat, s \in Nat, c \in Nat, p \in Nat, k \in Int :
          /\ q = Len(queue) /\ s = Len(stream) /\ c = Len(converted)
          /\ p = Pending /\ k = Bound(faults)
    BY <2>1, WayTypes
  <2>3. q + ((s + c) + p) <= k
    BY <2>1, <2>2 DEF Regulated, OnTheWay
  <2>4. Buffered <= k
    BY <2>2, <2>3 DEF Buffered
  <2> QED
    BY <2>2, <2>4 DEF BufferIsBounded, Bound
<1> QED
  BY <1>1, <1>2, <1>3, PTL DEF Spec
=============================================================================
