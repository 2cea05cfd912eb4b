--------------------------- MODULE OSSUploadProofs ---------------------------
(***************************************************************************)
(* Theorems about OSSUpload, for all batches, sizes, bounds and clocks.     *)
(***************************************************************************)
EXTENDS OSSUpload, SequenceTheorems, TLAPS

------------------------------------------------------------------------------
(* Facts about requests and sequences.                                      *)

\* A batch request is a batch and the position of one of its images.
LEMMA BatchRequestParts ==
  ASSUME NEW r \in BatchRequests
  PROVE  /\ r = <<r[1], r[2]>>
         /\ r[1] \in Batches
         /\ r[2] \in 1 .. Size[r[1]]
         /\ r[2] \in Nat \ {0}
BY OSSAssumption DEF BatchRequests

LEMMA BatchRequestIntro ==
  ASSUME NEW b \in Batches, NEW i \in 1 .. Size[b]
  PROVE  <<b, i>> \in BatchRequests /\ <<b, i>> \in Requests
BY DEF BatchRequests, Requests

LEMMA SingleRequestIntro ==
  ASSUME NEW s \in Singles
  PROVE  <<s, 1>> \in SingleRequests /\ <<s, 1>> \in Requests
BY DEF SingleRequests, Requests

\* The head of the main queue is a request and what is left is a queue.
LEMMA QueueParts ==
  ASSUME NEW S, NEW q \in Seq(S), q # <<>>
  PROVE  /\ Head(q) \in S
         /\ Tail(q) \in Seq(S)
         /\ Len(Tail(q)) = Len(q) - 1
         /\ \A k \in 1 .. Len(q) - 1 : Tail(q)[k] = q[k + 1]
         /\ Head(q) = q[1]
         /\ Len(q) >= 1
OBVIOUS

\* An offset into the keys of a batch is a number.
LEMMA NatProduct ==
  ASSUME NEW m \in Nat, NEW n \in Nat
  PROVE  m * n \in Nat
OBVIOUS

\* Calling a block of a call appends one answer to the answers of that call.
LEMMA AnswerType ==
  ASSUME answers \in [Calls -> Seq(Answers)],
         NEW c \in Calls, NEW block \in {"success", "faile"}, NEW urls \in Seq(Keys),
         Answer(c, block, urls)
  PROVE  answers' \in [Calls -> Seq(Answers)]
<1>1. [block |-> block, urls |-> urls] \in Answers
  BY DEF Answers
<1>2. Append(answers[c], [block |-> block, urls |-> urls]) \in Seq(Answers)
  BY <1>1
<1> QED
  BY <1>2 DEF Answer

------------------------------------------------------------------------------
(* Type correctness.                                                        *)

\* Every value a variable takes has its type: in particular the shared array
\* only holds place holders and object keys, and what a success block is given
\* holds keys only (uploadOneImage tests for place holders before it reports).
THEOREM TypeCorrect == Spec => []TypeOK
<1> USE OSSAssumption
<1>1. Init => TypeOK
  <2> SUFFICES ASSUME Init
               PROVE  TypeOK
    OBVIOUS
  <2>1. /\ dataSourece \in Seq(Slots)
        /\ mainQueue \in Seq(Requests)
        /\ answers \in [Calls -> Seq(Answers)]
    BY DEF Init
  <2>2. objectKey \in [Requests -> Keys] /\ status \in [Requests -> Statuses]
    BY DEF Init, Keys, Statuses
  <2>3. tries \in [Requests -> 0 .. MaxRetry]
    BY DEF Init
  <2>4. bucket \subseteq [key : Keys, from : Requests, intact : BOOLEAN]
    BY DEF Init
  <2>5. /\ client \in BOOLEAN /\ clock \in Nat
        /\ loop \in Batches \cup {NoBatch} /\ crashed \in BOOLEAN
    BY DEF Init
  <2> QED
    BY <2>1, <2>2, <2>3, <2>4, <2>5 DEF TypeOK
<1>2. TypeOK /\ [Next]_vars => TypeOK'
  <2> SUFFICES ASSUME TypeOK, [Next]_vars
               PROVE  TypeOK'
    OBVIOUS
  <2> USE DEF TypeOK, appVars, netVars
  <2>1. CASE Tick
    BY <2>1 DEF Tick
  <2>2. CASE SetClient
    BY <2>2 DEF SetClient
  <2>3. ASSUME NEW b \in Batches, UpLoadImageWithImageDataArray(b)
        PROVE  TypeOK'
    BY <2>3 DEF UpLoadImageWithImageDataArray
  <2>4. ASSUME NEW b \in Batches, UploadOneImage(b)
        PROVE  TypeOK'
    <3> DEFINE r == <<b, Len(dataSourece) + 1>>
    <3>1. BatchKey(Len(dataSourece)) \in Keys
      <4> DEFINE offset == KeyStep * Len(dataSourece)
      <4>1. Len(dataSourece) \in Nat /\ KeyStep \in Nat
        BY LenProperties
      <4>2. offset \in Nat
        BY <4>1, NatProduct
      <4>3. BatchKey(Len(dataSourece)) = <<"customer", clock + offset>>
        BY DEF BatchKey
      <4> HIDE DEF offset
      <4> QED
        BY <4>2, <4>3 DEF Keys
    <3>2. dataSourece' \in Seq(Slots)
      BY <2>4 DEF UploadOneImage, Slots
    <3>3. status' \in [Requests -> Statuses] /\ objectKey' \in [Requests -> Keys]
      BY <2>4, <3>1 DEF UploadOneImage, PutObject, Statuses
    <3> QED
      BY <2>4, <3>2, <3>3 DEF UploadOneImage, PutObject
  <2>5. ASSUME NEW s \in Singles, UpLoadImageWithImageData(s)
        PROVE  TypeOK'
    <3>1. PICK random \in 0 .. MaxRandom :
            PutObject(<<s, 1>>, <<"tomer", clock + random>>)
      BY <2>5 DEF UpLoadImageWithImageData
    <3>2. <<"tomer", clock + random>> \in Keys
      BY DEF Keys
    <3>3. status' \in [Requests -> Statuses] /\ objectKey' \in [Requests -> Keys]
      BY <3>1, <3>2 DEF PutObject, Statuses
    <3> QED
      BY <2>5, <3>1, <3>3 DEF UpLoadImageWithImageData, PutObject
  <2>6. ASSUME NEW r \in Requests, Network(r)
        PROVE  TypeOK'
    <3>1. ASSUME NEW outcome \in {"saved", "failed"}, Complete(r, outcome)
          PROVE  /\ status' \in [Requests -> Statuses]
                 /\ mainQueue' \in Seq(Requests)
                 /\ UNCHANGED <<tries, objectKey>>
      BY <3>1 DEF Complete, Statuses
    <3>2. ASSUME NEW intact \in BOOLEAN, Store(r, intact)
          PROVE  bucket' \subseteq [key : Keys, from : Requests, intact : BOOLEAN]
      <4>1. objectKey[r] \in Keys
        OBVIOUS
      <4> QED
        BY <3>2, <4>1 DEF Store
    <3>3. CASE PutSucceeds(r)
      BY <3>1, <3>2, <3>3 DEF PutSucceeds
    <3>4. CASE PutCorrupted(r)
      BY <3>1, <3>2, <3>4 DEF PutCorrupted
    <3>5. CASE PutRejected(r)
      BY <3>1, <3>5 DEF PutRejected
    <3>6. CASE PutInterrupted(r)
      <4>1. bucket' \subseteq [key : Keys, from : Requests, intact : BOOLEAN]
        BY <3>2, <3>6 DEF PutInterrupted, MayRetry
      <4>2. CASE tries[r] < MaxRetry
        <5>1. tries' \in [Requests -> 0 .. MaxRetry]
          BY <3>6, <4>2 DEF PutInterrupted, MayRetry
        <5> QED
          BY <3>6, <4>1, <4>2, <5>1 DEF PutInterrupted, MayRetry
      <4>3. CASE ~(tries[r] < MaxRetry)
        BY <3>1, <3>6, <4>1, <4>3 DEF PutInterrupted, MayRetry
      <4> QED
        BY <4>2, <4>3
    <3> QED
      BY <2>6, <3>3, <3>4, <3>5, <3>6 DEF Network
  <2>7. ASSUME NEW r \in Requests, NextBlock(r)
        PROVE  /\ mainQueue' \in Seq(Requests)
               /\ status' \in [Requests -> Statuses]
               /\ UNCHANGED <<client, clock, loop, tries, objectKey, bucket>>
    BY <2>7, QueueParts DEF NextBlock, Statuses
  <2>8. ASSUME NEW r \in Requests, BatchBlock(r)
        PROVE  TypeOK'
    <3>1. /\ r \in BatchRequests
          /\ NextBlock(r)
          /\ \/ OutOfRange
             \/ r[2] <= Len(dataSourece) /\ FillSlot(r)
      BY <2>8, BatchRequestParts DEF BatchBlock, PresignError
    <3>2. r[1] \in Calls /\ r[2] \in Nat \ {0} /\ objectKey[r] \in Keys
      BY <3>1, BatchRequestParts DEF Calls
    <3>3. CASE OutOfRange
      BY <2>7, <3>1, <3>3 DEF OutOfRange
    <3>4. CASE r[2] <= Len(dataSourece) /\ FillSlot(r)
      <4> DEFINE slots == [dataSourece EXCEPT ![r[2]] = objectKey[r]]
      <4>1. slots \in Seq(Slots)
        BY <3>2, <3>4 DEF Slots
      <4>2. ASSUME NotValue \notin Range(slots)
            PROVE  slots \in Seq(Keys)
        <5>1. \A k \in 1 .. Len(slots) : slots[k] \in Keys
          <6>1. ASSUME NEW k \in 1 .. Len(slots)
                PROVE  slots[k] \in Slots /\ slots[k] \in Range(slots)
            BY <4>1, <6>1, ElementOfSeq, LenProperties DEF Range
          <6> QED
            BY <4>2, <6>1 DEF Slots
        <5> HIDE DEF slots
        <5> QED
          BY <4>1, <5>1, LenProperties, SMTT(30)
      <4>3. answers' \in [Calls -> Seq(Answers)]
        BY <3>2, <3>4, <4>2, AnswerType DEF FillSlot
      <4> QED
        BY <2>7, <3>1, <3>4, <4>1, <4>3 DEF FillSlot
    <3> QED
      BY <3>1, <3>3, <3>4
  <2>9. ASSUME NEW r \in Requests, SingleBlock(r)
        PROVE  TypeOK'
    <3>1. r[1] \in Calls /\ objectKey[r] \in Keys
      BY <2>9 DEF SingleBlock, SingleRequests, Calls
    <3>2. answers' \in [Calls -> Seq(Answers)]
      <4>1. <<objectKey[r]>> \in Seq(Keys)
        BY <3>1
      <4> QED
        BY <2>9, <3>1, <4>1, AnswerType DEF SingleBlock
    <3> QED
      BY <2>7, <2>9, <3>2 DEF SingleBlock
  <2>10. CASE UNCHANGED vars
    BY <2>10 DEF vars
  <2> QED
    BY <2>1, <2>2, <2>3, <2>4, <2>5, <2>6, <2>8, <2>9, <2>10
    DEF Next, App, MainQueue
<1> QED
  BY <1>1, <1>2, PTL DEF Spec

------------------------------------------------------------------------------
(* What the actions do to a request, for the proofs below.                  *)

\* An attempt that ends leaves the app alone: either the PUT is tried again, or
\* its request is finished and its block queued.
LEMMA NetworkEffect ==
  ASSUME NEW r \in Requests, Network(r)
  PROVE  /\ status[r] = "sending"
         /\ UNCHANGED <<client, dataSourece, loop, objectKey, answers, crashed>>
         /\ \/ UNCHANGED <<status, mainQueue>>
            \/ /\ mainQueue' = Append(mainQueue, r)
               /\ \/ status' = [status EXCEPT ![r] = "saved"]
                  \/ status' = [status EXCEPT ![r] = "failed"]
<1> USE DEF Complete, appVars
<1>1. CASE PutSucceeds(r)
  BY <1>1 DEF PutSucceeds
<1>2. CASE PutCorrupted(r)
  BY <1>2 DEF PutCorrupted
<1>3. CASE PutRejected(r)
  BY <1>3 DEF PutRejected
<1>4. CASE PutInterrupted(r)
  BY <1>4 DEF PutInterrupted, MayRetry
<1> QED
  BY <1>1, <1>2, <1>3, <1>4 DEF Network

\* A batch block that runs finishes the open request at the head of the queue.
LEMMA BatchBlockEffect ==
  ASSUME NEW r \in Requests, BatchBlock(r)
  PROVE  /\ r \in BatchRequests
         /\ loop = NoBatch
         /\ mainQueue # <<>> /\ r = Head(mainQueue) /\ mainQueue' = Tail(mainQueue)
         /\ status' = [status EXCEPT ![r] = "handled"]
         /\ UNCHANGED <<client, loop, objectKey>>
         /\ \/ r[2] > Len(dataSourece) /\ OutOfRange
            \/ ~(r[2] > Len(dataSourece)) /\ FillSlot(r)
BY DEF BatchBlock, NextBlock, PresignError

\* A single block touches neither the array nor the answers of a batch.
LEMMA SingleBlockEffect ==
  ASSUME TypeOK, NEW r \in Requests, SingleBlock(r)
  PROVE  /\ r \in SingleRequests
         /\ loop = NoBatch
         /\ mainQueue # <<>> /\ r = Head(mainQueue) /\ mainQueue' = Tail(mainQueue)
         /\ status' = [status EXCEPT ![r] = "handled"]
         /\ UNCHANGED <<client, loop, objectKey, dataSourece, crashed>>
         /\ \A b \in Batches : answers'[b] = answers[b]
<1>1. r[1] \notin Batches
  BY OSSAssumption DEF SingleBlock, SingleRequests
<1> QED
  BY <1>1 DEF SingleBlock, NextBlock, Answer, TypeOK, Calls

\* The requests of batches are not those of single uploads.
LEMMA Disjoint ==
  ASSUME NEW b \in Batches, NEW i, NEW r \in SingleRequests
  PROVE  <<b, i>> # r
BY OSSAssumption DEF SingleRequests

\* A turn of the loop asks for an image that was idle, and appends its slot.
LEMMA UploadOneImageEffect ==
  ASSUME TypeOK, LoopInv, NEW b \in Batches, UploadOneImage(b)
  PROVE  LET i == Len(dataSourece) + 1 IN
         /\ loop = b /\ loop # NoBatch
         /\ i \in 1 .. Size[b]
         /\ <<b, i>> \in Requests
         /\ status[<<b, i>>] = "idle"
         /\ status' = [status EXCEPT ![<<b, i>>] = IF client THEN "sending" ELSE "dropped"]
         /\ \A q \in Requests : q # <<b, i>> => objectKey'[q] = objectKey[q]
         /\ dataSourece' = Append(dataSourece, NotValue)
         /\ loop' = IF i = Size[b] THEN NoBatch ELSE b
         /\ UNCHANGED <<client, mainQueue, answers, crashed>>
<1> DEFINE i == Len(dataSourece) + 1
<1>1. loop = b /\ loop # NoBatch /\ Len(dataSourece) \in Nat /\ Size[b] \in Nat
  BY OSSAssumption, LenProperties DEF UploadOneImage, TypeOK
<1>2. i \in 1 .. Size[b] /\ status[<<b, i>>] = "idle"
  BY <1>1 DEF LoopInv
<1>3. <<b, i>> \in Requests
  BY <1>2, BatchRequestIntro
<1>4. /\ status' = [status EXCEPT ![<<b, i>>] = IF client THEN "sending" ELSE "dropped"]
      /\ \A q \in Requests : q # <<b, i>> => objectKey'[q] = objectKey[q]
      /\ dataSourece' = Append(dataSourece, NotValue)
      /\ loop' = IF i = Size[b] THEN NoBatch ELSE b
      /\ UNCHANGED <<client, mainQueue, answers, crashed>>
  BY DEF UploadOneImage, PutObject, TypeOK
<1> QED
  BY <1>1, <1>2, <1>3, <1>4

\* The start of a single upload concerns its own idle request only.
LEMMA SingleStartEffect ==
  ASSUME TypeOK, NEW s \in Singles, UpLoadImageWithImageData(s)
  PROVE  /\ <<s, 1>> \in SingleRequests /\ <<s, 1>> \in Requests
         /\ status[<<s, 1>>] = "idle"
         /\ status' = [status EXCEPT ![<<s, 1>>] = IF client THEN "sending" ELSE "dropped"]
         /\ \A q \in Requests : q # <<s, 1>> => objectKey'[q] = objectKey[q]
         /\ UNCHANGED <<client, dataSourece, loop, mainQueue, answers, crashed>>
BY SingleRequestIntro DEF UpLoadImageWithImageData, PutObject, TypeOK, appVars

------------------------------------------------------------------------------
(* The main queue.                                                          *)

\* The main queue holds each finished request exactly once, so the block of a
\* request runs once (OSSTask runs its continuations once).
LEMMA QueueInvStep ==
  ASSUME TypeOK, QueueInv, LoopInv, [Next]_vars
  PROVE  QueueInv'
<1> USE DEF QueueInv
<1>0. mainQueue \in Seq(Requests) /\ status \in [Requests -> Statuses]
  BY DEF TypeOK
<1>1. ASSUME UNCHANGED mainQueue,
             \A q \in Requests : status[q] \in {"saved", "failed"} => status'[q] = status[q]
      PROVE  QueueInv'
  BY <1>0, <1>1
<1>2. ASSUME NEW r \in Requests, Network(r)
      PROVE  QueueInv'
  <2>1. CASE UNCHANGED <<status, mainQueue>>
    BY <2>1
  <2>2. CASE /\ mainQueue' = Append(mainQueue, r)
             /\ \/ status' = [status EXCEPT ![r] = "saved"]
                \/ status' = [status EXCEPT ![r] = "failed"]
    <3>1. status[r] = "sending"
      BY <1>2, NetworkEffect
    <3>2. \A k \in 1 .. Len(mainQueue) : mainQueue[k] # r
      BY <1>0, <3>1
    <3> QED
      BY <1>0, <2>2, <3>2
  <2> QED
    BY <1>2, <2>1, <2>2, NetworkEffect
<1>3. ASSUME NEW r \in Requests, mainQueue # <<>>, r = Head(mainQueue),
             mainQueue' = Tail(mainQueue), status' = [status EXCEPT ![r] = "handled"]
      PROVE  QueueInv'
  <2>1. /\ Len(mainQueue') = Len(mainQueue) - 1
        /\ \A k \in 1 .. Len(mainQueue) - 1 : mainQueue'[k] = mainQueue[k + 1]
        /\ r = mainQueue[1] /\ Len(mainQueue) >= 1
        /\ mainQueue' \in Seq(Requests)
    BY <1>0, <1>3, QueueParts
  <2>2. \A k \in 1 .. Len(mainQueue) - 1 : mainQueue'[k] # r
    BY <1>0, <2>1, SMTT(30)
  <2> QED
    BY <1>0, <1>3, <2>1, <2>2
<1>4. ASSUME NEW b \in Batches, UploadOneImage(b)
      PROVE  QueueInv'
  BY <1>0, <1>1, <1>4, UploadOneImageEffect
<1>5. ASSUME NEW s \in Singles, UpLoadImageWithImageData(s)
      PROVE  QueueInv'
  BY <1>0, <1>1, <1>5, SingleStartEffect
<1>6. CASE UNCHANGED vars \/ Tick \/ SetClient
  BY <1>1, <1>6 DEF vars, Tick, SetClient, netVars
<1>7. ASSUME NEW b \in Batches, UpLoadImageWithImageDataArray(b)
      PROVE  QueueInv'
  BY <1>1, <1>7 DEF UpLoadImageWithImageDataArray, netVars
<1>8. ASSUME NEW r \in Requests, BatchBlock(r) \/ SingleBlock(r)
      PROVE  QueueInv'
  BY <1>3, <1>8, BatchBlockEffect, SingleBlockEffect
<1> QED
  BY <1>2, <1>4, <1>5, <1>6, <1>7, <1>8 DEF Next, App, MainQueue

\* The block at the head of the main queue is that of a finished request.
LEMMA HeadIsFinished ==
  ASSUME TypeOK, QueueInv, mainQueue # <<>>
  PROVE  status[Head(mainQueue)] \in {"saved", "failed"}
<1>1. Head(mainQueue) = mainQueue[1] /\ 1 \in DOMAIN mainQueue
  BY QueueParts DEF TypeOK
<1> QED
  BY <1>1 DEF QueueInv

------------------------------------------------------------------------------
(* The loop of a batch call, and batches as wholes.                         *)

\* Inside a loop the array and the requests of its batch grow together (no main
\* queue block runs there, since the caller holds the main thread).
LEMMA LoopInvStep ==
  ASSUME TypeOK, LoopInv, [Next]_vars
  PROVE  LoopInv'
<1> USE DEF Open
<1>0. /\ dataSourece \in Seq(Slots) /\ Len(dataSourece) \in Nat
      /\ status \in [Requests -> Statuses]
      /\ \A b \in Batches : Size[b] \in Nat
      /\ loop \in Batches \cup {NoBatch}
  BY OSSAssumption, LenProperties DEF TypeOK
<1>1. ASSUME loop' = NoBatch
      PROVE  LoopInv'
  BY <1>1 DEF LoopInv
<1>2. ASSUME UNCHANGED <<client, dataSourece, loop>>,
             \A b \in Batches : \A i \in 1 .. Size[b] :
               \/ status'[<<b, i>>] = status[<<b, i>>]
               \/ Open(<<b, i>>) /\ Open(<<b, i>>)'
      PROVE  LoopInv'
  <2> SUFFICES ASSUME loop # NoBatch
               PROVE  LoopInv'
    BY <1>1, <1>2
  <2> USE DEF LoopInv
  <2>1. loop \in Batches /\ loop' = loop /\ dataSourece' = dataSourece /\ client' = client
    BY <1>0, <1>2
  <2>2. ASSUME NEW i \in 1 .. Len(dataSourece)
        PROVE  /\ dataSourece[i] = NotValue
               /\ IF client THEN Open(<<loop, i>>)' ELSE status'[<<loop, i>>] = "dropped"
    <3>1. i \in 1 .. Size[loop]
      BY <1>0, <2>1
    <3> QED
      BY <1>2, <2>1, <3>1
  <2>3. ASSUME NEW i \in Len(dataSourece) + 1 .. Size[loop]
        PROVE  status'[<<loop, i>>] = "idle"
    <3>1. i \in 1 .. Size[loop]
      BY <1>0, <2>1
    <3> QED
      BY <1>2, <2>1, <3>1
  <2> QED
    BY <2>1, <2>2, <2>3
<1>3. ASSUME NEW r \in Requests, Network(r)
      PROVE  LoopInv'
  BY <1>0, <1>2, <1>3, NetworkEffect, BatchRequestIntro
<1>4. ASSUME NEW b \in Batches, UploadOneImage(b)
      PROVE  LoopInv'
  <2> SUFFICES ASSUME loop' # NoBatch
               PROVE  LoopInv'
    BY <1>1
  <2> DEFINE n == Len(dataSourece)
  <2>1. /\ loop = b /\ loop' = b /\ n + 1 # Size[b] /\ n + 1 \in 1 .. Size[b]
        /\ <<b, n + 1>> \in Requests
        /\ client' = client
        /\ status' = [status EXCEPT ![<<b, n + 1>>] =
                        IF client THEN "sending" ELSE "dropped"]
        /\ dataSourece' = Append(dataSourece, NotValue)
    BY <1>4, UploadOneImageEffect
  <2>2. /\ Len(dataSourece') = n + 1
        /\ \A i \in 1 .. n : dataSourece'[i] = dataSourece[i]
        /\ dataSourece'[n + 1] = NotValue
    BY <1>0, <2>1
  <2>3. ASSUME NEW i \in 1 .. n + 1
        PROVE  /\ dataSourece'[i] = NotValue
               /\ IF client' THEN Open(<<b, i>>)' ELSE status'[<<b, i>>] = "dropped"
    <3>1. CASE i = n + 1
      BY <1>0, <2>1, <2>2, <3>1
    <3>2. CASE i \in 1 .. n
      BY <1>0, <2>1, <2>2, <3>2 DEF LoopInv
    <3> QED
      BY <1>0, <3>1, <3>2
  <2>4. ASSUME NEW i \in n + 2 .. Size[b]
        PROVE  status'[<<b, i>>] = "idle"
    <3>1. status[<<b, i>>] = "idle" /\ i # n + 1
      BY <1>0, <2>1 DEF LoopInv
    <3> QED
      BY <2>1, <3>1
  <2> QED
    BY <1>0, <2>1, <2>2, <2>3, <2>4 DEF LoopInv
<1>5. ASSUME NEW s \in Singles, UpLoadImageWithImageData(s)
      PROVE  LoopInv'
  BY <1>0, <1>2, <1>5, SingleStartEffect, Disjoint, BatchRequestIntro
<1>6. CASE UNCHANGED vars \/ Tick
  BY <1>2, <1>6 DEF vars, Tick, netVars, appVars
<1>7. CASE SetClient
  BY <1>1, <1>7 DEF SetClient
<1>8. ASSUME NEW b \in Batches, UpLoadImageWithImageDataArray(b)
      PROVE  LoopInv'
  <2> SUFFICES ASSUME loop' # NoBatch
               PROVE  LoopInv'
    BY <1>1
  <2>1. /\ loop' = b /\ Size[b] # 0 /\ dataSourece' = <<>> /\ status' = status
        /\ \A i \in 1 .. Size[b] : status[<<b, i>>] = "idle"
    BY <1>8 DEF UpLoadImageWithImageDataArray, netVars
  <2> QED
    BY <1>0, <2>1 DEF LoopInv
<1>9. ASSUME NEW r \in Requests, BatchBlock(r) \/ SingleBlock(r)
      PROVE  LoopInv'
  BY <1>1, <1>9, BatchBlockEffect, SingleBlockEffect
<1> QED
  BY <1>3, <1>4, <1>5, <1>6, <1>7, <1>8, <1>9 DEF Next, App, MainQueue

\* A batch is asked for as a whole, by one call, with one client.
LEMMA UniformInvStep ==
  ASSUME TypeOK, QueueInv, LoopInv, UniformInv, [Next]_vars
  PROVE  UniformInv'
<1> USE DEF Open
<1>0. /\ dataSourece \in Seq(Slots) /\ Len(dataSourece) \in Nat
      /\ status \in [Requests -> Statuses]
      /\ \A b \in Batches : Size[b] \in Nat
      /\ \A b \in Batches : \A i \in 1 .. Size[b] : <<b, i>> \in Requests
  BY OSSAssumption, LenProperties, BatchRequestIntro DEF TypeOK
<1>1. ASSUME UNCHANGED loop,
             \A b \in Batches : \A i \in 1 .. Size[b] :
               \/ status'[<<b, i>>] = status[<<b, i>>]
               \/ /\ status[<<b, i>>] \notin {"idle", "dropped"}
                  /\ status'[<<b, i>>] \notin {"idle", "dropped"}
      PROVE  UniformInv'
  BY <1>1 DEF UniformInv
<1>2. ASSUME NEW r \in Requests, Network(r)
      PROVE  UniformInv'
  BY <1>0, <1>1, <1>2, NetworkEffect
<1>3. ASSUME NEW b \in Batches, UploadOneImage(b)
      PROVE  UniformInv'
  <2> DEFINE n == Len(dataSourece)
  <2>1. /\ loop = b /\ loop # NoBatch /\ n + 1 \in 1 .. Size[b]
        /\ <<b, n + 1>> \in Requests
        /\ status' = [status EXCEPT ![<<b, n + 1>>] =
                        IF client THEN "sending" ELSE "dropped"]
        /\ loop' = IF n + 1 = Size[b] THEN NoBatch ELSE b
    BY <1>3, UploadOneImageEffect
  <2>2. ASSUME NEW d \in Batches, d # loop', d # b
        PROVE  \A i, j \in 1 .. Size[d] :
                 status'[<<d, i>>] \in {"idle", "dropped"} =>
                   status'[<<d, j>>] = status'[<<d, i>>]
    BY <1>0, <2>1, <2>2 DEF UniformInv
  <2>3. ASSUME b # loop'
        PROVE  \A i \in 1 .. Size[b] :
                 IF client THEN Open(<<b, i>>)' ELSE status'[<<b, i>>] = "dropped"
    <3>1. n + 1 = Size[b]
      BY <2>1, <2>3
    <3>2. \A i \in 1 .. n : IF client THEN Open(<<b, i>>) ELSE status[<<b, i>>] = "dropped"
      BY <2>1 DEF LoopInv
    <3>3. ASSUME NEW i \in 1 .. Size[b]
          PROVE  IF client THEN Open(<<b, i>>)' ELSE status'[<<b, i>>] = "dropped"
      <4>1. CASE i = n + 1
        BY <1>0, <2>1, <4>1
      <4>2. CASE i \in 1 .. n
        BY <1>0, <2>1, <3>2, <4>2
      <4> QED
        BY <1>0, <3>1, <4>1, <4>2
    <3> QED
      BY <3>3
  <2> QED
    BY <2>2, <2>3 DEF UniformInv
<1>4. ASSUME NEW s \in Singles, UpLoadImageWithImageData(s)
      PROVE  UniformInv'
  BY <1>0, <1>1, <1>4, SingleStartEffect, Disjoint
<1>5. CASE UNCHANGED vars \/ Tick \/ SetClient
  BY <1>1, <1>5 DEF vars, Tick, SetClient, netVars, appVars
<1>6. ASSUME NEW b \in Batches, UpLoadImageWithImageDataArray(b)
      PROVE  UniformInv'
  <2>1. loop = NoBatch /\ status' = status /\ b # NoBatch
    BY <1>6, OSSAssumption DEF UpLoadImageWithImageDataArray, netVars
  <2>2. \A d \in Batches : d # loop
    BY <2>1, OSSAssumption
  <2> QED
    BY <2>1, <2>2 DEF UniformInv
<1>7. ASSUME NEW r \in Requests, mainQueue # <<>>, r = Head(mainQueue),
             status' = [status EXCEPT ![r] = "handled"], UNCHANGED loop
      PROVE  UniformInv'
  <2>1. status[r] \in {"saved", "failed"}
    BY <1>7, QueueParts DEF QueueInv, TypeOK
  <2> QED
    BY <1>0, <1>1, <1>7, <2>1
<1>8. ASSUME NEW r \in Requests, BatchBlock(r) \/ SingleBlock(r)
      PROVE  UniformInv'
  BY <1>7, <1>8, BatchBlockEffect, SingleBlockEffect
<1> QED
  BY <1>2, <1>3, <1>4, <1>5, <1>6, <1>8 DEF Next, App, MainQueue

------------------------------------------------------------------------------
(* The shared array, when batches do not overlap.                           *)

\* What OwnArrayInv says of an open request.
OwnArray(b) ==
  /\ IF loop = NoBatch THEN Len(dataSourece) = Size[b] ELSE loop = b
  /\ \A d \in Batches : \A j \in 1 .. Size[d] : Open(<<d, j>>) => d = b
  /\ \A j \in 1 .. Len(dataSourece) :
       \/ Open(<<b, j>>) /\ dataSourece[j] = NotValue
       \/ /\ status[<<b, j>>] = "handled"
          /\ dataSourece[j] = objectKey[<<b, j>>]

\* The array belongs to the batch with open requests (each call clears it, and
\* each block writes at the index of its image).
LEMMA OwnArrayInvStep ==
  ASSUME TypeOK, QueueInv, LoopInv, UniformInv, OwnArrayInv, [Next]_vars,
         ~Overlapping
  PROVE  OwnArrayInv'
<1>0. /\ dataSourece \in Seq(Slots) /\ Len(dataSourece) \in Nat
      /\ status \in [Requests -> Statuses]
      /\ \A b \in Batches : Size[b] \in Nat
      /\ \A b \in Batches : \A i \in 1 .. Size[b] : <<b, i>> \in Requests
  BY OSSAssumption, LenProperties, BatchRequestIntro DEF TypeOK
<1>1. \A b \in Batches : \A i \in 1 .. Size[b] : Open(<<b, i>>) => OwnArray(b)
  BY DEF OwnArrayInv, OwnArray
<1>2. SUFFICES \A b \in Batches : \A i \in 1 .. Size[b] :
                 Open(<<b, i>>)' => OwnArray(b)'
  BY DEF OwnArrayInv, OwnArray
<1>3. ASSUME UNCHANGED <<dataSourece, loop>>,
             \A b \in Batches : \A i \in 1 .. Size[b] :
               /\ Open(<<b, i>>)' = Open(<<b, i>>)
               /\ status[<<b, i>>] # "idle" => objectKey'[<<b, i>>] = objectKey[<<b, i>>]
               /\ status[<<b, i>>] = "handled" => status'[<<b, i>>] = "handled"
      PROVE  \A b \in Batches : \A i \in 1 .. Size[b] :
               Open(<<b, i>>)' => OwnArray(b)'
  <2> SUFFICES ASSUME NEW b \in Batches, NEW i \in 1 .. Size[b], Open(<<b, i>>)
               PROVE  OwnArray(b)'
    BY <1>3
  <2>1. OwnArray(b)
    BY <1>1
  <2>2. ASSUME NEW j \in 1 .. Len(dataSourece)
        PROVE  j \in 1 .. Size[b]
    <3>1. CASE loop = NoBatch
      BY <2>1, <3>1 DEF OwnArray
    <3>2. CASE loop # NoBatch
      BY <1>0, <2>1, <3>2 DEF OwnArray, LoopInv
    <3> QED
      BY <3>1, <3>2
  <2>3. \A j \in 1 .. Len(dataSourece) :
          \/ Open(<<b, j>>)' /\ dataSourece'[j] = NotValue
          \/ /\ status'[<<b, j>>] = "handled"
             /\ dataSourece'[j] = objectKey'[<<b, j>>]
    BY <1>3, <2>1, <2>2 DEF OwnArray, Open
  <2> QED
    BY <1>3, <2>1, <2>3 DEF OwnArray
<1>4. ASSUME NEW r \in Requests, Network(r)
      PROVE  \A b \in Batches : \A i \in 1 .. Size[b] :
               Open(<<b, i>>)' => OwnArray(b)'
  BY <1>0, <1>3, <1>4, NetworkEffect DEF Open
<1>5. ASSUME NEW s \in Singles, UpLoadImageWithImageData(s)
      PROVE  \A b \in Batches : \A i \in 1 .. Size[b] :
               Open(<<b, i>>)' => OwnArray(b)'
  BY <1>0, <1>3, <1>5, SingleStartEffect, Disjoint DEF Open
<1>6. CASE UNCHANGED vars \/ Tick \/ SetClient
  BY <1>3, <1>6 DEF vars, Tick, SetClient, netVars, appVars, Open
<1>7. ASSUME NEW b \in Batches, UpLoadImageWithImageDataArray(b)
      PROVE  \A d \in Batches : \A i \in 1 .. Size[d] :
               Open(<<d, i>>)' => OwnArray(d)'
  \* The caller waited: nothing is open.
  BY <1>7, BatchRequestIntro DEF UpLoadImageWithImageDataArray, MayStart, netVars, Open
<1>8. ASSUME NEW r \in Requests, SingleBlock(r)
      PROVE  \A b \in Batches : \A i \in 1 .. Size[b] :
               Open(<<b, i>>)' => OwnArray(b)'
  BY <1>0, <1>3, <1>8, SingleBlockEffect, Disjoint DEF Open
<1>9. ASSUME NEW b \in Batches, UploadOneImage(b)
      PROVE  \A d \in Batches : \A i \in 1 .. Size[d] :
               Open(<<d, i>>)' => OwnArray(d)'
  <2> DEFINE n == Len(dataSourece)
  <2>1. /\ loop = b /\ loop # NoBatch /\ n + 1 \in 1 .. Size[b]
        /\ <<b, n + 1>> \in Requests
        /\ status' = [status EXCEPT ![<<b, n + 1>>] =
                        IF client THEN "sending" ELSE "dropped"]
        /\ loop' = IF n + 1 = Size[b] THEN NoBatch ELSE b
        /\ dataSourece' = Append(dataSourece, NotValue)
    BY <1>9, UploadOneImageEffect
  <2>2. /\ Len(dataSourece') = n + 1
        /\ \A j \in 1 .. n : dataSourece'[j] = dataSourece[j]
        /\ dataSourece'[n + 1] = NotValue
    BY <1>0, <2>1
  <2>3. ASSUME NEW d \in Batches, NEW i \in 1 .. Size[d], Open(<<d, i>>)'
        PROVE  d = b /\ client
    <3>1. CASE Open(<<d, i>>)
      <4>1. d = b
        BY <1>1, <2>1, <3>1 DEF OwnArray
      <4>2. i \in 1 .. n
        BY <1>0, <2>1, <3>1, <4>1 DEF LoopInv, Open
      <4> QED
        BY <2>1, <3>1, <4>1, <4>2 DEF LoopInv, Open
    <3>2. CASE ~Open(<<d, i>>)
      BY <1>0, <2>1, <2>3, <3>2 DEF Open
    <3> QED
      BY <3>1, <3>2
  <2>4. ASSUME client, NEW j \in 1 .. n + 1
        PROVE  Open(<<b, j>>)' /\ dataSourece'[j] = NotValue
    <3>1. CASE j = n + 1
      BY <1>0, <2>1, <2>2, <2>4, <3>1 DEF Open
    <3>2. CASE j \in 1 .. n
      BY <1>0, <2>1, <2>2, <2>4, <3>2 DEF LoopInv, Open
    <3> QED
      BY <1>0, <3>1, <3>2
  <2> QED
    BY <1>0, <2>1, <2>2, <2>3, <2>4 DEF OwnArray
<1>10. ASSUME NEW r \in Requests, BatchBlock(r)
       PROVE  \A b \in Batches : \A i \in 1 .. Size[b] :
                Open(<<b, i>>)' => OwnArray(b)'
  <2>0. PICK c \in Batches : \E k \in 1 .. Size[c] : r = <<c, k>>
    BY <1>10, BatchBlockEffect, BatchRequestParts
  <2>00. PICK k \in 1 .. Size[c] : r = <<c, k>>
    BY <2>0
  <2>1. /\ loop = NoBatch /\ loop' = loop /\ objectKey' = objectKey
        /\ status' = [status EXCEPT ![<<c, k>>] = "handled"]
    BY <1>10, <2>00, BatchBlockEffect
  <2>2. Open(<<c, k>>)
    <3>1. mainQueue # <<>> /\ mainQueue \in Seq(Requests) /\ r = mainQueue[1]
      BY <1>10, BatchBlockEffect, QueueParts DEF TypeOK
    <3>2. 1 \in DOMAIN mainQueue
      BY <3>1
    <3> QED
      BY <2>00, <3>1, <3>2 DEF QueueInv, Open
  <2>3. OwnArray(c)
    BY <1>1, <2>1, <2>2
  <2>4. /\ Len(dataSourece) = Size[c]
        /\ dataSourece' = [dataSourece EXCEPT ![k] = objectKey[<<c, k>>]]
    <3>1. Len(dataSourece) = Size[c] /\ ~(k > Len(dataSourece))
      BY <1>0, <2>1, <2>3 DEF OwnArray
    <3>2. FillSlot(r)
      BY <1>10, <2>00, <3>1, BatchBlockEffect
    <3> QED
      BY <2>00, <3>1, <3>2 DEF FillSlot
  <2>5. Len(dataSourece') = Len(dataSourece)
    BY <1>0, <2>4
  <2>6. \A d \in Batches : \A j \in 1 .. Size[d] : Open(<<d, j>>)' => Open(<<d, j>>)
    BY <1>0, <2>1 DEF Open
  <2>7. ASSUME NEW j \in 1 .. Len(dataSourece)
        PROVE  \/ Open(<<c, j>>)' /\ dataSourece'[j] = NotValue
               \/ /\ status'[<<c, j>>] = "handled"
                  /\ dataSourece'[j] = objectKey'[<<c, j>>]
    <3>1. j \in 1 .. Size[c] /\ <<c, j>> \in Requests /\ <<c, k>> \in Requests
      BY <1>0, <2>1, <2>4, <2>7
    <3>2. CASE j = k
      BY <1>0, <2>1, <2>4, <3>1, <3>2
    <3>3. CASE j # k
      <4>1. status'[<<c, j>>] = status[<<c, j>>] /\ dataSourece'[j] = dataSourece[j]
        BY <1>0, <2>1, <2>4, <3>1, <3>3
      <4> QED
        BY <2>1, <2>3, <4>1 DEF OwnArray, Open
    <3> QED
      BY <3>2, <3>3
  <2>8. OwnArray(c)'
    BY <2>1, <2>3, <2>4, <2>5, <2>6, <2>7 DEF OwnArray
  <2>9. \A d \in Batches : \A j \in 1 .. Size[d] : Open(<<d, j>>)' => d = c
    BY <2>3, <2>6 DEF OwnArray
  <2> QED
    BY <2>8, <2>9
<1> QED
  BY <1>4, <1>5, <1>6, <1>7, <1>8, <1>9, <1>10 DEF Next, App, MainQueue

\* The URLs of the images of a batch, in their order.
OwnUrls(b) == [i \in 1 .. Size[b] |-> objectKey[<<b, i>>]]

Finished(b) == \A i \in 1 .. Size[b] : status[<<b, i>>] = "handled"

\* A block of a batch that owns the array finds its slot, and reports the batch
\* if and only if it finishes it; it reports the images of the batch.
LEMMA BatchBlockReports ==
  ASSUME TypeOK, QueueInv, OwnArrayInv, ~Overlapping,
         NEW c \in Batches, NEW k \in 1 .. Size[c], BatchBlock(<<c, k>>)
  PROVE  /\ UNCHANGED <<crashed, objectKey>>
         /\ status' = [status EXCEPT ![<<c, k>>] = "handled"]
         /\ status[<<c, k>>] # "handled"
         /\ IF Finished(c)'
            THEN Answer(c, "success", OwnUrls(c))
            ELSE UNCHANGED answers
<1> DEFINE slots == [dataSourece EXCEPT ![k] = objectKey[<<c, k>>]]
<1>0. /\ dataSourece \in Seq(Slots) /\ Len(dataSourece) \in Nat
      /\ status \in [Requests -> Statuses] /\ objectKey \in [Requests -> Keys]
      /\ Size[c] \in Nat /\ NotValue \notin Keys
      /\ \A i \in 1 .. Size[c] : <<c, i>> \in Requests
  BY OSSAssumption, LenProperties, BatchRequestIntro DEF TypeOK, Keys
<1>1. /\ loop = NoBatch
      /\ UNCHANGED objectKey
      /\ status' = [status EXCEPT ![<<c, k>>] = "handled"]
  BY <1>0, BatchBlockEffect
<1>2. Open(<<c, k>>) /\ status[<<c, k>>] # "handled"
  <2>1. mainQueue # <<>> /\ mainQueue \in Seq(Requests) /\ <<c, k>> = mainQueue[1]
    BY <1>0, BatchBlockEffect, QueueParts DEF TypeOK
  <2>2. 1 \in DOMAIN mainQueue
    BY <2>1
  <2> QED
    BY <2>1, <2>2 DEF QueueInv, Open
<1>3. OwnArray(c)
  BY <1>2 DEF OwnArrayInv, OwnArray
<1>4. Len(dataSourece) = Size[c] /\ ~(k > Len(dataSourece))
  BY <1>0, <1>1, <1>3 DEF OwnArray
<1>5. FillSlot(<<c, k>>)
  BY <1>0, <1>4, BatchBlockEffect
<1>6. /\ DOMAIN slots = 1 .. Size[c]
      /\ slots[k] = objectKey[<<c, k>>]
      /\ \A j \in 1 .. Size[c] : j # k => slots[j] = dataSourece[j]
  BY <1>0, <1>4
<1>7. /\ IF NotValue \in Range(slots) THEN UNCHANGED answers
         ELSE Answer(c, "success", slots)
      /\ UNCHANGED crashed
  BY <1>5 DEF FillSlot
<1>8. /\ status'[<<c, k>>] = "handled"
      /\ \A j \in 1 .. Size[c] : j # k => status'[<<c, j>>] = status[<<c, j>>]
  BY <1>0, <1>1
<1> HIDE DEF slots
<1>9. ASSUME Finished(c)'
      PROVE  NotValue \notin Range(slots) /\ slots = OwnUrls(c)
  <2>1. ASSUME NEW j \in 1 .. Size[c]
        PROVE  slots[j] = objectKey[<<c, j>>]
    <3>1. CASE j = k
      BY <1>6, <3>1
    <3>2. CASE j # k
      <4>1. status[<<c, j>>] = "handled"
        BY <1>8, <1>9, <3>2 DEF Finished
      <4>2. dataSourece[j] = objectKey[<<c, j>>]
        BY <1>3, <1>4, <4>1 DEF OwnArray, Open
      <4> QED
        BY <1>6, <3>2, <4>2
    <3> QED
      BY <3>1, <3>2
  <2>2. slots = OwnUrls(c)
    <3>1. slots = [j \in DOMAIN slots |-> slots[j]]
      BY DEF slots
    <3> QED
      BY <1>6, <2>1, <3>1 DEF OwnUrls
  <2>3. NotValue \notin Range(slots)
    <3>1. \A j \in 1 .. Size[c] : slots[j] \in Keys
      BY <1>0, <2>1
    <3> QED
      BY <1>0, <1>6, <3>1 DEF Range
  <2> QED
    BY <2>2, <2>3
<1>10. ASSUME ~Finished(c)'
       PROVE  NotValue \in Range(slots)
  <2>1. PICK j \in 1 .. Size[c] : status'[<<c, j>>] # "handled"
    BY <1>10 DEF Finished
  <2>2. j # k /\ status[<<c, j>>] # "handled"
    BY <1>8, <2>1
  <2>3. dataSourece[j] = NotValue
    BY <1>3, <1>4, <2>2 DEF OwnArray
  <2> QED
    BY <1>6, <2>2, <2>3 DEF Range
<1> QED
  BY <1>1, <1>2, <1>7, <1>9, <1>10

\* A batch is only reported by the block that finishes it.
LEMMA AnsweredInvStep ==
  ASSUME TypeOK, QueueInv, LoopInv, OwnArrayInv, AnsweredInv, [Next]_vars,
         ~Overlapping
  PROVE  AnsweredInv'
<1>0. /\ status \in [Requests -> Statuses] /\ answers \in [Calls -> Seq(Answers)]
      /\ \A b \in Batches : b \in Calls
      /\ \A b \in Batches : \A i \in 1 .. Size[b] : <<b, i>> \in Requests
  BY BatchRequestIntro DEF TypeOK, Calls
<1>1. ASSUME \A b \in Batches :
               /\ answers'[b] = answers[b]
               /\ \A i \in 1 .. Size[b] :
                    status[<<b, i>>] = "handled" => status'[<<b, i>>] = "handled"
      PROVE  AnsweredInv'
  BY <1>1 DEF AnsweredInv
<1>2. ASSUME NEW r \in Requests, Network(r)
      PROVE  AnsweredInv'
  BY <1>0, <1>1, <1>2, NetworkEffect
<1>3. ASSUME NEW b \in Batches, UploadOneImage(b)
      PROVE  AnsweredInv'
  BY <1>0, <1>1, <1>3, UploadOneImageEffect
<1>4. ASSUME NEW s \in Singles, UpLoadImageWithImageData(s)
      PROVE  AnsweredInv'
  BY <1>0, <1>1, <1>4, SingleStartEffect
<1>5. CASE UNCHANGED vars \/ Tick \/ SetClient
  BY <1>1, <1>5 DEF vars, Tick, SetClient, netVars, appVars
<1>6. ASSUME NEW b \in Batches, UpLoadImageWithImageDataArray(b)
      PROVE  AnsweredInv'
  BY <1>1, <1>6 DEF UpLoadImageWithImageDataArray, netVars
<1>7. ASSUME NEW r \in Requests, SingleBlock(r)
      PROVE  AnsweredInv'
  BY <1>0, <1>1, <1>7, SingleBlockEffect
<1>8. ASSUME NEW c \in Batches, NEW k \in 1 .. Size[c], BatchBlock(<<c, k>>)
      PROVE  AnsweredInv'
  <2>1. /\ status' = [status EXCEPT ![<<c, k>>] = "handled"]
        /\ IF Finished(c)' THEN Answer(c, "success", OwnUrls(c)) ELSE UNCHANGED answers
    BY <1>8, BatchBlockReports
  <2>2. \A b \in Batches : b # c => answers'[b] = answers[b]
    BY <1>0, <2>1 DEF Answer
  <2>3. \A b \in Batches : \A i \in 1 .. Size[b] :
          status[<<b, i>>] = "handled" => status'[<<b, i>>] = "handled"
    BY <1>0, <2>1
  <2>4. Finished(c)' \/ UNCHANGED answers
    BY <2>1
  <2> QED
    BY <2>2, <2>3, <2>4 DEF AnsweredInv, Finished
<1>9. ASSUME NEW r \in Requests, BatchBlock(r)
      PROVE  AnsweredInv'
  <2>1. PICK c \in Batches : \E k \in 1 .. Size[c] : r = <<c, k>>
    BY <1>9, BatchBlockEffect, BatchRequestParts
  <2> QED
    BY <1>8, <1>9, <2>1
<1> QED
  BY <1>2, <1>3, <1>4, <1>5, <1>6, <1>7, <1>9 DEF Next, App, MainQueue

\* The invariant is inductive: see QueueInv, LoopInv, UniformInv, OwnArrayInv and
\* AnsweredInv for what each part says of AliyunOSSTool.
THEOREM BatchInvariant == Spec => []BatchInv
<1>1. Init => BatchInv
  <2> SUFFICES ASSUME Init
               PROVE  BatchInv
    OBVIOUS
  <2>1. \A b \in Batches : \A i \in 1 .. Size[b] : status[<<b, i>>] = "idle"
    BY BatchRequestIntro DEF Init
  <2>2. \A b \in Batches : answers[b] = <<>>
    BY DEF Init, Calls
  <2>3. mainQueue = <<>> /\ loop = NoBatch
    BY DEF Init
  <2>4. QueueInv /\ LoopInv
    BY <2>3 DEF QueueInv, LoopInv
  <2>5. UniformInv
    BY <2>1 DEF UniformInv
  <2>6. OwnArrayInv
    BY <2>1 DEF OwnArrayInv, Open
  <2>7. AnsweredInv
    BY <2>2 DEF AnsweredInv
  <2> QED
    BY <2>4, <2>5, <2>6, <2>7 DEF BatchInv
<1>2. TypeOK /\ BatchInv /\ [Next]_vars => BatchInv'
  <2> SUFFICES ASSUME TypeOK, BatchInv, [Next]_vars
               PROVE  BatchInv'
    OBVIOUS
  <2>1. QueueInv'
    BY QueueInvStep DEF BatchInv
  <2>2. LoopInv'
    BY LoopInvStep DEF BatchInv
  <2>3. UniformInv'
    BY UniformInvStep DEF BatchInv
  <2>4. OwnArrayInv'
    <3>1. CASE ~Overlapping
      BY <3>1, OwnArrayInvStep DEF BatchInv
    <3>2. CASE Overlapping
      BY <3>2 DEF OwnArrayInv
    <3> QED
      BY <3>1, <3>2
  <2>5. AnsweredInv'
    <3>1. CASE ~Overlapping
      BY <3>1, AnsweredInvStep DEF BatchInv
    <3>2. CASE Overlapping
      BY <3>2 DEF AnsweredInv
    <3> QED
      BY <3>1, <3>2
  <2> QED
    BY <2>1, <2>2, <2>3, <2>4, <2>5 DEF BatchInv
<1> QED
  BY <1>1, <1>2, TypeCorrect, PTL DEF Spec

------------------------------------------------------------------------------
(* What callers rely on, when batches do not overlap.                       *)

\* replaceObjectAtIndex: stays inside the array.
THEOREM NoCrashTheorem ==
  ASSUME ~Overlapping
  PROVE  Spec => []NoCrash
<1>1. Init => NoCrash
  BY DEF Init, NoCrash
<1>2. TypeOK /\ BatchInv /\ NoCrash /\ [Next]_vars => NoCrash'
  <2> SUFFICES ASSUME TypeOK, BatchInv, NoCrash, [Next]_vars
               PROVE  UNCHANGED crashed
    BY DEF NoCrash
  <2>1. ASSUME NEW r \in Requests, BatchBlock(r)
        PROVE  UNCHANGED crashed
    <3>1. PICK c \in Batches : \E k \in 1 .. Size[c] : r = <<c, k>>
      BY <2>1, BatchBlockEffect, BatchRequestParts
    <3> QED
      BY <2>1, <3>1, BatchBlockReports DEF BatchInv
  <2>2. ASSUME NEW r \in Requests, SingleBlock(r) \/ Network(r)
        PROVE  UNCHANGED crashed
    BY <2>2, NetworkEffect, SingleBlockEffect
  <2>3. ASSUME App
        PROVE  UNCHANGED crashed
    BY <2>3 DEF App, Tick, SetClient, UpLoadImageWithImageDataArray, UploadOneImage,
       UpLoadImageWithImageData, appVars
  <2> QED
    BY <2>1, <2>2, <2>3 DEF Next, MainQueue, vars
<1> QED
  BY <1>1, <1>2, TypeCorrect, BatchInvariant, PTL DEF Spec

\* The keys of a batch that was answered stay as they are.
LEMMA AnsweredKeysFixed ==
  ASSUME TypeOK, BatchInv, [Next]_vars, ~Overlapping,
         NEW b \in Batches, Finished(b), NEW i \in 1 .. Size[b]
  PROVE  objectKey'[<<b, i>>] = objectKey[<<b, i>>]
<1>1. status[<<b, i>>] = "handled" /\ <<b, i>> \in Requests
  BY BatchRequestIntro DEF Finished
<1>2. ASSUME NEW d \in Batches, UploadOneImage(d)
      PROVE  objectKey'[<<b, i>>] = objectKey[<<b, i>>]
  BY <1>1, <1>2, UploadOneImageEffect DEF BatchInv
<1>3. ASSUME NEW s \in Singles, UpLoadImageWithImageData(s)
      PROVE  objectKey'[<<b, i>>] = objectKey[<<b, i>>]
  BY <1>1, <1>3, SingleStartEffect
<1>4. ASSUME NEW r \in Requests, Network(r) \/ BatchBlock(r) \/ SingleBlock(r)
      PROVE  objectKey' = objectKey
  BY <1>4, NetworkEffect, BatchBlockEffect, SingleBlockEffect
<1>5. ASSUME NEW d \in Batches, UpLoadImageWithImageDataArray(d)
      PROVE  objectKey' = objectKey
  BY <1>5 DEF UpLoadImageWithImageDataArray, netVars
<1>6. CASE UNCHANGED vars \/ Tick \/ SetClient
  BY <1>6 DEF vars, Tick, SetClient, netVars
<1> QED
  BY <1>2, <1>3, <1>4, <1>5, <1>6 DEF Next, App, MainQueue

\* The answers to a batch change only when a block of it finishes it.
LEMMA AnswersChange ==
  ASSUME TypeOK, BatchInv, [Next]_vars, ~Overlapping, NEW b \in Batches
  PROVE  \/ answers'[b] = answers[b]
         \/ /\ Finished(b)'
            /\ \A i \in 1 .. Size[b] : objectKey'[<<b, i>>] = objectKey[<<b, i>>]
            /\ answers'[b] = Append(answers[b],
                                    [block |-> "success", urls |-> OwnUrls(b)])
<1>0. answers \in [Calls -> Seq(Answers)] /\ b \in Calls
  BY DEF TypeOK, Calls
<1>1. ASSUME NEW c \in Batches, NEW k \in 1 .. Size[c], BatchBlock(<<c, k>>)
      PROVE  \/ answers'[b] = answers[b]
             \/ /\ Finished(b)'
                /\ \A i \in 1 .. Size[b] : objectKey'[<<b, i>>] = objectKey[<<b, i>>]
                /\ answers'[b] = Append(answers[b],
                                        [block |-> "success", urls |-> OwnUrls(b)])
  <2>1. /\ UNCHANGED objectKey
        /\ IF Finished(c)' THEN Answer(c, "success", OwnUrls(c)) ELSE UNCHANGED answers
    BY <1>1, BatchBlockReports DEF BatchInv
  <2> QED
    BY <1>0, <2>1 DEF Answer
<1>2. ASSUME NEW r \in Requests, BatchBlock(r)
      PROVE  \E c \in Batches : \E k \in 1 .. Size[c] : BatchBlock(<<c, k>>)
  <2>1. PICK c \in Batches : \E k \in 1 .. Size[c] : r = <<c, k>>
    BY <1>2, BatchBlockEffect, BatchRequestParts
  <2> QED
    BY <1>2, <2>1
<1>3. ASSUME NEW r \in Requests, Network(r) \/ SingleBlock(r)
      PROVE  answers'[b] = answers[b]
  BY <1>3, NetworkEffect, SingleBlockEffect
<1>4. ASSUME App \/ UNCHANGED vars
      PROVE  answers' = answers
  BY <1>4 DEF App, Tick, SetClient, UpLoadImageWithImageDataArray, UploadOneImage,
     UpLoadImageWithImageData, appVars, vars
<1> QED
  BY <1>1, <1>2, <1>3, <1>4 DEF Next, MainQueue

\* A success block gets the URLs of all images of its own batch, in order.
THEOREM AnswerTheorem ==
  ASSUME ~Overlapping
  PROVE  Spec => []AnswerIsOwnImages
<1>1. Init => AnswerIsOwnImages
  BY DEF Init, AnswerIsOwnImages, Calls
<1>2. TypeOK /\ BatchInv /\ AnswerIsOwnImages /\ [Next]_vars => AnswerIsOwnImages'
  <2> SUFFICES ASSUME TypeOK, BatchInv, AnswerIsOwnImages, [Next]_vars,
                      NEW b \in Batches, NEW k \in DOMAIN answers'[b]
               PROVE  answers'[b][k] = [block |-> "success", urls |-> OwnUrls(b)']
    BY DEF AnswerIsOwnImages, OwnUrls
  <2>1. /\ answers[b] \in Seq(Answers)
        /\ \A j \in DOMAIN answers[b] :
             answers[b][j] = [block |-> "success", urls |-> OwnUrls(b)]
    BY DEF AnswerIsOwnImages, OwnUrls, TypeOK, Calls
  <2>2. CASE answers'[b] = answers[b]
    <3>1. answers[b] # <<>>
      BY <2>2
    <3>2. Finished(b)
      BY <3>1 DEF BatchInv, AnsweredInv, Finished
    <3>3. OwnUrls(b)' = OwnUrls(b)
      BY <3>2, AnsweredKeysFixed DEF OwnUrls
    <3> QED
      BY <2>1, <2>2, <3>3
  <2>3. CASE /\ \A i \in 1 .. Size[b] : objectKey'[<<b, i>>] = objectKey[<<b, i>>]
             /\ answers'[b] = Append(answers[b],
                                     [block |-> "success", urls |-> OwnUrls(b)])
    <3>1. OwnUrls(b)' = OwnUrls(b)
      BY <2>3 DEF OwnUrls
    <3> DEFINE answer == [block |-> "success", urls |-> OwnUrls(b)]
    <3> HIDE DEF answer
    <3>2. answers'[b] = Append(answers[b], answer)
      BY <2>3 DEF answer
    <3>3. answers'[b][k] = answer
      BY <2>1, <3>2 DEF answer
    <3> QED
      BY <3>1, <3>3 DEF answer
  <2> QED
    BY <2>2, <2>3, AnswersChange
<1> QED
  BY <1>1, <1>2, TypeCorrect, BatchInvariant, PTL DEF Spec

------------------------------------------------------------------------------
(* Batches that do not overlap keep the promise of BatchPromise.            *)

\* The images of a batch whose block ran: the refinement mapping.
FinishedImages == [b \in Batches |-> {i \in 1 .. Size[b] : status[<<b, i>>] = "handled"}]
AnswerCount == [b \in Batches |-> Len(answers[b])]

\* A block of a batch is the step that finishes its image.
LEMMA BlockFinishes ==
  ASSUME TypeOK, BatchInv, ~Overlapping,
         NEW c \in Batches, NEW k \in 1 .. Size[c], BatchBlock(<<c, k>>)
  PROVE  Promise!Finish(c, k)
<1>0. /\ status \in [Requests -> Statuses] /\ answers \in [Calls -> Seq(Answers)]
      /\ \A b \in Batches : b \in Calls
      /\ \A b \in Batches : \A i \in 1 .. Size[b] : <<b, i>> \in Requests
  BY BatchRequestIntro DEF TypeOK, Calls
<1>1. /\ status' = [status EXCEPT ![<<c, k>>] = "handled"]
      /\ status[<<c, k>>] # "handled"
      /\ IF Finished(c)' THEN Answer(c, "success", OwnUrls(c)) ELSE UNCHANGED answers
  BY BatchBlockReports DEF BatchInv
<1>2. k \notin FinishedImages[c]
  BY <1>1 DEF FinishedImages
<1>3. FinishedImages' = [FinishedImages EXCEPT ![c] = @ \cup {k}]
  <2>1. ASSUME NEW b \in Batches
        PROVE  FinishedImages'[b] =
                 IF b = c THEN FinishedImages[c] \cup {k} ELSE FinishedImages[b]
    <3>1. \A i \in 1 .. Size[b] : status'[<<b, i>>] = "handled" <=>
            status[<<b, i>>] = "handled" \/ (b = c /\ i = k)
      BY <1>0, <1>1
    <3> QED
      BY <3>1 DEF FinishedImages
  <2> QED
    BY <2>1 DEF FinishedImages
<1>4. Finished(c)' <=> FinishedImages'[c] = 1 .. Size[c]
  BY DEF Finished, FinishedImages
<1>5. AnswerCount' = IF FinishedImages'[c] = 1 .. Size[c]
                     THEN [AnswerCount EXCEPT ![c] = @ + 1]
                     ELSE AnswerCount
  <2>1. CASE Finished(c)'
    <3> DEFINE answer == [block |-> "success", urls |-> OwnUrls(c)]
    <3>1. answers' = [answers EXCEPT ![c] = Append(@, answer)]
      BY <1>1, <2>1 DEF Answer
    <3> HIDE DEF answer
    <3>2. Len(Append(answers[c], answer)) = Len(answers[c]) + 1
      BY <1>0
    <3>3. \A b \in Batches : AnswerCount'[b] =
            IF b = c THEN AnswerCount[c] + 1 ELSE AnswerCount[b]
      BY <1>0, <3>1, <3>2 DEF AnswerCount
    <3> QED
      BY <1>4, <2>1, <3>3 DEF AnswerCount
  <2>2. CASE ~Finished(c)'
    BY <1>1, <1>4, <2>2 DEF AnswerCount
  <2> QED
    BY <2>1, <2>2
<1> QED
  BY <1>2, <1>3, <1>5 DEF Promise!Finish, FinishedImages, AnswerCount

\* Every other step leaves the promise as it is.
LEMMA OthersStutter ==
  ASSUME TypeOK, BatchInv,
         \/ App
         \/ \E r \in Requests : Network(r) \/ SingleBlock(r)
         \/ UNCHANGED vars
  PROVE  UNCHANGED Promise!promiseVars
<1>0. /\ status \in [Requests -> Statuses]
      /\ \A b \in Batches : \A i \in 1 .. Size[b] : <<b, i>> \in Requests
  BY BatchRequestIntro DEF TypeOK
<1>1. ASSUME \A b \in Batches :
               /\ answers'[b] = answers[b]
               /\ \A i \in 1 .. Size[b] :
                    status'[<<b, i>>] = "handled" <=> status[<<b, i>>] = "handled"
      PROVE  UNCHANGED Promise!promiseVars
  BY <1>1 DEF Promise!promiseVars
<1>2. ASSUME NEW b \in Batches, UploadOneImage(b)
      PROVE  UNCHANGED Promise!promiseVars
  BY <1>0, <1>1, <1>2, UploadOneImageEffect DEF BatchInv
<1>3. ASSUME NEW s \in Singles, UpLoadImageWithImageData(s)
      PROVE  UNCHANGED Promise!promiseVars
  BY <1>0, <1>1, <1>3, SingleStartEffect
<1>4. ASSUME NEW r \in Requests, Network(r)
      PROVE  UNCHANGED Promise!promiseVars
  BY <1>0, <1>1, <1>4, NetworkEffect
<1>5. ASSUME NEW r \in Requests, SingleBlock(r)
      PROVE  UNCHANGED Promise!promiseVars
  BY <1>0, <1>1, <1>5, SingleBlockEffect, Disjoint
<1>6. ASSUME NEW b \in Batches, UpLoadImageWithImageDataArray(b)
      PROVE  UNCHANGED Promise!promiseVars
  BY <1>1, <1>6 DEF UpLoadImageWithImageDataArray, netVars
<1>7. CASE UNCHANGED vars \/ Tick \/ SetClient
  BY <1>1, <1>7 DEF vars, Tick, SetClient, netVars, appVars
<1> QED
  BY <1>2, <1>3, <1>4, <1>5, <1>6, <1>7 DEF App

\* A batch is answered once, by the main queue block that finishes its last
\* image, never earlier and never by another batch.
THEOREM PromiseTheorem ==
  ASSUME ~Overlapping
  PROVE  Spec => PromiseKept
<1>1. Init => Promise!PromiseInit
  <2> SUFFICES ASSUME Init
               PROVE  Promise!PromiseInit
    OBVIOUS
  <2>1. \A b \in Batches : \A i \in 1 .. Size[b] : status[<<b, i>>] = "idle"
    BY BatchRequestIntro DEF Init
  <2>2. \A b \in Batches : Len(answers[b]) = 0
    BY DEF Init, Calls
  <2> QED
    BY <2>1, <2>2 DEF Promise!PromiseInit
<1>2. TypeOK /\ BatchInv /\ [Next]_vars => [Promise!PromiseNext]_Promise!promiseVars
  <2> SUFFICES ASSUME TypeOK, BatchInv, [Next]_vars
               PROVE  [Promise!PromiseNext]_Promise!promiseVars
    OBVIOUS
  <2>1. ASSUME NEW r \in Requests, BatchBlock(r)
        PROVE  Promise!PromiseNext
    <3>1. PICK c \in Batches : \E k \in 1 .. Size[c] : r = <<c, k>>
      BY <2>1, BatchBlockEffect, BatchRequestParts
    <3>2. PICK k \in 1 .. Size[c] : r = <<c, k>>
      BY <3>1
    <3>3. Promise!Finish(c, k)
      BY <2>1, <3>2, BlockFinishes
    <3> QED
      BY <3>3 DEF Promise!PromiseNext
  <2> QED
    BY <2>1, OthersStutter DEF Next, MainQueue
<1> QED
  BY <1>1, <1>2, TypeCorrect, BatchInvariant, PTL DEF Spec, PromiseKept, Promise!PromiseSpec

------------------------------------------------------------------------------
(* Properties that survive overlapping batches.                             *)

\* A step that keeps the handled requests as they are keeps a slot aligned.
LEMMA SlotStays ==
  ASSUME TypeOK, SlotsAligned,
         \A b \in Batches : \A i \in 1 .. Size[b] : status[<<b, i>>] = "handled" =>
           status'[<<b, i>>] = "handled" /\ objectKey'[<<b, i>>] = objectKey[<<b, i>>],
         NEW i \in 1 .. Len(dataSourece), dataSourece[i] # NotValue
  PROVE  \E b \in Batches :
           /\ i <= Size[b]
           /\ status'[<<b, i>>] = "handled"
           /\ dataSourece[i] = objectKey'[<<b, i>>]
<1>1. PICK b \in Batches : /\ i <= Size[b]
                           /\ status[<<b, i>>] = "handled"
                           /\ dataSourece[i] = objectKey[<<b, i>>]
  <2>1. i \in DOMAIN dataSourece
    BY LenProperties DEF TypeOK
  <2> QED
    BY <2>1 DEF SlotsAligned
<1>2. i \in 1 .. Size[b]
  BY <1>1, OSSAssumption
<1> QED
  BY <1>1, <1>2

\* Every slot of the shared array that is filled is filled for its position.
THEOREM SlotsTheorem == Spec => []SlotsAligned
<1>1. Init => SlotsAligned
  BY DEF Init, SlotsAligned
<1>2. TypeOK /\ BatchInv /\ SlotsAligned /\ [Next]_vars => SlotsAligned'
  <2> SUFFICES ASSUME TypeOK, BatchInv, SlotsAligned, [Next]_vars
               PROVE  SlotsAligned'
    OBVIOUS
  <2>0. /\ dataSourece \in Seq(Slots) /\ Len(dataSourece) \in Nat
        /\ status \in [Requests -> Statuses]
        /\ \A b \in Batches : Size[b] \in Nat
        /\ \A b \in Batches : \A i \in 1 .. Size[b] : <<b, i>> \in Requests
    BY OSSAssumption, LenProperties, BatchRequestIntro DEF TypeOK
  <2>2. ASSUME UNCHANGED dataSourece,
               \A b \in Batches : \A i \in 1 .. Size[b] : status[<<b, i>>] = "handled" =>
                 /\ status'[<<b, i>>] = "handled"
                 /\ objectKey'[<<b, i>>] = objectKey[<<b, i>>]
        PROVE  SlotsAligned'
    <3>1. DOMAIN dataSourece' = 1 .. Len(dataSourece)
      BY <2>0, <2>2, LenProperties
    <3> QED
      BY <2>2, <3>1, SlotStays DEF SlotsAligned
  <2>3. ASSUME NEW r \in Requests, Network(r) \/ SingleBlock(r)
        PROVE  SlotsAligned'
    BY <2>0, <2>2, <2>3, NetworkEffect, SingleBlockEffect
  <2>4. ASSUME NEW s \in Singles, UpLoadImageWithImageData(s)
        PROVE  SlotsAligned'
    BY <2>0, <2>2, <2>4, SingleStartEffect
  <2>5. CASE UNCHANGED vars \/ Tick \/ SetClient
    BY <2>2, <2>5 DEF vars, Tick, SetClient, netVars, appVars
  <2>6. ASSUME NEW b \in Batches, UpLoadImageWithImageDataArray(b)
        PROVE  SlotsAligned'
    BY <2>6 DEF UpLoadImageWithImageDataArray, SlotsAligned
  <2>7. ASSUME NEW b \in Batches, UploadOneImage(b)
        PROVE  SlotsAligned'
    <3>1. \A d \in Batches : \A i \in 1 .. Size[d] : status[<<d, i>>] = "handled" =>
            /\ status'[<<d, i>>] = "handled"
            /\ objectKey'[<<d, i>>] = objectKey[<<d, i>>]
      BY <2>0, <2>7, UploadOneImageEffect DEF BatchInv
    <3>2. dataSourece' = Append(dataSourece, NotValue)
      BY <2>7 DEF UploadOneImage
    <3>3. \A i \in DOMAIN dataSourece' : dataSourece'[i] # NotValue =>
            i \in 1 .. Len(dataSourece) /\ dataSourece'[i] = dataSourece[i]
      BY <2>0, <3>2
    <3> QED
      BY <3>1, <3>3, SlotStays DEF SlotsAligned
  <2>8. ASSUME NEW r \in Requests, BatchBlock(r)
        PROVE  SlotsAligned'
    <3>1. PICK c \in Batches : \E k \in 1 .. Size[c] : r = <<c, k>>
      BY <2>8, BatchBlockEffect, BatchRequestParts
    <3>2. PICK k \in 1 .. Size[c] : r = <<c, k>>
      BY <3>1
    <3>3. /\ status' = [status EXCEPT ![<<c, k>>] = "handled"]
          /\ objectKey' = objectKey
      BY <2>8, <3>2, BatchBlockEffect
    <3>4. \A b \in Batches : \A i \in 1 .. Size[b] : status[<<b, i>>] = "handled" =>
            /\ status'[<<b, i>>] = "handled"
            /\ objectKey'[<<b, i>>] = objectKey[<<b, i>>]
      BY <2>0, <3>3
    <3>5. CASE OutOfRange
      BY <2>2, <3>4, <3>5 DEF OutOfRange
    <3>6. CASE FillSlot(<<c, k>>)
      <4>1. dataSourece' = [dataSourece EXCEPT ![k] = objectKey[<<c, k>>]]
        BY <3>6 DEF FillSlot
      <4>2. ASSUME NEW i \in DOMAIN dataSourece', dataSourece'[i] # NotValue, i # k
            PROVE  i \in 1 .. Len(dataSourece) /\ dataSourece'[i] = dataSourece[i]
        BY <2>0, <4>1, <4>2
      <4>3. ASSUME k \in DOMAIN dataSourece'
            PROVE  /\ k <= Size[c]
                   /\ status'[<<c, k>>] = "handled"
                   /\ dataSourece'[k] = objectKey'[<<c, k>>]
        BY <2>0, <3>3, <4>1, <4>3
      <4> QED
        BY <3>4, <4>2, <4>3, SlotStays DEF SlotsAligned
    <3> QED
      BY <2>8, <3>2, <3>5, <3>6, BatchBlockEffect
  <2> QED
    BY <2>3, <2>4, <2>5, <2>6, <2>7, <2>8 DEF Next, App, MainQueue
<1> QED
  BY <1>1, <1>2, TypeCorrect, BatchInvariant, PTL DEF Spec

------------------------------------------------------------------------------
(* Object keys, whatever overlaps.                                          *)

\* Each image further adds at least one to the offset of a key.
LEMMA OffsetGrows ==
  ASSUME NEW m \in Nat \ {0}, NEW i \in Nat, NEW j \in Nat, i < j
  PROVE  m * i \in Nat /\ m * j \in Nat /\ m * i < m * j
<1>1. PICK d \in Nat \ {0} : j = i + d
  <2>1. j - i \in Nat \ {0} /\ j = i + (j - i)
    OBVIOUS
  <2> QED
    BY <2>1
<1>2. m * d > 0 /\ m * d \in Nat /\ m * i \in Nat
  OBVIOUS
<1>3. m * j = m * i + m * d
  BY <1>1
<1> QED
  BY <1>2, <1>3

\* The keys of a batch increase with the position of the image.
LEMMA KeyInvStep ==
  ASSUME TypeOK, QueueInv, LoopInv, KeyInv, [Next]_vars
  PROVE  KeyInv'
<1>0. /\ dataSourece \in Seq(Slots) /\ Len(dataSourece) \in Nat
      /\ status \in [Requests -> Statuses]
      /\ objectKey \in [Requests -> Keys]
      /\ clock \in Nat /\ KeyStep \in Nat \ {0}
      /\ \A b \in Batches : Size[b] \in Nat
      /\ \A b \in Batches : \A i \in 1 .. Size[b] :
           <<b, i>> \in Requests /\ objectKey[<<b, i>>][2] \in Nat
  BY OSSAssumption, LenProperties, BatchRequestIntro DEF TypeOK, Keys
<1>1. ASSUME clock' = clock \/ clock' = clock + 1,
             \A b \in Batches : \A i \in 1 .. Size[b] :
               /\ status[<<b, i>>] = "idle" => status'[<<b, i>>] = "idle"
               /\ objectKey'[<<b, i>>] = objectKey[<<b, i>>]
      PROVE  KeyInv'
  <2> SUFFICES ASSUME NEW b \in Batches, NEW j \in 1 .. Size[b],
                      status'[<<b, j>>] # "idle"
               PROVE  /\ objectKey'[<<b, j>>][2] <= clock' + KeyStep * (j - 1)
                      /\ \A i \in 1 .. j - 1 :
                           objectKey'[<<b, i>>][2] < objectKey'[<<b, j>>][2]
    BY DEF KeyInv
  <2>1. /\ objectKey[<<b, j>>][2] <= clock + KeyStep * (j - 1)
        /\ \A i \in 1 .. j - 1 : objectKey[<<b, i>>][2] < objectKey[<<b, j>>][2]
    BY <1>1 DEF KeyInv
  <2>2. \A i \in 1 .. j - 1 : i \in 1 .. Size[b]
    BY <1>0
  <2>3. KeyStep * (j - 1) \in Nat
    <3>1. j - 1 \in Nat /\ KeyStep \in Nat
      BY <1>0
    <3> QED
      BY <3>1, NatProduct
  <2> DEFINE offset == KeyStep * (j - 1)
  <2>4. objectKey[<<b, j>>][2] <= clock' + offset
    <3> HIDE DEF offset
    <3>1. objectKey[<<b, j>>][2] <= clock + offset /\ offset \in Nat
      BY <2>1, <2>3 DEF offset
    <3> QED
      BY <1>0, <1>1, <3>1
  <2> QED
    BY <1>1, <2>1, <2>2, <2>4
<1>2. ASSUME NEW r \in Requests, Network(r) \/ SingleBlock(r) \/ BatchBlock(r)
      PROVE  KeyInv'
  <2>1. clock' = clock
    BY <1>2 DEF Network, PutSucceeds, PutCorrupted, PutRejected, PutInterrupted, MayRetry,
       SingleBlock, BatchBlock, NextBlock
  <2>2. status[r] # "idle"
    BY <1>2, NetworkEffect, SingleBlockEffect, BatchBlockEffect, HeadIsFinished
  <2>3. /\ UNCHANGED objectKey
        /\ \A q \in Requests : q # r => status'[q] = status[q]
    BY <1>0, <1>2, NetworkEffect, SingleBlockEffect, BatchBlockEffect
  <2> QED
    BY <1>0, <1>1, <2>1, <2>2, <2>3
<1>3. ASSUME NEW s \in Singles, UpLoadImageWithImageData(s)
      PROVE  KeyInv'
  BY <1>0, <1>1, <1>3, SingleStartEffect, Disjoint DEF UpLoadImageWithImageData
<1>4. CASE UNCHANGED vars \/ Tick \/ SetClient
  BY <1>1, <1>4 DEF vars, Tick, SetClient, netVars, appVars
<1>5. ASSUME NEW b \in Batches, UpLoadImageWithImageDataArray(b)
      PROVE  KeyInv'
  BY <1>1, <1>5 DEF UpLoadImageWithImageDataArray, netVars
<1>6. ASSUME NEW b \in Batches, UploadOneImage(b)
      PROVE  KeyInv'
  <2> DEFINE n == Len(dataSourece)
  <2>1. /\ loop = b /\ loop # NoBatch /\ n + 1 \in 1 .. Size[b]
        /\ <<b, n + 1>> \in Requests
        /\ \A q \in Requests : q # <<b, n + 1>> =>
             status'[q] = status[q] /\ objectKey'[q] = objectKey[q]
        /\ clock' = clock
    BY <1>0, <1>6, UploadOneImageEffect DEF UploadOneImage
  <2>2. objectKey'[<<b, n + 1>>] = <<"customer", clock + KeyStep * n>>
    BY <1>0, <1>6, <2>1 DEF UploadOneImage, PutObject, BatchKey
  <2>3. \A i \in 1 .. Size[b] : i > n + 1 => status'[<<b, i>>] = "idle"
    <3>1. ASSUME NEW i \in 1 .. Size[b], i > n + 1
          PROVE  status'[<<b, i>>] = "idle"
      <4>1. i \in n + 1 .. Size[b]
        BY <1>0, <3>1
      <4> QED
        BY <1>0, <2>1, <3>1, <4>1 DEF LoopInv
    <3> QED
      BY <3>1
  <2>4. ASSUME NEW i \in 1 .. n
        PROVE  objectKey'[<<b, i>>][2] < objectKey'[<<b, n + 1>>][2]
    <3>1. i \in 1 .. Size[b] /\ <<b, i>> # <<b, n + 1>>
      BY <1>0, <2>1
    <3>2. status[<<b, i>>] # "idle"
      BY <2>1 DEF LoopInv, Open
    <3>3. objectKey[<<b, i>>][2] <= clock + KeyStep * (i - 1)
      BY <3>1, <3>2 DEF KeyInv
    <3> DEFINE low == KeyStep * (i - 1)
               high == KeyStep * n
    <3>4. low \in Nat /\ high \in Nat /\ low < high
      <4>1. i - 1 \in Nat /\ n \in Nat /\ i - 1 < n
        BY <1>0
      <4> QED
        BY <1>0, <4>1, OffsetGrows
    <3>5. /\ objectKey'[<<b, i>>][2] <= clock + low
          /\ objectKey'[<<b, n + 1>>][2] = clock + high
          /\ objectKey'[<<b, i>>][2] \in Nat
      BY <1>0, <2>1, <2>2, <3>1, <3>3
    <3> HIDE DEF low, high
    <3> QED
      BY <1>0, <3>4, <3>5
  <2> SUFFICES ASSUME NEW d \in Batches, NEW j \in 1 .. Size[d],
                      status'[<<d, j>>] # "idle"
               PROVE  /\ objectKey'[<<d, j>>][2] <= clock' + KeyStep * (j - 1)
                      /\ \A i \in 1 .. j - 1 :
                           objectKey'[<<d, i>>][2] < objectKey'[<<d, j>>][2]
    BY DEF KeyInv
  <2>5. CASE <<d, j>> = <<b, n + 1>>
    <3>1. objectKey'[<<d, j>>][2] <= clock' + KeyStep * (j - 1)
      <4>1. objectKey'[<<d, j>>][2] = clock + KeyStep * n /\ j - 1 = n
        BY <1>0, <2>2, <2>5
      <4> DEFINE offset == KeyStep * n
      <4>2. offset \in Nat
        BY <1>0, NatProduct
      <4>3. objectKey'[<<d, j>>][2] = clock + offset /\ offset = KeyStep * (j - 1)
        BY <4>1
      <4> HIDE DEF offset
      <4> QED
        BY <1>0, <2>1, <4>2, <4>3
    <3>2. d = b /\ j = n + 1 /\ \A i \in 1 .. j - 1 : i \in 1 .. n
      BY <1>0, <2>5
    <3> QED
      BY <2>4, <3>1, <3>2
  <2>6. CASE <<d, j>> # <<b, n + 1>>
    <3>1. status[<<d, j>>] # "idle"
      BY <1>0, <2>1, <2>6
    <3>2. \A i \in 1 .. j : <<d, i>> # <<b, n + 1>> /\ <<d, i>> \in Requests
      <4>1. d = b => j <= n + 1
        BY <1>0, <2>3
      <4> QED
        BY <1>0, <2>6, <4>1
    <3>3. /\ objectKey[<<d, j>>][2] <= clock + KeyStep * (j - 1)
          /\ \A i \in 1 .. j - 1 : objectKey[<<d, i>>][2] < objectKey[<<d, j>>][2]
      BY <3>1 DEF KeyInv
    <3>4. \A i \in 1 .. j : objectKey'[<<d, i>>] = objectKey[<<d, i>>]
      BY <2>1, <3>2
    <3>5. j \in 1 .. j /\ \A i \in 1 .. j - 1 : i \in 1 .. j
      BY <1>0
    <3> QED
      BY <2>1, <3>3, <3>4, <3>5
  <2> QED
    BY <2>5, <2>6
<1> QED
  BY <1>2, <1>3, <1>4, <1>5, <1>6 DEF Next, App, MainQueue

\* Two images of one batch never have the same key, and both calls use
\* directories of their own.
THEOREM KeysTheorem == Spec => []KeyInv
<1>1. Init => KeyInv
  BY BatchRequestIntro DEF Init, KeyInv
<1>2. TypeOK /\ BatchInv /\ KeyInv /\ [Next]_vars => KeyInv'
  BY KeyInvStep DEF BatchInv
<1> QED
  BY <1>1, <1>2, TypeCorrect, BatchInvariant, PTL DEF Spec

\* An image that was asked for shares its key with no other image of its call.
LEMMA KeysDiffer ==
  ASSUME TypeOK, KeyInv, NEW q \in Requests, NEW r \in Requests,
         q[1] = r[1], status[q] # "idle", status[r] # "idle",
         objectKey[q] = objectKey[r]
  PROVE  q = r
<1>0. objectKey \in [Requests -> Keys]
  BY DEF TypeOK
<1>1. CASE q \in SingleRequests
  BY <1>1, OSSAssumption, BatchRequestParts DEF SingleRequests, Requests
<1>2. CASE r \in SingleRequests
  BY <1>2, OSSAssumption, BatchRequestParts DEF SingleRequests, Requests
<1>3. CASE q \in BatchRequests /\ r \in BatchRequests
  <2>1. PICK b \in Batches : \E i \in 1 .. Size[b] : q = <<b, i>>
    BY <1>3, BatchRequestParts
  <2>2. PICK i \in 1 .. Size[b] : q = <<b, i>>
    BY <2>1
  <2>3. PICK j \in 1 .. Size[b] : r = <<b, j>>
    BY <1>3, <2>2, BatchRequestParts
  <2>4. /\ objectKey[<<b, i>>][2] \in Nat
        /\ objectKey[<<b, i>>] = objectKey[<<b, j>>]
        /\ Size[b] \in Nat
    BY <1>0, <2>2, <2>3, OSSAssumption DEF Keys
  <2>5. ~(i < j) /\ ~(j < i)
    BY <2>2, <2>3, <2>4 DEF KeyInv
  <2> QED
    BY <2>2, <2>3, <2>4, <2>5
<1> QED
  BY <1>1, <1>2, <1>3 DEF Requests

\* A saved image is never overwritten by an image of its own call.
THEOREM SavedTheorem == Spec => []SavedOnce
<1>1. Init => SavedOnce
  BY DEF Init, SavedOnce
<1>2. TypeOK /\ BatchInv /\ KeyInv /\ SavedOnce /\ [Next]_vars => SavedOnce'
  <2> SUFFICES ASSUME TypeOK, BatchInv, KeyInv, SavedOnce, [Next]_vars
               PROVE  SavedOnce'
    OBVIOUS
  <2>0. /\ status \in [Requests -> Statuses] /\ objectKey \in [Requests -> Keys]
        /\ bucket \subseteq [key : Keys, from : Requests, intact : BOOLEAN]
    BY DEF TypeOK
  <2>1. ASSUME UNCHANGED bucket,
               \A r \in Requests : status'[r] = "saved" =>
                 status[r] = "saved" /\ objectKey'[r] = objectKey[r]
        PROVE  SavedOnce'
    BY <2>1 DEF SavedOnce
  <2>2. ASSUME NEW q \in Requests, status[q] = "sending", NEW intact \in BOOLEAN,
               Store(q, intact), UNCHANGED objectKey,
               \A r \in Requests : r # q => status'[r] = status[r]
        PROVE  SavedOnce'
    <3> DEFINE object == [key |-> objectKey[q], from |-> q, intact |-> intact]
    <3>1. bucket' = {o \in bucket : o.key # objectKey[q]} \cup {object}
      BY <2>2 DEF Store
    <3>2. ASSUME NEW r \in Requests, status'[r] = "saved", objectKey[r] = objectKey[q]
          PROVE  r[1] = q[1] => q = r
      BY <2>2, <3>2, KeysDiffer
    <3>3. ASSUME NEW r \in Requests, status'[r] = "saved", objectKey[r] # objectKey[q]
          PROVE  \E o \in bucket' : /\ o.key = objectKey[r]
                                    /\ o.from[1] = r[1] => o.from = r
      <4>1. r # q /\ status[r] = "saved"
        BY <2>2, <3>3
      <4> QED
        BY <3>1, <3>3, <4>1 DEF SavedOnce
    <3>4. object \in bucket' /\ object.key = objectKey[q] /\ object.from = q
      BY <3>1
    <3> HIDE DEF object
    <3>5. ASSUME NEW r \in Requests, status'[r] = "saved"
          PROVE  \E o \in bucket' : /\ o.key = objectKey[r]
                                    /\ o.from[1] = r[1] => o.from = r
      <4>1. CASE objectKey[r] = objectKey[q]
        BY <3>2, <3>4, <3>5, <4>1
      <4>2. CASE objectKey[r] # objectKey[q]
        BY <3>3, <3>5, <4>2
      <4> QED
        BY <4>1, <4>2
    <3> QED
      BY <2>2, <3>5 DEF SavedOnce
  <2>3. ASSUME NEW r \in Requests, Network(r)
        PROVE  SavedOnce'
    <3>1. /\ status[r] = "sending" /\ UNCHANGED objectKey
          /\ \A q \in Requests : q # r => status'[q] = status[q]
      BY <2>0, <2>3, NetworkEffect
    <3>2. CASE \E intact \in BOOLEAN : Store(r, intact)
      BY <2>2, <3>1, <3>2
    <3>3. CASE UNCHANGED bucket /\ status'[r] # "saved"
      BY <2>1, <3>1, <3>3
    <3> QED
      BY <2>0, <2>3, <3>2, <3>3
      DEF Network, PutSucceeds, PutCorrupted, PutRejected, PutInterrupted, MayRetry, Complete
  <2>4. ASSUME NEW b \in Batches, UploadOneImage(b)
        PROVE  SavedOnce'
    BY <2>0, <2>1, <2>4, UploadOneImageEffect DEF BatchInv, UploadOneImage, PutObject
  <2>5. ASSUME NEW s \in Singles, UpLoadImageWithImageData(s)
        PROVE  SavedOnce'
    <3>1. UNCHANGED bucket
      BY <2>5 DEF UpLoadImageWithImageData, PutObject
    <3> QED
      BY <2>0, <2>1, <2>5, <3>1, SingleStartEffect
  <2>6. ASSUME NEW r \in Requests, BatchBlock(r) \/ SingleBlock(r)
        PROVE  SavedOnce'
    <3>1. UNCHANGED bucket
      BY <2>6 DEF BatchBlock, SingleBlock, NextBlock
    <3> QED
      BY <2>0, <2>1, <2>6, <3>1, BatchBlockEffect, SingleBlockEffect
  <2>7. CASE UNCHANGED vars \/ Tick \/ SetClient
    BY <2>1, <2>7 DEF vars, Tick, SetClient, netVars
  <2>8. ASSUME NEW b \in Batches, UpLoadImageWithImageDataArray(b)
        PROVE  SavedOnce'
    BY <2>1, <2>8 DEF UpLoadImageWithImageDataArray, netVars
  <2> QED
    BY <2>3, <2>4, <2>5, <2>6, <2>7, <2>8 DEF Next, App, MainQueue
<1> QED
  BY <1>1, <1>2, TypeCorrect, BatchInvariant, KeysTheorem, PTL DEF Spec

------------------------------------------------------------------------------
(* Single uploads.                                                          *)

\* The object at the key of a single upload is whole, if it is its own.
Stored(s) ==
  \E o \in bucket : o.key = objectKey[<<s, 1>>] /\ (o.from = <<s, 1>> => o.intact)

\* A saved single upload is stored, and so it is when its block has answered.
SingleInv ==
  \A s \in Singles :
    /\ answers[s] # <<>> => status[<<s, 1>>] = "handled"
    /\ status[<<s, 1>>] = "saved" \/ answers[s] # <<>> => Stored(s)

\* A step that neither stores an object nor answers a single upload keeps SingleInv.
LEMMA SingleUntouched ==
  ASSUME TypeOK, SingleInv, UNCHANGED bucket,
         NEW s \in Singles, answers'[s] = answers[s],
         \/ status'[<<s, 1>>] = status[<<s, 1>>] /\ objectKey'[<<s, 1>>] = objectKey[<<s, 1>>]
         \/ status[<<s, 1>>] = "idle" /\ status'[<<s, 1>>] \in {"sending", "dropped"}
         \/ status[<<s, 1>>] = "sending" /\ status'[<<s, 1>>] = "failed"
         \/ /\ status'[<<s, 1>>] = "handled" /\ objectKey'[<<s, 1>>] = objectKey[<<s, 1>>]
  PROVE  /\ answers'[s] # <<>> => status'[<<s, 1>>] = "handled"
         /\ status'[<<s, 1>>] = "saved" \/ answers'[s] # <<>> => Stored(s)'
BY DEF SingleInv, Stored

\* An attempt that puts an object where the single upload is stored leaves its own
\* object or a whole one of its own.
LEMMA SingleStoreStep ==
  ASSUME TypeOK, SingleInv, NEW s \in Singles, NEW r \in Requests, Network(r)
  PROVE  /\ answers'[s] # <<>> => status'[<<s, 1>>] = "handled"
         /\ status'[<<s, 1>>] = "saved" \/ answers'[s] # <<>> => Stored(s)'
<1>0. /\ status \in [Requests -> Statuses] /\ <<s, 1>> \in Requests
      /\ status[r] = "sending" /\ UNCHANGED <<objectKey, answers>>
      /\ \A q \in Requests : q # r => status'[q] = status[q]
      /\ status'[r] \in {"sending", "saved", "failed"}
  BY NetworkEffect, SingleRequestIntro DEF TypeOK
<1>1. CASE r = <<s, 1>>
  <2>1. answers[s] = <<>>
    BY <1>0, <1>1 DEF SingleInv
  <2>2. status'[r] = "saved" => Store(r, TRUE)
    BY <1>0 DEF Network, PutSucceeds, PutCorrupted, PutRejected, PutInterrupted, Complete
  <2>3. Store(r, TRUE) => [key |-> objectKey[r], from |-> r, intact |-> TRUE] \in bucket'
    BY DEF Store
  <2> QED
    BY <1>0, <1>1, <2>1, <2>2, <2>3 DEF Stored
<1>2. CASE r # <<s, 1>>
  <2>1. CASE UNCHANGED bucket
    BY <1>0, <1>2, <2>1, SingleUntouched
  <2>2. ASSUME NEW intact \in BOOLEAN, Store(r, intact), Stored(s)
        PROVE  Stored(s)'
    <3> DEFINE object == [key |-> objectKey[r], from |-> r, intact |-> intact]
    <3>1. bucket' = {o \in bucket : o.key # objectKey[r]} \cup {object}
      BY <2>2 DEF Store
    <3>2. object \in bucket' /\ object.key = objectKey[r] /\ object.from = r
      BY <3>1
    <3> HIDE DEF object
    <3>3. CASE objectKey[<<s, 1>>] = objectKey[r]
      BY <1>0, <1>2, <3>2, <3>3 DEF Stored
    <3>4. CASE objectKey[<<s, 1>>] # objectKey[r]
      BY <1>0, <2>2, <3>1, <3>4 DEF Stored
    <3> QED
      BY <3>3, <3>4
  <2>3. UNCHANGED bucket \/ \E intact \in BOOLEAN : Store(r, intact)
    BY DEF Network, PutSucceeds, PutCorrupted, PutRejected, PutInterrupted
  <2> QED
    BY <1>0, <1>2, <2>1, <2>2, <2>3 DEF SingleInv
<1> QED
  BY <1>1, <1>2

\* A single upload that reported success is in the store, and whole unless another
\* upload drew the same random key (the block of upLoadImageWithImageData tests the
\* error of its PUT, which a CRC mismatch sets).
THEOREM SingleTheorem == Spec => []SingleSuccessIsStored
<1>1. Init => SingleInv
  BY SingleRequestIntro DEF Init, SingleInv, Calls
<1>2. TypeOK /\ BatchInv /\ SingleInv /\ [Next]_vars => SingleInv'
  <2> SUFFICES ASSUME TypeOK, BatchInv, SingleInv, [Next]_vars, NEW s \in Singles
               PROVE  /\ answers'[s] # <<>> => status'[<<s, 1>>] = "handled"
                      /\ status'[<<s, 1>>] = "saved" \/ answers'[s] # <<>> => Stored(s)'
    BY DEF SingleInv
  <2>0. /\ status \in [Requests -> Statuses] /\ objectKey \in [Requests -> Keys]
        /\ answers \in [Calls -> Seq(Answers)]
        /\ <<s, 1>> \in Requests /\ <<s, 1>> \in SingleRequests /\ s \in Calls
        /\ s \notin Batches
    BY SingleRequestIntro, OSSAssumption DEF TypeOK, Calls
  <2>1. ASSUME NEW r \in Requests, Network(r)
        PROVE  /\ answers'[s] # <<>> => status'[<<s, 1>>] = "handled"
               /\ status'[<<s, 1>>] = "saved" \/ answers'[s] # <<>> => Stored(s)'
    BY <2>1, SingleStoreStep
  <2>2. ASSUME NEW t \in Singles, UpLoadImageWithImageData(t)
        PROVE  /\ answers'[s] # <<>> => status'[<<s, 1>>] = "handled"
               /\ status'[<<s, 1>>] = "saved" \/ answers'[s] # <<>> => Stored(s)'
    <3>1. UNCHANGED bucket
      BY <2>2 DEF UpLoadImageWithImageData, PutObject
    <3>2. \/ status'[<<s, 1>>] = status[<<s, 1>>] /\ objectKey'[<<s, 1>>] = objectKey[<<s, 1>>]
          \/ status[<<s, 1>>] = "idle" /\ status'[<<s, 1>>] \in {"sending", "dropped"}
      BY <2>0, <2>2, SingleStartEffect
    <3>3. answers'[s] = answers[s]
      BY <2>2, SingleStartEffect
    <3> QED
      BY <3>1, <3>2, <3>3, SingleUntouched
  <2>3. ASSUME NEW b \in Batches, UploadOneImage(b)
        PROVE  /\ answers'[s] # <<>> => status'[<<s, 1>>] = "handled"
               /\ status'[<<s, 1>>] = "saved" \/ answers'[s] # <<>> => Stored(s)'
    <3> DEFINE i == Len(dataSourece) + 1
    <3>1. <<b, i>> # <<s, 1>>
      BY <2>0, Disjoint
    <3>2. UNCHANGED bucket
      BY <2>3 DEF UploadOneImage, PutObject
    <3>3. /\ answers' = answers
          /\ status'[<<s, 1>>] = status[<<s, 1>>]
          /\ objectKey'[<<s, 1>>] = objectKey[<<s, 1>>]
      BY <2>0, <2>3, <3>1, UploadOneImageEffect DEF BatchInv
    <3> QED
      BY <3>2, <3>3, SingleUntouched
  <2>4. ASSUME NEW r \in Requests, BatchBlock(r)
        PROVE  /\ answers'[s] # <<>> => status'[<<s, 1>>] = "handled"
               /\ status'[<<s, 1>>] = "saved" \/ answers'[s] # <<>> => Stored(s)'
    <3>1. PICK c \in Batches : \E k \in 1 .. Size[c] : r = <<c, k>>
      BY <2>4, BatchBlockEffect, BatchRequestParts
    <3>2. r # <<s, 1>> /\ r[1] # s
      BY <2>0, <3>1
    <3>3. UNCHANGED bucket
      BY <2>4 DEF BatchBlock, NextBlock
    <3>4. /\ status'[<<s, 1>>] = status[<<s, 1>>]
          /\ objectKey'[<<s, 1>>] = objectKey[<<s, 1>>]
      BY <2>0, <2>4, <3>2, BatchBlockEffect
    <3>5. answers'[s] = answers[s]
      BY <2>0, <2>4, <3>2, BatchBlockEffect DEF OutOfRange, FillSlot, Answer
    <3> QED
      BY <3>3, <3>4, <3>5, SingleUntouched
  <2>5. ASSUME NEW r \in Requests, SingleBlock(r)
        PROVE  /\ answers'[s] # <<>> => status'[<<s, 1>>] = "handled"
               /\ status'[<<s, 1>>] = "saved" \/ answers'[s] # <<>> => Stored(s)'
    <3>1. /\ status' = [status EXCEPT ![r] = "handled"]
          /\ UNCHANGED <<objectKey, bucket>>
          /\ r \in SingleRequests
      BY <2>5 DEF SingleBlock, NextBlock
    <3>2. CASE r = <<s, 1>>
      <4>1. status'[<<s, 1>>] = "handled"
        BY <2>0, <3>1, <3>2
      <4>2. CASE PutError(r)
        BY <2>5, <3>1, <4>1, <4>2, SingleUntouched DEF SingleBlock
      <4>3. CASE ~PutError(r)
        <5>1. status[<<s, 1>>] = "saved"
          BY <2>5, <3>2, <4>3, HeadIsFinished DEF BatchInv, PutError, SingleBlock, NextBlock
        <5>2. Stored(s)
          BY <5>1 DEF SingleInv
        <5> QED
          BY <3>1, <4>1, <5>2 DEF Stored
      <4> QED
        BY <4>2, <4>3
    <3>3. CASE r # <<s, 1>>
      <4>1. r[1] # s
        BY <3>1, <3>3 DEF SingleRequests
      <4>2. answers'[s] = answers[s]
        BY <2>0, <2>5, <4>1 DEF SingleBlock, Answer
      <4>3. status'[<<s, 1>>] = status[<<s, 1>>]
        BY <2>0, <3>1, <3>3
      <4> QED
        BY <3>1, <4>2, <4>3, SingleUntouched
    <3> QED
      BY <3>2, <3>3
  <2>6. CASE UNCHANGED vars \/ Tick \/ SetClient
    BY <2>6, SingleUntouched DEF vars, Tick, SetClient, netVars, appVars
  <2>7. ASSUME NEW b \in Batches, UpLoadImageWithImageDataArray(b)
        PROVE  /\ answers'[s] # <<>> => status'[<<s, 1>>] = "handled"
               /\ status'[<<s, 1>>] = "saved" \/ answers'[s] # <<>> => Stored(s)'
    BY <2>7, SingleUntouched DEF UpLoadImageWithImageDataArray, netVars
  <2> QED
    BY <2>1, <2>2, <2>3, <2>4, <2>5, <2>6, <2>7 DEF Next, App, MainQueue
<1>3. SingleInv => SingleSuccessIsStored
  BY DEF SingleInv, SingleSuccessIsStored, Stored
<1> QED
  BY <1>1, <1>2, <1>3, TypeCorrect, BatchInvariant, PTL DEF Spec

------------------------------------------------------------------------------
(* The array when all is quiet, whatever batches overlap.                   *)

\* The array is as long as the batch that cleared it last: a slot that is still a
\* place holder belongs to an image whose block is to come, or that was dropped.
Owns(b) ==
  /\ Len(dataSourece) = Size[b]
  /\ \A i \in 1 .. Size[b] : dataSourece[i] = NotValue =>
       status[<<b, i>>] \notin {"idle", "handled"}

\* The array as it is was reported to batch b, and nothing else to it since.
Reported(b) ==
  answers[b] # <<>> /\ answers[b][Len(answers[b])].urls = dataSourece

\* Outside a loop the array belongs to a batch, and was reported when its last
\* place holder went.
QuietInv ==
  loop = NoBatch /\ dataSourece # <<>> =>
    /\ \E b \in Batches : Owns(b)
    /\ NotValue \notin Range(dataSourece) => \E b \in Batches : Reported(b)

\* A step that leaves the array and the batches' answers keeps QuietInv if no image
\* it concerns becomes idle or handled.
LEMMA QuietUntouched ==
  ASSUME QuietInv, UNCHANGED <<dataSourece, loop>>,
         \A b \in Batches : answers'[b] = answers[b],
         \A b \in Batches : \A i \in 1 .. Size[b] :
           status[<<b, i>>] \notin {"idle", "handled"} =>
             status'[<<b, i>>] \notin {"idle", "handled"}
  PROVE  QuietInv'
<1>1. ASSUME NEW b \in Batches, Owns(b)
      PROVE  Owns(b)'
  BY <1>1 DEF Owns
<1>2. ASSUME NEW b \in Batches, Reported(b)
      PROVE  Reported(b)'
  BY <1>2 DEF Reported
<1> QED
  BY <1>1, <1>2 DEF QuietInv

\* The last turn of a loop leaves an array of place holders, as long as its batch.
LEMMA LoopEndsQuiet ==
  ASSUME TypeOK, BatchInv, NEW b \in Batches, UploadOneImage(b)
  PROVE  QuietInv'
<1> DEFINE n == Len(dataSourece) + 1
<1>0. /\ dataSourece \in Seq(Slots) /\ Len(dataSourece) \in Nat
      /\ status \in [Requests -> Statuses]
      /\ \A i \in 1 .. Size[b] : <<b, i>> \in Requests
  BY LenProperties, BatchRequestIntro DEF TypeOK
<1>1. /\ loop = b /\ loop # NoBatch /\ n \in 1 .. Size[b]
      /\ status' = [status EXCEPT ![<<b, n>>] = IF client THEN "sending" ELSE "dropped"]
      /\ dataSourece' = Append(dataSourece, NotValue)
      /\ loop' = IF n = Size[b] THEN NoBatch ELSE b
  BY UploadOneImageEffect DEF BatchInv
<1>2. \A i \in 1 .. Len(dataSourece) : status[<<b, i>>] \notin {"idle", "handled"}
  BY <1>1 DEF BatchInv, LoopInv, Open
<1>3. ASSUME n = Size[b]
      PROVE  Owns(b)'
  <2>1. \A i \in 1 .. Size[b] : status'[<<b, i>>] \notin {"idle", "handled"}
    BY <1>0, <1>1, <1>2, <1>3
  <2> QED
    BY <1>0, <1>1, <1>3, <2>1 DEF Owns
<1>4. dataSourece'[n] = NotValue /\ n \in DOMAIN dataSourece'
  BY <1>0, <1>1
<1>5. NotValue \in Range(dataSourece')
  BY <1>4 DEF Range
<1> QED
  BY <1>1, <1>3, <1>5 DEF QuietInv

\* A block of a batch fills a slot, and reports the array if it was the last one; a
\* block whose slot does not exist is not one of the batch the array belongs to.
LEMMA BlockKeepsQuiet ==
  ASSUME TypeOK, BatchInv, QuietInv,
         NEW c \in Batches, NEW k \in 1 .. Size[c], BatchBlock(<<c, k>>)
  PROVE  QuietInv'
<1>0. /\ dataSourece \in Seq(Slots) /\ Len(dataSourece) \in Nat
      /\ status \in [Requests -> Statuses] /\ answers \in [Calls -> Seq(Answers)]
      /\ objectKey \in [Requests -> Keys] /\ NotValue \notin Keys
      /\ c \in Calls /\ <<c, k>> \in Requests
      /\ \A b \in Batches : Size[b] \in Nat /\ \A i \in 1 .. Size[b] : <<b, i>> \in Requests
  BY OSSAssumption, LenProperties, BatchRequestIntro DEF TypeOK, Calls, Keys
<1>1. /\ loop = NoBatch /\ loop' = loop
      /\ status' = [status EXCEPT ![<<c, k>>] = "handled"]
      /\ k > Len(dataSourece) => OutOfRange
      /\ ~(k > Len(dataSourece)) => FillSlot(<<c, k>>)
  BY <1>0, BatchBlockEffect DEF OutOfRange, FillSlot
<1>2. CASE k > Len(dataSourece)
  <2>1. UNCHANGED <<dataSourece, answers>>
    BY <1>1, <1>2 DEF OutOfRange
  <2>2. ASSUME NEW b \in Batches, Owns(b)
        PROVE  Owns(b)'
    <3>1. ASSUME NEW i \in 1 .. Size[b], dataSourece[i] = NotValue
          PROVE  status'[<<b, i>>] = status[<<b, i>>]
      <4>1. <<b, i>> # <<c, k>>
        BY <1>0, <1>2, <2>2 DEF Owns
      <4> QED
        BY <1>0, <1>1, <4>1
    <3> QED
      BY <2>1, <2>2, <3>1 DEF Owns
  <2>3. \A b \in Batches : Reported(b) => Reported(b)'
    BY <2>1 DEF Reported
  <2> QED
    BY <1>1, <2>1, <2>2, <2>3 DEF QuietInv
<1>3. CASE ~(k > Len(dataSourece))
  <2> DEFINE slots == [dataSourece EXCEPT ![k] = objectKey[<<c, k>>]]
  <2>1. /\ dataSourece' = slots
        /\ NotValue \in Range(slots) => answers' = answers
        /\ NotValue \notin Range(slots) => Answer(c, "success", slots)
    BY <1>1, <1>3 DEF FillSlot
  <2>2. /\ slots \in Seq(Slots) /\ Len(slots) = Len(dataSourece) /\ dataSourece # <<>>
        /\ \A i \in 1 .. Len(dataSourece) :
             slots[i] = IF i = k THEN objectKey[<<c, k>>] ELSE dataSourece[i]
    BY <1>0, <1>3 DEF Slots
  <2>3. ASSUME NEW b \in Batches, Owns(b)
        PROVE  Owns(b)'
    <3>1. ASSUME NEW i \in 1 .. Size[b], slots[i] = NotValue
          PROVE  dataSourece[i] = NotValue /\ status'[<<b, i>>] = status[<<b, i>>]
      <4>1. i # k /\ dataSourece[i] = NotValue
        BY <1>0, <2>2, <2>3, <3>1 DEF Owns
      <4> QED
        BY <1>0, <1>1, <4>1
    <3> QED
      BY <2>1, <2>2, <2>3, <3>1 DEF Owns
  <2>4. ASSUME NotValue \notin Range(slots)
        PROVE  Reported(c)'
    <3> DEFINE answer == [block |-> "success", urls |-> slots]
    <3>1. answers'[c] = Append(answers[c], answer) /\ answers[c] \in Seq(Answers)
      BY <1>0, <2>1, <2>4 DEF Answer
    <3> HIDE DEF answer
    <3>2. answers'[c] # <<>> /\ answers'[c][Len(answers'[c])] = answer
      BY <3>1
    <3>3. answer.urls = slots
      BY DEF answer
    <3> QED
      BY <2>1, <3>2, <3>3 DEF Reported
  <2> QED
    BY <1>1, <2>1, <2>2, <2>3, <2>4 DEF QuietInv
<1> QED
  BY <1>2, <1>3

\* When no image is under way, the content of the array was the last report to some
\* batch, whatever batches overlapped: uploadOneImage reports whenever it fills the
\* last place holder, and no place holder outlives the images of the last call.
THEOREM QuietTheorem == Spec => []QuietIsReported
<1>1. Init => QuietInv
  BY DEF Init, QuietInv
<1>2. TypeOK /\ BatchInv /\ QuietInv /\ [Next]_vars => QuietInv'
  <2> SUFFICES ASSUME TypeOK, BatchInv, QuietInv, [Next]_vars
               PROVE  QuietInv'
    OBVIOUS
  <2>0. /\ status \in [Requests -> Statuses]
        /\ \A b \in Batches : \A i \in 1 .. Size[b] : <<b, i>> \in Requests
    BY BatchRequestIntro DEF TypeOK
  <2>1. ASSUME NEW r \in Requests, Network(r)
        PROVE  QuietInv'
    BY <2>0, <2>1, NetworkEffect, QuietUntouched
  <2>2. ASSUME NEW r \in Requests, SingleBlock(r)
        PROVE  QuietInv'
    <3>1. \A b \in Batches : \A i \in 1 .. Size[b] : status'[<<b, i>>] = status[<<b, i>>]
      BY <2>0, <2>2, SingleBlockEffect, Disjoint, ZenonT(40)
    <3> QED
      BY <2>2, <3>1, SingleBlockEffect, QuietUntouched
  <2>3. ASSUME NEW s \in Singles, UpLoadImageWithImageData(s)
        PROVE  QuietInv'
    <3>1. \A b \in Batches : \A i \in 1 .. Size[b] : status'[<<b, i>>] = status[<<b, i>>]
      BY <2>0, <2>3, SingleStartEffect, Disjoint
    <3> QED
      BY <2>3, <3>1, SingleStartEffect, QuietUntouched
  <2>4. CASE UNCHANGED vars \/ Tick \/ SetClient
    BY <2>4, QuietUntouched DEF vars, Tick, SetClient, netVars, appVars
  <2>5. ASSUME NEW b \in Batches, UpLoadImageWithImageDataArray(b)
        PROVE  QuietInv'
    BY <2>5 DEF UpLoadImageWithImageDataArray, QuietInv
  <2>6. ASSUME NEW b \in Batches, UploadOneImage(b)
        PROVE  QuietInv'
    BY <2>6, LoopEndsQuiet
  <2>7. ASSUME NEW r \in Requests, BatchBlock(r)
        PROVE  QuietInv'
    <3>1. PICK c \in Batches : \E k \in 1 .. Size[c] : r = <<c, k>>
      BY <2>7, BatchBlockEffect, BatchRequestParts
    <3> QED
      BY <2>7, <3>1, BlockKeepsQuiet
  <2> QED
    BY <2>1, <2>2, <2>3, <2>4, <2>5, <2>6, <2>7 DEF Next, App, MainQueue
<1>3. TypeOK /\ QuietInv => QuietIsReported
  <2> SUFFICES ASSUME TypeOK, QuietInv, loop = NoBatch, dataSourece # <<>>,
                      \A r \in BatchRequests : status[r] \in {"idle", "handled"}
               PROVE  \E b \in Batches : Reported(b)
    BY DEF QuietIsReported, Reported
  <2>1. PICK b \in Batches : Owns(b)
    BY DEF QuietInv
  <2>2. \A i \in 1 .. Size[b] : dataSourece[i] # NotValue
    BY <2>1, BatchRequestIntro DEF Owns
  <2>3. DOMAIN dataSourece = 1 .. Size[b]
    BY <2>1, LenProperties DEF TypeOK, Owns
  <2> QED
    BY <2>2, <2>3 DEF QuietInv, Range
<1> QED
  BY <1>1, <1>2, <1>3, TypeCorrect, BatchInvariant, PTL DEF Spec

------------------------------------------------------------------------------
(* The array that a caller was given, when batches do not overlap.          *)

\* A batch that was answered has images, and no place holder was reported.
LEMMA ReportsAreFull ==
  ASSUME TypeOK, BatchInv, AnswerIsOwnImages, ~Overlapping,
         NEW b \in Batches, Reported(b)
  PROVE  /\ NotValue \notin Range(dataSourece)
         /\ Len(dataSourece) = Size[b]
<1>0. answers[b] \in Seq(Answers) /\ NotValue \notin Keys
  BY OSSAssumption DEF TypeOK, Calls, Keys
<1>1. answers[b][Len(answers[b])] \in Answers /\ Len(answers[b]) \in DOMAIN answers[b]
  BY <1>0 DEF Reported
<1>2. dataSourece \in Seq(Keys)
  BY <1>1 DEF Reported, Answers
<1>3. answers[b][Len(answers[b])] = [block |-> "success", urls |-> OwnUrls(b)]
  BY <1>1 DEF AnswerIsOwnImages, OwnUrls
<1>4. dataSourece = OwnUrls(b)
  BY <1>3 DEF Reported
<1>5. /\ DOMAIN dataSourece = 1 .. Len(dataSourece)
      /\ Len(dataSourece) \in Nat /\ Size[b] \in Nat
      /\ \A i \in DOMAIN dataSourece : dataSourece[i] \in Keys
  BY <1>2, LenProperties, OSSAssumption
<1>6. DOMAIN dataSourece = 1 .. Size[b]
  BY <1>4 DEF OwnUrls
<1>7. Len(dataSourece) = Size[b]
  <2> DEFINE n == Len(dataSourece)
             m == Size[b]
  <2>1. n \in Nat /\ m \in Nat /\ 1 .. n = 1 .. m
    BY <1>5, <1>6
  <2> HIDE DEF n, m
  <2>2. n = m
    BY <2>1
  <2> QED
    BY <2>2 DEF n, m
<1> QED
  BY <1>0, <1>5, <1>7 DEF Range

\* Batches without images are never answered.
EmptyUnanswered == \A b \in Batches : answers[b] # <<>> => Size[b] > 0

LEMMA EmptyInvariant ==
  ASSUME ~Overlapping
  PROVE  Spec => []EmptyUnanswered
<1>1. Init => EmptyUnanswered
  BY DEF Init, EmptyUnanswered, Calls
<1>2. TypeOK /\ BatchInv /\ EmptyUnanswered /\ [Next]_vars => EmptyUnanswered'
  <2> SUFFICES ASSUME TypeOK, BatchInv, EmptyUnanswered, [Next]_vars,
                      NEW b \in Batches, answers'[b] # <<>>, answers[b] = <<>>
               PROVE  Size[b] > 0
    BY DEF EmptyUnanswered
  <2>1. ASSUME NEW r \in Requests, BatchBlock(r)
        PROVE  Size[b] > 0
    <3>1. r[1] \in Batches /\ r[2] \in 1 .. Size[r[1]]
      BY <2>1, BatchBlockEffect, BatchRequestParts
    <3>2. r[1] = b
      BY <2>1, <3>1, BatchBlockEffect DEF OutOfRange, FillSlot, Answer, TypeOK, Calls
    <3> QED
      BY <3>1, <3>2, OSSAssumption
  <2>2. ASSUME NEW r \in Requests, Network(r) \/ SingleBlock(r)
        PROVE  FALSE
    BY <2>2, NetworkEffect, SingleBlockEffect
  <2>3. ASSUME App \/ UNCHANGED vars
        PROVE  FALSE
    BY <2>3 DEF App, Tick, SetClient, UpLoadImageWithImageDataArray, UploadOneImage,
       UpLoadImageWithImageData, appVars, vars
  <2> QED
    BY <2>1, <2>2, <2>3 DEF Next, MainQueue
<1> QED
  BY <1>1, <1>2, TypeCorrect, BatchInvariant, PTL DEF Spec

\* The array a success block was given keeps its URLs until a batch call clears it:
\* uploadOneImage hands out the live array, but no block is left that writes to it.
THEOREM StableTheorem ==
  ASSUME ~Overlapping
  PROVE  Spec => ReportedArrayIsStable
<1>1. TypeOK /\ BatchInv /\ AnswerIsOwnImages /\ EmptyUnanswered /\ [Next]_vars =>
      [\A b \in Batches :
         /\ answers[b] # <<>>
         /\ dataSourece = answers[b][Len(answers[b])].urls
         => dataSourece' \in {dataSourece, <<>>}]_vars
  <2> SUFFICES ASSUME TypeOK, BatchInv, AnswerIsOwnImages, EmptyUnanswered, [Next]_vars,
                      NEW b \in Batches, Reported(b)
               PROVE  dataSourece' \in {dataSourece, <<>>}
    BY DEF Reported
  <2>0. /\ NotValue \notin Range(dataSourece)
        /\ Len(dataSourece) = Size[b] /\ Size[b] > 0
        /\ DOMAIN dataSourece = 1 .. Len(dataSourece)
        /\ \A d \in Batches : Size[d] \in Nat
    BY ReportsAreFull, LenProperties, OSSAssumption DEF TypeOK, EmptyUnanswered, Reported
  <2>1. \A i \in 1 .. Len(dataSourece) : dataSourece[i] # NotValue
    BY <2>0 DEF Range
  <2>2. ASSUME NEW r \in Requests, BatchBlock(r)
        PROVE  FALSE
    <3>1. PICK c \in Batches : \E k \in 1 .. Size[c] : r = <<c, k>>
      BY <2>2, BatchBlockEffect, BatchRequestParts
    <3>2. PICK k \in 1 .. Size[c] : r = <<c, k>>
      BY <3>1
    <3>3. Open(<<c, k>>) /\ loop = NoBatch
      BY <2>2, <3>2, BatchBlockEffect, HeadIsFinished DEF BatchInv, Open
    <3>4. /\ Len(dataSourece) = Size[c]
          /\ \A j \in 1 .. Len(dataSourece) :
               \/ Open(<<c, j>>) /\ dataSourece[j] = NotValue
               \/ status[<<c, j>>] = "handled"
      BY <3>3 DEF BatchInv, OwnArrayInv
    <3> QED
      BY <2>1, <3>3, <3>4 DEF Open
  <2>3. ASSUME NEW d \in Batches, UploadOneImage(d)
        PROVE  FALSE
    <3>1. /\ loop # NoBatch
          /\ \A i \in 1 .. Len(dataSourece) : dataSourece[i] = NotValue
      BY <2>3, UploadOneImageEffect DEF BatchInv, LoopInv
    <3>2. 1 \in 1 .. Len(dataSourece)
      BY <2>0
    <3> QED
      BY <2>1, <3>1, <3>2
  <2>4. ASSUME NEW d \in Batches, UpLoadImageWithImageDataArray(d)
        PROVE  dataSourece' = <<>>
    BY <2>4 DEF UpLoadImageWithImageDataArray
  <2>5. ASSUME NEW r \in Requests, Network(r) \/ SingleBlock(r)
        PROVE  UNCHANGED dataSourece
    BY <2>5, NetworkEffect, SingleBlockEffect
  <2>6. ASSUME \/ UNCHANGED vars \/ Tick \/ SetClient
               \/ \E s \in Singles : UpLoadImageWithImageData(s)
        PROVE  UNCHANGED dataSourece
    BY <2>6 DEF vars, Tick, SetClient, UpLoadImageWithImageData, appVars
  <2> QED
    BY <2>2, <2>3, <2>4, <2>5, <2>6 DEF Next, App, MainQueue
<1> QED
  BY <1>1, TypeCorrect, BatchInvariant, AnswerTheorem, EmptyInvariant, PTL
  DEF Spec, ReportedArrayIsStable

==============================================================================
