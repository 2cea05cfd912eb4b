------------------------------ MODULE OSSUpload ------------------------------
(***************************************************************************)
(* AliyunOSSTool: the singleton that uploads images to the object store.    *)
(*                                                                         *)
(* A batch call clears one shared array, dataSourece, then appends a        *)
(* "notValue" place holder and starts a PUT for each image.  PUTs finish on *)
(* network threads, in any order, after retries; each one queues a block    *)
(* on the main queue which writes the URL of its image into its slot and    *)
(* calls the success block of its batch when no place holder is left.       *)
(*                                                                         *)
(* Callers are on the main thread, so no main queue block runs inside the   *)
(* loop of a batch call; network threads and the clock do.                  *)
(***************************************************************************)
EXTENDS Integers, Sequences, FiniteSets, Functions

CONSTANTS
  Batches,      \* calls of (New)UpLoadImageWithImageDataArray(s), each made once
  Singles,      \* calls of upLoadImageWithImageData, each made once
  Size,         \* Size[b]: the number of images of batch b
  MaxRetry,     \* OSSDefaultRetryCount: how often a PUT is tried again
  KeyStep,      \* the 10000 of timeStamp + 10000 * index
  MaxRandom,    \* bound: the largest arc4random() % 1000 + arc4random() % 1000000
  MaxClock,     \* bound: the clock stops here
  Overlapping,  \* may a batch start while requests of an earlier one are open?
  NotValue,     \* the @"notValue" place holder
  NoBatch       \* no batch call is inside its loop

ASSUME OSSAssumption ==
  /\ Size \in [Batches -> Nat]
  /\ MaxRetry \in Nat
  /\ KeyStep \in Nat \ {0}
  /\ MaxRandom \in Nat
  /\ MaxClock \in Nat
  /\ Overlapping \in BOOLEAN
  /\ NotValue \notin {"customer", "tomer"} \X Nat
  /\ NoBatch \notin Batches
  /\ Batches \cap Singles = {}

\* A request is one image of one call.  Image i has index i - 1 in the code.
BatchRequests == UNION {{b} \X (1 .. Size[b]) : b \in Batches}
SingleRequests == Singles \X {1}
Requests == BatchRequests \cup SingleRequests
Calls == Batches \cup Singles

\* An object key is a directory and a number: "customer/<n>.png".
Keys == {"customer", "tomer"} \X Nat

VARIABLES
  client,      \* is AliyunOSSTool.client set?
  clock,       \* [NSDate date] in milliseconds
  dataSourece, \* the shared array: NotValue or an object's URL (its key) per slot
  loop,        \* the batch call inside its loop, or NoBatch
  status,      \* what became of each request
  tries,       \* currentRetryCount of each request
  objectKey,   \* the key each request was given
  bucket,      \* the objects in the store: key, the request that put it, intact?
  mainQueue,   \* the completion blocks queued on the main queue
  answers,     \* per call, what its success block was called with, in order
  crashed      \* replaceObjectAtIndex: raised NSRangeException, the process ended

vars == <<client, clock, dataSourece, loop, status, tries, objectKey, bucket,
          mainQueue, answers, crashed>>

\* What only the app's own calls, and what only requests, change.
appVars == <<client, dataSourece, loop, answers, crashed>>
netVars == <<status, tries, objectKey, bucket, mainQueue>>

Statuses == {"idle",     \* not asked for yet
             "dropped",  \* putObject was sent to a nil client
             "sending",  \* an attempt is under way
             "saved",    \* the PUT succeeded, its block waits on the main queue
             "failed",   \* the PUT failed, its block waits on the main queue
             "handled"}  \* its block ran

Open(r) == status[r] \in {"sending", "saved", "failed"}

Init ==
  /\ client \in BOOLEAN
  /\ clock = 0
  /\ dataSourece = <<>>
  /\ loop = NoBatch
  /\ status = [r \in Requests |-> "idle"]
  /\ tries = [r \in Requests |-> 0]
  /\ objectKey = [r \in Requests |-> <<"customer", 0>>]
  /\ bucket = {}
  /\ mainQueue = <<>>
  /\ answers = [c \in Calls |-> <<>>]
  /\ crashed = FALSE

------------------------------------------------------------------------------
(* The app: its clock, its client and its calls on the main thread.         *)

Tick ==
  /\ ~crashed
  /\ clock < MaxClock
  /\ clock' = clock + 1
  /\ UNCHANGED <<appVars, netVars>>

SetClient ==
  /\ ~crashed
  /\ loop = NoBatch
  /\ ~client
  /\ client' = TRUE
  /\ UNCHANGED <<clock, dataSourece, loop, answers, crashed, netVars>>

\* putObject hands the request to the network; a nil client ignores it.
PutObject(r, key) ==
  /\ status' = [status EXCEPT ![r] = IF client THEN "sending" ELSE "dropped"]
  /\ objectKey' = [objectKey EXCEPT ![r] = key]
  /\ UNCHANGED <<tries, bucket, mainQueue>>

\* A batch that does not overlap finds every earlier request finished.
MayStart == Overlapping \/ \A r \in BatchRequests : ~Open(r)

\* An empty batch clears the array and returns; the others enter their loop.
UpLoadImageWithImageDataArray(b) ==
  /\ ~crashed
  /\ loop = NoBatch
  /\ \A i \in 1 .. Size[b] : status[<<b, i>>] = "idle"
  /\ MayStart
  /\ dataSourece' = <<>>
  /\ loop' = IF Size[b] = 0 THEN NoBatch ELSE b
  /\ UNCHANGED <<client, clock, answers, crashed, netVars>>

\* Mutant of BatchKey: the offset of the index is left out.
KeyWithoutOffset(index) == <<"customer", clock>>

BatchKey(index) == <<"customer", clock + KeyStep * index>>

\* One turn of the loop; the last one leaves it.
UploadOneImage(b) ==
  LET index == Len(dataSourece) IN
  /\ ~crashed
  /\ loop = b
  /\ dataSourece' = Append(dataSourece, NotValue)
  /\ PutObject(<<b, index + 1>>, BatchKey(index))
  /\ loop' = IF index + 1 = Size[b] THEN NoBatch ELSE b
  /\ UNCHANGED <<client, clock, answers, crashed>>

UpLoadImageWithImageData(s) ==
  /\ ~crashed
  /\ loop = NoBatch
  /\ status[<<s, 1>>] = "idle"
  /\ \E random \in 0 .. MaxRandom :
       PutObject(<<s, 1>>, <<"tomer", clock + random>>)
  /\ UNCHANGED <<clock, appVars>>

------------------------------------------------------------------------------
(* The network: attempts of open requests end in any order, on any thread.  *)

\* The server holds, or replaces, the object at the key of r.
Store(r, intact) ==
  bucket' = {o \in bucket : o.key # objectKey[r]}
            \cup {[key |-> objectKey[r], from |-> r, intact |-> intact]}

\* Mutants of Complete: the callback runs twice, or not after an error.
CompleteTwice(r, outcome) ==
  /\ status' = [status EXCEPT ![r] = outcome]
  /\ mainQueue' = mainQueue \o <<r, r>>
  /\ UNCHANGED <<tries, objectKey>>

CompleteSuccessOnly(r, outcome) ==
  /\ status' = [status EXCEPT ![r] = outcome]
  /\ mainQueue' = IF outcome = "failed" THEN mainQueue ELSE Append(mainQueue, r)
  /\ UNCHANGED <<tries, objectKey>>

\* The task of r completes once: its continuation queues a main queue block.
Complete(r, outcome) ==
  /\ status' = [status EXCEPT ![r] = outcome]
  /\ mainQueue' = Append(mainQueue, r)
  /\ UNCHANGED <<tries, objectKey>>

PutSucceeds(r) ==
  /\ ~crashed
  /\ status[r] = "sending"
  /\ Store(r, TRUE)
  /\ Complete(r, "saved")
  /\ UNCHANGED <<clock, appVars>>

\* The server took a damaged body; the CRC check turns the answer into an error.
PutCorrupted(r) ==
  /\ ~crashed
  /\ status[r] = "sending"
  /\ Store(r, FALSE)
  /\ Complete(r, "failed")
  /\ UNCHANGED <<clock, appVars>>

\* An invalid request or an error status of the server: not tried again.
PutRejected(r) ==
  /\ ~crashed
  /\ status[r] = "sending"
  /\ Complete(r, "failed")
  /\ UNCHANGED <<clock, bucket, appVars>>

\* Mutant of MayRetry: one attempt too many.
MayRetryOnceMore(r) == tries[r] <= MaxRetry

\* shouldRetry: the attempts of r are not used up.
MayRetry(r) == tries[r] < MaxRetry

\* A network error, before or after the body arrived, or a clock that the server
\* finds skewed: tried again, at most MaxRetry times.
PutInterrupted(r) ==
  /\ ~crashed
  /\ status[r] = "sending"
  /\ Store(r, TRUE) \/ UNCHANGED bucket
  /\ IF MayRetry(r)
     THEN /\ tries' = [tries EXCEPT ![r] = @ + 1]
          /\ UNCHANGED <<status, objectKey, mainQueue>>
     ELSE Complete(r, "failed")
  /\ UNCHANGED <<clock, appVars>>

------------------------------------------------------------------------------
(* The main queue: the completion blocks, first in first out.               *)

\* Mutant of PresignError: the batch block reads the error of the PUT.
PresignErrorOfPut(r) == status[r] = "failed"

\* The error a batch block reads.  The block before it overwrote the task of
\* the PUT by that of presignPublicURL, which has a result whatever the PUT did.
PresignError(r) == FALSE

\* Mutant of PutError: the single block reads the task of presignPublicURL too.
PutErrorOfPresign(r) == FALSE

\* The error a single upload's block reads is that of the PUT.
PutError(r) == status[r] = "failed"

\* Mutant of Answer: a call is answered only once.
AnswerOnce(c, block, urls) ==
  answers' = IF answers[c] # <<>> THEN answers
             ELSE [answers EXCEPT ![c] = <<[block |-> block, urls |-> urls]>>]

\* A call of the success or the faile block of call c.
Answer(c, block, urls) ==
  answers' = [answers EXCEPT ![c] = Append(@, [block |-> block, urls |-> urls])]

\* Mutants of FillSlot: the test for place holders is left out, or the URL goes
\* to the first place holder in place of the captured index.
FillAndAnswer(r) ==
  LET slots == [dataSourece EXCEPT ![r[2]] = objectKey[r]] IN
  /\ dataSourece' = slots
  /\ Answer(r[1], "success", slots)
  /\ UNCHANGED crashed

FillFirstPlaceHolder(r) ==
  LET empty == {i \in DOMAIN dataSourece : dataSourece[i] = NotValue}
      first == IF empty = {} THEN r[2]
               ELSE CHOOSE i \in empty : \A j \in empty : i <= j
      slots == [dataSourece EXCEPT ![first] = objectKey[r]] IN
  /\ dataSourece' = slots
  /\ IF NotValue \in Range(slots) THEN UNCHANGED answers
     ELSE Answer(r[1], "success", slots)
  /\ UNCHANGED crashed

\* replaceObjectAtIndex:, then the test for place holders.
FillSlot(r) ==
  LET slots == [dataSourece EXCEPT ![r[2]] = objectKey[r]] IN
  /\ dataSourece' = slots
  /\ IF NotValue \in Range(slots) THEN UNCHANGED answers
     ELSE Answer(r[1], "success", slots)
  /\ UNCHANGED crashed

OutOfRange == crashed' = TRUE /\ UNCHANGED <<dataSourece, answers>>

BatchFailed(r) ==
  /\ dataSourece' = <<>>
  /\ Answer(r[1], "faile", <<>>)
  /\ UNCHANGED crashed

NextBlock(r) ==
  /\ ~crashed
  /\ loop = NoBatch
  /\ mainQueue # <<>>
  /\ r = Head(mainQueue)
  /\ mainQueue' = Tail(mainQueue)
  /\ status' = [status EXCEPT ![r] = "handled"]
  /\ UNCHANGED <<client, clock, loop, tries, objectKey, bucket>>

\* The block of an image of a batch.  It fills the slot of the image in the
\* array as it is now, and reports the array once no place holder is left.
BatchBlock(r) ==
  /\ r \in BatchRequests
  /\ NextBlock(r)
  /\ IF PresignError(r) THEN BatchFailed(r)
     ELSE IF r[2] > Len(dataSourece) THEN OutOfRange
     ELSE FillSlot(r)

\* The block of a single upload; after an error it only writes a log line.
SingleBlock(r) ==
  /\ r \in SingleRequests
  /\ NextBlock(r)
  /\ IF PutError(r) THEN UNCHANGED answers
     ELSE Answer(r[1], "success", <<objectKey[r]>>)
  /\ UNCHANGED <<dataSourece, crashed>>

------------------------------------------------------------------------------

App ==
  \/ Tick
  \/ SetClient
  \/ \E b \in Batches : UpLoadImageWithImageDataArray(b) \/ UploadOneImage(b)
  \/ \E s \in Singles : UpLoadImageWithImageData(s)

Network(r) ==
  PutSucceeds(r) \/ PutCorrupted(r) \/ PutRejected(r) \/ PutInterrupted(r)

MainQueue == \E r \in Requests : BatchBlock(r) \/ SingleBlock(r)

Next == App \/ MainQueue \/ \E r \in Requests : Network(r)

\* A loop runs to its end, the main queue is served and every attempt ends, by
\* an answer or a timeout.  Nobody has to call anything or set the client.
Fairness ==
  /\ WF_vars(\E b \in Batches : UploadOneImage(b))
  /\ WF_vars(MainQueue)
  /\ \A r \in Requests : WF_vars(Network(r))

Spec == Init /\ [][Next]_vars

FairSpec == Spec /\ Fairness

------------------------------------------------------------------------------

Slots == {NotValue} \cup Keys
Answers == [block : {"success", "faile"}, urls : Seq(Keys)]

TypeOK ==
  /\ client \in BOOLEAN
  /\ clock \in Nat
  /\ dataSourece \in Seq(Slots)
  /\ loop \in Batches \cup {NoBatch}
  /\ status \in [Requests -> Statuses]
  /\ tries \in [Requests -> 0 .. MaxRetry]
  /\ objectKey \in [Requests -> Keys]
  /\ bucket \subseteq [key : Keys, from : Requests, intact : BOOLEAN]
  /\ mainQueue \in Seq(Requests)
  /\ answers \in [Calls -> Seq(Answers)]
  /\ crashed \in BOOLEAN

\* A batch whose success block was called got one URL per image, in the order
\* of the images, each of that image of that batch (uploadOneImage writes at
\* the index it captured, into whatever array is there).
AnswerIsOwnImages ==
  \A b \in Batches : \A k \in DOMAIN answers[b] :
    answers[b][k] = [block |-> "success",
                     urls |-> [i \in 1 .. Size[b] |-> objectKey[<<b, i>>]]]

\* replaceObjectAtIndex: is never called beyond the end of the shared array.
NoCrash == ~crashed

\* An image that was saved is never replaced by another image of its own batch,
\* although all keys of a batch are made from a clock that may stand still.
SavedOnce ==
  \A r \in Requests : status[r] = "saved" =>
    \E o \in bucket : o.key = objectKey[r] /\ (o.from[1] = r[1] => o.from = r)

\* The array handed to a success block is the live one: once reported it keeps
\* its URLs until a batch call clears it.
ReportedArrayIsStable ==
  [][\A b \in Batches :
       /\ answers[b] # <<>>
       /\ dataSourece = answers[b][Len(answers[b])].urls
       => dataSourece' \in {dataSourece, <<>>}]_vars

\* Whatever batches overlap, slot i of the shared array only ever holds the URL
\* of an i-th image, of a request whose block ran.
SlotsAligned ==
  \A i \in DOMAIN dataSourece : dataSourece[i] # NotValue =>
    \E b \in Batches :
      /\ i <= Size[b]
      /\ status[<<b, i>>] = "handled"
      /\ dataSourece[i] = objectKey[<<b, i>>]

\* When no request is open, the content of the shared array is what was last
\* reported to the batch of some block: the newest batch is not left hanging by
\* the blocks of older ones (if every batch had a client to send to).
QuietIsReported ==
  (/\ loop = NoBatch
   /\ dataSourece # <<>>
   /\ \A r \in BatchRequests : status[r] \in {"idle", "handled"})
  => \E b \in Batches :
       /\ answers[b] # <<>>
       /\ answers[b][Len(answers[b])].urls = dataSourece

\* A single upload reports success only for an object that is in the store, and
\* undamaged unless another upload drew the same random key.
SingleSuccessIsStored ==
  \A s \in Singles : answers[s] # <<>> =>
    \E o \in bucket : /\ o.key = objectKey[<<s, 1>>]
                      /\ o.from = <<s, 1>> => o.intact

\* The success block runs "after the upload succeeded" (AliyunOSSTool.h): every
\* image of a batch that was told so is in the store.  Not so: a batch block
\* reads the task of presignPublicURL in place of that of the PUT.
SuccessMeansStored ==
  \A b \in Batches : answers[b] # <<>> =>
    \A i \in 1 .. Size[b] : \E o \in bucket : o.key = objectKey[<<b, i>>]

\* Batches keep the promise of BatchPromise: an image is finished when its main
\* queue block ran, and the block that finishes the last one answers the batch.
Promise == INSTANCE BatchPromise WITH
  finished <- [b \in Batches |-> {i \in 1 .. Size[b] : status[<<b, i>>] = "handled"}],
  answered <- [b \in Batches |-> Len(answers[b])]

PromiseKept == Promise!PromiseSpec

\* A batch that reached the network is answered, whatever its PUTs meet.
BatchAnswered ==
  \A b \in Batches :
    (Size[b] > 0 /\ status[<<b, 1>>] = "sending") ~> answers[b] # <<>>

------------------------------------------------------------------------------
(* The inductive invariant behind NoCrash, AnswerIsOwnImages, PromiseKept.  *)

\* The main queue holds each finished request once.
QueueInv ==
  \A j, k \in DOMAIN mainQueue :
    /\ status[mainQueue[k]] \in {"saved", "failed"}
    /\ mainQueue[j] = mainQueue[k] => j = k

\* Inside a loop the array holds the place holders appended so far, and their
\* requests, and only those, went to the client the loop found.
LoopInv ==
  loop # NoBatch =>
    /\ Len(dataSourece) < Size[loop]
    /\ \A i \in 1 .. Len(dataSourece) :
         /\ dataSourece[i] = NotValue
         /\ IF client THEN Open(<<loop, i>>) ELSE status[<<loop, i>>] = "dropped"
    /\ \A i \in Len(dataSourece) + 1 .. Size[loop] : status[<<loop, i>>] = "idle"

\* Outside its loop a batch is idle, dropped or in flight as a whole.
UniformInv ==
  \A b \in Batches : b # loop =>
    \A i, j \in 1 .. Size[b] :
      status[<<b, i>>] \in {"idle", "dropped"} => status[<<b, j>>] = status[<<b, i>>]

\* Without overlap the array belongs to the batch with open requests: it is as
\* long as that batch, with a place holder exactly for the open ones.
OwnArrayInv ==
  ~Overlapping =>
    \A b \in Batches : \A i \in 1 .. Size[b] : Open(<<b, i>>) =>
      /\ IF loop = NoBatch THEN Len(dataSourece) = Size[b] ELSE loop = b
      /\ \A d \in Batches : \A j \in 1 .. Size[d] : Open(<<d, j>>) => d = b
      /\ \A j \in 1 .. Len(dataSourece) :
           \/ Open(<<b, j>>) /\ dataSourece[j] = NotValue
           \/ /\ status[<<b, j>>] = "handled"
              /\ dataSourece[j] = objectKey[<<b, j>>]

\* Without overlap only a batch that is finished was answered.
AnsweredInv ==
  ~Overlapping =>
    \A b \in Batches : answers[b] # <<>> =>
      \A i \in 1 .. Size[b] : status[<<b, i>>] = "handled"

\* The keys of a batch increase with the position of the image: the clock never
\* goes back, and each image adds KeyStep to it.
KeyInv ==
  \A b \in Batches : \A j \in 1 .. Size[b] : status[<<b, j>>] # "idle" =>
    /\ objectKey[<<b, j>>][2] <= clock + KeyStep * (j - 1)
    /\ \A i \in 1 .. j - 1 : objectKey[<<b, i>>][2] < objectKey[<<b, j>>][2]

BatchInv == QueueInv /\ LoopInv /\ UniformInv /\ OwnArrayInv /\ AnsweredInv

==============================================================================
